---------------------------- MODULE NodeRecovery ----------------------------
(* A single node that crashes and boots again (engine/obs1/recover.go,      *)
(* obs1srv/drivers/boot.go): the write path of one incarnation after        *)
(* another over the same bucket.  A crash loses everything but the bucket;  *)
(* requests that were out may still reach the store later.  Boot follows    *)
(* the chain, replays the sections it commits, probes for the open WAL seq  *)
(* and starts a write path that continues where the replay ended.  Nothing  *)
(* has been folded to segments or trimmed yet.                              *)
EXTENDS WritePath, SequencesExt

CONSTANTS MaxInc,    \* bound: incarnations
          Outcomes   \* what a crash may leave: "hole", "lateWAL", "lateCommit"

(* BootDurability refuses a database another node holds groups of.          *)
ASSUME RecoveryAssumption ==
  /\ MaxInc \in Nat /\ Rivals = {}
  /\ Outcomes \subseteq {"hole", "lateWAL", "lateCommit"}

VARIABLES
  life,        \* "up", "down", "replayed" or "broken"
  data,        \* data[g][s]: whose frame s the last boot replayed
  lateWAL,     \* WAL PUTs of dead processes that may still land
  lateCommit,  \* chain PUTs of dead processes that may still land
  calm         \* history: no crash left a hole and no late PUT landed

recVars == <<life, data, lateWAL, lateCommit, calm>>

allVars == <<vars, recVars>>

RecTypeOK ==
  /\ TypeOK
  /\ life \in {"up", "down", "replayed", "broken"}
  /\ data \in [Group -> Seq(Seqs)]
  /\ lateWAL \subseteq WALObject
  /\ lateCommit \subseteq [pos : Seqs, entry : Entry]
  /\ calm \in BOOLEAN

RecInit ==
  /\ Init
  /\ life = "up"
  /\ data = [g \in Group |-> <<>>]
  /\ lateWAL = {}
  /\ lateCommit = {}
  /\ calm = TRUE

----------------------------------------------------------------------------
(* The chain PUT that may be out: Append sends it at the seq after the      *)
(* tail.                                                                    *)
Sent ==
  IF cm.phase = "append"
    THEN {[pos   |-> tail + 1,
           entry |-> [inc |-> inc, grants |-> {}, commits |-> cm.batch,
                      taken |-> {}]]}
    ELSE {}

NoHole == \A w \in DOMAIN wal : 1..w \subseteq DOMAIN wal

(* The process dies.  A PUT that was out is lost or lands later.            *)
Crash ==
  /\ life = "up" /\ inc < MaxInc
  /\ "hole" \in Outcomes \/ NoHole
  /\ life' = "down"
  /\ calm' = (calm /\ NoHole)
  /\ lateWAL' \in {lateWAL \cup L : L \in
                     SUBSET {o \in flight : "lateWAL" \in Outcomes}}
  /\ lateCommit' \in {lateCommit \cup L : L \in
                        SUBSET {r \in Sent : "lateCommit" \in Outcomes}}
  /\ inc' = inc + 1
  /\ next' = [g \in Group |-> 1]
  /\ owner' = [g \in Group |-> "idle"]
  /\ lastEver' = [g \in Group |-> 0]
  /\ buf' = [g \in Group |-> <<>>]
  /\ fl' = NewFlusher(1)
  /\ flight' = {} /\ putDone' = {} /\ completed' = {}
  /\ deliverC' = <<>> /\ handed' = {}
  /\ cm' = NewCommitter
  /\ tail' = 0
  /\ marks' = [g \in Group |-> 0]
  /\ waiting' = {}
  /\ aof' = NoAof
  /\ closing' = "open"
  /\ UNCHANGED <<acked, wal, chain, faults, data>>

LateWALLands(o) ==
  /\ o \in lateWAL
  /\ lateWAL' = lateWAL \ {o}
  /\ wal' = IF o.walSeq \in DOMAIN wal THEN wal
            ELSE [w \in DOMAIN wal \cup {o.walSeq} |->
                    IF w = o.walSeq THEN o ELSE wal[w]]
  /\ calm' = (calm /\ wal' = wal)
  /\ UNCHANGED <<procVars, chain, faults, life, data, lateCommit>>

LateCommitLands(r) ==
  /\ r \in lateCommit
  /\ lateCommit' = lateCommit \ {r}
  /\ chain' = IF r.pos = Len(chain) + 1 THEN Append(chain, r.entry) ELSE chain
  /\ calm' = (calm /\ chain' = chain)
  /\ UNCHANGED <<procVars, wal, faults, life, data, lateWAL>>

----------------------------------------------------------------------------
(* Recovery.section: skip what is applied, refuse a gap, and take the       *)
(* frames the WAL object holds; a section that is not where the commit      *)
(* record says, or not of its length, does not parse.                       *)
ReplaySection(acc, o, g) ==
  LET sec == o.secs[g]
      cur == Len(acc.data[g])
      new == IF sec = <<>> THEN 0 ELSE sec[Len(sec)] - cur
  IN  IF ~acc.ok \/ new <= 0 THEN acc
      ELSE IF sec[1] > cur + 1 \/ wal[o.walSeq].secs # o.secs
        THEN [acc EXCEPT !.ok = FALSE]
        ELSE [acc EXCEPT !.data[g] =
                @ \o [j \in 1..new |-> wal[o.walSeq].inc]]

(* A variant: only the sections of the incarnation before this boot are     *)
(* live.                                                                    *)
ReplayLastIncarnation(t) ==
  FoldLeft(LAMBDA acc, k :
             FoldLeft(LAMBDA a, o :
                        FoldSet(LAMBDA g, b : ReplaySection(b, o, g), a,
                                {g \in Group : Live(k, g) /\ chain[k].inc + 1 = inc}),
                      acc, chain[k].commits),
           [data |-> [g \in Group |-> <<>>], ok |-> TRUE],
           [k \in 1..t |-> k])

(* The replay of the first t chain objects, one commit record after the     *)
(* other, live sections only.                                               *)
Replay(t) ==
  FoldLeft(LAMBDA acc, k :
             FoldLeft(LAMBDA a, o :
                        FoldSet(LAMBDA g, b : ReplaySection(b, o, g), a,
                                {g \in Group : Live(k, g)}),
                      acc, chain[k].commits),
           [data |-> [g \in Group |-> <<>>], ok |-> TRUE],
           [k \in 1..t |-> k])

(* A variant: the write path continues on the last applied seq.             *)
BootReplayReuses ==
  LET r == Replay(Len(chain)) IN
  /\ life = "down"
  /\ life' = IF r.ok THEN "replayed" ELSE "broken"
  /\ tail' = Len(chain)
  /\ data' = r.data
  /\ next' = [g \in Group |-> Max({1, Len(r.data[g])})]
  /\ UNCHANGED <<inc, owner, lastEver, buf, fl, flight, putDone, completed,
                 deliverC, handed, cm, ackVars, closing, storeVars, faults,
                 lateWAL, lateCommit, calm>>

(* A variant: the write path leaves one seq out.                            *)
BootReplaySkips ==
  LET r == Replay(Len(chain)) IN
  /\ life = "down"
  /\ life' = IF r.ok THEN "replayed" ELSE "broken"
  /\ tail' = Len(chain)
  /\ data' = r.data
  /\ next' = [g \in Group |-> Len(r.data[g]) + 2]
  /\ UNCHANGED <<inc, owner, lastEver, buf, fl, flight, putDone, completed,
                 deliverC, handed, cm, ackVars, closing, storeVars, faults,
                 lateWAL, lateCommit, calm>>

(* Follow to the tail, then replay; a replay error fails this boot and      *)
(* every boot after it.                                                     *)
BootReplay ==
  LET r == Replay(Len(chain)) IN
  /\ life = "down"
  /\ life' = IF r.ok THEN "replayed" ELSE "broken"
  /\ tail' = Len(chain)
  /\ data' = r.data
  /\ next' = [g \in Group |-> Len(r.data[g]) + 1]
  /\ UNCHANGED <<inc, owner, lastEver, buf, fl, flight, putDone, completed,
                 deliverC, handed, cm, ackVars, closing, storeVars, faults,
                 lateWAL, lateCommit, calm>>

(* The open-sequence probe: from the last WAL seq a commit with a live      *)
(* section names forward to the first free one.                             *)
Judged(p) ==
  p[1] <= tail /\ \E g \in Group : Live(p[1], g) /\ Section(p[1], p[2], g) # <<>>

MaxOurs ==
  Max({0} \cup {chain[p[1]].commits[p[2]].walSeq : p \in {q \in Places : Judged(q)}})

(* A variant: no probe past the last committed object.                      *)
NextWALSeqUnprobed == MaxOurs + 1

(* A variant: the probe starts on the last committed object.                *)
NextWALSeqReused == MaxOurs

NextWALSeq == Min({w \in (MaxOurs + 1)..(Max({0} \cup DOMAIN wal) + MaxOurs + 1) :
                     w \notin DOMAIN wal})

BootProbe ==
  /\ life = "replayed"
  /\ life' = "up"
  /\ fl' = NewFlusher(NextWALSeq)
  /\ UNCHANGED <<ownerVars, buf, flight, putDone, completed, deliverC, handed,
                 cm, tail, ackVars, closing, storeVars, faults, data, lateWAL,
                 lateCommit, calm>>

----------------------------------------------------------------------------
(* An orderly close leaves the bucket as a crash of an idle process does;   *)
(* WritePath models it.                                                     *)
RecNext ==
  \/ life = "up" /\ Next /\ closing' = "open" /\ UNCHANGED recVars
  \/ Crash \/ BootReplay \/ BootProbe
  \/ \E o \in lateWAL : LateWALLands(o)
  \/ \E r \in lateCommit : LateCommitLands(r)

RecSpec == RecInit /\ [][RecNext]_allVars

----------------------------------------------------------------------------
(* A strict ack is a promise for good: every boot after it replays that     *)
(* frame, written by the incarnation that acked it, as long as the crashes  *)
(* left no hole and nothing landed late.                                    *)
AckedSurvive ==
  calm /\ life \in {"up", "replayed"} =>
    \A a \in acked : a[3] < inc =>
      a[2] \in DOMAIN data[a[1]] /\ data[a[1]][a[2]] = a[3]

(* No such crash leaves a bucket that Recover refuses: it finds no gap in   *)
(* the committed stream and no section that does not parse.                 *)
BootSucceeds == calm => life # "broken"

(* What a boot recovered, every later boot recovers again, whatever was out *)
(* when the processes died.                                                 *)
RecoveryGrows ==
  [][\A g \in Group : IsPrefix(data[g], data'[g])]_allVars

(* Every commit names an object of the bucket, so that no section GET of a  *)
(* boot meets a 404, whatever was out when the processes died.              *)
CommitsFound ==
  \A p \in Places : chain[p[1]].commits[p[2]].walSeq \in DOMAIN wal

(* The flusher never takes an older object for its own: the object under    *)
(* a key it reports as flushed is the one it built (the comment on          *)
(* Recovery.NextWALSeq).                                                    *)
NoAdoption ==
  life = "up" => \A r \in putDone :
    r.ok /\ r.obj.walSeq \in DOMAIN wal => wal[r.obj.walSeq] = r.obj

(* The part of it that the open-sequence probe does achieve: an orphan of   *)
(* the dead process is stepped over.                                        *)
OrphansSkipped == calm => NoAdoption

(* NotifyCommitted fires for the frame it was asked about: the covering     *)
(* commit carries the frame of this incarnation.                            *)
AckedCommitted ==
  \A a \in acked : \E p \in Places :
    /\ a[2] \in Frames(Section(p[1], p[2], a[1]))
    /\ chain[p[1]].inc = a[3]
============================================================================

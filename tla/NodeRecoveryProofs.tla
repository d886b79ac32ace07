------------------------- MODULE NodeRecoveryProofs -------------------------
(* Every commit names an object of the bucket, for any number of groups,    *)
(* frames, PUTs out and incarnations, and whatever was out when a process   *)
(* died: CommitsFound, by an invariant that follows an object from its PUT  *)
(* to the chain.                                                            *)
EXTENDS NodeRecovery, TLAPS

IsSeq(s) == \E S : s \in Seq(S)

(* The bucket holds an object under the key of o.                           *)
Stored(o) == o.walSeq \in DOMAIN wal

AllStored(s) == \A i \in DOMAIN s : Stored(s[i])

ChainStored ==
  IsSeq(chain) /\ \A k \in DOMAIN chain : AllStored(chain[k].commits)

(* A WAL object leaves putWAL without an error only once its key is taken,  *)
(* and keys are never freed: so it is with all that finishPut booked, all   *)
(* on its way to the committer, the batch in hand, chain PUTs still out,    *)
(* and the chain.                                                           *)
FoundInv ==
  /\ \A r \in putDone : r.ok => Stored(r.obj)
  /\ \A o \in completed \cup handed : Stored(o)
  /\ IsSeq(deliverC) /\ AllStored(deliverC)
  /\ DOMAIN cm = {"queue", "phase", "batch", "failed"}
  /\ IsSeq(cm.queue) /\ AllStored(cm.queue) /\ AllStored(cm.batch)
  /\ \A r \in lateCommit : AllStored(r.entry.commits)
  /\ ChainStored

pipeVars == <<putDone, completed, handed, deliverC, cm, lateCommit, chain>>

----------------------------------------------------------------------------
(* Append adds one place and keeps the others.                              *)
LEMMA AppendFacts ==
  ASSUME NEW s, IsSeq(s), NEW e
  PROVE  /\ IsSeq(Append(s, e))
         /\ \A i \in DOMAIN Append(s, e) :
              (i \in DOMAIN s /\ Append(s, e)[i] = s[i]) \/ Append(s, e)[i] = e
<1>1. PICK S : s \in Seq(S)
  BY DEF IsSeq
<1>2. s \in Seq(S \cup {e})
  BY <1>1
<1>3. Append(s, e) \in Seq(S \cup {e})
  BY <1>2
<1>4. \A i \in 1..Len(s) + 1 :
        (i \in 1..Len(s) /\ Append(s, e)[i] = s[i]) \/ Append(s, e)[i] = e
  BY <1>2
<1>5. DOMAIN Append(s, e) = 1..Len(s) + 1 /\ DOMAIN s = 1..Len(s)
  BY <1>2
<1> QED
  BY <1>3, <1>4, <1>5 DEF IsSeq

(* Tail drops the first place.                                              *)
LEMMA TailFacts ==
  ASSUME NEW s, IsSeq(s), s # <<>>
  PROVE  /\ IsSeq(Tail(s))
         /\ \A i \in DOMAIN Tail(s) : i + 1 \in DOMAIN s /\ Tail(s)[i] = s[i + 1]
         /\ 1 \in DOMAIN s /\ Head(s) = s[1]
<1>1. PICK S : s \in Seq(S)
  BY DEF IsSeq
<1>2. Tail(s) \in Seq(S)
  BY <1>1
<1> QED
  BY <1>1, <1>2 DEF IsSeq

(* The empty sequence.                                                      *)
LEMMA EmptyFacts == IsSeq(<<>>) /\ AllStored(<<>>)
<1>1. <<>> \in Seq({}) /\ DOMAIN <<>> = {}
  OBVIOUS
<1> QED
  BY <1>1 DEF IsSeq, AllStored

----------------------------------------------------------------------------
(* A step that moves no object along the pipeline and frees no key.         *)
LEMMA FoundUntouched ==
  ASSUME FoundInv, UNCHANGED pipeVars, DOMAIN wal \subseteq DOMAIN wal'
  PROVE  FoundInv'
  BY DEF FoundInv, ChainStored, pipeVars, AllStored, Stored

(* The new process has an empty pipeline.                                   *)
LEMMA FoundInit == RecInit => FoundInv
<1> SUFFICES ASSUME RecInit PROVE FoundInv
  OBVIOUS
<1>1. /\ putDone = {} /\ completed = {} /\ handed = {} /\ deliverC = <<>>
      /\ chain = <<>> /\ lateCommit = {}
      /\ cm = [queue |-> <<>>, phase |-> "idle", batch |-> <<>>, failed |-> FALSE]
  BY DEF RecInit, Init, NewCommitter
<1>2. DOMAIN chain = {}
  BY <1>1
<1> QED
  BY <1>1, <1>2, EmptyFacts DEF FoundInv, ChainStored

(* The shard owners, the clock, the loop of the flusher, the verdicts and   *)
(* Close move no object.                                                    *)
LEMMA FoundIdle ==
  ASSUME FoundInv, UNCHANGED lateCommit,
         \/ \E g \in Group : Owner(g) \/ PassGate(g)
         \/ Age \/ Top \/ Woken \/ ApplyRival \/ Closing \/ WaitAof \/ Close
  PROVE  FoundInv'
<1>1. UNCHANGED <<putDone, completed, handed, deliverC, cm, chain, wal>>
  <2>1. CASE \E g \in Group : Owner(g) \/ PassGate(g)
    BY <2>1 DEF Owner, PassGate, EmitRefused, StrictHold, AofRegister, Emit,
                storeVars
  <2>2. CASE Age \/ Top \/ Woken
    BY <2>2 DEF Age, Top, Woken, storeVars
  <2>3. CASE ApplyRival \/ Closing \/ WaitAof \/ Close
    BY <2>3 DEF ApplyRival, Closing, FlusherClosed, CommitterClosed, WaitAof,
                Close, storeVars
  <2> QED
    BY <2>1, <2>2, <2>3
<1> QED
  BY <1>1, FoundUntouched DEF pipeVars

(* A PUT takes a key, and putWAL returns without an error only when the key *)
(* is taken.                                                                *)
LEMMA FoundPut ==
  ASSUME FoundInv, UNCHANGED lateCommit, NEW o \in flight, Put(o)
  PROVE  FoundInv'
<1>1. CASE PutLands(o)
  <2>1. DOMAIN wal \subseteq DOMAIN wal'
    BY <1>1 DEF PutLands
  <2> QED
    BY <1>1, <2>1, FoundUntouched DEF PutLands, pipeVars, procVars
<1>2. ASSUME NEW b \in BOOLEAN, b => Stored(o),
             putDone' = putDone \cup {[obj |-> o, ok |-> b]},
             UNCHANGED <<completed, handed, deliverC, cm, chain, wal>>
      PROVE  FoundInv'
  <2>1. \A r \in putDone' : r.ok => Stored(r.obj)
    BY <1>2 DEF FoundInv
  <2> QED
    BY <1>2, <2>1 DEF FoundInv, ChainStored, AllStored, Stored
<1>3. CASE PutReturns(o)
  BY <1>3, <1>2 DEF PutReturns, Stored, storeVars
<1>4. CASE PutCancelled(o)
  BY <1>4, <1>2 DEF PutCancelled, storeVars
<1> QED
  BY <1>1, <1>3, <1>4 DEF Put

(* finishPut books an object only if its PUT returned without an error, and *)
(* hands over only what it booked.                                          *)
LEMMA FoundFlush ==
  ASSUME FoundInv, UNCHANGED lateCommit,
         Deliver \/ (\E r \in putDone : FinishPut(r))
  PROVE  FoundInv'
<1>1. ASSUME NEW r \in putDone, FinishPut(r) PROVE FoundInv'
  <2>1. /\ UNCHANGED <<handed, deliverC, cm, chain, wal>>
        /\ putDone' = putDone \ {r}
        /\ completed' = completed \/ (r.ok /\ completed' = completed \cup {r.obj})
    BY <1>1 DEF FinishPut, storeVars
  <2>2. \A o \in completed' : Stored(o)
    BY <2>1 DEF FoundInv
  <2> QED
    BY <2>1, <2>2 DEF FoundInv, ChainStored, AllStored, Stored
<1>2. ASSUME NEW o \in completed, deliverC' = Append(deliverC, o),
             completed' = completed \ {o},
             UNCHANGED <<putDone, handed, cm, chain, wal>>
      PROVE  FoundInv'
  <2>1. IsSeq(deliverC') /\ \A i \in DOMAIN deliverC' : Stored(deliverC'[i])
    BY <1>2, AppendFacts DEF FoundInv, AllStored
  <2> QED
    BY <1>2, <2>1 DEF FoundInv, ChainStored, AllStored, Stored
<1>3. CASE Deliver
  <2>1. CASE UNCHANGED <<deliverC, completed>>
    BY <1>3, <2>1, FoundUntouched DEF Deliver, pipeVars, storeVars
  <2> QED
    BY <1>3, <2>1, <1>2 DEF Deliver, storeVars
<1> QED
  BY <1>1, <1>3

(* deliverLoop passes the head of its channel on, and WALFlushed queues it. *)
LEMMA FoundSink ==
  ASSUME FoundInv, UNCHANGED lateCommit, Sink
  PROVE  FoundInv'
<1>1. CASE DeliverLoop
  <2>1. /\ UNCHANGED <<putDone, completed, cm, chain, wal>>
        /\ deliverC # <<>> /\ deliverC' = Tail(deliverC)
        /\ handed' = handed \/ handed' = {Head(deliverC)}
    BY <1>1 DEF DeliverLoop, storeVars
  <2>2. /\ IsSeq(Tail(deliverC)) /\ Stored(Head(deliverC))
        /\ \A i \in DOMAIN Tail(deliverC) : Stored(Tail(deliverC)[i])
    BY <2>1, TailFacts DEF FoundInv, AllStored
  <2> QED
    BY <2>1, <2>2 DEF FoundInv, ChainStored, AllStored, Stored
<1>2. ASSUME NEW o \in handed, Queue(o) PROVE FoundInv'
  <2>1. /\ UNCHANGED <<putDone, completed, deliverC, chain, wal>>
        /\ handed' = {}
        /\ cm' = [cm EXCEPT !.queue = Append(@, o)]
    BY <1>2 DEF Queue, storeVars
  <2>2. /\ DOMAIN cm' = DOMAIN cm /\ cm'.batch = cm.batch
        /\ cm'.queue = Append(cm.queue, o)
    BY <2>1 DEF FoundInv
  <2>3. IsSeq(cm'.queue) /\ \A i \in DOMAIN cm'.queue : Stored(cm'.queue[i])
    BY <2>2, AppendFacts DEF FoundInv, AllStored
  <2> QED
    BY <2>1, <2>2, <2>3 DEF FoundInv, ChainStored, AllStored, Stored
<1> QED
  BY <1>1, <1>2 DEF Sink

(* The chain grows by an object whose commits are all stored.               *)
LEMMA FoundChain ==
  ASSUME ChainStored, NEW e, AllStored(e.commits), chain' = Append(chain, e),
         UNCHANGED wal
  PROVE  ChainStored'
<1>1. IsSeq(chain') /\ \A k \in DOMAIN chain' : AllStored(chain'[k].commits)
  BY AppendFacts DEF ChainStored
<1> QED
  BY <1>1 DEF ChainStored, AllStored, Stored

(* The committer batches what is queued and appends what it batched; a      *)
(* rival appends no commits of this node.                                   *)
LEMMA FoundCommit ==
  ASSUME FoundInv, UNCHANGED lateCommit,
         \/ TakeBatch \/ CommitLands \/ ApplyOwn \/ AppendFails
         \/ \E g \in Group : \/ RivalGrant(g)
                            \/ \E s \in 1..MaxFrames : RivalCommit(g, s)
  PROVE  FoundInv'
<1>1. ASSUME IsSeq(cm'.queue), AllStored(cm'.queue), AllStored(cm'.batch),
             DOMAIN cm' = DOMAIN cm, UNCHANGED wal,
             ChainStored',
             UNCHANGED <<putDone, completed, handed, deliverC>>
      PROVE  FoundInv'
  BY <1>1 DEF FoundInv, ChainStored, AllStored, Stored
<1>2. ASSUME UNCHANGED <<wal, chain>>
      PROVE  ChainStored'
  BY <1>2 DEF FoundInv, ChainStored, AllStored, Stored
<1>3. CASE TakeBatch
  <2>1. /\ DOMAIN cm' = DOMAIN cm /\ cm'.queue = <<>>
        /\ cm'.batch = cm.batch \/ cm'.batch = cm.queue
    BY <1>3 DEF TakeBatch, FoundInv
  <2> QED
    BY <1>3, <2>1, <1>1, <1>2, EmptyFacts DEF TakeBatch, storeVars, FoundInv
<1>4. CASE CommitLands
  <2>1. DOMAIN cm' = DOMAIN cm /\ cm'.queue = cm.queue /\ cm'.batch = cm.batch
    BY <1>4 DEF CommitLands, FoundInv
  <2>2. ChainStored'
    BY <1>4, FoundChain DEF CommitLands, FoundInv
  <2> QED
    BY <1>4, <2>1, <2>2, <1>1 DEF CommitLands, FoundInv
<1>5. CASE ApplyOwn \/ AppendFails
  <2>1. DOMAIN cm' = DOMAIN cm /\ cm'.queue = cm.queue /\ cm'.batch = <<>>
    BY <1>5 DEF ApplyOwn, AppendFails, FoundInv
  <2>2. UNCHANGED <<putDone, completed, handed, deliverC, chain, wal>>
    BY <1>5 DEF ApplyOwn, AppendFails, storeVars
  <2> QED
    BY <2>1, <2>2, <1>1, <1>2, EmptyFacts DEF FoundInv
<1>6. ASSUME NEW g \in Group, RivalGrant(g) PROVE FoundInv'
  <2>1. UNCHANGED <<putDone, completed, handed, deliverC, cm, wal>>
    BY <1>6 DEF RivalGrant, procVars
  <2>2. ChainStored'
    BY <1>6, <2>1, FoundChain, EmptyFacts DEF RivalGrant, FoundInv
  <2> QED
    BY <2>1, <2>2, <1>1 DEF FoundInv
<1>7. ASSUME NEW g \in Group, NEW s \in 1..MaxFrames, RivalCommit(g, s) PROVE FoundInv'
  <2>1. UNCHANGED <<putDone, completed, handed, deliverC, cm, wal>>
    BY <1>7 DEF RivalCommit, procVars
  <2>2. ChainStored'
    BY <1>7, <2>1, FoundChain, EmptyFacts DEF RivalCommit, FoundInv
  <2> QED
    BY <2>1, <2>2, <1>1 DEF FoundInv
<1> QED
  BY <1>3, <1>4, <1>5, <1>6, <1>7

(* A crash forgets the pipeline and frees no key; a chain PUT still out     *)
(* carries a batch that was in hand.                                        *)
LEMMA FoundCrash ==
  ASSUME FoundInv, Crash
  PROVE  FoundInv'
<1>1. /\ putDone' = {} /\ completed' = {} /\ handed' = {} /\ deliverC' = <<>>
      /\ cm' = [queue |-> <<>>, phase |-> "idle", batch |-> <<>>, failed |-> FALSE]
      /\ UNCHANGED <<wal, chain>>
  BY DEF Crash, NewCommitter
<1>2. \A r \in Sent : AllStored(r.entry.commits)
  BY DEF Sent, FoundInv
<1>3. lateCommit' \subseteq lateCommit \cup Sent
  BY DEF Crash
<1>4. \A r \in lateCommit' : AllStored(r.entry.commits)
  BY <1>2, <1>3 DEF FoundInv
<1> QED
  BY <1>1, <1>4, EmptyFacts DEF FoundInv, ChainStored, AllStored, Stored

(* What lands after the crash.                                              *)
LEMMA FoundLate ==
  ASSUME FoundInv,
         \/ \E o \in lateWAL : LateWALLands(o)
         \/ \E r \in lateCommit : LateCommitLands(r)
  PROVE  FoundInv'
<1>1. ASSUME NEW o \in lateWAL, LateWALLands(o) PROVE FoundInv'
  <2>1. DOMAIN wal \subseteq DOMAIN wal'
    BY <1>1 DEF LateWALLands
  <2> QED
    BY <1>1, <2>1, FoundUntouched DEF LateWALLands, pipeVars, procVars
<1>2. ASSUME NEW r \in lateCommit, LateCommitLands(r) PROVE FoundInv'
  <2>1. /\ UNCHANGED <<putDone, completed, handed, deliverC, cm, wal>>
        /\ lateCommit' = lateCommit \ {r}
        /\ chain' = chain \/ chain' = Append(chain, r.entry)
    BY <1>2 DEF LateCommitLands, procVars
  <2>2. ChainStored'
    <3>1. CASE chain' = chain
      BY <2>1, <3>1 DEF FoundInv, ChainStored, AllStored, Stored
    <3>2. CASE chain' = Append(chain, r.entry)
      BY <2>1, <3>2, FoundChain DEF FoundInv
    <3> QED
      BY <2>1, <3>1, <3>2
  <2> QED
    BY <2>1, <2>2 DEF FoundInv, ChainStored, AllStored, Stored
<1> QED
  BY <1>1, <1>2

(* Every step of the node, up, down or booting, keeps the invariant.        *)
LEMMA FoundStep == FoundInv /\ [RecNext]_allVars => FoundInv'
<1> SUFFICES ASSUME FoundInv, [RecNext]_allVars PROVE FoundInv'
  OBVIOUS
<1>1. CASE life = "up" /\ Next /\ closing' = "open" /\ UNCHANGED recVars
  <2>1. UNCHANGED lateCommit
    BY <1>1 DEF recVars
  <2> QED
    BY <1>1, <2>1, FoundIdle, FoundPut, FoundFlush, FoundSink, FoundCommit
       DEF Next, Running, Flush, Commit
<1>2. CASE BootReplay \/ BootProbe
  BY <1>2, FoundUntouched DEF BootReplay, BootProbe, pipeVars, storeVars
<1>3. CASE UNCHANGED allVars
  BY <1>3, FoundUntouched DEF allVars, vars, procVars, recVars, pipeVars
<1> QED
  BY <1>1, <1>2, <1>3, FoundCrash, FoundLate DEF RecNext

(* The invariant says it of the chain in particular.                        *)
LEMMA FoundOnChain == FoundInv => CommitsFound
<1> SUFFICES ASSUME FoundInv, NEW p \in Places
             PROVE  chain[p[1]].commits[p[2]].walSeq \in DOMAIN wal
  BY DEF CommitsFound
<1>1. PICK k \in DOMAIN chain : p \in {<<k, i>> : i \in DOMAIN chain[k].commits}
  BY DEF Places
<1>2. PICK i \in DOMAIN chain[k].commits : p = <<k, i>>
  BY <1>1
<1> QED
  BY <1>2 DEF FoundInv, ChainStored, AllStored, Stored

(* No section GET of a boot meets a 404: whatever the constants, and        *)
(* whatever was out when the processes died, every commit of the chain      *)
(* names an object of the bucket (putWAL, finishPut, WALFlushed and         *)
(* ChainAppender.Append together).                                          *)
THEOREM CommittedObjectsFound == RecSpec => []CommitsFound
<1>1. RecInit => FoundInv
  BY FoundInit
<1>2. FoundInv /\ [RecNext]_allVars => FoundInv'
  BY FoundStep
<1>3. FoundInv => CommitsFound
  BY FoundOnChain
<1> QED
  BY <1>1, <1>2, <1>3, PTL DEF RecSpec
=============================================================================

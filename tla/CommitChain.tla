---------------------------- MODULE CommitChain ----------------------------
(* The commit chain: any number of processes append batches to one log kept *)
(* as objects chain/<dd>/<seq> of a bucket, with create-if-absent PUTs and  *)
(* GETs only (engine/obs1/append.go), and each folds what it reads into its *)
(* own lease table (engine/obs1/lease.go).  A PUT may answer, answer 412,   *)
(* lose its answer after landing, or stay in the network and land at any    *)
(* later time, even after its process died.  A process is one incarnation   *)
(* of a node (obs1srv/identity.go persists the counter at every start); the *)
(* next one may start while the one before still runs, because nothing      *)
(* tells a hung process from a dead one.                                    *)
EXTENDS LeaseFold

CONSTANTS Kinds,      \* the control records the processes append
          MaxInc,     \* bound: incarnations per node
          MaxBatch,   \* bound: appends per process
          MaxFaults   \* bound: lost requests, error answers and crashes

ASSUME BoundsAssumption == {MaxInc, MaxBatch, MaxFaults} \subseteq Nat

VARIABLES
  bucket,     \* the chain objects: a function from seqs to batches
  late,       \* PUTs whose client stopped waiting and which may still land
  tail,       \* tail[p]: the last seq the appender of p applied
  fold,       \* fold[p]: its lease table
  nextBatch,  \* nextBatch[p]: its batch id counter
  phase,      \* phase[p]: where the process and its Append stand
  cur,        \* cur[p]: the batch that Append is landing
  contended,  \* contended[p]: this Append lost a seq already
  faults,     \* how many faults have happened
  returned,   \* history: the positions Append has returned
  canon       \* history: canon[s] is the table after objects 1..s

vars == <<bucket, late, tail, fold, nextBatch, phase, cur, contended,
          faults, returned, canon>>

Proc == Node \X (1..MaxInc)

Writer(p) == p[1]

Inc(p) == p[2]

Busy == {"put", "own", "recheck", "get"}

Phases == {"off", "boot", "idle", "dead"} \cup Busy

Seqs == Nat \ {0}

Request == [seq : Seqs, batch : Batch]

TypeOK ==
  /\ DOMAIN bucket \subseteq Seqs
  /\ \A s \in DOMAIN bucket : bucket[s] \in Batch
  /\ late \subseteq Request
  /\ tail \in [Proc -> Nat]
  /\ fold \in [Proc -> Table]
  /\ nextBatch \in [Proc -> Seqs]
  /\ phase \in [Proc -> Phases]
  /\ cur \in [Proc -> Batch \cup {NoBatch}]
  /\ contended \in [Proc -> BOOLEAN]
  /\ faults \in Nat
  /\ returned \subseteq [batch : Batch, pos : Seqs]
  /\ DOMAIN canon = DOMAIN bucket \cup {0}
  /\ \A s \in DOMAIN canon : canon[s] \in Table

Init ==
  /\ bucket = [s \in {} |-> NoBatch]
  /\ late = {}
  /\ tail = [p \in Proc |-> 0]
  /\ fold = [p \in Proc |-> EmptyTable]
  /\ nextBatch = [p \in Proc |-> 1]
  /\ phase = [p \in Proc |-> "off"]
  /\ cur = [p \in Proc |-> NoBatch]
  /\ contended = [p \in Proc |-> FALSE]
  /\ faults = 0
  /\ returned = {}
  /\ canon = [s \in {0} |-> EmptyTable]

----------------------------------------------------------------------------
(* What a process's components hand to Append.  Commit sections carry any   *)
(* epoch up to the current one, since they are buffered long before; a      *)
(* grant names the writer at the next epoch of its own table; a release, an *)
(* epoch it held; member records, its own identity; a checkpoint record,    *)
(* the position its table stands at.                                        *)
Sections(p) ==
  UNION {[group : {g}, epoch : 1..fold[p].groups[g].epoch] : g \in Group}

Grants(p) ==
  {[kind |-> "grant", group |-> g, node |-> Writer(p), epoch |-> NextEpoch(fold[p], g)]
     : g \in {h \in Group : h \notin HeldBy(fold[p], Writer(p))}}

Releases(p) ==
  UNION {[kind : {"release"}, group : {g}, epoch : 1..fold[p].groups[g].epoch] : g \in Group}

Identity(p) == [kind : {"join", "leave"}, node : {Writer(p)}, inc : {Inc(p)}]

Checkpoints(p) == [kind : {"checkpoint"}, pos : {tail[p]} \ {0}]

Controls(p) ==
  {c \in {[kind |-> "heartbeat"]} \cup Grants(p) \cup Releases(p)
           \cup Identity(p) \cup Checkpoints(p) : c.kind \in Kinds}

Records(p) ==
  ({{s} : s \in Sections(p)} \X ({NoControl} \cup {c \in Controls(p) : c.kind = "release"}))
    \cup ({{}} \X Controls(p))

----------------------------------------------------------------------------
Absent(s) == s \notin DOMAIN bucket

(* PutIfAbsent at the store: an absent key is created.                      *)
Create(s, b) ==
  /\ bucket' = [k \in DOMAIN bucket \cup {s} |-> IF k = s THEN b ELSE bucket[k]]
  /\ canon' = [k \in DOMAIN canon \cup {s} |->
                 IF k = s THEN ApplyBatch(canon[s - 1], s, b) ELSE canon[k]]

(* applyFetched: fold the object at the next seq and advance the tail.      *)
ApplyFetched(p, b) ==
  /\ fold' = [fold EXCEPT ![p] = ApplyBatch(@, tail[p] + 1, b)]
  /\ tail' = [tail EXCEPT ![p] = @ + 1]

(* Variants: a batch is recognised by its writer and number alone; or by    *)
(* the number the writer will use next.                                     *)
OursAnyIncarnation(b, want) == want.id # 0 /\ b.writer = want.writer /\ b.id = want.id

OursOffByOne(b, want) ==
  want.id # 0 /\ b.writer = want.writer /\ b.inc = want.inc /\ b.id = want.id + 1

Ours(b, want) ==
  /\ want.id # 0
  /\ b.writer = want.writer
  /\ b.inc = want.inc
  /\ b.id = want.id

GoTo(p, ph) == phase' = [phase EXCEPT ![p] = ph]

Contend(p, c) == contended' = [contended EXCEPT ![p] = c]

(* Append hands its caller a result and forgets the batch.                  *)
Return(p) ==
  /\ GoTo(p, "idle")
  /\ cur' = [cur EXCEPT ![p] = NoBatch]
  /\ Contend(p, FALSE)

Fault == faults < MaxFaults /\ faults' = faults + 1

----------------------------------------------------------------------------
(* A start: the identity file gives the node its next incarnation, the      *)
(* appender and the table begin empty.                                      *)
Start(p) ==
  /\ phase[p] = "off"
  /\ \A q \in Proc : Writer(q) = Writer(p) /\ Inc(q) < Inc(p) => phase[q] # "off"
  /\ GoTo(p, "boot")
  /\ UNCHANGED <<bucket, late, tail, fold, nextBatch, cur, contended, faults, returned, canon>>

(* Follow: one GET of the loop, at boot or later.                           *)
Follow(p) ==
  /\ phase[p] \in {"boot", "idle"}
  /\ ~Absent(tail[p] + 1)
  /\ ApplyFetched(p, bucket[tail[p] + 1])
  /\ UNCHANGED <<bucket, late, nextBatch, phase, cur, contended, faults, returned, canon>>

(* The 404 that ends the Follow of BootChain.                               *)
Booted(p) ==
  /\ phase[p] = "boot"
  /\ Absent(tail[p] + 1)
  /\ GoTo(p, "idle")
  /\ UNCHANGED <<bucket, late, tail, fold, nextBatch, cur, contended, faults, returned, canon>>

(* A variant: the batch id counter stays.                                   *)
AppendReusesId(p) ==
  /\ phase[p] = "idle"
  /\ nextBatch[p] <= MaxBatch
  /\ \E r \in Records(p) :
       cur' = [cur EXCEPT ![p] = [writer |-> Writer(p), inc |-> Inc(p), id |-> nextBatch[p],
                                  secs |-> r[1], ctl |-> r[2]]]
  /\ GoTo(p, "put")
  /\ UNCHANGED <<bucket, late, tail, fold, nextBatch, contended, faults, returned, canon>>

(* Append: number the batch and enter the loop.                             *)
Append(p) ==
  /\ phase[p] = "idle"
  /\ nextBatch[p] <= MaxBatch
  /\ \E r \in Records(p) :
       cur' = [cur EXCEPT ![p] = [writer |-> Writer(p), inc |-> Inc(p), id |-> nextBatch[p],
                                  secs |-> r[1], ctl |-> r[2]]]
  /\ nextBatch' = [nextBatch EXCEPT ![p] = @ + 1]
  /\ GoTo(p, "put")
  /\ UNCHANGED <<bucket, late, tail, fold, contended, faults, returned, canon>>

(* The PUT lands.  Its answer reaches the client, or is lost and the client *)
(* sees an ambiguous error.                                                 *)
PutLands(p) ==
  /\ phase[p] = "put"
  /\ Absent(tail[p] + 1)
  /\ Create(tail[p] + 1, cur[p])
  /\ \/ GoTo(p, "own")
     \/ GoTo(p, "recheck")
  /\ UNCHANGED <<late, nextBatch, tail, fold, cur, contended, faults, returned>>

(* 412: the seq is taken.                                                   *)
PutRefused(p) ==
  /\ phase[p] = "put"
  /\ ~Absent(tail[p] + 1)
  /\ Contend(p, TRUE)
  /\ GoTo(p, "recheck")
  /\ UNCHANGED <<bucket, late, nextBatch, tail, fold, cur, faults, returned, canon>>

(* ErrConflict or ErrAmbiguous, and the request is still out there.         *)
PutUnknown(p) ==
  /\ phase[p] = "put"
  /\ Fault
  /\ late' = late \cup {[seq |-> tail[p] + 1, batch |-> cur[p]]}
  /\ GoTo(p, "recheck")
  /\ UNCHANGED <<bucket, nextBatch, tail, fold, cur, contended, returned, canon>>

(* Any other PUT error, and any GET error but the 404, ends Append.         *)
AppendFails(p) ==
  /\ phase[p] \in {"put", "recheck", "get"}
  /\ Fault
  /\ Return(p)
  /\ UNCHANGED <<bucket, late, nextBatch, tail, fold, returned, canon>>

(* The PUT answered 200: apply our own body and return where it landed.     *)
ApplyOwn(p) ==
  /\ phase[p] = "own"
  /\ ApplyFetched(p, cur[p])
  /\ returned' = returned \cup {[batch |-> cur[p], pos |-> tail[p] + 1]}
  /\ Return(p)
  /\ UNCHANGED <<bucket, late, nextBatch, faults, canon>>

(* The GET found an object: apply it, then return if it is our batch or     *)
(* race for the next seq if it is not.                                      *)
ApplyFound(p) ==
  /\ ~Absent(tail[p] + 1)
  /\ ApplyFetched(p, bucket[tail[p] + 1])
  /\ \/ /\ Ours(bucket[tail[p] + 1], cur[p])
        /\ returned' = returned \cup {[batch |-> cur[p], pos |-> tail[p] + 1]}
        /\ Return(p)
     \/ /\ ~Ours(bucket[tail[p] + 1], cur[p])
        /\ Contend(p, TRUE)
        /\ GoTo(p, "get")
        /\ UNCHANGED <<cur, returned>>
  /\ UNCHANGED <<bucket, late, nextBatch, faults, canon>>

(* The re-check after a 412, a conflict or an ambiguous answer.             *)
Recheck(p) == phase[p] = "recheck" /\ ApplyFound(p)

(* A variant: the 404 of the seq is taken as an object already seen there.  *)
RecheckAbsentSkips(p) ==
  /\ phase[p] = "recheck"
  /\ Absent(tail[p] + 1)
  /\ tail' = [tail EXCEPT ![p] = @ + 1]
  /\ GoTo(p, "put")
  /\ UNCHANGED <<bucket, late, nextBatch, fold, cur, contended, faults, returned, canon>>

RecheckAbsent(p) ==
  /\ phase[p] = "recheck"
  /\ Absent(tail[p] + 1)
  /\ GoTo(p, IF contended[p] THEN "get" ELSE "put")
  /\ UNCHANGED <<bucket, late, nextBatch, tail, fold, cur, contended, faults, returned, canon>>

(* Once contended, every attempt GETs the seq before it PUTs.               *)
GetFirst(p) == phase[p] = "get" /\ ApplyFound(p)

(* A variant: the 404 leads back to the re-check, not to the PUT.           *)
GetFirstAbsentRechecks(p) ==
  /\ phase[p] = "get"
  /\ Absent(tail[p] + 1)
  /\ GoTo(p, "recheck")
  /\ UNCHANGED <<bucket, late, nextBatch, tail, fold, cur, contended, faults, returned, canon>>

GetFirstAbsent(p) ==
  /\ phase[p] = "get"
  /\ Absent(tail[p] + 1)
  /\ GoTo(p, "put")
  /\ UNCHANGED <<bucket, late, nextBatch, tail, fold, cur, contended, faults, returned, canon>>

(* The store gets to a request nobody waits for.                            *)
LatePut(r) ==
  /\ late' = late \ {r}
  /\ \/ Absent(r.seq) /\ Create(r.seq, r.batch)
     \/ ~Absent(r.seq) /\ UNCHANGED <<bucket, canon>>
  /\ UNCHANGED <<nextBatch, tail, fold, phase, cur, contended, faults, returned>>

Crash(p) ==
  /\ phase[p] \notin {"off", "dead"}
  /\ Fault
  /\ GoTo(p, "dead")
  /\ cur' = [cur EXCEPT ![p] = NoBatch]
  /\ Contend(p, FALSE)
  /\ UNCHANGED <<bucket, late, tail, fold, nextBatch, returned, canon>>

Step(p) ==
  \/ PutLands(p) \/ PutRefused(p)
  \/ ApplyOwn(p)
  \/ Recheck(p) \/ RecheckAbsent(p)
  \/ GetFirst(p) \/ GetFirstAbsent(p)

Next ==
  \/ \E p \in Proc : \/ Start(p) \/ Follow(p) \/ Booted(p) \/ Append(p) \/ Step(p)
                     \/ PutUnknown(p) \/ AppendFails(p) \/ Crash(p)
  \/ \E r \in late : LatePut(r)

Spec == Init /\ [][Next]_vars

(* A process that runs keeps taking the steps of its Append loop, which     *)
(* never sleeps; nothing obliges anyone to start an Append or to fail.      *)
FairSpec == Spec /\ \A p \in Proc : WF_vars(Step(p))

----------------------------------------------------------------------------
(* Properties                                                               *)

(* The bucket holds a dense log, and any two nodes that folded up to the    *)
(* same seq have the same table: every fold is the fold of objects 1..tail, *)
(* whichever mix of own PUTs, re-checks and Follow steps brought it there   *)
(* (append.go Append and Follow, lease.go ApplyChain's dense order).        *)
FoldsAgree ==
  /\ \A s \in DOMAIN bucket : 1..s \subseteq DOMAIN bucket
  /\ \A p \in Proc : /\ tail[p] \in DOMAIN canon
                     /\ fold[p] = canon[tail[p]]

(* A batch lands at most once, and the batches of one process lie on the    *)
(* chain in the order it appended them, although a request may be lost,     *)
(* retried, outlive the Append that sent it and even the process            *)
(* (append.go Append: the key stays the same until an object is seen there).*)
ChainOrder ==
  \A s1, s2 \in DOMAIN bucket :
    /\ s1 < s2
    /\ bucket[s1].writer = bucket[s2].writer
    /\ bucket[s1].inc = bucket[s2].inc
    => bucket[s1].id < bucket[s2].id

Sender(b, p) == b.writer = Writer(p) /\ b.inc = Inc(p)

(* When Append returns a position, its batch is the object at that position *)
(* and the caller's table has judged it (append.go applyFetched recognises  *)
(* its own object by writer, incarnation and batch id).                     *)
ReturnedLanded ==
  \A r \in returned :
    /\ ~Absent(r.pos)
    /\ bucket[r.pos] = r.batch
    /\ \A p \in Proc : Sender(r.batch, p) => r.pos <= tail[p]

(* The sections of the object at s that every folder accepts.               *)
LiveAt(s) == LiveSections(canon[s - 1], bucket[s])

(* The fence: along the chain the accepted commits of a group never go back *)
(* to an older epoch, and one epoch is written by one node only, however    *)
(* many grants raced for it (lease.go applyGrant and applyCommit).          *)
OneWriterPerEpoch ==
  \A s1, s2 \in DOMAIN bucket :
    s1 < s2 =>
      \A x \in LiveAt(s1), y \in LiveAt(s2) :
        x.group = y.group =>
          /\ x.epoch <= y.epoch
          /\ x.epoch = y.epoch => bucket[s1].writer = bucket[s2].writer

Leaves(b, n) == b.ctl.kind = "leave" /\ b.ctl.node = n

(* Once an incarnation of a node has joined, no commit an older incarnation *)
(* left in the network is accepted behind the join, unless the node has     *)
(* left since (lease.go applyCommit's incarnation half and applyMember).    *)
IncarnationFence ==
  \A s1, s2 \in DOMAIN bucket :
    LET j == bucket[s1].ctl IN
    /\ s1 < s2
    /\ j.kind = "join"
    /\ bucket[s2].writer = j.node
    /\ LiveAt(s2) # {}
    /\ \A k \in s1..s2 : ~Leaves(bucket[k], j.node)
    => bucket[s2].inc >= j.inc

(* The chain is a shared log: the batch of an Append in progress, or of a   *)
(* request that can still land, is open; everything else about objects,     *)
(* retries, re-checks and answers that never came is invisible (append.go:  *)
(* "Append commits one batch of records to the chain and returns where it   *)
(* landed").                                                                *)
Landed(b) == \E s \in DOMAIN bucket : bucket[s] = b

Open ==
  {cur[p] : p \in {q \in Proc : phase[q] \in Busy /\ ~Landed(cur[q])}}
    \cup {r.batch : r \in {q \in late : Absent(q.seq)}}

Log == INSTANCE SharedLog WITH log <- bucket, open <- Open, read <- tail, done <- returned

IsSharedLog == Log!Spec

(* The inductive form of the chain properties.  The store's objects are     *)
(* exactly 1..k; every identity on the chain or in the network was issued;  *)
(* a request that can still land is the newest of its process; and the      *)
(* batch an Append is landing can only be found at the seq it stands at     *)
(* (append.go Append: the tail moves only past objects it has read).        *)
Issued(b) ==
  /\ b.id > 0
  /\ \A p \in Proc : Sender(b, p) => b.id < nextBatch[p]

AppendInv(p) ==
  /\ phase[p] \notin Busy => cur[p] = NoBatch
  /\ phase[p] \in Busy =>
       /\ cur[p] \in Batch
       /\ Sender(cur[p], p)
       /\ cur[p].id > 0
       /\ cur[p].id + 1 = nextBatch[p]
       /\ \A s \in DOMAIN bucket :
            Ours(bucket[s], cur[p]) => s = tail[p] + 1 /\ bucket[s] = cur[p]
       /\ \A r \in late :
            Ours(r.batch, cur[p]) => /\ r.batch = cur[p]
                                     /\ r.seq = tail[p] + 1 \/ ~Absent(r.seq)
  /\ phase[p] = "own" => ~Absent(tail[p] + 1) /\ bucket[tail[p] + 1] = cur[p]

LateInv(r) ==
  /\ Issued(r.batch)
  /\ r.seq - 1 \in DOMAIN canon
  /\ Absent(r.seq) =>
       \A s \in DOMAIN bucket :
         /\ bucket[s].writer = r.batch.writer
         /\ bucket[s].inc = r.batch.inc
         => bucket[s].id < r.batch.id

Dense == \E k \in DOMAIN canon : DOMAIN bucket = 1..k

CanonInv ==
  /\ canon[0] = EmptyTable
  /\ \A s \in DOMAIN bucket : canon[s] = ApplyBatch(canon[s - 1], s, bucket[s])

IssuedInv ==
  /\ \A s \in DOMAIN bucket : Issued(bucket[s])
  /\ \A r \in returned : Issued(r.batch)

FoldInv == \A p \in Proc : tail[p] \in DOMAIN canon /\ fold[p] = canon[tail[p]]

ChainInv ==
  /\ Dense
  /\ CanonInv
  /\ IssuedInv
  /\ FoldInv
  /\ \A p \in Proc : AppendInv(p)
  /\ \A r \in late : LateInv(r)
  /\ ChainOrder
  /\ ReturnedLanded

(* The inductive form of the fence: from one object to any later one a      *)
(* group's epoch never falls and keeps its node while it stands still, and  *)
(* a member row never falls behind a join without a leave (lease.go         *)
(* applyGrant, applyRelease, applyMember).                                  *)
EpochInv ==
  \A s1, s2 \in DOMAIN canon : s1 <= s2 =>
    \A g \in Group :
      LET a == canon[s1].groups[g]
          b == canon[s2].groups[g]
      IN /\ a.epoch <= b.epoch
         /\ a.epoch = b.epoch => a.node = b.node

MemberInv ==
  \A s1 \in DOMAIN bucket, s2 \in DOMAIN canon :
    /\ s1 <= s2
    /\ bucket[s1].ctl.kind = "join"
    /\ \A k \in s1..s2 : ~Leaves(bucket[k], bucket[s1].ctl.node)
    => bucket[s1].ctl.inc <= canon[s2].members[bucket[s1].ctl.node]

IndInv == TypeOK /\ ChainInv /\ EpochInv /\ MemberInv

(* An Append always returns: the loop ends once the bounded number of rival *)
(* appends and faults is over (append.go Append loops without a sleep).     *)
AppendReturns == \A p \in Proc : phase[p] \in Busy ~> phase[p] \notin Busy
============================================================================

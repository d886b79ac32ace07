----------------------------- MODULE WritePath -----------------------------
(* The durability pipeline of one running node (engine/obs1/writelog.go):   *)
(* shard owners emit frames into group buffers, the flusher swaps the dirty *)
(* buffers into WAL objects and PUTs several of them at a time (flusher.go) *)
(* and hands the finished ones over in order, the committer chains their    *)
(* commit records (committer.go), and the verdicts of the lease fold move   *)
(* the watermarks that strict acks and WAITAOF park on.  The chain is the   *)
(* log of CommitChain as one appender sees it; a rival node may take a      *)
(* group over at any point of it and commit frames of its own.              *)
EXTENDS Integers, Sequences, FiniteSets, FiniteSetsExt

CONSTANTS Group,       \* the slot groups, each with an owner of its own
          Depth,       \* walPipelineDepth
          CapBytes,    \* the lag threshold; a frame is one byte
          FlushSize,   \* the buffered-bytes trigger
          DeliverCap,  \* capacity of deliverC
          QueueCap,    \* capacity of the committer's queueC
          Acks,        \* the acks that clients ask for
          MaxRun,      \* bound: frames of one command
          MaxFrames,   \* bound: frames of one group
          MaxFaults,   \* bound: fatal errors of a chain append
          Rivals       \* bound: the groups a rival may take over

ASSUME PipelineAssumption ==
  /\ IsFiniteSet(Group) /\ Rivals \subseteq Group
  /\ Acks \subseteq {"relaxed", "strict", "aof"}
  /\ {Depth, FlushSize, DeliverCap, QueueCap, MaxRun} \subseteq Nat \ {0}
  /\ {CapBytes, MaxFrames, MaxFaults} \subseteq Nat

VARIABLES
  inc,        \* the incarnation of the running process
  next,       \* next[g]: the seq of the group's next frame (wlGroup)
  owner,      \* owner[g]: what the shard owner of g is doing
  lastEver,   \* lastEver[g]: the last seq emitted by this process, or 0
  buf,        \* buf[g]: the seqs of the frames in the open buffer
  fl,         \* the flusher: its loop, its flags and its counters
  flight,     \* the WAL objects whose PUT is out
  putDone,    \* PUTs that returned, the loop has not booked them
  completed,  \* booked objects waiting for an earlier one
  deliverC,   \* objects on their way to the sink
  handed,     \* the object WALFlushed is about to queue, at most one
  cm,         \* the committer: queue, phase, batch in hand, failed
  tail,       \* how much of the chain the appender has applied
  marks,      \* marks[g]: the committed watermark
  waiting,    \* the callbacks registered with the watermarks
  acked,      \* the strict acks that were delivered, with their incarnation
  aof,        \* one WAITAOF call
  closing,    \* how far WriteLog.Close has come
  wal,        \* the WAL objects of this node in the bucket
  chain,      \* the chain
  faults      \* how many fatal errors have happened

procVars == <<inc, next, owner, lastEver, buf, fl, flight, putDone, completed,
              deliverC, handed, cm, tail, marks, waiting, acked, aof, closing>>

vars == <<procVars, wal, chain, faults>>

ownerVars == <<inc, next, owner, lastEver>>
ackVars   == <<marks, waiting, acked, aof>>
storeVars == <<wal, chain>>

Seqs == Nat \ {0}

(* A WAL object: its place in the node's namespace and, per group, the      *)
(* frames of its section (none: no section).                                *)
WALObject == [walSeq : Seqs, inc : Seqs, secs : [Group -> Seq(Seqs)]]

(* A chain object: a rival's grant of some groups, or a batch of ours, or   *)
(* the taker's sections, each its group and its first and last seq.         *)
Entry == [inc : Nat, grants : SUBSET Group, commits : Seq(WALObject),
          taken : SUBSET (Group \X Seqs \X Seqs)]

Waiter == [group : Group, seq : Seqs, kind : {"strict", "aof"}]

TypeOK ==
  /\ inc \in Seqs
  /\ next \in [Group -> Seqs]
  /\ owner \in [Group -> {"idle", "run", "notify"}]
  /\ lastEver \in [Group -> Nat]
  /\ buf \in [Group -> Seq(Seqs)]
  /\ fl \in [loop : {"top", "select", "deliver", "exit"}, wake : BOOLEAN,
             timer : BOOLEAN, due : BOOLEAN, nextSeq : Seqs,
             nextDeliver : Seqs, failed : BOOLEAN, lag : BOOLEAN]
  /\ flight \subseteq WALObject
  /\ putDone \subseteq [obj : WALObject, ok : BOOLEAN]
  /\ completed \subseteq WALObject
  /\ deliverC \in Seq(WALObject)
  /\ handed \subseteq WALObject
  /\ cm \in [queue : Seq(WALObject), phase : {"idle", "append", "own"},
             batch : Seq(WALObject), failed : BOOLEAN]
  /\ tail \in Nat
  /\ marks \in [Group -> Nat]
  /\ waiting \subseteq Waiter
  /\ acked \subseteq Group \X Seqs \X Seqs
  /\ aof \in [phase : {"idle", "register", "parked", "fired"},
              todo : SUBSET (Group \X Seqs), left : Int,
              snap : [Group -> Nat]]
  /\ closing \in {"open", "flusher", "committer", "closed"}
  /\ \A w \in DOMAIN wal : w \in Seqs /\ wal[w] \in WALObject
  /\ chain \in Seq(Entry)
  /\ faults \in Nat

NewFlusher(w) ==
  [loop |-> "top", wake |-> FALSE, timer |-> FALSE, due |-> FALSE,
   nextSeq |-> w, nextDeliver |-> w, failed |-> FALSE, lag |-> FALSE]

NewCommitter ==
  [queue |-> <<>>, phase |-> "idle", batch |-> <<>>, failed |-> FALSE]

NoAof ==
  [phase |-> "idle", todo |-> {}, left |-> 0, snap |-> [g \in Group |-> 0]]

Init ==
  /\ inc = 1
  /\ next = [g \in Group |-> 1]
  /\ owner = [g \in Group |-> "idle"]
  /\ lastEver = [g \in Group |-> 0]
  /\ buf = [g \in Group |-> <<>>]
  /\ fl = NewFlusher(1)
  /\ flight = {}
  /\ putDone = {}
  /\ completed = {}
  /\ deliverC = <<>>
  /\ handed = {}
  /\ cm = NewCommitter
  /\ tail = 0
  /\ marks = [g \in Group |-> 0]
  /\ waiting = {}
  /\ acked = {}
  /\ aof = NoAof
  /\ closing = "open"
  /\ wal = [w \in {} |-> <<>>]
  /\ chain = <<>>
  /\ faults = 0

----------------------------------------------------------------------------
(* The byte accounting.                                                     *)
Size(secs) == MapThenSumSet(LAMBDA g : Len(secs[g]), Group)

Dirty == Size(buf)

PendingIn(objs, done) ==
  MapThenSumSet(LAMBDA o : Size(o.secs), objs \cup {r.obj : r \in done})

Pending == PendingIn(flight, putDone)

(* recalcLagLocked                                                          *)
Lagged(failed, bytes) == ~failed /\ bytes > CapBytes

----------------------------------------------------------------------------
(* The shard owners.  executeCmd runs a write handler only while the lag    *)
(* flag is down; by the time the handler emits, the flag may be up.         *)
PassGate(g) ==
  /\ owner[g] = "idle" /\ ~fl.lag
  /\ next[g] <= MaxFrames
  /\ owner' = [owner EXCEPT ![g] = "run"]
  /\ UNCHANGED <<inc, next, lastEver, buf, fl, flight, putDone, completed,
                 deliverC, handed, cm, tail, ackVars, closing, storeVars,
                 faults>>

(* A variant: the frames are numbered from the last seq, not the next.      *)
EmitOffByOne(g, n, ack) ==
  /\ owner[g] = "run"
  /\ ~fl.failed /\ closing = "open"
  /\ next[g] + n - 1 <= MaxFrames
  /\ buf' = [buf EXCEPT ![g] = @ \o [k \in 1..n |-> next[g] + k - 2]]
  /\ next' = [next EXCEPT ![g] = @ + n]
  /\ lastEver' = [lastEver EXCEPT ![g] = next[g] + n - 1]
  /\ owner' = [owner EXCEPT ![g] = IF ack = "strict" THEN "notify" ELSE "idle"]
  /\ fl' = [fl EXCEPT !.wake = TRUE,
                      !.lag = Lagged(FALSE, Dirty + n + Pending)]
  /\ UNCHANGED <<inc, flight, putDone, completed, deliverC, handed, cm, tail,
                 ackVars, closing, storeVars, faults>>

(* A variant: the lag flag forgets the bytes in flight.                     *)
EmitCountsDirty(g, n, ack) ==
  /\ owner[g] = "run"
  /\ ~fl.failed /\ closing = "open"
  /\ next[g] + n - 1 <= MaxFrames
  /\ buf' = [buf EXCEPT ![g] = @ \o [k \in 1..n |-> next[g] + k - 1]]
  /\ next' = [next EXCEPT ![g] = @ + n]
  /\ lastEver' = [lastEver EXCEPT ![g] = next[g] + n - 1]
  /\ owner' = [owner EXCEPT ![g] = IF ack = "strict" THEN "notify" ELSE "idle"]
  /\ fl' = [fl EXCEPT !.wake = TRUE,
                      !.lag = Lagged(FALSE, Dirty + n)]
  /\ UNCHANGED <<inc, flight, putDone, completed, deliverC, handed, cm, tail,
                 ackVars, closing, storeVars, faults>>

(* A variant: an append does not wake the flusher.                          *)
EmitSilent(g, n, ack) ==
  /\ owner[g] = "run"
  /\ ~fl.failed /\ closing = "open"
  /\ next[g] + n - 1 <= MaxFrames
  /\ buf' = [buf EXCEPT ![g] = @ \o [k \in 1..n |-> next[g] + k - 1]]
  /\ next' = [next EXCEPT ![g] = @ + n]
  /\ lastEver' = [lastEver EXCEPT ![g] = next[g] + n - 1]
  /\ owner' = [owner EXCEPT ![g] = IF ack = "strict" THEN "notify" ELSE "idle"]
  /\ fl' = [fl EXCEPT !.lag = Lagged(FALSE, Dirty + n + Pending)]
  /\ UNCHANGED <<inc, flight, putDone, completed, deliverC, handed, cm, tail,
                 ackVars, closing, storeVars, faults>>

(* emitOps: a run of n frames enters the group's buffer under one hold of   *)
(* the lock, and the seq counter moves only when it did.                    *)
Emit(g, n, ack) ==
  /\ owner[g] = "run"
  /\ ~fl.failed /\ closing = "open"
  /\ next[g] + n - 1 <= MaxFrames
  /\ buf' = [buf EXCEPT ![g] = @ \o [k \in 1..n |-> next[g] + k - 1]]
  /\ next' = [next EXCEPT ![g] = @ + n]
  /\ lastEver' = [lastEver EXCEPT ![g] = next[g] + n - 1]
  /\ owner' = [owner EXCEPT ![g] = IF ack = "strict" THEN "notify" ELSE "idle"]
  /\ fl' = [fl EXCEPT !.wake = TRUE,
                      !.lag = Lagged(FALSE, Dirty + n + Pending)]
  /\ UNCHANGED <<inc, flight, putDone, completed, deliverC, handed, cm, tail,
                 ackVars, closing, storeVars, faults>>

(* admitLocked refuses a failed or closing flusher; the command fails.      *)
EmitRefused(g) ==
  /\ owner[g] = "run"
  /\ fl.failed \/ closing # "open"
  /\ owner' = [owner EXCEPT ![g] = "idle"]
  /\ UNCHANGED <<inc, next, lastEver, buf, fl, flight, putDone, completed,
                 deliverC, handed, cm, tail, ackVars, closing, storeVars,
                 faults>>

(* A variant: a mark that is just reached does not count.                   *)
CoveredStrictly(g, s) == marks[g] > s

(* Watermarks.Notify looks at the mark before it registers the callback.    *)
Covered(g, s) == marks[g] >= s

(* strictHold: NotifyCommitted on the command's mark, then Barrier.         *)
StrictHold(g) ==
  LET s == next[g] - 1 IN
  /\ owner[g] = "notify"
  /\ owner' = [owner EXCEPT ![g] = "idle"]
  /\ \/ Covered(g, s) /\ acked' = acked \cup {<<g, s, inc>>} /\ UNCHANGED waiting
     \/ /\ ~Covered(g, s)
        /\ waiting' = waiting \cup {[group |-> g, seq |-> s, kind |-> "strict"]}
        /\ UNCHANGED acked
  /\ fl' = [fl EXCEPT !.wake = TRUE]
  /\ UNCHANGED <<inc, next, lastEver, buf, flight, putDone, completed,
                 deliverC, handed, cm, tail, marks, aof, closing, storeVars,
                 faults>>

(* NotifyAllCommitted: a snapshot under the buffer lock, one callback per   *)
(* group registered one after the other, all counting down one counter.     *)
Emitted == {<<g, lastEver[g]>> : g \in {h \in Group : lastEver[h] > 0}}

(* A variant: the countdown starts at one whatever the number of groups.    *)
WaitAofCountsOne ==
  /\ "aof" \in Acks /\ aof.phase = "idle"
  /\ aof' = [phase |-> IF Emitted = {} THEN "fired" ELSE "register",
             todo |-> Emitted, left |-> 1,
             snap |-> lastEver]
  /\ UNCHANGED <<ownerVars, buf, fl, flight, putDone, completed, deliverC,
                 handed, cm, tail, marks, waiting, acked, closing, storeVars,
                 faults>>

WaitAof ==
  /\ "aof" \in Acks /\ aof.phase = "idle"
  /\ aof' = [phase |-> IF Emitted = {} THEN "fired" ELSE "register",
             todo |-> Emitted, left |-> Cardinality(Emitted),
             snap |-> lastEver]
  /\ UNCHANGED <<ownerVars, buf, fl, flight, putDone, completed, deliverC,
                 handed, cm, tail, marks, waiting, acked, closing, storeVars,
                 faults>>

(* n callbacks of the call ran.                                             *)
CountDown(a, n) ==
  [a EXCEPT !.left = @ - n,
            !.phase = IF n > 0 /\ a.left = n THEN "fired" ELSE @]

AofRegister(g) ==
  /\ aof.phase = "register"
  /\ \E m \in aof.todo :
       /\ m[1] = g
       /\ LET a == [aof EXCEPT !.todo = @ \ {m}]
              b == IF a.todo = {} THEN [a EXCEPT !.phase = "parked"] ELSE a
          IN \/ /\ Covered(g, m[2])
                /\ aof' = CountDown(b, 1)
                /\ UNCHANGED waiting
             \/ /\ ~Covered(g, m[2])
                /\ aof' = b
                /\ waiting' = waiting \cup
                     {[group |-> g, seq |-> m[2], kind |-> "aof"]}
  /\ fl' = [fl EXCEPT !.wake = TRUE]
  /\ UNCHANGED <<ownerVars, buf, flight, putDone, completed, deliverC, handed,
                 cm, tail, marks, acked, closing, storeVars, faults>>

----------------------------------------------------------------------------
(* The flusher goroutine.                                                   *)
SwapDue ==
  /\ Dirty > 0
  /\ closing # "open" \/ Dirty >= FlushSize \/ fl.due

Swaps == ~fl.failed /\ Cardinality(flight \cup {r.obj : r \in putDone}) < Depth
         /\ SwapDue

(* One turn of the loop up to its select: startFlushLocked if a swap is due *)
(* and a pipeline slot is free, then leave, or arm the timer and wait.      *)
Top ==
  /\ fl.loop = "top"
  /\ \/ /\ Swaps
        /\ flight' = flight \cup
             {[walSeq |-> fl.nextSeq, inc |-> inc, secs |-> buf]}
        /\ buf' = [g \in Group |-> <<>>]
        /\ fl' = [fl EXCEPT !.loop = "select", !.nextSeq = @ + 1,
                            !.due = FALSE, !.timer = FALSE]
     \/ /\ ~Swaps
        /\ LET busy == flight # {} \/ putDone # {}
               done == ~busy /\ (fl.failed \/ (closing # "open" /\ Dirty = 0))
           IN fl' = [fl EXCEPT !.loop = IF done THEN "exit" ELSE "select",
                               !.timer = /\ ~fl.failed /\ closing = "open"
                                         /\ Dirty > 0 /\ ~fl.due]
        /\ UNCHANGED <<flight, buf>>
  /\ UNCHANGED <<ownerVars, putDone, completed, deliverC, handed, cm, tail,
                 ackVars, closing, storeVars, faults>>

(* Time: the oldest buffered frame reaches the flush age, or the barrier    *)
(* its floor.                                                               *)
Age ==
  /\ Dirty > 0 /\ ~fl.due
  /\ fl' = [fl EXCEPT !.due = TRUE]
  /\ UNCHANGED <<ownerVars, buf, flight, putDone, completed, deliverC, handed,
                 cm, tail, ackVars, closing, storeVars, faults>>

(* The select: the wake token or the timer ...                              *)
Woken ==
  /\ fl.loop = "select"
  /\ \/ fl.wake /\ fl' = [fl EXCEPT !.loop = "top", !.wake = FALSE]
     \/ fl.timer /\ fl.due /\ fl' = [fl EXCEPT !.loop = "top"]
  /\ UNCHANGED <<ownerVars, buf, flight, putDone, completed, deliverC, handed,
                 cm, tail, ackVars, closing, storeVars, faults>>

(* A variant: the lag flag is not refreshed when a PUT is booked.           *)
FinishPutKeepsLag(r) ==
  LET failed == fl.failed \/ ~r.ok IN
  /\ fl.loop = "select"
  /\ r \in putDone
  /\ putDone' = putDone \ {r}
  /\ completed' = IF failed THEN completed ELSE completed \cup {r.obj}
  /\ fl' = [fl EXCEPT !.loop = IF failed THEN "top" ELSE "deliver",
                      !.failed = failed]
  /\ UNCHANGED <<ownerVars, buf, flight, deliverC, handed, cm, tail, ackVars,
                 closing, storeVars, faults>>

(* ... or finishPut, which books one PUT; after a failure nothing is        *)
(* delivered any more.                                                      *)
FinishPut(r) ==
  LET failed == fl.failed \/ ~r.ok IN
  /\ fl.loop = "select"
  /\ r \in putDone
  /\ putDone' = putDone \ {r}
  /\ completed' = IF failed THEN completed ELSE completed \cup {r.obj}
  /\ fl' = [fl EXCEPT !.loop = IF failed THEN "top" ELSE "deliver",
                      !.failed = failed,
                      !.lag = Lagged(failed, Dirty +
                                     PendingIn(flight, putDone \ {r}))]
  /\ UNCHANGED <<ownerVars, buf, flight, deliverC, handed, cm, tail, ackVars,
                 closing, storeVars, faults>>

(* A variant: completed objects are delivered as they come.                 *)
DeliverUnordered ==
  /\ fl.loop = "deliver"
  /\ \/ \E o \in completed :
          /\ Len(deliverC) < DeliverCap
          /\ deliverC' = Append(deliverC, o)
          /\ completed' = completed \ {o}
          /\ fl' = [fl EXCEPT !.nextDeliver = @ + 1]
     \/ /\ completed = {}
        /\ fl' = [fl EXCEPT !.loop = "top"]
        /\ UNCHANGED <<deliverC, completed>>
  /\ UNCHANGED <<ownerVars, buf, flight, putDone, handed, cm, tail, ackVars,
                 closing, storeVars, faults>>

(* The next object in WAL order, if it is complete, goes to deliverC, which *)
(* may be full.                                                             *)
Deliver ==
  /\ fl.loop = "deliver"
  /\ \/ \E o \in completed :
          /\ o.walSeq = fl.nextDeliver
          /\ Len(deliverC) < DeliverCap
          /\ deliverC' = Append(deliverC, o)
          /\ completed' = completed \ {o}
          /\ fl' = [fl EXCEPT !.nextDeliver = @ + 1]
     \/ /\ \A o \in completed : o.walSeq # fl.nextDeliver
        /\ fl' = [fl EXCEPT !.loop = "top"]
        /\ UNCHANGED <<deliverC, completed>>
  /\ UNCHANGED <<ownerVars, buf, flight, putDone, handed, cm, tail, ackVars,
                 closing, storeVars, faults>>

----------------------------------------------------------------------------
(* putWAL, one goroutine per object.  The PUT lands if the key is free,     *)
(* whether or not its answer arrives.                                       *)
PutLands(o) ==
  /\ o \in flight
  /\ o.walSeq \notin DOMAIN wal
  /\ wal' = [w \in DOMAIN wal \cup {o.walSeq} |->
               IF w = o.walSeq THEN o ELSE wal[w]]
  /\ UNCHANGED <<procVars, chain, faults>>

(* A variant: a lost answer counts as success.                              *)
PutReturnsBlind(o) ==
  /\ o \in flight
  /\ flight' = flight \ {o}
  /\ putDone' = putDone \cup {[obj |-> o, ok |-> TRUE]}
  /\ UNCHANGED <<ownerVars, buf, fl, completed, deliverC, handed, cm, tail,
                 ackVars, closing, storeVars, faults>>

(* An answer, or a 412 or a lost answer followed by a Recheck.  The tag is  *)
(* the node and the WAL seq, so any object of this node at that seq reads   *)
(* as ours.                                                                 *)
PutReturns(o) ==
  /\ o \in flight
  /\ o.walSeq \in DOMAIN wal
  /\ flight' = flight \ {o}
  /\ putDone' = putDone \cup {[obj |-> o, ok |-> TRUE]}
  /\ UNCHANGED <<ownerVars, buf, fl, completed, deliverC, handed, cm, tail,
                 ackVars, closing, storeVars, faults>>

(* Every error but a cancelled context is retried forever.                  *)
PutCancelled(o) ==
  /\ o \in flight
  /\ fl.failed
  /\ flight' = flight \ {o}
  /\ putDone' = putDone \cup {[obj |-> o, ok |-> FALSE]}
  /\ UNCHANGED <<ownerVars, buf, fl, completed, deliverC, handed, cm, tail,
                 ackVars, closing, storeVars, faults>>

----------------------------------------------------------------------------
(* deliverLoop and Committer.WALFlushed: skip after a failure, fail the     *)
(* flusher if the committer has failed, otherwise queue the record, and     *)
(* block while the queue is full.                                           *)
DeliverLoop ==
  /\ handed = {} /\ deliverC # <<>>
  /\ deliverC' = Tail(deliverC)
  /\ \/ fl.failed /\ UNCHANGED <<handed, fl>>
     \/ /\ ~fl.failed /\ cm.failed
        /\ fl' = [fl EXCEPT !.failed = TRUE, !.lag = FALSE, !.wake = TRUE]
        /\ UNCHANGED handed
     \/ /\ ~fl.failed /\ ~cm.failed
        /\ handed' = {Head(deliverC)}
        /\ UNCHANGED fl
  /\ UNCHANGED <<ownerVars, buf, flight, putDone, completed, cm, tail, ackVars,
                 closing, storeVars, faults>>

Queue(o) ==
  /\ o \in handed
  /\ Len(cm.queue) < QueueCap
  /\ cm' = [cm EXCEPT !.queue = Append(@, o)]
  /\ handed' = {}
  /\ UNCHANGED <<ownerVars, buf, fl, flight, putDone, completed, deliverC,
                 tail, ackVars, closing, storeVars, faults>>

----------------------------------------------------------------------------
(* The committer goroutine: what has queued becomes one batch.              *)
TakeBatch ==
  /\ cm.phase = "idle" /\ cm.queue # <<>>
  /\ cm' = IF cm.failed
             THEN [cm EXCEPT !.queue = <<>>]
             ELSE [cm EXCEPT !.queue = <<>>, !.batch = cm.queue,
                             !.phase = "append"]
  /\ UNCHANGED <<ownerVars, buf, fl, flight, putDone, completed, deliverC,
                 handed, tail, ackVars, closing, storeVars, faults>>

(* ChainAppender.Append: the batch takes the seq after the tail unless      *)
(* something is there already.                                              *)
CommitLands ==
  /\ cm.phase = "append" /\ tail = Len(chain)
  /\ chain' = Append(chain, [inc |-> inc, grants |-> {}, commits |-> cm.batch,
                              taken |-> {}])
  /\ cm' = [cm EXCEPT !.phase = "own"]
  /\ UNCHANGED <<ownerVars, buf, fl, flight, putDone, completed, deliverC,
                 handed, tail, ackVars, closing, wal, faults>>

(* The verdict of the lease fold on a section of group g in the k-th chain  *)
(* object: live unless the group was granted away before.                   *)
Live(k, g) == \A j \in 1..(k - 1) : g \notin chain[j].grants

LastSeqs(k, g) ==
  LET secs == {chain[k].commits[i].secs[g] : i \in DOMAIN chain[k].commits}
  IN  {sec[Len(sec)] : sec \in secs \ {<<>>}}

(* The last seqs of the sections of group g that the fold judged live in    *)
(* the k-th chain object: ours, and the taker's.                            *)
LiveSeqs(k, g) ==
  (IF Live(k, g) THEN LastSeqs(k, g) ELSE {})
    \cup {t[3] : t \in {u \in chain[k].taken : u[1] = g}}

(* A variant: the verdict of the fold is ignored.                           *)
ApplyVerdictUnjudged(k) ==
  LET new == [g \in Group |->
                Max({marks[g]} \cup LiveSeqs(k, g) \cup LastSeqs(k, g))]
      due == {n \in waiting : n.seq <= new[n.group]}
      calls(kind) == {n \in due : n.kind = kind}
  IN /\ marks' = new
     /\ waiting' = waiting \ due
     /\ acked' = acked \cup {<<n.group, n.seq, inc>> : n \in calls("strict")}
     /\ aof' = CountDown(aof, Cardinality(calls("aof")))

(* A variant: only marks that are passed wake their callbacks.              *)
ApplyVerdictLate(k) ==
  LET new == [g \in Group |-> Max({marks[g]} \cup LiveSeqs(k, g))]
      due == {n \in waiting : n.seq < new[n.group]}
      calls(kind) == {n \in due : n.kind = kind}
  IN /\ marks' = new
     /\ waiting' = waiting \ due
     /\ acked' = acked \cup {<<n.group, n.seq, inc>> : n \in calls("strict")}
     /\ aof' = CountDown(aof, Cardinality(calls("aof")))

(* ApplyVerdict: live sections, whoever wrote them, move their marks        *)
(* forward, and the callbacks the marks cover run.                          *)
ApplyVerdict(k) ==
  LET new == [g \in Group |-> Max({marks[g]} \cup LiveSeqs(k, g))]
      due == {n \in waiting : n.seq <= new[n.group]}
      calls(kind) == {n \in due : n.kind = kind}
  IN /\ marks' = new
     /\ waiting' = waiting \ due
     /\ acked' = acked \cup {<<n.group, n.seq, inc>> : n \in calls("strict")}
     /\ aof' = CountDown(aof, Cardinality(calls("aof")))

(* applyFetched on an object of somebody else, and on our own.              *)
ApplyRival ==
  /\ cm.phase = "append" /\ tail < Len(chain)
  /\ tail' = tail + 1
  /\ ApplyVerdict(tail')
  /\ UNCHANGED <<ownerVars, buf, fl, flight, putDone, completed, deliverC,
                 handed, cm, closing, storeVars, faults>>

ApplyOwn ==
  /\ cm.phase = "own"
  /\ tail' = tail + 1
  /\ ApplyVerdict(tail')
  /\ cm' = [cm EXCEPT !.phase = "idle", !.batch = <<>>]
  /\ UNCHANGED <<ownerVars, buf, fl, flight, putDone, completed, deliverC,
                 handed, closing, storeVars, faults>>

(* Append returns an error, before the batch landed or after.               *)
AppendFails ==
  /\ cm.phase \in {"append", "own"} /\ faults < MaxFaults
  /\ faults' = faults + 1
  /\ cm' = [cm EXCEPT !.phase = "idle", !.batch = <<>>, !.failed = TRUE]
  /\ UNCHANGED <<ownerVars, buf, fl, flight, putDone, completed, deliverC,
                 handed, tail, ackVars, closing, storeVars>>

(* Another node takes a group over.                                         *)
RivalGrant(g) ==
  /\ g \in Rivals /\ \A k \in DOMAIN chain : g \notin chain[k].grants
  /\ chain' = Append(chain, [inc |-> 0, grants |-> {g}, commits |-> <<>>,
                              taken |-> {}])
  /\ UNCHANGED <<procVars, wal, faults>>

(* What the taker's replay of the chain has of the group: TakeStats.Applied. *)
Applied(g) == Max({0} \cup UNION {LiveSeqs(k, g) : k \in DOMAIN chain})

(* ... and commits frames of its own up to s, numbered from the first seq   *)
(* its replay did not find (SetGroup).                                      *)
RivalCommit(g, s) ==
  /\ \E k \in DOMAIN chain : g \in chain[k].grants
  /\ Applied(g) < s
  /\ chain' = Append(chain, [inc |-> 0, grants |-> {}, commits |-> <<>>,
                              taken |-> {<<g, Applied(g) + 1, s>>}])
  /\ UNCHANGED <<procVars, wal, faults>>

----------------------------------------------------------------------------
(* A variant: Close does not wake the flusher.                              *)
CloseSilent ==
  /\ closing = "open"
  /\ closing' = "flusher"
  /\ UNCHANGED <<ownerVars, buf, fl, flight, putDone, completed, deliverC, handed,
                 cm, tail, ackVars, storeVars, faults>>

(* WriteLog.Close: the flusher first, then the committer.                   *)
Close ==
  /\ closing = "open"
  /\ closing' = "flusher"
  /\ fl' = [fl EXCEPT !.wake = TRUE]
  /\ UNCHANGED <<ownerVars, buf, flight, putDone, completed, deliverC, handed,
                 cm, tail, ackVars, storeVars, faults>>

(* A variant: the committer is closed while a delivery is still under way.  *)
FlusherClosedEarly ==
  /\ closing = "flusher"
  /\ fl.loop = "exit" /\ deliverC = <<>>
  /\ closing' = "committer"
  /\ UNCHANGED <<ownerVars, buf, fl, flight, putDone, completed, deliverC,
                 handed, cm, tail, ackVars, storeVars, faults>>

FlusherClosed ==
  /\ closing = "flusher"
  /\ fl.loop = "exit" /\ deliverC = <<>> /\ handed = {}
  /\ closing' = "committer"
  /\ UNCHANGED <<ownerVars, buf, fl, flight, putDone, completed, deliverC,
                 handed, cm, tail, ackVars, storeVars, faults>>

CommitterClosed ==
  /\ closing = "committer"
  /\ cm.phase = "idle" /\ cm.queue = <<>>
  /\ closing' = "closed"
  /\ UNCHANGED <<ownerVars, buf, fl, flight, putDone, completed, deliverC,
                 handed, cm, tail, ackVars, storeVars, faults>>

----------------------------------------------------------------------------
(* What the node's goroutines do by themselves.                             *)
Owner(g) ==
  EmitRefused(g) \/ StrictHold(g) \/ AofRegister(g)
    \/ (\E n \in 1..MaxRun, ack \in Acks \ {"aof"} : Emit(g, n, ack))

Put(o) == PutLands(o) \/ PutReturns(o) \/ PutCancelled(o)

Flush == Top \/ Woken \/ Deliver \/ (\E r \in putDone : FinishPut(r))

Sink == DeliverLoop \/ (\E o \in handed : Queue(o))

Commit == TakeBatch \/ CommitLands \/ ApplyRival \/ ApplyOwn

Closing == FlusherClosed \/ CommitterClosed

Running ==
  \/ \E g \in Group : Owner(g)
  \/ \E o \in flight : Put(o)
  \/ Age \/ Flush \/ Sink \/ Commit \/ Closing

Next ==
  \/ Running
  \/ \E g \in Group : \/ PassGate(g) \/ RivalGrant(g)
                       \/ \E s \in 1..MaxFrames : RivalCommit(g, s)
  \/ WaitAof \/ AppendFails \/ Close

Spec == Init /\ [][Next]_vars

(* Every goroutine of a live process runs, the clock advances and the store *)
(* answers in the end; commands, rivals, errors and Close just may happen.  *)
FairSpec ==
  /\ Spec
  /\ \A g \in Group : WF_vars(Owner(g))
  /\ \A w \in 1..(MaxFrames * Cardinality(Group)) :
       WF_vars(\E o \in flight : o.walSeq = w /\ Put(o))
  /\ WF_vars(Age) /\ WF_vars(Flush) /\ WF_vars(Sink) /\ WF_vars(Commit)
  /\ WF_vars(Closing)

----------------------------------------------------------------------------
(* The i-th section of the k-th chain object, if there is one.              *)
Section(k, i, g) == chain[k].commits[i].secs[g]

Places ==
  UNION {{<<k, i>> : i \in DOMAIN chain[k].commits} : k \in DOMAIN chain}

Frames(sec) == {sec[j] : j \in DOMAIN sec}

OnChain(g, s) == \E p \in Places : s \in Frames(Section(p[1], p[2], g))

(* The frame is committed live, in an object the bucket holds as committed. *)
Durable(g, s) ==
  \E k \in DOMAIN chain :
    /\ Live(k, g)
    /\ \E i \in DOMAIN chain[k].commits :
         LET o == chain[k].commits[i]
         IN  /\ s \in Frames(o.secs[g])
             /\ o.walSeq \in DOMAIN wal /\ wal[o.walSeq] = o

(* The taker has committed a frame of its own under the number.             *)
Reused(g, s) ==
  \E k \in 1..tail : \E t \in chain[k].taken : t[1] = g /\ s \in t[2]..t[3]

(* A strict ack is sent only when its frame and all before it are durable,  *)
(* and WAITAOF answers only when everything emitted before the call is,     *)
(* whatever the PUTs, the batches, the grants and the registrations did in  *)
(* between.  The one exception is a number that whoever took the group over *)
(* has used again: its section moves the same mark.                         *)
AcksDurable ==
  /\ \A a \in acked : \A s \in 1..a[2] : Durable(a[1], s) \/ Reused(a[1], s)
  /\ aof.phase = "fired" =>
       \A g \in Group : \A s \in 1..aof.snap[g] : Durable(g, s) \/ Reused(g, s)

(* "A mark emitted under an epoch that has since been fenced never folds    *)
(* live, so its fn never fires": whoever took the group over, a callback    *)
(* fires only for a frame that was committed live.                          *)
FencedSilent == \A a \in acked : Durable(a[1], a[2])

Before(p, q) == p[1] < q[1] \/ (p[1] = q[1] /\ p[2] < q[2])

(* The committed stream of a group has no gap and no repetition, although   *)
(* the PUTs finish in any order and the pipeline may fail between any two   *)
(* steps: Recover refuses to boot on a gap.                                 *)
CommitsDense ==
  \A g \in Group : \A p \in Places :
    LET sec == Section(p[1], p[2], g)
    IN  sec # <<>> =>
          /\ \A j \in DOMAIN sec : sec[j] = sec[1] + j - 1
          /\ sec[1] = 1 \/ \E q \in Places :
                             /\ Before(q, p)
                             /\ sec[1] - 1 \in Frames(Section(q[1], q[2], g))
          /\ \A q \in Places \ {p} :
               Frames(sec) \cap Frames(Section(q[1], q[2], g)) = {}

(* No callback is left behind on a mark that is covered: Notify and         *)
(* ApplyVerdict cannot miss each other.                                     *)
NoStrandedWaiter == \A n \in waiting : n.seq > marks[n.group]

(* The buffers outgrow the cap by no more than the handlers that were past  *)
(* the gate when the flag rose (the comment on Flusher.lag).                *)
CapOvershoot ==
  Dirty + Pending + MaxRun * Cardinality({g \in Group : owner[g] = "run"})
    <= CapBytes + MaxRun * Cardinality(Group) \/ fl.failed

(* Close without an error leaves nothing behind: every frame a client was   *)
(* told about is on the chain.                                              *)
CloseDrains ==
  closing = "closed" /\ ~fl.failed /\ ~cm.failed =>
    \A g \in Group : \A s \in 1..(next[g] - 1) : OnChain(g, s)

(* An emitted frame is committed in the end, or the committer has failed.   *)
FramesCommit ==
  \A g \in Group : \A s \in 1..MaxFrames :
    (lastEver[g] >= s) ~> (OnChain(g, s) \/ cm.failed)

(* A parked strict ack or WAITAOF is answered in the end, unless the        *)
(* committer failed or the group is fenced.                                 *)
WaitersWake ==
  \A g \in Group : \A s \in 1..MaxFrames :
    (\E n \in waiting : n.group = g /\ n.seq = s)
      ~> \/ ~\E n \in waiting : n.group = g /\ n.seq = s
         \/ cm.failed
         \/ \E k \in DOMAIN chain : g \in chain[k].grants

(* The lag flag falls again: no write stays parked at the gate for good.    *)
LagClears == fl.lag ~> ~fl.lag

(* Close returns, also when the pipeline fails under it.                    *)
CloseReturns == (closing = "flusher") ~> (closing = "closed")
============================================================================

------------------------------ MODULE Intents ------------------------------
(* Cross-shard transactions of the f3 shard runtime (engine/f3/shard:       *)
(* intent.go, txnroute.go).  A transaction takes a ticket, arms one intent  *)
(* per key at the key's owner, waits until each is the head of its key's    *)
(* queue, locks them all or backs off, runs its steps on the owners, and    *)
(* releases.  A point command that meets queued intents parks behind them.  *)
(*                                                                          *)
(* Processes: the connections' readers, which dispatch their commands in    *)
(* order; the shard owners, which drain the hops of every connection and    *)
(* their own control queue; one coordinator per transaction.                *)
EXTENDS Integers, Sequences, FiniteSets, FiniteSetsExt, SequencesExt, Functions

CONSTANTS Key, Shard, Conn,
          ShardOf,   \* the owner of a key
          Program    \* the commands a connection sends: [kind, keys]

ASSUME IntentsAssumption ==
  /\ Shard \subseteq Nat /\ ShardOf \in [Key -> Shard]
  /\ DOMAIN Program = Conn
  /\ \A c \in Conn : \A i \in DOMAIN Program[c] :
       LET p == Program[c][i] IN
       /\ p.kind \in {"txn", "point"} /\ p.keys \in SUBSET Key \ {{}}
       /\ p.kind = "point" => Cardinality({ShardOf[k] : k \in p.keys}) = 1

Command == UNION {{<<c, i>> : i \in DOMAIN Program[c]} : c \in Conn}

Cmd(a) == Program[a[1]][a[2]]

Points == {a \in Command : Cmd(a).kind = "point"}

VARIABLES
  sent,       \* sent[c]: commands of c dispatched
  hop,        \* hop[c][s]: commands of c on their way to owner s
  txn,        \* txn[n]: the command that took ticket n
  queue,      \* queue[k]: tickets of the intents of key k, front first
  locked,     \* locked[k]: tickets whose intent on k is locked
  published,  \* published[k]: the ticket whose head flag reads true, or 0
  waiters,    \* waiters[k]: point commands parked on k, in parking order
  await,      \* await[p]: the intents a parked command waits for
  ops,        \* ops[s]: the control queue of owner s
  pc, at,     \* a coordinator's phase, and the intent it has reached
  left,       \* control messages the coordinator waits for
  ok,         \* every lock so far was taken
  sig,        \* the coordinator's poke channel, capacity one
  log         \* history: log[k] is the commands that touched k, in order

reader == <<sent, hop, txn>>
owner  == <<queue, locked, published, waiters, await>>
coord  == <<pc, at, left, ok>>
vars   == <<reader, owner, coord, ops, sig, log>>

Ticket == 1..Cardinality(Command \ Points)

Keys(n) == Cmd(txn[n]).keys

(* newTxn: the intents of a command in ascending shard order.               *)
sortByShard ==
  [a \in Command |-> SetToSortSeq(Cmd(a).keys, LAMBDA k, l : ShardOf[k] < ShardOf[l])]

intents(n) == sortByShard[txn[n]]

----------------------------------------------------------------------------
(* The owner's operations on one key's queue.                               *)

(* A variant: a locked front can be displaced.                              *)
MutEnqueueIntent(k, n) ==
  InsertAt(queue[k],
           Max({j \in 0..Len(queue[k]) : \A i \in 1..j : queue[k][i] < n}) + 1, n)

(* The queue once ticket n is in it: in ticket order, never ahead of a      *)
(* locked front.                                                            *)
enqueueIntent(k, n) ==
  LET q   == queue[k]
      pin == IF q # <<>> /\ Head(q) \in locked[k] THEN 1 ELSE 0
      pos == Max({j \in pin..Len(q) : \A i \in pin + 1..j : q[i] < n})
  IN InsertAt(q, pos + 1, n)

(* A variant: the comparison is the wrong way round.                        *)
MutSortList(q) == SortSeq(q, LAMBDA a, b : a > b)

sortList(q) == SortSeq(q, LAMBDA a, b : a < b)

front(q) == IF q = <<>> THEN 0 ELSE Head(q)

(* publishHead moves the head flag to the front of q and pokes the          *)
(* coordinators that lost and gained it; was is the ticket that has it.     *)
publishHead(k, q, was) ==
  /\ published' = [published EXCEPT ![k] = front(q)]
  /\ sig' = [n \in Ticket |-> \/ sig[n]
                              \/ front(q) # was /\ n \in {front(q), was}]

SetQueue(k, q) == queue' = [queue EXCEPT ![k] = q]

(* The commands of the sequence due touch their keys.                       *)
Logged(due) ==
  [k \in Key |-> log[k] \o SelectSeq(due, LAMBDA a : k \in Cmd(a).keys)]

(* A variant: an emptied queue drops its parked commands untold.            *)
MutReleaseIntent(k, n) ==
  LET q == SelectSeq(queue[k], LAMBDA m : m # n) IN
  /\ SetQueue(k, q)
  /\ locked' = [locked EXCEPT ![k] = @ \ {n}]
  /\ publishHead(k, q, IF published[k] = n THEN 0 ELSE published[k])
  /\ waiters' = [waiters EXCEPT ![k] = IF q = <<>> THEN <<>> ELSE @]
  /\ UNCHANGED <<await, log>>

(* releaseIntent and wakeDeferred: the intent leaves the queue, the parked  *)
(* commands it was the last one of run in the order they parked, then the   *)
(* next head is published.  An emptied queue is dropped with its list.      *)
releaseIntent(k, n) ==
  LET q     == SelectSeq(queue[k], LAMBDA m : m # n)
      left1 == [p \in Points |-> IF p \in Range(waiters[k]) THEN await[p] \ {<<n, k>>}
                                                            ELSE await[p]]
      Done(p) == await[p] = {}
      due   == SelectSeq(waiters[k], LAMBDA p : ~Done(p) /\ left1[p] = {})
      kept  == SelectSeq(waiters[k], LAMBDA p : left1[p] # {})
  IN /\ SetQueue(k, q)
     /\ locked' = [locked EXCEPT ![k] = @ \ {n}]
     /\ publishHead(k, q, IF published[k] = n THEN 0 ELSE published[k])
     /\ await' = left1
     /\ waiters' = [waiters EXCEPT ![k] = IF q = <<>> THEN <<>> ELSE kept]
     /\ log' = Logged(due)

----------------------------------------------------------------------------
Init ==
  /\ sent = [c \in Conn |-> 0]
  /\ hop = [c \in Conn |-> [s \in Shard |-> <<>>]]
  /\ txn = <<>>
  /\ queue = [k \in Key |-> <<>>]
  /\ locked = [k \in Key |-> {}]
  /\ published = [k \in Key |-> 0]
  /\ waiters = [k \in Key |-> <<>>]
  /\ await = [p \in Points |-> {}]
  /\ ops = [s \in Shard |-> <<>>]
  /\ pc = [n \in Ticket |-> "none"]
  /\ at = [n \in Ticket |-> 1]
  /\ left = [n \in Ticket |-> 0]
  /\ ok = [n \in Ticket |-> TRUE]
  /\ sig = [n \in Ticket |-> FALSE]
  /\ log = [k \in Key |-> <<>>]

(* DoTxn: the ticket, one arm per key on the hop to its owner, and the      *)
(* coordinator, which starts Acquire.                                       *)
DoTxn(c) ==
  LET a == <<c, sent[c] + 1>>
      n == Len(txn) + 1
  IN /\ a \in Command \ Points
     /\ sent' = [sent EXCEPT ![c] = @ + 1]
     /\ txn' = Append(txn, a)
     /\ hop' = [hop EXCEPT ![c] = [s \in Shard |->
          LET mine == SelectSeq(sortByShard[a], LAMBDA k : ShardOf[k] = s)
          IN @[s] \o [i \in 1..Len(mine) |-> [op |-> "arm", n |-> n, key |-> mine[i]]]]]
     /\ pc' = [pc EXCEPT ![n] = "scan"]
     /\ UNCHANGED <<owner, at, left, ok, ops, sig, log>>

(* A point command goes to the owner of its keys.                           *)
DoPoint(c) ==
  LET a == <<c, sent[c] + 1>> IN
  /\ a \in Points
  /\ sent' = [sent EXCEPT ![c] = @ + 1]
  /\ \E s \in {ShardOf[k] : k \in Cmd(a).keys} :
       hop' = [hop EXCEPT ![c][s] = Append(@, [op |-> "point", cmd |-> a])]
  /\ UNCHANGED <<txn, owner, coord, ops, sig, log>>

----------------------------------------------------------------------------
(* The owners: commands off the hops ...                                    *)

Arrives(c, s, op) == hop[c][s] # <<>> /\ Head(hop[c][s]).op = op

Drained(c, s) == hop' = [hop EXCEPT ![c][s] = Tail(@)]

armIntent(c, s) ==
  /\ Arrives(c, s, "arm")
  /\ Drained(c, s)
  /\ LET k == Head(hop[c][s]).key
         q == enqueueIntent(k, Head(hop[c][s]).n)
     IN SetQueue(k, q) /\ publishHead(k, q, published[k])
  /\ UNCHANGED <<sent, txn, locked, waiters, await, coord, ops, log>>

(* A variant: a point command does not look at the queued intents.          *)
MutExecute(c, s) ==
  /\ Arrives(c, s, "point")
  /\ Drained(c, s)
  /\ log' = Logged(<<Head(hop[c][s]).cmd>>)
  /\ UNCHANGED <<sent, txn, owner, coord, ops, sig>>

(* execute: a point command none of whose keys has an intent queued.        *)
execute(c, s) ==
  /\ Arrives(c, s, "point")
  /\ Drained(c, s)
  /\ LET a == Head(hop[c][s]).cmd IN
     /\ \A k \in Cmd(a).keys : queue[k] = <<>>
     /\ log' = Logged(<<a>>)
  /\ UNCHANGED <<sent, txn, owner, coord, ops, sig>>

(* A variant: a point command waits for the head of each queue only.        *)
MutDeferForIntent(c, s) ==
  /\ Arrives(c, s, "point")
  /\ Drained(c, s)
  /\ LET a    == Head(hop[c][s]).cmd
         busy == {k \in Cmd(a).keys : queue[k] # <<>>}
     IN /\ busy # {}
        /\ await' = [await EXCEPT ![a] = {<<Head(queue[k]), k>> : k \in busy}]
        /\ waiters' = [k \in Key |-> IF k \in busy THEN Append(waiters[k], a) ELSE waiters[k]]
  /\ UNCHANGED <<sent, txn, queue, locked, published, coord, ops, sig, log>>

(* Otherwise it parks behind every intent queued now on a key of its.       *)
deferForIntent(c, s) ==
  /\ Arrives(c, s, "point")
  /\ Drained(c, s)
  /\ LET a    == Head(hop[c][s]).cmd
         busy == {k \in Cmd(a).keys : queue[k] # <<>>}
     IN /\ busy # {}
        /\ await' = [await EXCEPT ![a] = UNION {{<<n, k>> : n \in Range(queue[k])} : k \in busy}]
        /\ waiters' = [k \in Key |-> IF k \in busy THEN Append(waiters[k], a) ELSE waiters[k]]
  /\ UNCHANGED <<sent, txn, queue, locked, published, coord, ops, sig, log>>

(* ... and control messages.  Each answers its coordinator.                 *)
Message(s, op) == ops[s] # <<>> /\ Head(ops[s]).op = op

Taken(s) == ops' = [ops EXCEPT ![s] = Tail(@)]

Answer(n) == left' = [left EXCEPT ![n] = @ - 1]

lockIntent(s) ==
  /\ Message(s, "lock")
  /\ Taken(s)
  /\ LET n == Head(ops[s]).n
         k == Head(ops[s]).key
         mine == front(queue[k]) = n
     IN /\ locked' = [locked EXCEPT ![k] = IF mine THEN @ \cup {n} ELSE @]
        /\ ok' = [ok EXCEPT ![n] = @ /\ mine]
        /\ Answer(n)
  /\ UNCHANGED <<reader, queue, published, waiters, await, pc, at, sig, log>>

(* A variant: the queue is not sorted when a speculative lock goes.         *)
MutUnlockIntent(s) ==
  /\ Message(s, "unlock")
  /\ Taken(s)
  /\ locked' = [locked EXCEPT ![Head(ops[s]).key] = @ \ {Head(ops[s]).n}]
  /\ Answer(Head(ops[s]).n)
  /\ UNCHANGED <<reader, queue, published, waiters, await, pc, at, ok, sig, log>>

unlockIntent(s) ==
  /\ Message(s, "unlock")
  /\ Taken(s)
  /\ LET n == Head(ops[s]).n
         k == Head(ops[s]).key
         q == sortList(queue[k])
     IN /\ locked' = [locked EXCEPT ![k] = @ \ {n}]
        /\ SetQueue(k, q) /\ publishHead(k, q, published[k])
        /\ Answer(n)
  /\ UNCHANGED <<reader, waiters, await, pc, at, ok, log>>

runStep(s) ==
  /\ Message(s, "run")
  /\ Taken(s)
  /\ LET n == Head(ops[s]).n
         k == Head(ops[s]).key
     IN log' = [log EXCEPT ![k] = Append(@, txn[n])] /\ Answer(n)
  /\ UNCHANGED <<reader, owner, pc, at, ok, sig>>

ApplyRelease(s) ==
  /\ Message(s, "release")
  /\ Taken(s)
  /\ releaseIntent(Head(ops[s]).key, Head(ops[s]).n)
  /\ UNCHANGED <<reader, coord>>

----------------------------------------------------------------------------
(* The coordinators.                                                        *)

(* The message about intent i of n, posted to its owner.                    *)
postIntent(n, op, i) ==
  LET k == intents(n)[i] IN
  ops' = [ops EXCEPT ![ShardOf[k]] = Append(@, [op |-> op, n |-> n, key |-> k])]

Size(n) == Len(intents(n))

Phase(n, p, i) == pc' = [pc EXCEPT ![n] = p] /\ at' = [at EXCEPT ![n] = i]

(* waitAllHead reads one flag: the next one, a sleep, or the first lock.    *)
ReadHead(n) ==
  /\ pc[n] = "scan"
  /\ LET up == published[intents(n)[at[n]]] = n IN
     \/ up /\ at[n] < Size(n) /\ Phase(n, "scan", at[n] + 1)
     \/ up /\ at[n] = Size(n) /\ Phase(n, "lock", 1)
     \/ ~up /\ Phase(n, "sleep", 1)
  /\ UNCHANGED <<reader, owner, left, ok, ops, sig, log>>

Wake(n) ==
  /\ pc[n] = "sleep" /\ sig[n]
  /\ sig' = [sig EXCEPT ![n] = FALSE]
  /\ Phase(n, "scan", 1)
  /\ UNCHANGED <<reader, owner, left, ok, ops, log>>

(* The phases post one message per intent: lock and run wait for the answer *)
(* to each, unlock for all at the end, release for none.                    *)
Post(n) ==
  /\ pc[n] \in {"lock", "unlock", "run", "release"}
  /\ at[n] <= Size(n)
  /\ pc[n] \in {"lock", "run"} => left[n] = 0
  /\ postIntent(n, pc[n], at[n])
  /\ Phase(n, pc[n], at[n] + 1)
  /\ left' = [left EXCEPT ![n] = IF pc[n] = "release" THEN @ ELSE @ + 1]
  /\ UNCHANGED <<reader, owner, ok, sig, log>>

(* The end of a phase: lockAll succeeded or the transaction backs off, the  *)
(* locks are undone and it waits again, the body returned, Release too.     *)
NextPhase(n) ==
  /\ pc[n] \in {"lock", "unlock", "run", "release"}
  /\ at[n] > Size(n) /\ left[n] = 0
  /\ Phase(n, CASE pc[n] = "lock" -> IF ok[n] THEN "run" ELSE "unlock"
                [] pc[n] = "unlock"  -> "scan"
                [] pc[n] = "run"     -> "release"
                [] pc[n] = "release" -> "done", 1)
  /\ ok' = [ok EXCEPT ![n] = TRUE]
  /\ UNCHANGED <<reader, owner, left, ops, sig, log>>

Reader(c) == DoTxn(c) \/ DoPoint(c)

Hop(c, s) == armIntent(c, s) \/ execute(c, s) \/ deferForIntent(c, s)

Control(s) == lockIntent(s) \/ unlockIntent(s) \/ runStep(s) \/ ApplyRelease(s)

Coordinator(n) == ReadHead(n) \/ Wake(n) \/ Post(n) \/ NextPhase(n)

Next ==
  \/ \E c \in Conn : Reader(c)
  \/ \E c \in Conn, s \in Shard : Hop(c, s)
  \/ \E s \in Shard : Control(s)
  \/ \E n \in Ticket : Coordinator(n)

Spec == Init /\ [][Next]_vars

(* Readers, owners and coordinators are goroutines that always run on; an   *)
(* owner drains every queue it has.                                         *)
FairSpec ==
  /\ Spec
  /\ \A c \in Conn : WF_vars(Reader(c))
  /\ \A c \in Conn, s \in Shard : WF_vars(Hop(c, s))
  /\ \A s \in Shard : WF_vars(Control(s))
  /\ \A n \in Ticket : WF_vars(Coordinator(n))

----------------------------------------------------------------------------
(* Types; the head flag is at the front of its queue, and a command that    *)
(* awaits an intent is parked on that intent's key, where its release will  *)
(* look for it, and the release is still to come.                           *)
TypeOK ==
  /\ \A k \in Key : /\ Range(queue[k]) \subseteq Ticket /\ IsInjective(queue[k])
                    /\ published[k] = front(queue[k])
                    /\ locked[k] \subseteq Range(queue[k])
  /\ \A n \in Ticket : left[n] \in 0..Cardinality(Key) /\ ok[n] \in BOOLEAN
  /\ \A p \in Points : \A i \in await[p] :
       p \in Range(waiters[i[2]]) /\ i[1] \in Range(queue[i[2]])

(* "A locked head is never displaced by a later enqueue": a locked intent   *)
(* is the front of its key's queue.                                         *)
LockedAtHead == \A k \in Key : locked[k] \subseteq {front(queue[k])}

(* "Once a transaction holds all its locks no other command touches any of  *)
(* its keys until it releases", point commands included.                    *)
Exclusive ==
  [][\A n \in Ticket : pc[n] = "run" =>
       \A k \in Keys(n) :
         Range(SubSeq(log'[k], Len(log[k]) + 1, Len(log'[k]))) \subseteq {txn[n]}]_vars

(* The command of a connection that follows a transaction of it on a key    *)
(* takes effect there after the transaction.                                *)
AfterTxn ==
  \A k \in Key : \A i, j \in DOMAIN log[k] :
    LET a == log[k][i]
        b == log[k][j]
    IN i < j /\ a[1] = b[1] /\ a[2] > b[2] => Cmd(b).kind = "point"

(* The same of a command that follows a point command: "nothing that arms   *)
(* later may cut in front of it".                                           *)
AfterPoint ==
  \A k \in Key : \A i, j \in DOMAIN log[k] :
    LET a == log[k][i]
        b == log[k][j]
    IN i < j /\ a[1] = b[1] /\ a[2] > b[2] => Cmd(b).kind = "txn"

(* "A lock fails only when a smaller ticket displaced the head between the  *)
(* wait and the lock", on the very key whose lock is refused: with it the   *)
(* smallest ticket always gets through.                                     *)
LosesToSmaller ==
  [][\A n \in Ticket : ok[n] /\ ~ok'[n] =>
       \E s \in Shard : /\ ops[s] # ops'[s] /\ Message(s, "lock") /\ Head(ops[s]).n = n
                        /\ front(queue[Head(ops[s]).key]) \in 1..n - 1]_vars

Finished ==
  /\ \A c \in Conn : sent[c] = Len(Program[c])
  /\ \A n \in Ticket : pc[n] = "done"
  /\ \A a \in Command : \A k \in Cmd(a).keys : a \in Range(log[k])
  /\ \A k \in Key : queue[k] = <<>> /\ waiters[k] = <<>>

(* Deadlock-free and livelock-free: every command takes effect, and nothing *)
(* is left queued, locked or parked.                                        *)
Completes == <>Finished
=============================================================================

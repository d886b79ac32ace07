----------------------------- MODULE SharedLog -----------------------------
(* What the commit chain promises its users, without objects, requests or   *)
(* retries: one log of batches, each ordered at most once between the call  *)
(* that submits it and the moment nobody can order it any more, and read by *)
(* every process from the front without a gap.                              *)
EXTENDS Naturals

CONSTANTS Proc,   \* the processes
          Batch   \* what they append

VARIABLES log,    \* the batches in their order, a function on 1..length
          open,   \* the submitted batches that may still be ordered
          read,   \* read[p]: how much of the log p has read
          done    \* the positions handed back to the submitters

vars == <<log, open, read, done>>

TypeOK ==
  /\ \E k \in Nat : log \in [1..k -> Batch]
  /\ open \subseteq Batch
  /\ read \in [Proc -> Nat]
  /\ done \subseteq [batch : Batch, pos : Nat]

Init ==
  /\ log = [k \in {} |-> 0]
  /\ open = {}
  /\ read = [p \in Proc |-> 0]
  /\ done = {}

Fresh(b) == b \notin open /\ \A k \in DOMAIN log : log[k] # b

Submit(b) ==
  /\ b \in Batch /\ Fresh(b)
  /\ open' = open \cup {b}
  /\ UNCHANGED <<log, read, done>>

(* The batch takes the next position; rivals for it may be out for good.    *)
Order(b) ==
  /\ b \in open
  /\ open' \subseteq open \ {b}
  /\ \E k \in DOMAIN log \cup {0} :
       /\ DOMAIN log = 1..k
       /\ log' = [i \in 1..(k + 1) |-> IF i = k + 1 THEN b ELSE log[i]]
  /\ UNCHANGED <<read, done>>

Abandon ==
  /\ open' \subseteq open
  /\ UNCHANGED <<log, read, done>>

Read(p) ==
  /\ read[p] + 1 \in DOMAIN log
  /\ read' = [read EXCEPT ![p] = @ + 1]
  /\ \/ UNCHANGED done
     \/ done' = done \cup {[batch |-> log[read[p] + 1], pos |-> read[p] + 1]}
  /\ UNCHANGED <<log, open>>

Next ==
  \/ \E b \in open' : Submit(b)
  \/ \E b \in open : Order(b)
  \/ Abandon
  \/ \E p \in Proc : Read(p)

Spec == Init /\ [][Next]_vars
============================================================================

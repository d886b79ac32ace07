----------------------------- MODULE LeaseFold -----------------------------
(* The lease table as a fold over the commit chain (engine/obs1/lease.go).  *)
(* The table is a value and every record kind of the chain is an operator   *)
(* from a table to a table, so any module can fold a chain by iterating     *)
(* ApplyBatch.  A chain object is a batch: the commit sections it carries,  *)
(* in any order, followed by at most one control record.  The committer's   *)
(* batches hold commits only, a handoff holds commits followed by a         *)
(* release, and everything else the lease manager and the checkpointer      *)
(* append is one single record.  The one batch with several is that of a    *)
(* single-node boot, a grant for each group it finds unheld: a grant        *)
(* touches its own group's row only, so it is taken for one batch a grant.  *)
EXTENDS Naturals

CONSTANTS Node,    \* node ids; the code requires them to be nonzero
          Group,   \* lease groups
          NoNode   \* the node id 0

ASSUME NoNodeAssumption == NoNode \notin Node

(* Incarnations and batch ids start at 1; 0 stands for "none" in both, and  *)
(* epoch 0 for a group the chain never granted (a nil row in the code).     *)
Lease == [node : Node \cup {NoNode}, epoch : Nat, released : BOOLEAN, renew : Nat]

GrantSpan == [group : Group, epoch : Nat, pos : Nat]

Table == [groups  : [Group -> Lease],
          members : [Node -> Nat],          \* incarnation of the row, 0: no row
          grants  : SUBSET GrantSpan,
          ckpt    : Nat]

EmptyTable ==
  [groups  |-> [g \in Group |-> [node |-> NoNode, epoch |-> 0,
                                 released |-> FALSE, renew |-> 0]],
   members |-> [n \in Node |-> 0],
   grants  |-> {},
   ckpt    |-> 0]

Section == [group : Group, epoch : Nat]

Control ==
  [kind : {"none", "heartbeat"}]
    \cup [kind : {"grant"}, group : Group, node : Node, epoch : Nat]
    \cup [kind : {"release"}, group : Group, epoch : Nat]
    \cup [kind : {"join", "leave"}, node : Node, inc : Nat]
    \cup [kind : {"checkpoint"}, pos : Nat]

NoControl == [kind |-> "none"]

Batch == [writer : Node, inc : Nat, id : Nat, secs : SUBSET Section, ctl : Control]

(* The zero ChainBatch, which matches no object of the chain.               *)
NoBatch == [writer |-> NoNode, inc |-> 0, id |-> 0, secs |-> {}, ctl |-> NoControl]

----------------------------------------------------------------------------
Held(t, g) == t.groups[g].epoch # 0 /\ ~t.groups[g].released

HeldBy(t, n) == {g \in Group : Held(t, g) /\ t.groups[g].node = n}

NextEpoch(t, g) == t.groups[g].epoch + 1

----------------------------------------------------------------------------
(* A variant: a grant naming the epoch in force is taken too.               *)
ApplyGrantLoose(t, pos, r) ==
  IF r.epoch \notin {t.groups[r.group].epoch, t.groups[r.group].epoch + 1}
  THEN t
  ELSE [t EXCEPT !.groups[r.group] = [node |-> r.node, epoch |-> r.epoch,
                                      released |-> FALSE, renew |-> pos]]

(* A grant folds only at exactly the current epoch plus one.                *)
ApplyGrant(t, pos, r) ==
  IF r.epoch # t.groups[r.group].epoch + 1
  THEN t
  ELSE [t EXCEPT !.groups[r.group] = [node |-> r.node, epoch |-> r.epoch,
                                      released |-> FALSE, renew |-> pos],
                 !.grants = @ \cup {[group |-> r.group, epoch |-> r.epoch, pos |-> pos]}]

ApplyRelease(t, pos, w, r) ==
  IF /\ Held(t, r.group)
     /\ t.groups[r.group].epoch = r.epoch
     /\ t.groups[r.group].node = w
  THEN [t EXCEPT !.groups[r.group] = [@ EXCEPT !.released = TRUE, !.renew = pos]]
  ELSE t

RenewHeld(t, pos, w) ==
  [t EXCEPT !.groups = [g \in Group |->
     IF t.groups[g].node = w /\ ~t.groups[g].released
     THEN [t.groups[g] EXCEPT !.renew = pos]
     ELSE t.groups[g]]]

(* Both member records are guarded by the incarnation of the row.           *)
ApplyJoin(t, r) ==
  IF r.inc < t.members[r.node] THEN t ELSE [t EXCEPT !.members[r.node] = r.inc]

ApplyLeave(t, r) ==
  IF t.members[r.node] = 0 \/ r.inc < t.members[r.node]
  THEN t
  ELSE [t EXCEPT !.members[r.node] = 0]

ApplyCheckpoint(t, r) == IF t.ckpt < r.pos THEN [t EXCEPT !.ckpt = r.pos] ELSE t

(* A variant: the fence does not ask which incarnation writes.              *)
LiveSectionsEpochOnly(t, b) ==
  {s \in b.secs : /\ Held(t, s.group)
                  /\ t.groups[s.group].epoch = s.epoch
                  /\ t.groups[s.group].node = b.writer}

(* The fence of applyCommit: which sections of batch b fold.  A writer with *)
(* no member row skips the incarnation check.                               *)
LiveSections(t, b) ==
  {s \in b.secs : /\ t.members[b.writer] \in {0, b.inc}
                  /\ Held(t, s.group)
                  /\ t.groups[s.group].epoch = s.epoch
                  /\ t.groups[s.group].node = b.writer}

ApplyControl(t, pos, b) ==
  CASE b.ctl.kind = "grant"      -> ApplyGrant(t, pos, b.ctl)
    [] b.ctl.kind = "release"    -> ApplyRelease(t, pos, b.writer, b.ctl)
    [] b.ctl.kind = "heartbeat"  -> RenewHeld(t, pos, b.writer)
    [] b.ctl.kind = "join"       -> ApplyJoin(t, b.ctl)
    [] b.ctl.kind = "leave"      -> ApplyLeave(t, b.ctl)
    [] b.ctl.kind = "checkpoint" -> ApplyCheckpoint(t, b.ctl)
    [] OTHER                     -> t

(* Commits judge against the table and then renew the writer's leases, so   *)
(* every section of the batch meets the same epochs and holders.            *)
ApplyCommits(t, pos, b) == IF b.secs = {} THEN t ELSE RenewHeld(t, pos, b.writer)

ApplyBatch(t, pos, b) == ApplyControl(ApplyCommits(t, pos, b), pos, b)
============================================================================

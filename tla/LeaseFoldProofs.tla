--------------------------- MODULE LeaseFoldProofs --------------------------
(* What folding one batch does to a lease table, for every table, position  *)
(* and batch.                                                               *)
EXTENDS LeaseFold, TLAPS

(* A group's row only moves forward: its epoch never falls, and while the   *)
(* epoch stands still the node stays (applyGrant accepts only the current   *)
(* epoch plus one; applyRelease and renewHeld keep node and epoch).         *)
Advances(t, u) ==
  \A g \in Group :
    /\ t.groups[g].epoch <= u.groups[g].epoch
    /\ t.groups[g].epoch = u.groups[g].epoch => t.groups[g].node = u.groups[g].node

(* RenewHeld rewrites renewal positions only.                               *)
LEMMA RenewHeldFacts ==
  ASSUME NEW t \in Table, NEW pos \in Nat, NEW w \in Node
  PROVE  /\ RenewHeld(t, pos, w) \in Table
         /\ Advances(t, RenewHeld(t, pos, w))
         /\ RenewHeld(t, pos, w).members = t.members
<1> DEFINE u == RenewHeld(t, pos, w)
<1>1. /\ u.groups = [g \in Group |->
                       IF t.groups[g].node = w /\ ~t.groups[g].released
                       THEN [t.groups[g] EXCEPT !.renew = pos]
                       ELSE t.groups[g]]
      /\ u.members = t.members
      /\ u \in [groups : {u.groups}, members : [Node -> Nat], grants : SUBSET GrantSpan, ckpt : Nat]
  BY DEF RenewHeld, Table
<1>2. \A g \in Group : /\ u.groups[g] \in Lease
                       /\ u.groups[g].epoch = t.groups[g].epoch
                       /\ u.groups[g].node = t.groups[g].node
                       /\ t.groups[g].epoch \in Nat
  BY <1>1 DEF Table, Lease
<1>3. u.groups \in [Group -> Lease]
  BY <1>1, <1>2
<1>4. u \in Table
  BY <1>1, <1>3 DEF Table
<1>5. Advances(t, u)
  BY <1>2 DEF Advances
<1> QED
  BY <1>1, <1>4, <1>5

(* A table whose group rows are one typed update away from t's is a table.  *)
LEMMA RowUpdate ==
  ASSUME NEW t \in Table, NEW g \in Group, NEW l \in Lease, NEW u,
         u.groups = [t.groups EXCEPT ![g] = l],
         u \in [groups : {u.groups}, members : [Node -> Nat],
                grants : SUBSET GrantSpan, ckpt : Nat],
         t.groups[g].epoch <= l.epoch,
         t.groups[g].epoch = l.epoch => t.groups[g].node = l.node
  PROVE  u \in Table /\ Advances(t, u)
<1>1. \A h \in Group : t.groups[h] \in Lease /\ t.groups[h].epoch \in Nat
  BY DEF Table, Lease
<1>2. u.groups \in [Group -> Lease]
  BY <1>1 DEF Table
<1>3. u \in Table
  BY <1>2 DEF Table
<1>4. \A h \in Group : u.groups[h] = IF h = g THEN l ELSE t.groups[h]
  BY DEF Table
<1>5. Advances(t, u)
  BY <1>1, <1>4 DEF Advances
<1> QED
  BY <1>3, <1>5

(* A table always stands to itself as before to after.                      *)
LEMMA AdvancesSelf ==
  ASSUME NEW t \in Table, NEW u, u.groups = t.groups
  PROVE  Advances(t, u)
  BY DEF Advances, Table, Lease

(* A grant puts its node in the row at the next epoch or changes nothing.   *)
LEMMA ApplyGrantFacts ==
  ASSUME NEW t \in Table, NEW pos \in Nat,
         NEW r \in [kind : {"grant"}, group : Group, node : Node, epoch : Nat]
  PROVE  /\ ApplyGrant(t, pos, r) \in Table
         /\ Advances(t, ApplyGrant(t, pos, r))
         /\ ApplyGrant(t, pos, r).members = t.members
<1> DEFINE u == ApplyGrant(t, pos, r)
           l == [node |-> r.node, epoch |-> r.epoch, released |-> FALSE, renew |-> pos]
<1>1. CASE r.epoch # t.groups[r.group].epoch + 1
  BY <1>1, AdvancesSelf DEF ApplyGrant
<1>2. CASE r.epoch = t.groups[r.group].epoch + 1
  <2>1. l \in Lease /\ r.group \in Group /\ t.groups[r.group].epoch \in Nat
    BY DEF Lease, Table
  <2>2. /\ u.groups = [t.groups EXCEPT ![r.group] = l]
        /\ u.members = t.members
        /\ u.grants = t.grants \cup {[group |-> r.group, epoch |-> r.epoch, pos |-> pos]}
        /\ u \in [groups : {u.groups}, members : [Node -> Nat],
                  grants : {u.grants}, ckpt : Nat]
    BY <1>2 DEF ApplyGrant, Table
  <2>3. u.grants \subseteq GrantSpan
    BY <2>2 DEF Table, GrantSpan
  <2>4. u \in [groups : {u.groups}, members : [Node -> Nat],
               grants : SUBSET GrantSpan, ckpt : Nat]
    BY <2>2, <2>3
  <2>5. t.groups[r.group].epoch < l.epoch
    BY <1>2, <2>1
  <2> HIDE DEF u, l
  <2>6. u \in Table /\ Advances(t, u)
    <3>1. l.epoch \in Nat
      BY <2>1 DEF Lease
    <3> QED BY <2>1, <2>2, <2>4, <2>5, <3>1, RowUpdate
  <2> QED
    BY <2>2, <2>6 DEF u
<1> QED
  BY <1>1, <1>2

(* A release keeps the node and the epoch of the row.                       *)
LEMMA ApplyReleaseFacts ==
  ASSUME NEW t \in Table, NEW pos \in Nat, NEW w \in Node,
         NEW r \in [kind : {"release"}, group : Group, epoch : Nat]
  PROVE  /\ ApplyRelease(t, pos, w, r) \in Table
         /\ Advances(t, ApplyRelease(t, pos, w, r))
         /\ ApplyRelease(t, pos, w, r).members = t.members
<1> DEFINE u == ApplyRelease(t, pos, w, r)
           l == [t.groups[r.group] EXCEPT !.released = TRUE, !.renew = pos]
<1>1. CASE u = t
  BY <1>1, AdvancesSelf
<1>2. CASE u # t
  <2>1. /\ l \in Lease /\ r.group \in Group
        /\ t.groups[r.group].epoch \in Nat
        /\ l.epoch = t.groups[r.group].epoch
        /\ l.node = t.groups[r.group].node
    BY ZenonT(60) DEF Lease, Table
  <2>2. u = [t EXCEPT !.groups[r.group] = l]
    BY <1>2 DEF ApplyRelease
  <2> HIDE DEF u, l
  <2>3. /\ u.groups = [t.groups EXCEPT ![r.group] = l]
        /\ u.members = t.members
        /\ u \in [groups : {u.groups}, members : [Node -> Nat],
                  grants : SUBSET GrantSpan, ckpt : Nat]
    BY <2>2 DEF Table
  <2>4. u \in Table /\ Advances(t, u)
    BY <2>1, <2>3, RowUpdate
  <2> QED
    BY <2>3, <2>4 DEF u
<1> QED
  BY <1>1, <1>2

(* Member records touch one row of the member table and no lease; a join    *)
(* leaves its node's row at the joining incarnation or above.               *)
LEMMA ApplyMemberFacts ==
  ASSUME NEW t \in Table,
         NEW r \in [kind : {"join", "leave"}, node : Node, inc : Nat]
  PROVE  /\ ApplyJoin(t, r) \in Table /\ ApplyLeave(t, r) \in Table
         /\ Advances(t, ApplyJoin(t, r)) /\ Advances(t, ApplyLeave(t, r))
         /\ r.inc <= ApplyJoin(t, r).members[r.node]
         /\ \A n \in Node : t.members[n] <= ApplyJoin(t, r).members[n]
         /\ \A n \in Node \ {r.node} : ApplyLeave(t, r).members[n] = t.members[n]
<1>1. ApplyJoin(t, r) \in Table /\ ApplyLeave(t, r) \in Table
  BY DEF ApplyJoin, ApplyLeave, Table
<1>2. ApplyJoin(t, r).groups = t.groups /\ ApplyLeave(t, r).groups = t.groups
  BY DEF ApplyJoin, ApplyLeave, Table
<1>3. Advances(t, ApplyJoin(t, r)) /\ Advances(t, ApplyLeave(t, r))
  BY <1>2, AdvancesSelf
<1>4. /\ r.inc <= ApplyJoin(t, r).members[r.node]
      /\ \A n \in Node : t.members[n] <= ApplyJoin(t, r).members[n]
      /\ \A n \in Node \ {r.node} : ApplyLeave(t, r).members[n] = t.members[n]
  BY DEF ApplyJoin, ApplyLeave, Table
<1> QED
  BY <1>1, <1>3, <1>4

(* A checkpoint record touches neither leases nor members.                  *)
LEMMA ApplyCheckpointFacts ==
  ASSUME NEW t \in Table, NEW r \in [kind : {"checkpoint"}, pos : Nat]
  PROVE  /\ ApplyCheckpoint(t, r) \in Table
         /\ Advances(t, ApplyCheckpoint(t, r))
         /\ ApplyCheckpoint(t, r).members = t.members
<1>1. /\ ApplyCheckpoint(t, r) \in Table
      /\ ApplyCheckpoint(t, r).members = t.members
      /\ ApplyCheckpoint(t, r).groups = t.groups
  BY DEF ApplyCheckpoint, Table
<1> QED
  BY <1>1, AdvancesSelf

(* Moving forward composes.                                                 *)
LEMMA AdvancesTrans ==
  ASSUME NEW t \in Table, NEW u \in Table, NEW v \in Table,
         Advances(t, u), Advances(u, v)
  PROVE  Advances(t, v)
<1>1. \A g \in Group : /\ t.groups[g].epoch \in Nat
                       /\ u.groups[g].epoch \in Nat
                       /\ v.groups[g].epoch \in Nat
  BY DEF Table, Lease
<1> QED
  BY <1>1 DEF Advances

(* The effect of a batch's control record, by its kind.                     *)
MemberStep(t, u, b) ==
  /\ \A n \in Node : ~(b.ctl.kind = "leave" /\ b.ctl.node = n) => t.members[n] <= u.members[n]
  /\ b.ctl.kind = "join" => b.ctl.inc <= u.members[b.ctl.node]

LEMMA ApplyControlFacts ==
  ASSUME NEW t \in Table, NEW pos \in Nat, NEW b \in Batch
  PROVE  /\ ApplyControl(t, pos, b) \in Table
         /\ Advances(t, ApplyControl(t, pos, b))
         /\ MemberStep(t, ApplyControl(t, pos, b), b)
<1> DEFINE u == ApplyControl(t, pos, b)
<1>1. b.ctl \in Control /\ b.writer \in Node
  BY DEF Batch
<1>2. \A n \in Node : t.members[n] \in Nat
  BY DEF Table
<1>3. CASE b.ctl.kind = "grant"
  <2>1. b.ctl \in [kind : {"grant"}, group : Group, node : Node, epoch : Nat]
    BY <1>1, <1>3 DEF Control
  <2>2. u = ApplyGrant(t, pos, b.ctl)
    BY <1>3 DEF ApplyControl
  <2> QED
    BY <1>2, <1>3, <2>1, <2>2, ApplyGrantFacts DEF MemberStep
<1>4. CASE b.ctl.kind = "release"
  <2>1. b.ctl \in [kind : {"release"}, group : Group, epoch : Nat]
    BY <1>1, <1>4 DEF Control
  <2>2. u = ApplyRelease(t, pos, b.writer, b.ctl)
    BY <1>4 DEF ApplyControl
  <2> QED
    BY <1>1, <1>2, <1>4, <2>1, <2>2, ApplyReleaseFacts DEF MemberStep
<1>5. CASE b.ctl.kind = "heartbeat"
  <2>1. u = RenewHeld(t, pos, b.writer)
    BY <1>5 DEF ApplyControl
  <2> QED
    BY <1>1, <1>2, <1>5, <2>1, RenewHeldFacts DEF MemberStep
<1>6. CASE b.ctl.kind \in {"join", "leave"}
  <2>1. b.ctl \in [kind : {"join", "leave"}, node : Node, inc : Nat]
    BY <1>1, <1>6 DEF Control
  <2>2. u = IF b.ctl.kind = "join" THEN ApplyJoin(t, b.ctl) ELSE ApplyLeave(t, b.ctl)
    BY <1>6 DEF ApplyControl
  <2>3. u \in Table /\ Advances(t, u)
    BY <2>1, <2>2, ApplyMemberFacts
  <2>4. MemberStep(t, u, b)
    BY <1>2, <1>6, <2>1, <2>2, ApplyMemberFacts, SMTT(30) DEF MemberStep
  <2> QED
    BY <2>3, <2>4
<1>7. CASE b.ctl.kind = "checkpoint"
  <2>1. b.ctl \in [kind : {"checkpoint"}, pos : Nat]
    BY <1>1, <1>7 DEF Control
  <2>2. u = ApplyCheckpoint(t, b.ctl)
    BY <1>7 DEF ApplyControl
  <2> QED
    BY <1>2, <1>7, <2>1, <2>2, ApplyCheckpointFacts DEF MemberStep
<1>8. CASE b.ctl.kind = "none"
  <2>1. u = t
    BY <1>8 DEF ApplyControl
  <2> QED
    BY <1>2, <1>8, <2>1, AdvancesSelf DEF MemberStep
<1>9. b.ctl.kind \in {"none", "heartbeat", "grant", "release", "join", "leave", "checkpoint"}
  BY <1>1 DEF Control
<1> QED
  BY <1>3, <1>4, <1>5, <1>6, <1>7, <1>8, <1>9

(* Folding a batch yields a table, moves every row forward, keeps the       *)
(* member rows of nodes that do not leave in it from falling, and leaves a  *)
(* joining node's row at the joining incarnation or above.                  *)
THEOREM ApplyBatchFacts ==
  ASSUME NEW t \in Table, NEW pos \in Nat, NEW b \in Batch
  PROVE  /\ ApplyBatch(t, pos, b) \in Table
         /\ Advances(t, ApplyBatch(t, pos, b))
         /\ MemberStep(t, ApplyBatch(t, pos, b), b)
<1> DEFINE u == ApplyCommits(t, pos, b)
<1>1. u \in Table /\ Advances(t, u) /\ u.members = t.members
  BY RenewHeldFacts, AdvancesSelf DEF ApplyCommits, Batch
<1> HIDE DEF u
<1>2. /\ ApplyControl(u, pos, b) \in Table
      /\ Advances(u, ApplyControl(u, pos, b))
      /\ MemberStep(u, ApplyControl(u, pos, b), b)
  BY <1>1, ApplyControlFacts
<1>3. ApplyBatch(t, pos, b) = ApplyControl(u, pos, b)
  BY DEF ApplyBatch, u
<1>4. Advances(t, ApplyControl(u, pos, b))
  BY <1>1, <1>2, AdvancesTrans
<1>5. MemberStep(t, ApplyControl(u, pos, b), b)
  BY <1>1, <1>2 DEF MemberStep
<1> QED
  BY <1>2, <1>3, <1>4, <1>5
============================================================================

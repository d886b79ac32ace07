----------------------- MODULE CheckpointStoreProofs -----------------------
(* The alternating superblocks keep the committed root through any crash,   *)
(* for any ring, keys, bounds and crash model: RootInv is inductive and     *)
(* implies RootSurvives.                                                    *)
EXTENDS CheckpointStore, TLAPS

(* Consecutive roots go into different slots.                               *)
LEMMA SlotsAlternate ==
  /\ slotOff(0) = 0 /\ slotOff(1) = 1 /\ slotOff(2) = 0
  /\ \A n \in Nat : slotOff(n) \in 0..1 /\ slotOff(n + 1) \in 0..1
                    /\ slotOff(n + 1) # slotOff(n)
  BY DEF slotOff

(* A slot that lands torn, or without its pages, still says whether it      *)
(* verifies.                                                                *)
LEMMA LandingTypes ==
  ASSUME NEW s
  PROVE  /\ Landing(s, FALSE, TRUE).ok \in BOOLEAN
         /\ Landing(s, TRUE, FALSE).ok \in BOOLEAN
  BY DEF Landing

(* ReadSuperblock returns a slot that verifies and none above it.           *)
LEMMA SurvivorIsHighest ==
  ASSUME NEW f, f[0].ok \/ f[1].ok,
         \A i \in 0..1 : f[i].seq \in Nat
  PROVE  \E i \in 0..1 :
           /\ (CHOOSE s \in {f[0], f[1]} :
                 s.ok /\ \A t \in {f[0], f[1]} : t.ok => t.seq <= s.seq) = f[i]
           /\ f[i].ok
           /\ \A j \in 0..1 : f[j].ok => f[j].seq <= f[i].seq
<1> DEFINE S == {f[0], f[1]}
           Best(s) == s.ok /\ \A t \in S : t.ok => t.seq <= s.seq
<1>1. \E s \in S : Best(s)
  <2>1. CASE f[0].ok /\ (f[1].ok => f[1].seq <= f[0].seq)
    BY <2>1
  <2>2. CASE f[1].ok /\ (f[0].ok => f[0].seq <= f[1].seq)
    BY <2>2
  <2> QED
    BY <2>1, <2>2
<1>2. PICK s \in S : s = (CHOOSE r \in S : Best(r)) /\ Best(s)
  BY <1>1
<1> QED
  BY <1>2

(* The store's own slots, now and after a step.                             *)
LEMMA Survivor ==
  RootInv => \E i \in 0..1 : /\ ReadSuperblock = slots[i] /\ slots[i].ok
                             /\ \A j \in 0..1 : slots[j].ok => slots[j].seq <= slots[i].seq
  BY SurvivorIsHighest DEF RootInv, SlotInv, Openable, ReadSuperblock

LEMMA SurvivorNext ==
  RootInv' => \E i \in 0..1 : /\ ReadSuperblock' = slots'[i] /\ slots'[i].ok
                              /\ \A j \in 0..1 : slots'[j].ok => slots'[j].seq <= slots'[i].seq
<1> SUFFICES ASSUME RootInv'
             PROVE  \E i \in 0..1 : /\ ReadSuperblock' = slots'[i] /\ slots'[i].ok
                                    /\ \A j \in 0..1 : slots'[j].ok => slots'[j].seq <= slots'[i].seq
  OBVIOUS
<1>1. /\ slots'[0].ok \/ slots'[1].ok
      /\ \A i \in 0..1 : slots'[i].seq \in Nat
  BY DEF RootInv, SlotInv, Openable
<1>2. ReadSuperblock' = (CHOOSE s \in {slots'[0], slots'[1]} :
                           s.ok /\ \A t \in {slots'[0], slots'[1]} : t.ok => t.seq <= s.seq)
  BY DEF ReadSuperblock
<1> QED
  BY <1>1, <1>2, SurvivorIsHighest

(* Steps that change neither the slots nor the root in force, and keep the  *)
(* store up in a part of an operation with no claim of its own.             *)
LEMMA RootUntouched ==
  ASSUME RootInv, UNCHANGED <<slots, dslots, sb, mode>>,
         pc \notin {"written", "committed"}, pc' \notin {"written", "committed"},
         pc' \in {"drained", "paged"} => pc \in {"drained", "paged"}
  PROVE  RootInv'
  BY DEF RootInv, SlotInv, SyncInv, ForceInv, Openable

(* A process that ends without the machine leaves the slots as they are.    *)
LEMMA StopKeepsRoot ==
  ASSUME RootInv, mode' = "down", sb'.seq = 0, UNCHANGED <<slots, dslots>>
  PROVE  RootInv'
  BY DEF RootInv, SlotInv, SyncInv, Openable

(* Of the slots a power cut leaves, each is the durable one, the written    *)
(* one or a torn one, and only the slot that was not synced is in doubt.    *)
LEMMA Outcomes ==
  ASSUME NEW i \in 0..1, NEW s \in SlotOutcomes(i)
  PROVE  /\ slots[i] = dslots[i] => s = dslots[i]
         /\ \/ s = dslots[i] \/ s = slots[i]
            \/ s.seq = slots[i].seq /\ s.ok \in BOOLEAN
<1>1. slots[i] = dslots[i] => s = dslots[i]
  BY DEF SlotOutcomes
<1>2. \/ s = dslots[i] \/ s = slots[i]
      \/ s = Landing(slots[i], FALSE, TRUE) \/ s = Landing(slots[i], TRUE, FALSE)
  BY Zenon DEF SlotOutcomes
<1>3. \A r : Landing(r, FALSE, TRUE).seq = r.seq /\ Landing(r, TRUE, FALSE).seq = r.seq
  BY DEF Landing
<1> QED
  BY <1>1, <1>2, <1>3, LandingTypes, Zenon

(* A power cut keeps the invariant.                                         *)
LEMMA CutKeepsRoot ==
  ASSUME RootInv, PowerCut
  PROVE  /\ RootInv'
         /\ dslots' = slots'
         /\ \A i \in 0..1 : slots'[i] \in SlotOutcomes(i)
<1>1. PICK a \in SlotOutcomes(0), b \in SlotOutcomes(1) :
        slots' = [i \in 0..1 |-> IF i = 0 THEN a ELSE b] /\ dslots' = slots'
  BY DEF PowerCut
<1>2. mode' = "down" /\ sb'.seq = 0
  BY DEF PowerCut, Down
<1>3. DOMAIN slots' = 0..1 /\ \A i \in 0..1 : slots'[i] \in SlotOutcomes(i)
  BY <1>1
<1>4. \A i \in 0..1 : slots'[i].seq \in Nat /\ slots'[i].ok \in BOOLEAN
                      /\ (slots'[i].seq # 1 => slotOff(slots'[i].seq) = i)
  <2> SUFFICES ASSUME NEW i \in 0..1
               PROVE  /\ slots'[i].seq \in Nat /\ slots'[i].ok \in BOOLEAN
                      /\ (slots'[i].seq # 1 => slotOff(slots'[i].seq) = i)
    OBVIOUS
  <2>1. \/ slots'[i] = dslots[i] \/ slots'[i] = slots[i]
        \/ slots'[i].seq = slots[i].seq /\ slots'[i].ok \in BOOLEAN
    BY <1>3, Outcomes
  <2>2. /\ slots[i].seq \in Nat /\ slots[i].ok \in BOOLEAN
        /\ slots[i].seq # 1 => slotOff(slots[i].seq) = i
        /\ dslots[i].seq \in Nat /\ dslots[i].ok \in BOOLEAN
        /\ dslots[i].seq # 1 => slotOff(dslots[i].seq) = i
    BY DEF RootInv, SlotInv
  <2> QED
    BY <2>1, <2>2, Zenon
<1>5. slots'[0].seq = 1 => slots'[1].ok /\ slots'[1].seq = 1
  <2> SUFFICES ASSUME slots'[0].seq = 1 PROVE slots'[1].ok /\ slots'[1].seq = 1
    OBVIOUS
  <2>1. slots[0].seq = 1 \/ dslots[0].seq = 1
    BY <1>3, Outcomes
  <2>2. slots[1] = dslots[1]
    <3>1. slots[1] # dslots[1] => slots[1].seq = slots[0].seq + 1 /\ slots[0] = dslots[0]
      BY DEF RootInv, SyncInv
    <3>2. slots[1].seq # 2
      BY SlotsAlternate DEF RootInv, SlotInv
    <3> QED
      BY <2>1, <3>1, <3>2
  <2>3. slots'[1] = dslots[1]
    BY <1>3, <2>2, Outcomes
  <2> QED
    BY <2>1, <2>2, <2>3 DEF RootInv, SlotInv
<1>6. slots'[0].ok \/ slots'[1].ok
  <2>1. CASE slots[0] # dslots[0]
    <3>1. slots[1] = dslots[1] /\ slots[1].ok
      BY <2>1 DEF RootInv, SyncInv
    <3> QED
      BY <3>1, <1>3, Outcomes
  <2>2. CASE slots[1] # dslots[1]
    <3>1. slots[0] = dslots[0] /\ slots[0].ok
      BY <2>2 DEF RootInv, SyncInv
    <3> QED
      BY <3>1, <1>3, Outcomes
  <2>3. CASE slots[0] = dslots[0] /\ slots[1] = dslots[1]
    BY <2>3, <1>3, Outcomes DEF RootInv, Openable
  <2> QED
    BY <2>1, <2>2, <2>3
<1>7. RootInv'
  BY <1>1, <1>2, <1>3, <1>4, <1>5, <1>6 DEF RootInv, SlotInv, SyncInv, Openable
<1> QED
  BY <1>1, <1>3, <1>7

(* The new store's two slots are the creation roots.                        *)
LEMMA RootInit == Init => RootInv
<1> SUFFICES ASSUME Init PROVE RootInv
  OBVIOUS
<1>1. slots = [i \in 0..1 |-> Creation] /\ dslots = slots /\ sb.seq = 1
      /\ mode = "up" /\ pc = "idle"
  BY DEF Init
<1>2. Creation.ok = TRUE /\ Creation.seq = 1
  BY DEF Creation
<1>3. DOMAIN slots = 0..1 /\ \A i \in 0..1 : slots[i].ok = TRUE /\ slots[i].seq = 1
  BY <1>1, <1>2
<1>4. \A i \in 0..1 : slots[i].ok \in BOOLEAN
  BY <1>3, Zenon
<1>5. SlotInv(slots) /\ SlotInv(dslots)
  BY <1>1, <1>3, <1>4 DEF SlotInv
<1> QED
  BY <1>1, <1>3, <1>5, SlotsAlternate DEF RootInv, SyncInv, ForceInv, Openable

(* Opening takes the survivor as the root in force.                         *)
LEMMA OpenKeepsRoot ==
  ASSUME RootInv, NEW n, Open(n)
  PROVE  RootInv'
<1>1. /\ UNCHANGED <<slots, dslots>>
      /\ pc' = "idle" /\ sb'.seq = ReadSuperblock.seq
  BY DEF Open
<1>2. PICK i \in 0..1 : /\ ReadSuperblock = slots[i] /\ slots[i].ok
                        /\ \A j \in 0..1 : slots[j].ok => slots[j].seq <= slots[i].seq
  BY Survivor
<1>3. slots[slotOff(slots[i].seq)].ok /\ slots[slotOff(slots[i].seq)].seq = slots[i].seq
  <2>1. CASE slots[i].seq # 1
    BY <1>2, <2>1 DEF RootInv, SlotInv
  <2>2. CASE slots[i].seq = 1
    <3>1. slots[1].ok /\ slots[1].seq = 1
      BY <1>2, <2>2 DEF RootInv, SlotInv
    <3> QED
      BY <3>1, <2>2, SlotsAlternate
  <2> QED
    BY <2>1, <2>2
<1>4. ForceInv'
  BY <1>1, <1>2, <1>3 DEF ForceInv
<1>5. sb'.seq \in Nat
  BY <1>1, <1>2 DEF RootInv, SlotInv
<1> QED
  BY <1>1, <1>4, <1>5 DEF RootInv, SlotInv, SyncInv, Openable

(* The sync of Drain: what a killed process left unsynced is made durable.  *)
LEMMA DrainKeepsRoot ==
  ASSUME RootInv, CkptDrain
  PROVE  RootInv'
<1>1. /\ mode = "up" /\ pc = "idle" /\ pc' = "drained" /\ dslots' = slots
      /\ UNCHANGED <<sb, slots, mode>>
  BY DEF CkptDrain
<1> QED
  BY <1>1 DEF RootInv, SlotInv, SyncInv, ForceInv, Openable

(* The write of CommitSuperblock goes to the other slot.                    *)
LEMMA WriteKeepsRoot ==
  ASSUME RootInv, CkptWrite
  PROVE  RootInv'
<1> DEFINE old == slotOff(sb.seq)
           new == slotOff(sb.seq + 1)
           rec == [seq |-> sb.seq + 1, trim |-> target, root |-> ram,
                   ok |-> TRUE, pages |-> TRUE]
<1>1. old \in 0..1 /\ new \in 0..1 /\ old # new /\ sb.seq \in Nat
      /\ \A i \in 0..1 : i = old \/ i = new
  BY SlotsAlternate DEF RootInv
<1>2. /\ mode = "up" /\ pc = "paged" /\ pc' = "written"
      /\ slots' = [slots EXCEPT ![new] = rec]
      /\ UNCHANGED <<sb, dslots, mode>>
  BY DEF CkptWrite
<1>3. slots = dslots /\ slots[old].ok /\ slots[old].seq = sb.seq
      /\ \A i \in 0..1 : slots[i].ok => slots[i].seq <= sb.seq
  BY <1>2 DEF RootInv, ForceInv
<1>4. DOMAIN slots' = 0..1 /\ slots'[new] = rec /\ slots'[old] = slots[old]
  BY <1>1, <1>2 DEF RootInv, SlotInv
<1>5. slots'[new].ok /\ slots'[new].ok \in BOOLEAN /\ slots'[new].seq = sb.seq + 1
  BY <1>4
<1> HIDE DEF rec
<1>6. \A i \in 0..1 : /\ slots'[i].seq \in Nat /\ slots'[i].ok \in BOOLEAN
                      /\ slots'[i].seq # 1 => slotOff(slots'[i].seq) = i
  <2>1. slots'[new].seq \in Nat /\ slotOff(slots'[new].seq) = new
    BY <1>1, <1>5
  <2>2. /\ slots'[old].seq \in Nat /\ slots'[old].ok \in BOOLEAN
        /\ slots'[old].seq # 1 => slotOff(slots'[old].seq) = old
    BY <1>1, <1>4 DEF RootInv, SlotInv
  <2> QED
    BY <1>1, <1>5, <2>1, <2>2, Zenon
<1>7. slots'[0].seq # 1
  <2>1. CASE new = 0
    BY <1>1, <1>5, <2>1, SlotsAlternate
  <2>2. CASE old = 0
    BY <1>1, <1>3, <1>4, <2>2, SlotsAlternate
  <2> QED
    BY <1>1, <2>1, <2>2
<1>8. SlotInv(slots)'
  BY <1>4, <1>6, <1>7 DEF SlotInv
<1>9. SyncInv'
  <2> SUFFICES ASSUME NEW i \in 0..1, NEW j \in 0..1, i # j, slots'[i] # dslots'[i]
               PROVE  /\ slots'[i].ok /\ slots'[i].seq = slots'[j].seq + 1
                      /\ slots'[j] = dslots'[j] /\ slots'[j].ok
                      /\ dslots'[i].ok => dslots'[i].seq <= slots'[j].seq
    BY DEF SyncInv
  <2>1. i = new /\ j = old
    BY <1>1, <1>2, <1>3, <1>4
  <2> QED
    BY <1>2, <1>3, <1>4, <1>5, <2>1
<1>10. ForceInv'
  BY <1>1, <1>2, <1>3, <1>4, <1>5 DEF ForceInv
<1>11. Openable'
  BY <1>1, <1>5 DEF Openable
<1> QED
  BY <1>1, <1>2, <1>8, <1>9, <1>10, <1>11 DEF RootInv

(* The sync of CommitSuperblock, and the end of a checkpoint.               *)
LEMMA CommitKeepsRoot ==
  ASSUME RootInv, CkptCommit \/ CkptFinish
  PROVE  RootInv'
<1> DEFINE old == slotOff(sb.seq)
           new == slotOff(sb.seq + 1)
<1>1. old \in 0..1 /\ new \in 0..1 /\ old # new /\ sb.seq \in Nat
      /\ \A i \in 0..1 : i = old \/ i = new
  BY SlotsAlternate DEF RootInv
<1>2. CASE CkptCommit
  <2>1. /\ mode = "up" /\ pc = "written" /\ pc' = "committed" /\ dslots' = slots
        /\ UNCHANGED <<sb, slots, mode>>
    BY <1>2 DEF CkptCommit
  <2> QED
    BY <2>1 DEF RootInv, SlotInv, SyncInv, ForceInv, Openable
<1>3. CASE CkptFinish
  <2>1. /\ mode = "up" /\ pc = "committed" /\ pc' = "idle" /\ sb'.seq = sb.seq + 1
        /\ UNCHANGED <<slots, dslots, mode>>
    BY <1>3 DEF CkptFinish
  <2>2. /\ slots[old].seq = sb.seq /\ slots[new].ok /\ slots[new].seq = sb.seq + 1
    BY <2>1 DEF RootInv, ForceInv
  <2>3. \A i \in 0..1 : slots[i].seq <= sb.seq + 1
    BY <1>1, <2>2
  <2>4. ForceInv'
    BY <2>1, <2>2, <2>3 DEF ForceInv
  <2> QED
    BY <1>1, <2>1, <2>4 DEF RootInv, SlotInv, SyncInv, Openable
<1> QED
  BY <1>2, <1>3

(* RootInv is inductive.                                                    *)
LEMMA RootStep ==
  ASSUME RootInv, [Next]_vars
  PROVE  RootInv'
<1>1. CASE UNCHANGED vars
  BY <1>1 DEF vars, rootVars, RootInv, SlotInv, SyncInv, ForceInv, Openable
<1>2. CASE \E keys \in SUBSET Key \ {{}}, bumps \in 0..1 : ApplyBatch(keys, bumps)
  BY <1>2, RootUntouched DEF ApplyBatch, Emit, rootVars
<1>3. CASE GenBump \/ MintLease
  BY <1>3, RootUntouched DEF GenBump, MintLease, Emit, rootVars
<1>4. CASE \E n \in 0..1 : SyncAndApply(n) \/ CkptFlush(n)
  BY <1>4, RootUntouched DEF SyncAndApply, CkptFlush, rootVars
<1>5. CASE \E n \in 0..1 : Open(n)
  BY <1>5, OpenKeepsRoot
<1>6. CASE CkptDrain \/ CkptWrite
  BY <1>6, DrainKeepsRoot, WriteKeepsRoot
<1>7. CASE CkptCommit \/ CkptFinish
  BY <1>7, CommitKeepsRoot
<1>8. CASE Kill \/ Close
  BY <1>8, StopKeepsRoot DEF Kill, Close, Down
<1>9. CASE PowerCut
  BY <1>9, CutKeepsRoot
<1> QED
  BY <1>1, <1>2, <1>3, <1>4, <1>5, <1>6, <1>7, <1>8, <1>9 DEF Next

(* The slots obey RootInv in every reachable state.                         *)
THEOREM RootInductive == Spec => []RootInv
  BY RootInit, RootStep, PTL DEF Spec

(* Only a crash or a close takes the store down, or happens to one that is  *)
(* down.                                                                    *)
LEMMA GoingDown ==
  ASSUME RootInv, Next, mode' = "down"
  PROVE  Kill \/ PowerCut \/ Close
<1>1. ASSUME NEW fs PROVE ~Emit(fs)
  BY DEF Emit
<1>2. ~(\E keys \in SUBSET Key \ {{}}, bumps \in 0..1 : ApplyBatch(keys, bumps))
      /\ ~GenBump /\ ~MintLease
  BY <1>1, Zenon DEF ApplyBatch, GenBump, MintLease
<1>3. \A n \in 0..1 : ~SyncAndApply(n) /\ ~CkptFlush(n) /\ ~Open(n)
  BY DEF SyncAndApply, CkptFlush, Open
<1>4. ~CkptDrain /\ ~CkptWrite /\ ~CkptCommit /\ ~CkptFinish
  BY DEF CkptDrain, CkptWrite, CkptCommit, CkptFinish
<1> QED
  BY <1>2, <1>3, <1>4 DEF Next

(* Whatever a crash leaves, some slot that verifies is at or above every    *)
(* root that was durable.                                                   *)
LEMMA DurableBelow ==
  ASSUME RootInv, Kill \/ PowerCut \/ Close, NEW i \in 0..1, dslots[i].ok
  PROVE  \E j \in 0..1 : slots'[j].ok /\ dslots[i].seq <= slots'[j].seq
<1>1. \A k \in 0..1 : slots[k] = dslots[k] => slots'[k] = dslots[k]
  <2>1. CASE Kill \/ Close
    BY <2>1 DEF Kill, Close
  <2>2. CASE PowerCut
    <3>1. \A k \in 0..1 : slots'[k] \in SlotOutcomes(k)
      BY <2>2, CutKeepsRoot
    <3> QED
      BY <3>1, Outcomes
  <2> QED
    BY <2>1, <2>2
<1>2. dslots[i].seq \in Nat
  BY DEF RootInv, SlotInv
<1>3. CASE slots[i] = dslots[i]
  BY <1>1, <1>2, <1>3
<1>4. CASE slots[i] # dslots[i]
  <2>1. PICK j \in 0..1 : j # i
    OBVIOUS
  <2>2. slots[j] = dslots[j] /\ slots[j].ok /\ dslots[i].seq <= slots[j].seq
    BY <1>4, <2>1 DEF RootInv, SyncInv
  <2> QED
    BY <1>1, <2>2
<1> QED
  BY <1>3, <1>4

(* A crash at any step of a checkpoint or after it, whichever writes it     *)
(* loses or tears, leaves a superblock to open, and none that was durable   *)
(* is above the one ReadSuperblock picks.                                   *)
THEOREM CommittedRootSurvives == Spec => RootSurvives
<1>1. RootInv /\ RootInv' /\ [Next]_vars =>
        [mode' = "down" =>
           /\ Openable'
           /\ \A i \in 0..1 : dslots[i].ok => dslots[i].seq <= ReadSuperblock'.seq]_vars
  <2> SUFFICES ASSUME RootInv, RootInv', Next, mode' = "down"
               PROVE  /\ Openable'
                      /\ \A i \in 0..1 : dslots[i].ok => dslots[i].seq <= ReadSuperblock'.seq
    OBVIOUS
  <2>1. Kill \/ PowerCut \/ Close
    BY GoingDown
  <2>2. PICK i \in 0..1 : /\ ReadSuperblock' = slots'[i] /\ slots'[i].ok
                          /\ \A j \in 0..1 : slots'[j].ok => slots'[j].seq <= slots'[i].seq
    BY SurvivorNext
  <2>3. \A k \in 0..1 : slots'[k].seq \in Nat /\ dslots[k].seq \in Nat
    BY DEF RootInv, SlotInv
  <2>4. ASSUME NEW k \in 0..1, dslots[k].ok
        PROVE  dslots[k].seq <= ReadSuperblock'.seq
    <3>1. PICK j \in 0..1 : slots'[j].ok /\ dslots[k].seq <= slots'[j].seq
      BY <2>1, <2>4, DurableBelow
    <3> QED
      BY <2>2, <2>3, <3>1
  <2> QED
    BY <2>4 DEF RootInv
<1> QED
  BY <1>1, RootInductive, PTL DEF Spec, RootSurvives

=============================================================================

------------------------- MODULE CommitChainProofs -------------------------
(* The commit chain's safety properties hold for any nodes, groups, record  *)
(* kinds and bounds: IndInv is inductive and implies them.                  *)
EXTENDS CommitChain, LeaseFoldProofs

(* Who a process is: a node and an incarnation, and no two are the same.    *)
LEMMA ProcFacts ==
  /\ \A p \in Proc : Writer(p) \in Node /\ Inc(p) \in Seqs
  /\ \A p, q \in Proc : Writer(p) = Writer(q) /\ Inc(p) = Inc(q) => p = q
  BY BoundsAssumption DEF Proc, Writer, Inc, Seqs

(* What Append is handed is well typed.                                     *)
LEMMA RecordsType ==
  ASSUME TypeOK, NEW n \in Proc, NEW r \in Records(n)
  PROVE  r[1] \in SUBSET Section /\ r[2] \in Control
<1>1. /\ Writer(n) \in Node /\ Inc(n) \in Nat
      /\ tail[n] \in Nat /\ fold[n] \in Table
  BY ProcFacts DEF TypeOK, Seqs
<1>2. \A g \in Group : fold[n].groups[g].epoch \in Nat
  BY <1>1 DEF Table, Lease
<1>3. Sections(n) \subseteq Section
  BY <1>2 DEF Sections, Section
<1>4. Grants(n) \subseteq Control
  BY <1>1, <1>2 DEF Grants, Control, NextEpoch
<1>5. Releases(n) \subseteq Control
  BY <1>2 DEF Releases, Control
<1>6. Identity(n) \subseteq Control
  BY <1>1 DEF Identity, Control
<1>7. Checkpoints(n) \subseteq Control
  BY <1>1 DEF Checkpoints, Control
<1>8. NoControl \in Control /\ [kind |-> "heartbeat"] \in Control
  BY DEF NoControl, Control
<1>9. Controls(n) \subseteq Control
  BY <1>4, <1>5, <1>6, <1>7, <1>8 DEF Controls
<1> QED
  BY <1>3, <1>8, <1>9 DEF Records

(* The store's create puts one batch at one key, and one table beside it.   *)
LEMMA CreateFacts ==
  ASSUME TypeOK, NEW s \in Seqs, NEW b \in Batch,
         s - 1 \in DOMAIN canon, Absent(s), Create(s, b)
  PROVE  /\ DOMAIN bucket' = DOMAIN bucket \cup {s}
         /\ bucket'[s] = b
         /\ \A k \in DOMAIN bucket : bucket'[k] = bucket[k]
         /\ DOMAIN canon' = DOMAIN bucket' \cup {0}
         /\ canon'[s] = ApplyBatch(canon[s - 1], s, b)
         /\ canon'[s] \in Table
         /\ \A k \in DOMAIN canon : canon'[k] = canon[k]
<1>1. canon[s - 1] \in Table /\ s \in Nat /\ s # 0 /\ s \notin DOMAIN canon
  BY DEF TypeOK, Seqs, Absent
<1>2. ApplyBatch(canon[s - 1], s, b) \in Table
  BY <1>1, ApplyBatchFacts
<1> QED
  BY <1>1, <1>2 DEF Create, TypeOK

(* Applying a fetched object keeps tails and tables typed.                  *)
LEMMA ApplyFetchedFacts ==
  ASSUME TypeOK, NEW n \in Proc, NEW b \in Batch, ApplyFetched(n, b)
  PROVE  /\ fold' \in [Proc -> Table]
         /\ tail' \in [Proc -> Nat]
<1>1. fold[n] \in Table /\ tail[n] + 1 \in Nat
  BY DEF TypeOK
<1>2. ApplyBatch(fold[n], tail[n] + 1, b) \in Table
  BY <1>1, ApplyBatchFacts
<1> QED
  BY <1>1, <1>2 DEF ApplyFetched, TypeOK

(* Returning from Append keeps the types.                                   *)
LEMMA ReturnFacts ==
  ASSUME TypeOK, NEW n \in Proc, Return(n)
  PROVE  /\ phase' \in [Proc -> Phases]
         /\ cur' \in [Proc -> Batch \cup {NoBatch}]
         /\ contended' \in [Proc -> BOOLEAN]
<1>1. phase' \in [Proc -> Phases]
  BY DEF Return, GoTo, TypeOK, Phases
<1>2. cur' \in [Proc -> Batch \cup {NoBatch}]
  BY DEF Return, TypeOK
<1>3. contended' \in [Proc -> BOOLEAN]
  BY DEF Return, Contend, TypeOK
<1> QED
  BY <1>1, <1>2, <1>3

(* Every step keeps the types.                                              *)
LEMMA TypeStep ==
  ASSUME TypeOK, ChainInv, Next
  PROVE  TypeOK'
<1> USE DEF GoTo, Contend, Fault
<1>1. ASSUME NEW n \in Proc, Follow(n)
      PROVE  TypeOK'
  <2>1. bucket[tail[n] + 1] \in Batch
    BY <1>1 DEF Follow, Absent, TypeOK
  <2>2. fold' \in [Proc -> Table] /\ tail' \in [Proc -> Nat]
    BY <1>1, <2>1, ApplyFetchedFacts DEF Follow
  <2> QED
    BY <1>1, <2>2 DEF Follow, TypeOK
<1>2. ASSUME NEW n \in Proc, Append(n)
      PROVE  TypeOK'
  <2>1. PICK r \in Records(n) :
          cur' = [cur EXCEPT ![n] = [writer |-> Writer(n), inc |-> Inc(n), id |-> nextBatch[n],
                                     secs |-> r[1], ctl |-> r[2]]]
    BY <1>2, Zenon DEF Append
  <2>2. r[1] \in SUBSET Section /\ r[2] \in Control
    BY RecordsType
  <2>3. cur'[n] \in Batch /\ cur' \in [Proc -> Batch \cup {NoBatch}]
    BY <2>1, <2>2, ProcFacts DEF TypeOK, Batch, Seqs
  <2> QED
    BY <1>2, <2>3 DEF Append, TypeOK, Phases, Busy, Seqs
<1>3. ASSUME NEW n \in Proc, PutLands(n)
      PROVE  TypeOK'
  <2>1. cur[n] \in Batch /\ tail[n] + 1 \in Seqs /\ (tail[n] + 1) - 1 \in DOMAIN canon
    <3>1. cur[n] \in Batch
      BY <1>3 DEF PutLands, ChainInv, AppendInv, Busy
    <3>2. tail[n] \in Nat /\ tail[n] \in DOMAIN canon
      BY DEF ChainInv, FoldInv, TypeOK
    <3> QED
      BY <3>1, <3>2 DEF Seqs
  <2>2. /\ DOMAIN bucket' = DOMAIN bucket \cup {tail[n] + 1}
        /\ bucket'[tail[n] + 1] = cur[n]
        /\ \A k \in DOMAIN bucket : bucket'[k] = bucket[k]
        /\ DOMAIN canon' = DOMAIN bucket' \cup {0}
        /\ canon'[tail[n] + 1] \in Table
        /\ \A k \in DOMAIN canon : canon'[k] = canon[k]
    BY <1>3, <2>1, CreateFacts, Zenon DEF PutLands
  <2>3. phase' \in [Proc -> Phases]
    BY <1>3 DEF PutLands, TypeOK, Phases, Busy
  <2> QED
    BY <1>3, <2>1, <2>2, <2>3 DEF PutLands, TypeOK
<1>4. ASSUME NEW n \in Proc, PutRefused(n) \/ RecheckAbsent(n) \/ GetFirstAbsent(n)
      PROVE  TypeOK'
  BY <1>4, Zenon DEF PutRefused, RecheckAbsent, GetFirstAbsent, TypeOK, Phases, Busy
<1>5. ASSUME NEW n \in Proc, PutUnknown(n)
      PROVE  TypeOK'
  <2>1. [seq |-> tail[n] + 1, batch |-> cur[n]] \in Request
    BY <1>5 DEF PutUnknown, ChainInv, AppendInv, Busy, TypeOK, Seqs, Request
  <2> QED
    BY <1>5, <2>1 DEF PutUnknown, TypeOK, Phases, Busy
<1>6. ASSUME NEW n \in Proc, AppendFails(n)
      PROVE  TypeOK'
  <2>1. /\ phase' \in [Proc -> Phases]
        /\ cur' \in [Proc -> Batch \cup {NoBatch}]
        /\ contended' \in [Proc -> BOOLEAN]
    BY <1>6, ReturnFacts DEF AppendFails
  <2>2. faults' \in Nat
    BY <1>6 DEF AppendFails, TypeOK
  <2> QED
    BY <1>6, <2>1, <2>2, Zenon DEF AppendFails, TypeOK
<1>7. ASSUME NEW n \in Proc, ApplyOwn(n)
      PROVE  TypeOK'
  <2>1. cur[n] \in Batch /\ tail[n] + 1 \in Seqs
    BY <1>7 DEF ApplyOwn, ChainInv, AppendInv, Busy, TypeOK, Seqs
  <2>2. fold' \in [Proc -> Table] /\ tail' \in [Proc -> Nat]
    BY <1>7, <2>1, ApplyFetchedFacts DEF ApplyOwn
  <2>3. /\ phase' \in [Proc -> Phases]
        /\ cur' \in [Proc -> Batch \cup {NoBatch}]
        /\ contended' \in [Proc -> BOOLEAN]
    BY <1>7, ReturnFacts DEF ApplyOwn
  <2> QED
    BY <1>7, <2>1, <2>2, <2>3 DEF ApplyOwn, TypeOK
<1>8. ASSUME NEW n \in Proc, Recheck(n) \/ GetFirst(n)
      PROVE  TypeOK'
  <2>1. /\ cur[n] \in Batch
        /\ tail[n] + 1 \in Seqs
        /\ bucket[tail[n] + 1] \in Batch
        /\ ApplyFetched(n, bucket[tail[n] + 1])
    BY <1>8 DEF Recheck, GetFirst, ApplyFound, ChainInv, AppendInv, Busy, TypeOK, Seqs, Absent
  <2>2. fold' \in [Proc -> Table] /\ tail' \in [Proc -> Nat]
    BY <2>1, ApplyFetchedFacts
  <2>3. /\ phase' \in [Proc -> Phases]
        /\ cur' \in [Proc -> Batch \cup {NoBatch}]
        /\ contended' \in [Proc -> BOOLEAN]
        /\ returned' \subseteq [batch : Batch, pos : Seqs]
    <3>1. CASE Return(n)
      BY <1>8, <2>1, <3>1, ReturnFacts, SMTT(30) DEF Recheck, GetFirst, ApplyFound, TypeOK
    <3>2. CASE ~Return(n)
      BY <1>8, <3>2, Zenon DEF Recheck, GetFirst, ApplyFound, TypeOK, Phases, Busy
    <3> QED
      BY <3>1, <3>2
  <2> QED
    BY <1>8, <2>1, <2>2, <2>3, Zenon DEF Recheck, GetFirst, ApplyFound, TypeOK
<1>9. ASSUME NEW r \in late, LatePut(r)
      PROVE  TypeOK'
  <2>1. r.batch \in Batch /\ r.seq \in Seqs /\ r.seq - 1 \in DOMAIN canon
    BY DEF ChainInv, LateInv, TypeOK, Request
  <2>2. CASE Absent(r.seq)
    <3>1. /\ DOMAIN bucket' = DOMAIN bucket \cup {r.seq}
          /\ bucket'[r.seq] = r.batch
          /\ \A k \in DOMAIN bucket : bucket'[k] = bucket[k]
          /\ DOMAIN canon' = DOMAIN bucket' \cup {0}
          /\ canon'[r.seq] \in Table
          /\ \A k \in DOMAIN canon : canon'[k] = canon[k]
      BY <1>9, <2>1, <2>2, CreateFacts DEF LatePut
    <3> QED
      BY <1>9, <2>1, <3>1 DEF LatePut, TypeOK
  <2>3. CASE ~Absent(r.seq)
    BY <1>9, <2>3, Zenon DEF LatePut, TypeOK
  <2> QED
    BY <2>2, <2>3
<1>10. ASSUME NEW n \in Proc, Crash(n)
       PROVE  TypeOK'
  <2>1. phase' \in [Proc -> Phases] /\ cur' \in [Proc -> Batch \cup {NoBatch}]
    BY <1>10 DEF Crash, TypeOK, Phases
  <2>2. contended' \in [Proc -> BOOLEAN]
    BY <1>10, Zenon DEF Crash, TypeOK
  <2>3. faults' \in Nat
    BY <1>10 DEF Crash, TypeOK
  <2> QED
    BY <1>10, <2>1, <2>2, <2>3, Zenon DEF Crash, TypeOK
<1>11. ASSUME NEW n \in Proc, Start(n) \/ Booted(n)
       PROVE  TypeOK'
  BY <1>11, Zenon DEF Start, Booted, TypeOK, Phases, Busy
<1> QED
  BY <1>1, <1>2, <1>3, <1>4, <1>5, <1>6, <1>7, <1>8, <1>9, <1>10, <1>11 DEF Next, Step

(* The chain changes only by one batch landing at the first free seq: one   *)
(* that its process issued and that is newer than all its process landed.   *)
Lands(s, b) ==
  /\ s - 1 \in DOMAIN canon
  /\ Absent(s)
  /\ Create(s, b)
  /\ Issued(b)
  /\ \A k \in DOMAIN bucket :
       /\ bucket[k].writer = b.writer
       /\ bucket[k].inc = b.inc
       => bucket[k].id < b.id

(* A PUT that lands puts the batch its Append is at.                        *)
LEMMA PutLandsLands ==
  ASSUME TypeOK, ChainInv, NEW n \in Proc, PutLands(n)
  PROVE  /\ tail[n] + 1 \in Seqs /\ cur[n] \in Batch
         /\ Lands(tail[n] + 1, cur[n])
<1>1. /\ cur[n] \in Batch /\ Sender(cur[n], n)
      /\ cur[n].id > 0 /\ cur[n].id + 1 = nextBatch[n]
      /\ \A s \in DOMAIN bucket : Ours(bucket[s], cur[n]) => s = tail[n] + 1
      /\ cur[n].id \in Nat /\ nextBatch[n] \in Seqs
  BY DEF PutLands, ChainInv, AppendInv, Busy, TypeOK, Batch
<1>2. tail[n] + 1 \in Seqs /\ (tail[n] + 1) - 1 \in DOMAIN canon
  BY DEF ChainInv, FoldInv, TypeOK, Seqs
<1>3. Issued(cur[n])
  BY <1>1, ProcFacts DEF Issued, Sender, Seqs
<1>4. ASSUME NEW k \in DOMAIN bucket,
             bucket[k].writer = cur[n].writer, bucket[k].inc = cur[n].inc
      PROVE  bucket[k].id < cur[n].id
  <2>1. bucket[k].id # cur[n].id
    BY <1>1, <1>4 DEF PutLands, Absent, Ours
  <2>2. bucket[k].id < nextBatch[n] /\ bucket[k].id \in Nat
    BY <1>1, <1>4 DEF ChainInv, IssuedInv, Issued, Sender, TypeOK, Batch
  <2> QED
    BY <1>1, <2>1, <2>2 DEF Seqs
<1> QED
  BY <1>1, <1>2, <1>3, <1>4 DEF Lands, PutLands

(* Those two are the only ways an object comes to be: Append's PUT and a    *)
(* late one.                                                                *)
LEMMA BucketStep ==
  ASSUME TypeOK, ChainInv, Next
  PROVE  UNCHANGED <<bucket, canon>> \/ \E s \in Seqs, b \in Batch : Lands(s, b)
<1>1. ASSUME NEW n \in Proc, PutLands(n)
      PROVE  \E s \in Seqs, b \in Batch : Lands(s, b)
  BY <1>1, PutLandsLands
<1>2. ASSUME NEW r \in late, LatePut(r)
      PROVE  UNCHANGED <<bucket, canon>> \/ \E s \in Seqs, b \in Batch : Lands(s, b)
  <2>1. r.batch \in Batch /\ r.seq \in Seqs /\ LateInv(r)
    BY DEF ChainInv, TypeOK, Request
  <2>2. CASE Absent(r.seq)
    <3>1. Lands(r.seq, r.batch)
      BY <1>2, <2>1, <2>2 DEF LatePut, Lands, LateInv
    <3> QED
      BY <2>1, <3>1
  <2> QED
    BY <1>2, <2>2 DEF LatePut
<1> QED
  BY <1>1, <1>2, Zenon DEF Next, Step, Follow, Append, PutRefused, PutUnknown, AppendFails,
     ApplyOwn, Recheck, RecheckAbsent, GetFirst, GetFirstAbsent, ApplyFound, Crash, Start, Booted

(* A landing extends the dense log by one, and its tables by the fold of    *)
(* that one object.                                                         *)
LEMMA LandsFacts ==
  ASSUME TypeOK, Dense, NEW s \in Seqs, NEW b \in Batch, Lands(s, b)
  PROVE  /\ DOMAIN bucket = 1..(s - 1)
         /\ DOMAIN bucket' = 1..s
         /\ DOMAIN canon = 0..(s - 1)
         /\ DOMAIN canon' = 0..s
         /\ bucket'[s] = b
         /\ \A k \in DOMAIN bucket : bucket'[k] = bucket[k]
         /\ canon'[s] = ApplyBatch(canon[s - 1], s, b)
         /\ canon[s - 1] \in Table /\ canon'[s] \in Table
         /\ \A k \in DOMAIN canon : canon'[k] = canon[k]
<1>1. PICK k \in DOMAIN canon : DOMAIN bucket = 1..k
  BY DEF Dense
<1>2. DOMAIN canon = 0..k /\ k \in Nat
  BY <1>1 DEF TypeOK, Seqs
<1>3. k = s - 1
  BY <1>1, <1>2 DEF Lands, Absent, Seqs
<1>4. /\ DOMAIN bucket' = DOMAIN bucket \cup {s}
      /\ bucket'[s] = b
      /\ \A j \in DOMAIN bucket : bucket'[j] = bucket[j]
      /\ DOMAIN canon' = DOMAIN bucket' \cup {0}
      /\ canon'[s] = ApplyBatch(canon[s - 1], s, b)
      /\ canon'[s] \in Table
      /\ \A j \in DOMAIN canon : canon'[j] = canon[j]
  BY CreateFacts DEF Lands
<1>5. DOMAIN bucket' = 1..s
  BY <1>1, <1>2, <1>3, <1>4 DEF Seqs
<1>6. DOMAIN canon' = 0..s
  BY <1>4, <1>5 DEF Seqs
<1>7. canon[s - 1] \in Table
  BY DEF Lands, TypeOK
<1> QED
  BY <1>1, <1>2, <1>3, <1>4, <1>5, <1>6, <1>7

(* Every step keeps what the chain alone is about: density, the tables of   *)
(* its prefixes, the order of each process's batches.                       *)
LEMMA LogStep ==
  ASSUME TypeOK, ChainInv, Next
  PROVE  Dense' /\ CanonInv' /\ ChainOrder'
<1>1. CASE UNCHANGED <<bucket, canon>>
  BY <1>1 DEF ChainInv, Dense, CanonInv, ChainOrder
<1>2. ASSUME NEW s \in Seqs, NEW b \in Batch, Lands(s, b)
      PROVE  Dense' /\ CanonInv' /\ ChainOrder'
  <2>1. /\ DOMAIN bucket = 1..(s - 1)
        /\ DOMAIN bucket' = 1..s
        /\ DOMAIN canon = 0..(s - 1)
        /\ DOMAIN canon' = 0..s
        /\ bucket'[s] = b
        /\ \A k \in DOMAIN bucket : bucket'[k] = bucket[k]
        /\ canon'[s] = ApplyBatch(canon[s - 1], s, b)
        /\ \A k \in DOMAIN canon : canon'[k] = canon[k]
    BY <1>2, LandsFacts DEF ChainInv
  <2>2. Dense'
    BY <2>1 DEF Dense, Seqs
  <2>3. CanonInv'
    <3>1. canon'[0] = EmptyTable
      BY <2>1 DEF ChainInv, CanonInv, Seqs
    <3>2. ASSUME NEW k \in DOMAIN bucket'
          PROVE  canon'[k] = ApplyBatch(canon'[k - 1], k, bucket'[k])
      <4>1. CASE k = s
        BY <2>1, <4>1 DEF Seqs
      <4>2. CASE k # s
        <5>1. k \in DOMAIN bucket /\ k \in DOMAIN canon /\ k - 1 \in DOMAIN canon
          BY <2>1, <4>2 DEF Seqs
        <5> QED
          BY <2>1, <5>1 DEF ChainInv, CanonInv
      <4> QED
        BY <4>1, <4>2
    <3> QED
      BY <3>1, <3>2 DEF CanonInv
  <2>4. ChainOrder'
    <3> SUFFICES ASSUME NEW s1 \in DOMAIN bucket', NEW s2 \in DOMAIN bucket',
                        s1 < s2,
                        bucket'[s1].writer = bucket'[s2].writer,
                        bucket'[s1].inc = bucket'[s2].inc
                 PROVE  bucket'[s1].id < bucket'[s2].id
      BY DEF ChainOrder
    <3>1. s1 \in DOMAIN bucket
      BY <2>1 DEF Seqs
    <3>2. CASE s2 = s
      BY <1>2, <2>1, <3>1, <3>2 DEF Lands
    <3>3. CASE s2 # s
      <4>1. s2 \in DOMAIN bucket
        BY <2>1, <3>3 DEF Seqs
      <4> QED
        BY <2>1, <3>1, <4>1 DEF ChainInv, ChainOrder
    <3> QED
      BY <3>2, <3>3
  <2> QED
    BY <2>2, <2>3, <2>4
<1> QED
  BY <1>1, <1>2, BucketStep

(* From any prefix of the chain to any longer one the leases move forward.  *)
LEMMA EpochStep ==
  ASSUME TypeOK, ChainInv, EpochInv, Next
  PROVE  EpochInv'
<1>1. CASE UNCHANGED <<bucket, canon>>
  BY <1>1 DEF EpochInv
<1>2. ASSUME NEW s \in Seqs, NEW b \in Batch, Lands(s, b)
      PROVE  EpochInv'
  <2>1. /\ DOMAIN canon = 0..(s - 1)
        /\ DOMAIN canon' = 0..s
        /\ canon'[s] = ApplyBatch(canon[s - 1], s, b)
        /\ canon[s - 1] \in Table /\ canon'[s] \in Table
        /\ \A k \in DOMAIN canon : canon'[k] = canon[k]
    BY <1>2, LandsFacts DEF ChainInv
  <2>2. Advances(canon[s - 1], canon'[s])
    BY <2>1, ApplyBatchFacts DEF Seqs
  <2> SUFFICES ASSUME NEW s1 \in DOMAIN canon', NEW s2 \in DOMAIN canon', s1 <= s2,
                      NEW g \in Group
               PROVE  /\ canon'[s1].groups[g].epoch <= canon'[s2].groups[g].epoch
                      /\ canon'[s1].groups[g].epoch = canon'[s2].groups[g].epoch
                         => canon'[s1].groups[g].node = canon'[s2].groups[g].node
    BY DEF EpochInv
  <2>3. CASE s2 # s
    <3>1. s1 \in DOMAIN canon /\ s2 \in DOMAIN canon
      BY <2>1, <2>3 DEF Seqs
    <3> QED
      BY <2>1, <3>1 DEF EpochInv
  <2>4. CASE s1 = s
    <3>1. s2 = s
      BY <2>1, <2>4 DEF Seqs
    <3>2. canon'[s].groups[g].epoch \in Nat
      BY <2>1 DEF Table, Lease
    <3> QED
      BY <2>4, <3>1, <3>2
  <2>5. CASE s1 # s /\ s2 = s
    <3>1. s1 \in DOMAIN canon /\ s - 1 \in DOMAIN canon /\ s1 <= s - 1
      BY <2>1, <2>5 DEF Seqs
    <3>2. /\ canon[s1].groups[g].epoch \in Nat
          /\ canon[s - 1].groups[g].epoch \in Nat
          /\ canon'[s].groups[g].epoch \in Nat
      BY <2>1, <3>1, SMTT(90) DEF TypeOK, Table, Lease
    <3>3. /\ canon[s1].groups[g].epoch <= canon[s - 1].groups[g].epoch
          /\ canon[s1].groups[g].epoch = canon[s - 1].groups[g].epoch
             => canon[s1].groups[g].node = canon[s - 1].groups[g].node
      BY <3>1 DEF EpochInv
    <3>4. /\ canon[s - 1].groups[g].epoch <= canon'[s].groups[g].epoch
          /\ canon[s - 1].groups[g].epoch = canon'[s].groups[g].epoch
             => canon[s - 1].groups[g].node = canon'[s].groups[g].node
      BY <2>2 DEF Advances
    <3> QED
      BY <2>1, <2>5, <3>1, <3>2, <3>3, <3>4, SMTT(90)
  <2> QED
    BY <2>3, <2>4, <2>5
<1> QED
  BY <1>1, <1>2, BucketStep

(* A member row stays at or above every join that no leave has undone.      *)
LEMMA MemberInvStep ==
  ASSUME TypeOK, ChainInv, MemberInv, Next
  PROVE  MemberInv'
<1>1. CASE UNCHANGED <<bucket, canon>>
  BY <1>1 DEF MemberInv
<1>2. ASSUME NEW s \in Seqs, NEW b \in Batch, Lands(s, b)
      PROVE  MemberInv'
  <2>1. /\ DOMAIN bucket = 1..(s - 1)
        /\ DOMAIN bucket' = 1..s
        /\ DOMAIN canon = 0..(s - 1)
        /\ DOMAIN canon' = 0..s
        /\ bucket'[s] = b
        /\ \A k \in DOMAIN bucket : bucket'[k] = bucket[k]
        /\ canon'[s] = ApplyBatch(canon[s - 1], s, b)
        /\ canon[s - 1] \in Table /\ canon'[s] \in Table
        /\ \A k \in DOMAIN canon : canon'[k] = canon[k]
    BY <1>2, LandsFacts DEF ChainInv
  <2>2. MemberStep(canon[s - 1], canon'[s], b)
    BY <2>1, ApplyBatchFacts DEF Seqs
  <2> SUFFICES ASSUME NEW s1 \in DOMAIN bucket', NEW s2 \in DOMAIN canon', s1 <= s2,
                      bucket'[s1].ctl.kind = "join",
                      \A k \in s1..s2 : ~Leaves(bucket'[k], bucket'[s1].ctl.node)
               PROVE  bucket'[s1].ctl.inc <= canon'[s2].members[bucket'[s1].ctl.node]
    BY DEF MemberInv, Leaves
  <2>3. CASE s2 # s
    <3>1. s1 \in DOMAIN bucket /\ s2 \in DOMAIN canon /\ s1 \in Nat /\ s2 \in Nat
      BY <2>1, <2>3 DEF Seqs
    <3>2. \A k \in s1..s2 : bucket'[k] = bucket[k]
      BY <2>1, <2>3, <3>1 DEF Seqs
    <3>3. \A k \in s1..s2 : ~Leaves(bucket[k], bucket[s1].ctl.node)
      BY <2>1, <3>1, <3>2
    <3> QED
      BY <2>1, <3>1, <3>3 DEF MemberInv
  <2>4. CASE s1 = s
    <3>1. s2 = s
      BY <2>1, <2>4, SMTT(30) DEF Seqs
    <3> QED
      BY <2>1, <2>2, <2>4, <3>1 DEF MemberStep
  <2>5. CASE s1 # s /\ s2 = s
    <3>1. s1 \in DOMAIN bucket /\ s - 1 \in DOMAIN canon /\ s1 <= s - 1 /\ s1 \in Nat /\ s \in Nat
      BY <2>1, <2>5, SMTT(30) DEF Seqs
    <3> DEFINE j == bucket[s1].ctl
    <3>2. j = bucket'[s1].ctl /\ j.kind = "join" /\ j.node \in Node /\ j.inc \in Nat
      <4>1. bucket[s1].ctl \in Control
        BY <3>1 DEF TypeOK, Batch
      <4> QED
        BY <2>1, <3>1, <4>1 DEF Control
    <3> HIDE DEF j
    <3>3. \A k \in s1..(s - 1) : ~Leaves(bucket[k], j.node)
      <4>1. \A k \in s1..(s - 1) : k \in s1..s2 /\ bucket'[k] = bucket[k]
        BY <2>1, <2>5, <3>1
      <4> QED
        BY <3>2, <4>1
    <3>4. j.inc <= canon[s - 1].members[j.node]
      BY <2>1, <3>1, <3>2, <3>3 DEF MemberInv, j
    <3>5. canon[s - 1].members[j.node] <= canon'[s].members[j.node]
      <4>1. s \in s1..s2
        BY <2>5, <3>1
      <4>2. ~Leaves(b, j.node)
        BY <2>1, <3>2, <4>1
      <4> QED
        BY <2>2, <3>2, <4>2 DEF MemberStep, Leaves
    <3>6. canon[s - 1].members[j.node] \in Nat /\ canon'[s].members[j.node] \in Nat
      BY <2>1, <3>2 DEF Table
    <3>7. j.inc <= canon'[s].members[j.node]
      BY <3>2, <3>4, <3>5, <3>6, SMTT(90)
    <3> QED
      BY <2>5, <3>2, <3>7
  <2> QED
    BY <2>3, <2>4, <2>5
<1> QED
  BY <1>1, <1>2, BucketStep

(* An identity a process once issued stays issued: batch ids only grow.     *)
IssuedNext(b) ==
  /\ b.id > 0
  /\ \A p \in Proc : Sender(b, p) => b.id < nextBatch'[p]

(* So every later state still counts it as issued.                          *)
LEMMA IssuedStays ==
  ASSUME TypeOK, Next, NEW b \in Batch, Issued(b)
  PROVE  IssuedNext(b)
<1>1. b.id \in Nat /\ nextBatch \in [Proc -> Seqs]
  BY Zenon DEF Batch, TypeOK
<1>2. CASE UNCHANGED nextBatch
  BY <1>2 DEF Issued, IssuedNext
<1>3. ASSUME NEW n \in Proc, Append(n)
      PROVE  IssuedNext(b)
  <2>1. \A p \in Proc : nextBatch'[p] \in Nat /\ nextBatch'[p] >= nextBatch[p]
    BY <1>1, <1>3 DEF Append, Seqs
  <2>2. \A p \in Proc : nextBatch[p] \in Nat
    BY <1>1 DEF Seqs
  <2> QED
    BY <1>1, <2>1, <2>2 DEF Issued, IssuedNext
<1> QED
  BY <1>2, <1>3, Zenon DEF Next, Step, Start, Follow, Booted, PutLands, PutRefused, PutUnknown,
     AppendFails, ApplyOwn, Recheck, RecheckAbsent, GetFirst, GetFirstAbsent, ApplyFound,
     LatePut, Crash

(* Every process's table stays the fold of the prefix its tail names.       *)
LEMMA FoldStep ==
  ASSUME TypeOK, ChainInv, Next
  PROVE  FoldInv'
<1>0. CASE UNCHANGED <<tail, fold>>
  <2>1. \A k \in DOMAIN canon : k \in DOMAIN canon' /\ canon'[k] = canon[k]
    <3>1. CASE UNCHANGED <<bucket, canon>>
      BY <3>1
    <3>2. ASSUME NEW s \in Seqs, NEW b \in Batch, Lands(s, b)
          PROVE  \A k \in DOMAIN canon : k \in DOMAIN canon' /\ canon'[k] = canon[k]
      BY <3>2, LandsFacts DEF ChainInv, Seqs
    <3> QED
      BY <3>1, <3>2, BucketStep
  <2> QED
    BY <1>0, <2>1 DEF ChainInv, FoldInv
<1>1. ASSUME NEW n \in Proc, ~Absent(tail[n] + 1),
             ApplyFetched(n, bucket[tail[n] + 1]), UNCHANGED canon
      PROVE  FoldInv'
  <2>1. tail[n] + 1 \in DOMAIN canon /\ (tail[n] + 1) - 1 = tail[n]
    BY <1>1 DEF Absent, TypeOK
  <2>2. canon[tail[n] + 1] = ApplyBatch(canon[tail[n]], tail[n] + 1, bucket[tail[n] + 1])
    BY <1>1, <2>1 DEF Absent, ChainInv, CanonInv
  <2>3. fold[n] = canon[tail[n]]
    BY DEF ChainInv, FoldInv
  <2> QED
    BY <1>1, <2>1, <2>2, <2>3 DEF ApplyFetched, ChainInv, FoldInv, TypeOK
<1>2. ASSUME NEW n \in Proc, ApplyOwn(n)
      PROVE  FoldInv'
  <2>1. ~Absent(tail[n] + 1) /\ bucket[tail[n] + 1] = cur[n]
    BY <1>2 DEF ApplyOwn, ChainInv, AppendInv, Busy
  <2> QED
    BY <1>1, <1>2, <2>1, SMTT(30) DEF ApplyOwn
<1> QED
  BY <1>0, <1>1, <1>2, Zenon DEF Next, Step, Start, Follow, Booted, Append, PutLands, PutRefused,
     PutUnknown, AppendFails, Recheck, RecheckAbsent, GetFirst, GetFirstAbsent, ApplyFound,
     LatePut, Crash

(* A process that a step leaves alone keeps its part of the invariant if    *)
(* the objects and requests the step adds are not confused with its batch.  *)
LEMMA Bystander ==
  ASSUME TypeOK, ChainInv, NEW m \in Proc,
         phase'[m] = phase[m], cur'[m] = cur[m], tail'[m] = tail[m],
         nextBatch'[m] = nextBatch[m],
         \A s \in DOMAIN bucket : s \in DOMAIN bucket' /\ bucket'[s] = bucket[s],
         \A s \in DOMAIN bucket' \ DOMAIN bucket :
           Ours(bucket'[s], cur[m]) => s = tail[m] + 1 /\ bucket'[s] = cur[m],
         \A r \in late' \ late : ~Ours(r.batch, cur[m])
  PROVE  AppendInv(m)'
<1>1. AppendInv(m)
  BY Zenon DEF ChainInv
<1>2. \A r \in late : ~Absent(r.seq) => ~Absent(r.seq)'
  BY Zenon DEF Absent
<1>3. ~Absent(tail[m] + 1) => ~Absent(tail[m] + 1)' /\ bucket'[tail[m] + 1] = bucket[tail[m] + 1]
  BY Zenon DEF Absent
<1>4. ASSUME phase[m] \in Busy, NEW s \in DOMAIN bucket', Ours(bucket'[s], cur[m])
      PROVE  s = tail[m] + 1 /\ bucket'[s] = cur[m]
  BY <1>1, <1>4, Zenon DEF AppendInv
<1>5. ASSUME phase[m] \in Busy, NEW r \in late', Ours(r.batch, cur[m])
      PROVE  r.batch = cur[m] /\ (r.seq = tail[m] + 1 \/ ~Absent(r.seq)')
  BY <1>1, <1>2, <1>5, Zenon DEF AppendInv
<1> QED
  BY <1>1, <1>3, <1>4, <1>5, SMTT(90) DEF AppendInv, Absent, Ours, Sender

(* The batches two processes are landing are never confused.                *)
LEMMA OursIsOurs ==
  ASSUME ChainInv, NEW n \in Proc, NEW m \in Proc, n # m, phase[n] \in Busy
  PROVE  ~Ours(cur[n], cur[m])
<1>1. Sender(cur[n], n)
  BY Zenon DEF ChainInv, AppendInv
<1>2. CASE phase[m] \in Busy
  <2>1. Sender(cur[m], m)
    BY <1>2, Zenon DEF ChainInv, AppendInv
  <2> QED
    BY <1>1, <2>1, ProcFacts DEF Sender, Ours
<1>3. CASE phase[m] \notin Busy
  <2>1. cur[m] = NoBatch
    BY <1>3, Zenon DEF ChainInv, AppendInv
  <2> QED
    BY <2>1, SMTT(60) DEF NoBatch, Ours
<1> QED
  BY <1>2, <1>3

(* Every step keeps every process's part of the invariant: its own steps    *)
(* follow the retry loop of Append, and the others' are not about its batch.*)
LEMMA AppendInvStep ==
  ASSUME TypeOK, ChainInv, Next, NEW m \in Proc
  PROVE  AppendInv(m)'
<1> USE DEF GoTo, Contend, Return
<1>0. AppendInv(m)
  BY DEF ChainInv
<1>1. ASSUME NEW n \in Proc, n # m,
             \/ Follow(n) \/ Append(n) \/ PutRefused(n) \/ AppendFails(n) \/ ApplyOwn(n)
             \/ Recheck(n) \/ RecheckAbsent(n) \/ GetFirst(n) \/ GetFirstAbsent(n)
             \/ Crash(n) \/ Start(n) \/ Booted(n)
      PROVE  AppendInv(m)'
  <2>1. UNCHANGED <<bucket, late>>
    BY <1>1, Zenon DEF Follow, Append, PutRefused, AppendFails, ApplyOwn, Recheck, RecheckAbsent,
       GetFirst, GetFirstAbsent, ApplyFound, Crash, Start, Booted
  <2>2. /\ phase'[m] = phase[m] /\ cur'[m] = cur[m] /\ tail'[m] = tail[m]
        /\ nextBatch'[m] = nextBatch[m]
    BY <1>1, Zenon DEF Follow, Append, PutRefused, AppendFails, ApplyOwn, Recheck, RecheckAbsent,
       GetFirst, GetFirstAbsent, ApplyFound, ApplyFetched, Crash, Start, Booted, TypeOK
  <2> QED
    BY <2>1, <2>2, Bystander
<1>2. ASSUME NEW n \in Proc, n # m, PutLands(n)
      PROVE  AppendInv(m)'
  <2>2. ~Ours(cur[n], cur[m])
    BY <1>2, OursIsOurs DEF PutLands, Busy
  <2>3. /\ phase'[m] = phase[m] /\ cur'[m] = cur[m] /\ tail'[m] = tail[m]
        /\ nextBatch'[m] = nextBatch[m] /\ late' = late
    BY <1>2 DEF PutLands, TypeOK
  <2>4. /\ \A s \in DOMAIN bucket : s \in DOMAIN bucket' /\ bucket'[s] = bucket[s]
        /\ \A s \in DOMAIN bucket' \ DOMAIN bucket : bucket'[s] = cur[n]
    BY <1>2 DEF PutLands, Create, Absent
  <2> QED
    BY <2>2, <2>3, <2>4, Bystander
<1>3. ASSUME NEW n \in Proc, n # m, PutUnknown(n)
      PROVE  AppendInv(m)'
  <2>2. ~Ours(cur[n], cur[m])
    BY <1>3, OursIsOurs DEF PutUnknown, Busy
  <2>3. /\ phase'[m] = phase[m] /\ cur'[m] = cur[m] /\ tail'[m] = tail[m]
        /\ nextBatch'[m] = nextBatch[m] /\ bucket' = bucket
    BY <1>3 DEF PutUnknown, TypeOK
  <2>4. \A r \in late' \ late : r.batch = cur[n]
    BY <1>3 DEF PutUnknown
  <2> QED
    BY <2>2, <2>3, <2>4, Bystander
<1>4. ASSUME NEW r \in late, LatePut(r)
      PROVE  AppendInv(m)'
  <2>1. /\ phase'[m] = phase[m] /\ cur'[m] = cur[m] /\ tail'[m] = tail[m]
        /\ nextBatch'[m] = nextBatch[m]
        /\ late' \subseteq late
    BY <1>4 DEF LatePut
  <2>2. /\ \A s \in DOMAIN bucket : s \in DOMAIN bucket' /\ bucket'[s] = bucket[s]
        /\ \A s \in DOMAIN bucket' \ DOMAIN bucket :
             s = r.seq /\ bucket'[s] = r.batch /\ Absent(r.seq)
    BY <1>4 DEF LatePut, Create, Absent
  <2>3. Ours(r.batch, cur[m]) /\ Absent(r.seq) => r.seq = tail[m] + 1 /\ r.batch = cur[m]
    BY <1>0, SMTT(90) DEF AppendInv, NoBatch, Ours
  <2> QED
    BY <2>1, <2>2, <2>3, Bystander
<1>5. CASE Follow(m) \/ Start(m) \/ Booted(m)
  <2>1. /\ phase[m] \notin Busy /\ phase'[m] \notin Busy /\ phase'[m] # "own"
        /\ cur' = cur
    BY <1>5 DEF Follow, Start, Booted, Busy, TypeOK
  <2> QED
    BY <1>0, <2>1, Zenon DEF AppendInv
<1>6. CASE Append(m)
  <2>1. PICK x \in Records(m) :
          cur' = [cur EXCEPT ![m] = [writer |-> Writer(m), inc |-> Inc(m), id |-> nextBatch[m],
                                     secs |-> x[1], ctl |-> x[2]]]
    BY <1>6, Zenon DEF Append
  <2>2. x[1] \in SUBSET Section /\ x[2] \in Control
    BY RecordsType
  <2>3. /\ cur'[m] \in Batch /\ Sender(cur'[m], m)
        /\ cur'[m].id = nextBatch[m] /\ nextBatch[m] \in Nat /\ nextBatch[m] > 0
    <3>1. /\ Writer(m) \in Node /\ Inc(m) \in Seqs /\ nextBatch[m] \in Seqs
          /\ cur \in [Proc -> Batch \cup {NoBatch}]
      BY ProcFacts DEF TypeOK
    <3>2. cur'[m] = [writer |-> Writer(m), inc |-> Inc(m), id |-> nextBatch[m],
                     secs |-> x[1], ctl |-> x[2]]
      BY <2>1, <3>1
    <3>3. Inc(m) \in Nat /\ nextBatch[m] \in Nat /\ nextBatch[m] > 0
      BY <3>1 DEF Seqs
    <3>4. cur'[m] \in Batch
      BY <2>2, <3>1, <3>2, <3>3, SMTT(30) DEF Batch
    <3>5. cur'[m].writer = Writer(m) /\ cur'[m].inc = Inc(m) /\ cur'[m].id = nextBatch[m]
      BY <3>2, SMTT(30)
    <3> QED
      BY <3>3, <3>4, <3>5, Zenon DEF Sender
  <2>4. \A b \in Batch : Issued(b) => ~Ours(b, cur'[m])
    BY <2>3, SMTT(30) DEF Issued, Ours, Sender, Batch
  <2>5. \A s \in DOMAIN bucket : bucket[s] \in Batch /\ Issued(bucket[s])
    BY SMTT(30) DEF TypeOK, ChainInv, IssuedInv
  <2>6. \A r \in late : r.batch \in Batch /\ Issued(r.batch)
    BY SMTT(90) DEF TypeOK, ChainInv, LateInv, Request
  <2>7. /\ bucket' = bucket /\ late' = late /\ phase'[m] = "put"
        /\ nextBatch'[m] = nextBatch[m] + 1
    BY <1>6 DEF Append, TypeOK
  <2>8. /\ \A s \in DOMAIN bucket' : ~Ours(bucket'[s], cur'[m])
        /\ \A r \in late' : ~Ours(r.batch, cur'[m])
    BY <2>4, <2>5, <2>6, <2>7, SMTT(30)
  <2> QED
    BY <2>3, <2>7, <2>8 DEF AppendInv, Busy, Ours, Sender
<1>7. CASE PutLands(m)
  <2>1. /\ cur' = cur /\ tail' = tail /\ late' = late /\ UNCHANGED nextBatch
        /\ phase'[m] \in {"own", "recheck"} /\ phase[m] = "put"
    BY <1>7 DEF PutLands, TypeOK
  <2>2. /\ DOMAIN bucket' = DOMAIN bucket \cup {tail[m] + 1}
        /\ bucket'[tail[m] + 1] = cur[m]
        /\ \A s \in DOMAIN bucket : bucket'[s] = bucket[s]
    BY <1>7 DEF PutLands, Create, Absent
  <2>3. \A s \in DOMAIN bucket' : Ours(bucket'[s], cur[m]) => s = tail[m] + 1 /\ bucket'[s] = cur[m]
    BY <1>0, <2>1, <2>2, Zenon DEF AppendInv, Busy
  <2>4. \A r \in late : Ours(r.batch, cur[m]) =>
          r.batch = cur[m] /\ (r.seq = tail[m] + 1 \/ r.seq \in DOMAIN bucket')
    BY <1>0, <2>1, <2>2 DEF AppendInv, Busy, Absent
  <2> QED
    BY <1>0, <2>1, <2>2, <2>3, <2>4 DEF AppendInv, Busy, Absent, Ours, Sender
<1>8. CASE PutRefused(m) \/ RecheckAbsent(m) \/ GetFirstAbsent(m)
  <2>1. /\ UNCHANGED <<bucket, late, nextBatch, tail, cur>>
        /\ phase[m] \in Busy /\ phase'[m] \in Busy \ {"own"}
    BY <1>8, SMTT(90) DEF PutRefused, RecheckAbsent, GetFirstAbsent, Busy, TypeOK
  <2> QED
    BY <1>0, <2>1 DEF AppendInv, Busy, Absent, Ours, Sender
<1>9. CASE PutUnknown(m)
  <2>1. /\ UNCHANGED <<bucket, nextBatch, tail, cur>>
        /\ phase[m] = "put" /\ phase'[m] = "recheck"
        /\ late' = late \cup {[seq |-> tail[m] + 1, batch |-> cur[m]]}
    BY <1>9 DEF PutUnknown, TypeOK
  <2>2. \A r \in late' : Ours(r.batch, cur[m]) =>
          r.batch = cur[m] /\ (r.seq = tail[m] + 1 \/ ~Absent(r.seq))
    BY <1>0, <2>1, SMTT(90) DEF AppendInv, Busy
  <2> QED
    BY <1>0, <2>1, <2>2 DEF AppendInv, Busy, Absent, Ours, Sender
<1>10. CASE AppendFails(m) \/ Crash(m) \/ ApplyOwn(m)
  <2>1. phase'[m] \in {"idle", "dead"} /\ cur'[m] = NoBatch
    BY <1>10 DEF AppendFails, Crash, ApplyOwn, TypeOK
  <2> QED
    BY <2>1, SMTT(90) DEF AppendInv, Busy
<1>11. CASE Recheck(m) \/ GetFirst(m)
  <2>1. /\ UNCHANGED <<bucket, late, nextBatch>> /\ phase[m] \in Busy
        /\ ~Absent(tail[m] + 1) /\ tail'[m] = tail[m] + 1
    BY <1>11 DEF Recheck, GetFirst, ApplyFound, ApplyFetched, Busy, TypeOK
  <2>2. CASE Ours(bucket[tail[m] + 1], cur[m])
    <3>1. phase'[m] = "idle" /\ cur'[m] = NoBatch
      BY <1>11, <2>2, Zenon DEF Recheck, GetFirst, ApplyFound, TypeOK
    <3> QED
      BY <3>1 DEF AppendInv, Busy
  <2>3. CASE ~Ours(bucket[tail[m] + 1], cur[m])
    <3>1. phase'[m] = "get" /\ cur' = cur
      BY <1>11, <2>3, Zenon DEF Recheck, GetFirst, ApplyFound, TypeOK
    <3>2. \A s \in DOMAIN bucket : ~Ours(bucket[s], cur[m])
      BY <1>0, <2>1, <2>3, Zenon DEF AppendInv
    <3>3. \A r \in late : Ours(r.batch, cur[m]) => r.batch = cur[m] /\ ~Absent(r.seq)
      BY <1>0, <2>1, Zenon DEF AppendInv
    <3> QED
      BY <1>0, <2>1, <3>1, <3>2, <3>3 DEF AppendInv, Busy, Absent, Ours, Sender
  <2> QED
    BY <2>2, <2>3, SMTT(30)
<1> QED
  BY <1>1, <1>2, <1>3, <1>4, <1>5, <1>6, <1>7, <1>8, <1>9, <1>10, <1>11 DEF Next, Step

(* The identity of the batch an Append is landing is issued.                *)
LEMMA CurIssued ==
  ASSUME TypeOK, ChainInv, NEW n \in Proc, phase[n] \in Busy
  PROVE  cur[n] \in Batch /\ Issued(cur[n]) /\ Sender(cur[n], n)
<1>1. /\ cur[n] \in Batch /\ Sender(cur[n], n)
      /\ cur[n].id > 0 /\ cur[n].id + 1 = nextBatch[n]
  BY Zenon DEF ChainInv, AppendInv
<1>2. cur[n].id \in Nat
  BY <1>1 DEF Batch
<1> QED
  BY <1>1, <1>2, ProcFacts, SMTT(60) DEF Issued, Sender

(* What Append has returned stays where it landed, judged by its caller.    *)
LEMMA ReturnedStep ==
  ASSUME TypeOK, ChainInv, Next
  PROVE  IssuedInv' /\ ReturnedLanded'
<1>1. \A s \in DOMAIN bucket : s \in DOMAIN bucket' /\ bucket'[s] = bucket[s]
  <2>1. ASSUME NEW s \in Seqs, NEW b \in Batch, Lands(s, b)
        PROVE  \A k \in DOMAIN bucket : k \in DOMAIN bucket' /\ bucket'[k] = bucket[k]
    BY <2>1, LandsFacts, SMTT(60) DEF ChainInv, Seqs
  <2> QED
    BY <2>1, BucketStep, SMTT(30)
<1>2. \A s \in DOMAIN bucket' : IssuedNext(bucket'[s])
  <2>1. CASE UNCHANGED <<bucket, canon>>
    BY <2>1, IssuedStays DEF ChainInv, IssuedInv, TypeOK
  <2>2. ASSUME NEW s \in Seqs, NEW b \in Batch, Lands(s, b)
        PROVE  \A k \in DOMAIN bucket' : IssuedNext(bucket'[k])
    <3>1. /\ DOMAIN bucket' = DOMAIN bucket \cup {s} /\ bucket'[s] = b
      BY <2>2, CreateFacts, Zenon DEF Lands
    <3>2. IssuedNext(b)
      BY <2>2, IssuedStays DEF Lands
    <3>3. \A k \in DOMAIN bucket : IssuedNext(bucket[k])
      BY IssuedStays DEF ChainInv, IssuedInv, TypeOK
    <3> QED
      BY <1>1, <3>1, <3>2, <3>3
  <2> QED
    BY <2>1, <2>2, BucketStep
<1>3. ASSUME NEW r \in returned
      PROVE  /\ IssuedNext(r.batch)
             /\ ~Absent(r.pos)' /\ bucket'[r.pos] = r.batch
             /\ \A p \in Proc : Sender(r.batch, p) => r.pos <= tail'[p]
  <2>1. r.batch \in Batch /\ r.pos \in Nat /\ Issued(r.batch)
    BY DEF TypeOK, ChainInv, IssuedInv, Batch, Seqs
  <2>2. IssuedNext(r.batch)
    BY <2>1, IssuedStays
  <2>3. ~Absent(r.pos)' /\ bucket'[r.pos] = r.batch
    BY <1>1 DEF ChainInv, ReturnedLanded, Absent
  <2>4. ASSUME NEW p \in Proc, Sender(r.batch, p)
        PROVE  r.pos <= tail'[p]
    <3>1. tail' = tail \/ \E n \in Proc : tail' = [tail EXCEPT ![n] = @ + 1]
      BY Zenon DEF Next, Step, Start, Follow, Booted, Append, PutLands, PutRefused, PutUnknown,
         AppendFails, ApplyOwn, Recheck, RecheckAbsent, GetFirst, GetFirstAbsent, ApplyFound,
         ApplyFetched, LatePut, Crash
    <3>2. tail \in [Proc -> Nat]
      BY Zenon DEF TypeOK
    <3>3. tail'[p] \in Nat /\ tail[p] \in Nat /\ tail'[p] >= tail[p]
      BY <3>1, <3>2
    <3>4. r.pos <= tail[p]
      BY <2>4, Zenon DEF ChainInv, ReturnedLanded
    <3> QED
      BY <2>1, <3>3, <3>4
  <2> QED
    BY <2>2, <2>3, <2>4, SMTT(90)
<1>4. ASSUME NEW r \in returned', r \notin returned
      PROVE  /\ IssuedNext(r.batch)
             /\ ~Absent(r.pos)' /\ bucket'[r.pos] = r.batch
             /\ \A p \in Proc : Sender(r.batch, p) => r.pos <= tail'[p]
  <2>1. PICK n \in Proc : /\ ApplyOwn(n) \/ Recheck(n) \/ GetFirst(n)
                          /\ r = [batch |-> cur[n], pos |-> tail[n] + 1]
    BY <1>4, ZenonT(60) DEF Next, Step, Follow, Append, PutLands, PutRefused, PutUnknown, AppendFails,
       ApplyOwn, Recheck, RecheckAbsent, GetFirst, GetFirstAbsent, ApplyFound, LatePut, Crash, Start, Booted
  <2>2. phase[n] \in Busy /\ tail'[n] = tail[n] + 1 /\ tail[n] \in Nat /\ bucket' = bucket
    BY <2>1, Zenon DEF ApplyOwn, Recheck, GetFirst, ApplyFound, ApplyFetched, Busy, TypeOK
  <2>3. cur[n] \in Batch /\ IssuedNext(cur[n]) /\ Sender(cur[n], n)
    BY <2>2, CurIssued, IssuedStays, Zenon
  <2>4. ~Absent(tail[n] + 1) /\ bucket[tail[n] + 1] = cur[n]
    <3>1. CASE ApplyOwn(n)
      BY <3>1, Zenon DEF ApplyOwn, ChainInv, AppendInv
    <3>2. CASE Recheck(n) \/ GetFirst(n)
      <4>1. ~Absent(tail[n] + 1)
        BY <3>2, Zenon DEF Recheck, GetFirst, ApplyFound
      <4>2. CASE Ours(bucket[tail[n] + 1], cur[n])
        BY <2>2, <4>1, <4>2 DEF ChainInv, AppendInv, Absent
      <4>3. CASE ~Ours(bucket[tail[n] + 1], cur[n])
        BY <1>4, <3>2, <4>3, Zenon DEF Recheck, GetFirst, ApplyFound
      <4> QED
        BY <4>1, <4>2, <4>3
    <3> QED
      BY <2>1, <3>1, <3>2
  <2> QED
    BY <2>1, <2>2, <2>3, <2>4, ProcFacts, SMTT(60) DEF Absent, Sender
<1>5. \A r \in returned' : /\ IssuedNext(r.batch)
                           /\ ~Absent(r.pos)' /\ bucket'[r.pos] = r.batch
                           /\ \A p \in Proc : Sender(r.batch, p) => r.pos <= tail'[p]
  BY <1>3, <1>4
<1> QED
  BY <1>2, <1>5 DEF IssuedInv, ReturnedLanded, Issued, IssuedNext, Absent

(* A request that can still land stays newer than all its process landed:   *)
(* whatever lands first takes the only key at which it could.               *)
LEMMA LateInvStep ==
  ASSUME TypeOK, ChainInv, Next, NEW r \in late'
  PROVE  LateInv(r)'
<1> DEFINE Newest(b) == \A s \in DOMAIN bucket :
                          /\ bucket[s].writer = b.writer
                          /\ bucket[s].inc = b.inc
                          => bucket[s].id < b.id
<1>1. /\ r.batch \in Batch /\ r.seq \in Seqs
      /\ Issued(r.batch)
      /\ r.seq - 1 \in DOMAIN canon
      /\ Absent(r.seq) => Newest(r.batch)
  <2>1. CASE r \in late
    BY <2>1 DEF ChainInv, LateInv, TypeOK, Request
  <2>2. CASE r \notin late
    <3>1. PICK n \in Proc : PutUnknown(n) /\ r = [seq |-> tail[n] + 1, batch |-> cur[n]]
      BY <2>2, Zenon DEF Next, Step, Follow, Append, PutLands, PutRefused, PutUnknown, AppendFails,
         ApplyOwn, Recheck, RecheckAbsent, GetFirst, GetFirstAbsent, ApplyFound, LatePut, Crash, Start, Booted
    <3>2. phase[n] \in Busy /\ tail[n] \in Nat /\ tail[n] \in DOMAIN canon
      BY <3>1 DEF PutUnknown, ChainInv, FoldInv, Busy, TypeOK
    <3>3. cur[n] \in Batch /\ Issued(cur[n])
      BY <3>2, CurIssued, Zenon
    <3>4. ASSUME Absent(tail[n] + 1) PROVE Newest(cur[n])
      <4>1. /\ Sender(cur[n], n) /\ cur[n].id + 1 = nextBatch[n]
            /\ cur[n].id > 0
            /\ \A s \in DOMAIN bucket : Ours(bucket[s], cur[n]) => s = tail[n] + 1
        BY <3>2, Zenon DEF ChainInv, AppendInv
      <4> SUFFICES ASSUME NEW s \in DOMAIN bucket,
                          bucket[s].writer = cur[n].writer, bucket[s].inc = cur[n].inc
                   PROVE  bucket[s].id < cur[n].id
        OBVIOUS
      <4>2. bucket[s].id < nextBatch[n] /\ bucket[s].id \in Nat /\ cur[n].id \in Nat
        BY <3>3, <4>1, Zenon DEF ChainInv, IssuedInv, Issued, Sender, TypeOK, Batch
      <4>3. bucket[s].id # cur[n].id
        BY <3>4, <4>1, <4>2 DEF Ours, Absent
      <4> QED
        BY <4>1, <4>2, <4>3, SMTT(60)
    <3> QED
      BY <3>1, <3>2, <3>3, <3>4, SMTT(60) DEF Seqs
  <2> QED
    BY <2>1, <2>2, SMTT(90)
<1>2. IssuedNext(r.batch)
  BY <1>1, IssuedStays, Zenon
<1>3. CASE UNCHANGED <<bucket, canon>>
  BY <1>1, <1>2, <1>3 DEF LateInv, Issued, IssuedNext, Absent
<1>4. ASSUME NEW s \in Seqs, NEW b \in Batch, Lands(s, b)
      PROVE  LateInv(r)'
  <2>1. /\ DOMAIN canon = 0..(s - 1) /\ DOMAIN canon' = 0..s
        /\ DOMAIN bucket = 1..(s - 1) /\ DOMAIN bucket' = 1..s
    BY <1>4, LandsFacts DEF ChainInv
  <2>2. r.seq \in DOMAIN bucket' /\ r.seq - 1 \in DOMAIN canon'
    BY <1>1, <2>1, SMTT(60) DEF Seqs
  <2> QED
    BY <1>2, <2>2, SMTT(30) DEF LateInv, Issued, IssuedNext, Absent
<1> QED
  BY <1>3, <1>4, BucketStep

(* The seqs of a dense log: each one's predecessor has a table.             *)
LEMMA SeqFacts ==
  ASSUME TypeOK, Dense, NEW s \in DOMAIN bucket
  PROVE  s \in Seqs /\ s - 1 \in DOMAIN canon
<1>1. DOMAIN bucket \subseteq Seqs /\ DOMAIN canon = DOMAIN bucket \cup {0}
  BY Zenon DEF TypeOK
<1>2. PICK k \in DOMAIN canon : DOMAIN bucket = 1..k
  BY DEF Dense
<1> QED
  BY <1>1, <1>2 DEF Seqs

(* The initial state satisfies the inductive invariant.                     *)
LEMMA IndInvInit == Init => IndInv
<1> SUFFICES ASSUME Init PROVE IndInv
  OBVIOUS
<1>1. EmptyTable \in Table
  BY DEF EmptyTable, Table, Lease
<1>2. /\ DOMAIN bucket = {} /\ DOMAIN canon = {0} /\ canon[0] = EmptyTable
  BY DEF Init
<1>3. TypeOK
  BY <1>1, <1>2 DEF Init, TypeOK, Seqs, Phases, Busy
<1>4. ChainInv
  <2>1. Dense /\ CanonInv /\ IssuedInv /\ FoldInv /\ ChainOrder /\ ReturnedLanded
    <3>1. Dense /\ CanonInv /\ ChainOrder
      <4>1. 0 \in DOMAIN canon /\ DOMAIN bucket = 1..0
        BY <1>2
      <4>2. Dense
        BY <4>1, Zenon DEF Dense
      <4>3. CanonInv /\ ChainOrder
        BY <1>2, Zenon DEF CanonInv, ChainOrder
      <4> QED
        BY <4>2, <4>3
    <3>2. IssuedInv /\ FoldInv /\ ReturnedLanded
      BY <1>2 DEF Init, IssuedInv, FoldInv, ReturnedLanded
    <3> QED
      BY <3>1, <3>2
  <2>2. \A n \in Proc : AppendInv(n)
    BY DEF Init, AppendInv, Busy
  <2>3. \A r \in late : LateInv(r)
    BY DEF Init
  <2> QED
    BY <2>1, <2>2, <2>3 DEF ChainInv
<1>5. EpochInv
  <2>1. \A g \in Group : EmptyTable.groups[g].epoch \in Nat
    BY <1>1 DEF Table, Lease
  <2> QED
    BY <1>2, <2>1 DEF EpochInv
<1>6. MemberInv
  BY <1>2 DEF MemberInv
<1> QED
  BY <1>3, <1>4, <1>5, <1>6 DEF IndInv

(* Every step keeps the inductive invariant.                                *)
LEMMA IndInvStep == IndInv /\ [Next]_vars => IndInv'
<1> SUFFICES ASSUME IndInv, [Next]_vars PROVE IndInv'
  OBVIOUS
<1>1. CASE Next
  <2>1. TypeOK'
    BY <1>1, TypeStep DEF IndInv
  <2>2. Dense' /\ CanonInv' /\ ChainOrder'
    BY <1>1, LogStep DEF IndInv
  <2>3. IssuedInv' /\ ReturnedLanded'
    BY <1>1, ReturnedStep DEF IndInv
  <2>4. FoldInv'
    BY <1>1, FoldStep DEF IndInv
  <2>5. \A m \in Proc : AppendInv(m)'
    BY <1>1, AppendInvStep DEF IndInv
  <2>6. \A r \in late' : LateInv(r)'
    BY <1>1, LateInvStep DEF IndInv
  <2>7. ChainInv'
    BY <2>2, <2>3, <2>4, <2>5, <2>6 DEF ChainInv
  <2>8. EpochInv' /\ MemberInv'
    BY <1>1, EpochStep, MemberInvStep DEF IndInv
  <2> QED
    BY <2>1, <2>7, <2>8 DEF IndInv
<1>2. CASE UNCHANGED vars
  <2>1. TypeOK'
    BY <1>2, SMTT(30) DEF vars, IndInv, TypeOK
  <2>2. Dense' /\ CanonInv' /\ FoldInv' /\ ChainOrder'
    BY <1>2, SMTT(90) DEF vars, IndInv, ChainInv, Dense, CanonInv, FoldInv, ChainOrder
  <2>3. IssuedInv' /\ ReturnedLanded'
    BY <1>2 DEF vars, IndInv, ChainInv, IssuedInv, Issued, ReturnedLanded, Absent
  <2>4. \A n \in Proc : AppendInv(n)'
    BY <1>2, ZenonT(60) DEF vars, IndInv, ChainInv, AppendInv, Absent, Ours
  <2>5. \A r \in late' : LateInv(r)'
    BY <1>2, Zenon DEF vars, IndInv, ChainInv, LateInv, Issued, Absent
  <2>6. EpochInv' /\ MemberInv'
    BY <1>2, SMTT(60) DEF vars, IndInv, EpochInv, MemberInv, Leaves
  <2> QED
    BY <2>1, <2>2, <2>3, <2>4, <2>5, <2>6 DEF IndInv, ChainInv
<1> QED
  BY <1>1, <1>2

(* The inductive invariant always holds.                                    *)
THEOREM ChainInductive == Spec => []IndInv
  BY IndInvInit, IndInvStep, PTL DEF Spec

(* Types, for every set of nodes and groups and every bound.                *)
THEOREM ChainTypes == Spec => []TypeOK
<1>1. IndInv => TypeOK
  BY DEF IndInv
<1> QED
  BY <1>1, ChainInductive, PTL

(* Any two nodes that folded up to the same seq have the same lease table,  *)
(* whatever was lost, retried or replayed on the way: invariant C-I2 of the *)
(* design, which ApplyChain's dense order and applyFetched rest on.         *)
THEOREM ChainConverges == Spec => []FoldsAgree
<1>1. IndInv => FoldsAgree
  <2> SUFFICES ASSUME IndInv PROVE FoldsAgree
    OBVIOUS
  <2>1. PICK k \in DOMAIN canon : DOMAIN bucket = 1..k
    BY DEF IndInv, ChainInv, Dense
  <2>2. k \in Nat
    BY DEF IndInv, TypeOK, Seqs
  <2>3. \A s \in DOMAIN bucket : 1..s \subseteq DOMAIN bucket
    BY <2>1, <2>2
  <2> QED
    BY <2>3 DEF FoldsAgree, IndInv, ChainInv, FoldInv
<1> QED
  BY <1>1, ChainInductive, PTL

(* Batches land at most once and in their process's order: Append's retry   *)
(* loop and re-checks.                                                      *)
THEOREM ChainExactlyOnce == Spec => []ChainOrder
<1>1. IndInv => ChainOrder
  BY DEF IndInv, ChainInv
<1> QED
  BY <1>1, ChainInductive, PTL

(* A position Append returned holds its batch, judged by its caller.        *)
THEOREM ChainReturns == Spec => []ReturnedLanded
<1>1. IndInv => ReturnedLanded
  BY SMTT(30) DEF IndInv, ChainInv
<1> QED
  BY <1>1, ChainInductive, PTL

(* Accepted commits of a group never return to an older epoch and an epoch  *)
(* has one writer: the epoch fence of applyCommit over applyGrant.          *)
THEOREM ChainEpochFence == Spec => []OneWriterPerEpoch
<1>1. IndInv => OneWriterPerEpoch
  <2> SUFFICES ASSUME IndInv,
                      NEW s1 \in DOMAIN bucket, NEW s2 \in DOMAIN bucket, s1 < s2,
                      NEW x \in LiveAt(s1), NEW y \in LiveAt(s2), x.group = y.group
               PROVE  /\ x.epoch <= y.epoch
                      /\ x.epoch = y.epoch => bucket[s1].writer = bucket[s2].writer
    BY DEF OneWriterPerEpoch
  <2>1. /\ s1 \in Seqs /\ s2 \in Seqs
        /\ s1 - 1 \in DOMAIN canon /\ s2 - 1 \in DOMAIN canon
    BY SeqFacts DEF IndInv, ChainInv
  <2>2. x.group \in Group
    BY Zenon DEF LiveAt, LiveSections, IndInv, TypeOK, Batch, Section
  <2>3. /\ canon[s1 - 1].groups[x.group].epoch = x.epoch
        /\ canon[s1 - 1].groups[x.group].node = bucket[s1].writer
        /\ canon[s2 - 1].groups[x.group].epoch = y.epoch
        /\ canon[s2 - 1].groups[x.group].node = bucket[s2].writer
    BY DEF LiveAt, LiveSections
  <2>4. s1 - 1 <= s2 - 1
    BY <2>1, SMTT(30) DEF Seqs
  <2> QED
    BY <2>1, <2>2, <2>3, <2>4, SMTT(60) DEF IndInv, EpochInv
<1> QED
  BY <1>1, ChainInductive, PTL

(* Behind a join, nothing an older incarnation of the node wrote folds: the *)
(* incarnation half of applyCommit over applyMember.                        *)
THEOREM ChainIncarnationFence == Spec => []IncarnationFence
<1>1. IndInv => IncarnationFence
  <2> SUFFICES ASSUME IndInv,
                      NEW s1 \in DOMAIN bucket, NEW s2 \in DOMAIN bucket, s1 < s2,
                      bucket[s1].ctl.kind = "join",
                      bucket[s2].writer = bucket[s1].ctl.node,
                      LiveAt(s2) # {},
                      \A k \in s1..s2 : ~Leaves(bucket[k], bucket[s1].ctl.node)
               PROVE  bucket[s2].inc >= bucket[s1].ctl.inc
    BY DEF IncarnationFence
  <2>1. /\ s1 \in Seqs /\ s2 \in Seqs
        /\ s2 - 1 \in DOMAIN canon
    BY SeqFacts, SMTT(90) DEF IndInv, ChainInv
  <2>2. bucket[s1].ctl.inc <= canon[s2 - 1].members[bucket[s1].ctl.node]
    BY <2>1, SMTT(90) DEF Seqs, IndInv, MemberInv
  <2>3. canon[s2 - 1].members[bucket[s2].writer] \in {0, bucket[s2].inc}
    BY DEF LiveAt, LiveSections
  <2>4. bucket[s1].ctl.inc \in Nat /\ bucket[s2].inc \in Nat
    <3>1. bucket[s1].ctl \in Control /\ bucket[s2].inc \in Nat
      BY Zenon DEF IndInv, TypeOK, Batch
    <3> QED
      BY <3>1 DEF Control
  <2> QED
    BY <2>2, <2>3, <2>4, SMTT(60)
<1> QED
  BY <1>1, ChainInductive, PTL
============================================================================

-------------------------- MODULE SharedLogProofs --------------------------
(* The commit chain implements the shared log: under the mapping of module  *)
(* CommitChain every step of Append, of the store and of a crash is a step  *)
(* of the log or invisible.                                                 *)
EXTENDS CommitChainProofs

(* A step that leaves the objects alone, adds no request for a batch that   *)
(* was not open, and lets no process into the loop, opens nothing.          *)
LEMMA OpenShrinks ==
  ASSUME bucket' = bucket,
         \A p \in Proc : phase'[p] \in Busy => phase[p] \in Busy /\ cur'[p] = cur[p],
         \A r \in late' \ late : Absent(r.seq) => r.batch \in Open
  PROVE  Open' \subseteq Open
<1> SUFFICES ASSUME NEW b \in Open' PROVE b \in Open
  OBVIOUS
<1>1. CASE \E p \in Proc : phase'[p] \in Busy /\ ~Landed(cur[p])' /\ b = cur'[p]
  <2>1. PICK p \in Proc : phase'[p] \in Busy /\ ~Landed(cur[p])' /\ b = cur'[p]
    BY <1>1
  <2>2. phase[p] \in Busy /\ cur'[p] = cur[p] /\ ~Landed(cur[p])
    BY <2>1 DEF Landed
  <2> QED
    BY <2>1, <2>2 DEF Open
<1>2. CASE \E r \in late' : Absent(r.seq)' /\ b = r.batch
  <2>1. PICK r \in late' : Absent(r.seq)' /\ b = r.batch
    BY <1>2
  <2>2. Absent(r.seq)
    BY <2>1 DEF Absent
  <2> QED
    BY <2>1, <2>2 DEF Open
<1> QED
  BY <1>1, <1>2 DEF Open

(* A step that leaves the objects and the requests alone, and takes out of  *)
(* the loop only a process whose batch landed, closes nothing.              *)
LEMMA OpenStays ==
  ASSUME bucket' = bucket, late \subseteq late',
         \A p \in Proc : phase[p] \in Busy /\ ~Landed(cur[p])
                          => phase'[p] \in Busy /\ cur'[p] = cur[p]
  PROVE  Open \subseteq Open'
<1> SUFFICES ASSUME NEW b \in Open PROVE b \in Open'
  OBVIOUS
<1>1. CASE \E p \in Proc : phase[p] \in Busy /\ ~Landed(cur[p]) /\ b = cur[p]
  <2>1. PICK p \in Proc : phase[p] \in Busy /\ ~Landed(cur[p]) /\ b = cur[p]
    BY <1>1
  <2>2. phase'[p] \in Busy /\ cur'[p] = cur[p] /\ ~Landed(cur[p])'
    BY <2>1 DEF Landed
  <2> QED
    BY <2>1, <2>2 DEF Open
<1>2. CASE \E r \in late : Absent(r.seq) /\ b = r.batch
  <2>1. PICK r \in late : Absent(r.seq) /\ b = r.batch
    BY <1>2
  <2>2. Absent(r.seq)'
    BY <2>1 DEF Absent
  <2> QED
    BY <2>1, <2>2 DEF Open
<1> QED
  BY <1>1, <1>2 DEF Open

(* A landing orders one open batch, and no request is left at its seq.      *)
LEMMA LandingOrders ==
  ASSUME IndInv, Next, NEW s \in Seqs, NEW b \in Batch, Lands(s, b), b \in Open,
         late' \subseteq late, UNCHANGED <<tail, cur, returned>>,
         \A p \in Proc : phase'[p] \in Busy => phase[p] \in Busy
  PROVE  Log!Order(b)
<1>1. /\ DOMAIN canon = 0..(s - 1) /\ DOMAIN bucket = 1..(s - 1)
      /\ DOMAIN bucket' = 1..s /\ bucket'[s] = b
      /\ \A k \in DOMAIN bucket : bucket'[k] = bucket[k]
  BY LandsFacts DEF IndInv, ChainInv
<1>2. \A r \in late' : ~Absent(r.seq)'
  <2> SUFFICES ASSUME NEW r \in late' PROVE r.seq \in DOMAIN bucket'
    BY DEF Absent
  <2>1. r.seq - 1 \in DOMAIN canon /\ r.seq \in Seqs
    BY Zenon DEF IndInv, ChainInv, LateInv, TypeOK, Request
  <2> QED
    BY <1>1, <2>1 DEF Seqs
<1>3. Open' \subseteq Open \ {b}
  <2> SUFFICES ASSUME NEW c \in Open' PROVE c \in Open /\ c # b
    OBVIOUS
  <2>1. PICK p \in Proc : phase'[p] \in Busy /\ ~Landed(cur[p])' /\ c = cur'[p]
    BY <1>2 DEF Open
  <2>2. phase[p] \in Busy /\ c = cur[p]
    BY <2>1
  <2>3. c # b /\ ~Landed(c)
    BY <1>1, <2>1, <2>2 DEF Landed, Seqs
  <2> QED
    BY <2>2, <2>3 DEF Open
<1>4. bucket' = [i \in 1..((s - 1) + 1) |-> IF i = (s - 1) + 1 THEN b ELSE bucket[i]]
  <2>1. bucket' = [i \in DOMAIN bucket \cup {s} |-> IF i = s THEN b ELSE bucket[i]]
    BY DEF Lands, Create
  <2>2. (s - 1) + 1 = s /\ DOMAIN bucket \cup {s} = 1..s
    BY <1>1 DEF Seqs
  <2> QED
    BY <2>1, <2>2
<1>5. s - 1 \in DOMAIN bucket \cup {0}
  BY <1>1 DEF Seqs
<1> QED
  BY <1>1, <1>3, <1>4, <1>5 DEF Log!Order

(* Append submits a batch nobody has seen.                                  *)
LEMMA AppendSubmits ==
  ASSUME IndInv, NEW n \in Proc, Append(n)
  PROVE  \E b \in Open' : Log!Submit(b)
<1>1. PICK x \in Records(n) :
        cur' = [cur EXCEPT ![n] = [writer |-> Writer(n), inc |-> Inc(n), id |-> nextBatch[n],
                                   secs |-> x[1], ctl |-> x[2]]]
  BY Zenon DEF Append
<1>2. x[1] \in SUBSET Section /\ x[2] \in Control
  BY RecordsType DEF IndInv
<1>3. /\ cur \in [Proc -> Batch \cup {NoBatch}] /\ phase \in [Proc -> Phases]
      /\ nextBatch[n] \in Seqs
  BY Zenon DEF IndInv, TypeOK
<1> DEFINE b == cur'[n]
<1>4. b = [writer |-> Writer(n), inc |-> Inc(n), id |-> nextBatch[n],
           secs |-> x[1], ctl |-> x[2]]
  BY <1>1, <1>3
<1>5. b \in Batch /\ Sender(b, n) /\ b.id = nextBatch[n]
  BY <1>2, <1>3, <1>4, ProcFacts DEF Batch, Sender, Seqs
<1>6. \A p \in Proc : p # n => cur'[p] = cur[p] /\ phase'[p] = phase[p]
  BY <1>1, <1>3 DEF Append, GoTo
<1>7. phase[n] = "idle" /\ phase'[n] = "put" /\ bucket' = bucket /\ late' = late
  BY <1>3 DEF Append, GoTo
<1> HIDE DEF b
<1>8. \A c \in Batch : Issued(c) => c # b
  BY <1>3, <1>5 DEF Issued, Sender, Batch, Seqs
<1>9. \A s \in DOMAIN bucket : bucket[s] # b
  BY <1>8 DEF IndInv, TypeOK, ChainInv, IssuedInv
<1>10. \A r \in late : r.batch # b
  BY <1>8 DEF IndInv, TypeOK, ChainInv, LateInv, Request
<1>11. \A p \in Proc : phase[p] \in Busy => cur[p] # b
  <2> SUFFICES ASSUME NEW p \in Proc, phase[p] \in Busy PROVE cur[p] # b
    OBVIOUS
  <2>1. cur[p] \in Batch /\ Issued(cur[p])
    BY CurIssued DEF IndInv
  <2> QED
    BY <1>8, <2>1
<1>12. b \notin Open
  BY <1>10, <1>11 DEF Open
<1>13. b \in Open'
  BY <1>7, <1>9 DEF Open, Landed, Busy, b
<1>14. Open' = Open \cup {b}
  <2>1. ASSUME NEW c \in Open', c # b PROVE c \in Open
    <3>1. CASE \E p \in Proc : phase'[p] \in Busy /\ ~Landed(cur[p])' /\ c = cur'[p]
      <4>1. PICK p \in Proc : phase'[p] \in Busy /\ ~Landed(cur[p])' /\ c = cur'[p]
        BY <3>1
      <4>2. p # n /\ phase[p] \in Busy /\ c = cur[p] /\ ~Landed(cur[p])
        BY <1>6, <1>7, <2>1, <4>1 DEF Landed, b
      <4> QED
        BY <4>2 DEF Open
    <3>2. CASE \E r \in late' : Absent(r.seq)' /\ c = r.batch
      BY <1>7, <3>2 DEF Open, Absent
    <3> QED
      BY <2>1, <3>1, <3>2 DEF Open
  <2>2. Open \subseteq Open'
    <3>1. \A p \in Proc : phase[p] \in Busy => phase'[p] \in Busy /\ cur'[p] = cur[p]
      BY <1>6, <1>7 DEF Busy
    <3> QED
      BY <1>7, <3>1, OpenStays
  <2> QED
    BY <1>13, <2>1, <2>2
<1>15. Log!Submit(b)
  BY <1>5, <1>7, <1>9, <1>12, <1>14 DEF Log!Submit, Log!Fresh, Append
<1> QED
  BY <1>13, <1>15

(* Every step of the chain is a step of the log or invisible.               *)
LEMMA ChainStepRefines ==
  ASSUME IndInv, Next
  PROVE  Log!Next \/ UNCHANGED Log!vars
<1> USE DEF GoTo, Contend
<1>0. phase \in [Proc -> Phases] /\ cur \in [Proc -> Batch \cup {NoBatch}] /\ tail \in [Proc -> Nat]
  BY Zenon DEF IndInv, TypeOK
<1>1. ASSUME NEW n \in Proc, Follow(n)
      PROVE  Log!Read(n)
  <2>1. Open' = Open
    BY <1>1, OpenShrinks, OpenStays DEF Follow
  <2> QED
    BY <1>1, <2>1 DEF Follow, ApplyFetched, Absent, Log!Read
<1>2. ASSUME NEW n \in Proc, Append(n)
      PROVE  Log!Next
  BY <1>2, AppendSubmits DEF Log!Next
<1>3. ASSUME NEW n \in Proc,
             Start(n) \/ Booted(n) \/ PutRefused(n) \/ RecheckAbsent(n) \/ GetFirstAbsent(n)
      PROVE  UNCHANGED Log!vars
  <2>1. /\ UNCHANGED <<bucket, late, cur, tail, returned>>
        /\ \A p \in Proc : phase'[p] \in Busy <=> phase[p] \in Busy
    BY <1>0, <1>3 DEF Start, Booted, PutRefused, RecheckAbsent, GetFirstAbsent, Busy
  <2>2. Open' = Open
    BY <2>1, OpenShrinks, OpenStays, Zenon
  <2> QED
    BY <2>1, <2>2 DEF Log!vars
<1>4. ASSUME NEW n \in Proc, PutUnknown(n)
      PROVE  UNCHANGED Log!vars
  <2>1. /\ UNCHANGED <<bucket, cur, tail, returned>>
        /\ phase[n] \in Busy
        /\ late' = late \cup {[seq |-> tail[n] + 1, batch |-> cur[n]]}
        /\ \A p \in Proc : phase'[p] \in Busy <=> phase[p] \in Busy
    BY <1>0, <1>4 DEF PutUnknown, Busy
  <2>2. Absent(tail[n] + 1) => ~Landed(cur[n])
    <3>1. \A s \in DOMAIN bucket : Ours(bucket[s], cur[n]) => s = tail[n] + 1
      BY <2>1, Zenon DEF IndInv, ChainInv, AppendInv
    <3>2. cur[n] \in Batch /\ cur[n].id > 0
      BY <2>1, Zenon DEF IndInv, ChainInv, AppendInv
    <3>3. Ours(cur[n], cur[n])
      BY <3>2 DEF Ours, Batch
    <3> QED
      BY <3>1, <3>3 DEF Landed, Absent
  <2>3. \A r \in late' \ late : Absent(r.seq) => r.batch \in Open
    BY <2>1, <2>2 DEF Open
  <2>4. Open' = Open
    BY <2>1, <2>3, OpenShrinks, OpenStays, Zenon
  <2> QED
    BY <2>1, <2>4 DEF Log!vars
<1>5. ASSUME NEW n \in Proc, AppendFails(n) \/ Crash(n)
      PROVE  Log!Abandon
  <2>1. /\ UNCHANGED <<bucket, late, tail, returned>>
        /\ \A p \in Proc : phase'[p] \in Busy => phase[p] \in Busy /\ cur'[p] = cur[p]
    BY <1>0, <1>5 DEF AppendFails, Crash, Return, Busy
  <2>2. Open' \subseteq Open
    BY <2>1, OpenShrinks
  <2> QED
    BY <2>1, <2>2 DEF Log!Abandon
<1>6. ASSUME NEW n \in Proc, ApplyOwn(n)
      PROVE  Log!Read(n)
  <2>1. ~Absent(tail[n] + 1) /\ bucket[tail[n] + 1] = cur[n]
    BY <1>6 DEF ApplyOwn, IndInv, ChainInv, AppendInv
  <2>2. Landed(cur[n])
    BY <2>1 DEF Landed, Absent
  <2>3. /\ \A p \in Proc : p # n => phase'[p] = phase[p] /\ cur'[p] = cur[p]
        /\ phase'[n] = "idle" /\ UNCHANGED <<bucket, late>>
    BY <1>0, <1>6 DEF ApplyOwn, Return
  <2>4. Open' = Open
    <3>1. \A p \in Proc : phase'[p] \in Busy => phase[p] \in Busy /\ cur'[p] = cur[p]
      BY <2>3 DEF Busy
    <3>2. \A p \in Proc : phase[p] \in Busy /\ ~Landed(cur[p])
                             => phase'[p] \in Busy /\ cur'[p] = cur[p]
      BY <2>2, <2>3
    <3> QED
      BY <2>3, <3>1, <3>2, OpenShrinks, OpenStays, Zenon
  <2> QED
    BY <1>6, <2>1, <2>4 DEF ApplyOwn, ApplyFetched, Absent, Log!Read
<1>7. ASSUME NEW n \in Proc, Recheck(n) \/ GetFirst(n)
      PROVE  Log!Read(n)
  <2>1. /\ ~Absent(tail[n] + 1) /\ phase[n] \in Busy
        /\ UNCHANGED <<bucket, late>>
        /\ tail' = [tail EXCEPT ![n] = @ + 1]
        /\ \A p \in Proc : p # n => phase'[p] = phase[p] /\ cur'[p] = cur[p]
    BY <1>0, <1>7 DEF Recheck, GetFirst, ApplyFound, ApplyFetched, Return, Busy
  <2>2. CASE Ours(bucket[tail[n] + 1], cur[n])
    <3>1. bucket[tail[n] + 1] = cur[n]
      BY <2>1, <2>2, Zenon DEF IndInv, ChainInv, AppendInv, Absent
    <3>2. /\ returned' = returned \cup {[batch |-> cur[n], pos |-> tail[n] + 1]}
          /\ phase'[n] = "idle"
      BY <1>0, <1>7, <2>2 DEF Recheck, GetFirst, ApplyFound, Return
    <3>3. Landed(cur[n])
      BY <2>1, <3>1 DEF Landed, Absent
    <3>4. Open' = Open
      <4>1. \A p \in Proc : phase'[p] \in Busy => phase[p] \in Busy /\ cur'[p] = cur[p]
        BY <2>1, <3>2 DEF Busy
      <4>2. \A p \in Proc : phase[p] \in Busy /\ ~Landed(cur[p])
                               => phase'[p] \in Busy /\ cur'[p] = cur[p]
        BY <2>1, <3>3
      <4> QED
        BY <2>1, <4>1, <4>2, OpenShrinks, OpenStays, Zenon
    <3> QED
      BY <2>1, <3>1, <3>2, <3>4 DEF Absent, Log!Read
  <2>3. CASE ~Ours(bucket[tail[n] + 1], cur[n])
    <3>1. UNCHANGED <<cur, returned>> /\ phase'[n] = "get"
      BY <1>0, <1>7, <2>3, Zenon DEF Recheck, GetFirst, ApplyFound
    <3>2. Open' = Open
      <4>1. \A p \in Proc : (phase'[p] \in Busy <=> phase[p] \in Busy) /\ cur'[p] = cur[p]
        BY <2>1, <3>1 DEF Busy
      <4> QED
        BY <2>1, <4>1, OpenShrinks, OpenStays, Zenon
    <3> QED
      BY <2>1, <3>1, <3>2 DEF Absent, Log!Read
  <2> QED
    BY <2>2, <2>3
<1>8. ASSUME NEW n \in Proc, PutLands(n)
      PROVE  Log!Next
  <2>1. phase[n] \in Busy /\ Absent(tail[n] + 1) /\ tail[n] + 1 \in Seqs
    BY <1>0, <1>8 DEF PutLands, Busy, Seqs
  <2>2. cur[n] \in Batch /\ Lands(tail[n] + 1, cur[n])
    BY <1>8, PutLandsLands DEF IndInv
  <2>3. /\ UNCHANGED <<late, tail, cur, returned>>
        /\ \A p \in Proc : phase'[p] \in Busy => phase[p] \in Busy
    BY <1>0, <1>8 DEF PutLands, Busy
  <2>4. cur[n] \in Open
    <3>1. ~Landed(cur[n])
      BY <2>2 DEF Lands, Landed, Batch
    <3> QED
      BY <2>1, <3>1 DEF Open
  <2>5. Log!Order(cur[n])
    BY <2>1, <2>2, <2>3, <2>4, LandingOrders
  <2> QED
    BY <2>4, <2>5 DEF Log!Next
<1>9. ASSUME NEW r \in late, LatePut(r)
      PROVE  Log!Next \/ UNCHANGED Log!vars
  <2>1. r.batch \in Batch /\ r.seq \in Seqs /\ LateInv(r)
    BY Zenon DEF IndInv, ChainInv, TypeOK, Request
  <2>2. late' = late \ {r} /\ UNCHANGED <<tail, phase, cur, returned>>
    BY <1>9, Zenon DEF LatePut
  <2>3. CASE Absent(r.seq)
    <3>1. Lands(r.seq, r.batch) /\ r.batch \in Open
      BY <1>9, <2>1, <2>3 DEF LatePut, Lands, LateInv, Open
    <3>2. Log!Order(r.batch)
      BY <2>1, <2>2, <3>1, LandingOrders
    <3> QED
      BY <3>1, <3>2 DEF Log!Next
  <2>4. CASE ~Absent(r.seq)
    <3>1. bucket' = bucket
      BY <1>9, <2>4, Zenon DEF LatePut
    <3>2. Open' = Open
      <4>1. \A q \in late : Absent(q.seq) => q \in late'
        BY <2>2, <2>4
      <4> QED
        BY <2>2, <3>1, <4>1 DEF Open, Landed, Absent
    <3> QED
      BY <2>2, <3>1, <3>2 DEF Log!vars
  <2> QED
    BY <2>3, <2>4
<1> QED
  BY <1>1, <1>2, <1>3, <1>4, <1>5, <1>6, <1>7, <1>8, <1>9, Zenon DEF Next, Step, Log!Next

(* The chain of create-if-absent objects is an atomic shared log, for any   *)
(* number of processes, lost and late requests and crashes: what Append's   *)
(* doc comment promises, "commits one batch ... and returns where it        *)
(* landed".                                                                 *)
THEOREM ChainIsSharedLog == Spec => IsSharedLog
<1>1. Init => Log!Init
  <2> SUFFICES ASSUME Init PROVE Log!Init
    OBVIOUS
  <2>1. bucket = [k \in {} |-> 0] /\ tail = [p \in Proc |-> 0] /\ returned = {}
    BY DEF Init
  <2>2. Open = {}
    BY DEF Init, Open, Busy
  <2> QED
    BY <2>1, <2>2 DEF Log!Init
<1>2. IndInv /\ [Next]_vars => [Log!Next]_(Log!vars)
  <2>1. UNCHANGED vars => UNCHANGED Log!vars
    BY DEF vars, Log!vars, Open, Landed, Absent
  <2> QED
    BY <2>1, ChainStepRefines
<1> QED
  BY <1>1, <1>2, ChainInductive, PTL DEF Spec, IsSharedLog, Log!Spec
============================================================================

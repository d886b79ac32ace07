------------------------------ MODULE WalRing ------------------------------
(* The write-ahead sidecar of one sqlo1 shard (engine/sqlo1/wal.go): frames *)
(* carrying consecutive sequence numbers, appended to a buffer, flushed as  *)
(* one batch to a ring of segments, made durable by Sync.  Opening the file *)
(* scans every segment and keeps the chain that ends at the highest         *)
(* sequence number; Replay walks it above the trim barrier.                 *)
(*                                                                          *)
(* Frames have one size, so a segment is SegSlots slots.  A slot that holds *)
(* no frame the scan could verify (zeroes, a tear) is Blank.                *)
EXTENDS Integers, Sequences, FiniteSets, FiniteSetsExt, SequencesExt

CONSTANTS NSeg,      \* bound: segments the file grows to
          SegSlots   \* frames a segment holds

ASSUME RingAssumption == NSeg \in Nat \ {0} /\ SegSlots \in Nat \ {0}

Seg == 1..NSeg

Slot == 1..SegSlots

Blank == [seq |-> 0, op |-> "blank", key |-> 0, val |-> 0]

VARIABLES
  disk,     \* disk[s][i]: the file as a process reads it
  durable,  \* the file as the last Sync left it
  segs,     \* the directory: first and last seq of a segment, slots in use
  cur,      \* the segment being written
  nextSeq,
  trim,     \* the trim barrier in RAM
  buf       \* frames appended and not flushed

ringVars == <<disk, durable, segs, cur, nextSeq, trim, buf>>

FreeSeg == [first |-> 0, last |-> 0, end |-> 0]

----------------------------------------------------------------------------
(* Scanning.                                                                *)

(* The first n slots continue the chain: each verifies, each follows its    *)
(* predecessor, and the first follows "after" unless that is zero.          *)
Trusted(slots, after, n) ==
  \A i \in 1..n :
    LET prev == IF i = 1 THEN after ELSE slots[i - 1].seq IN
    slots[i].seq # 0 /\ (prev = 0 \/ slots[i].seq = prev + 1)

ScanLen(slots, after) ==
  Max({n \in 0..SegSlots : Trusted(slots, after, n)})

scanSegment(slots, after) ==
  LET n == ScanLen(slots, after) IN
  IF n = 0 THEN FreeSeg
  ELSE [first |-> slots[1].seq, last |-> slots[n].seq, end |-> n]

Live(dir) == {s \in Seg : dir[s].first # 0}

(* The segments that connect, one after the other, into segment t.          *)
ChainInto(dir, t) ==
  LET Pred(c) == {s \in Live(dir) \ c.set : dir[s].last + 1 = dir[c.head].first}
      walk[n \in 0..NSeg] ==
        IF n = 0 THEN [set |-> {t}, head |-> t]
        ELSE LET c == walk[n - 1] IN
             IF Pred(c) = {} THEN c
             ELSE [set |-> c.set \cup {Min(Pred(c))}, head |-> Min(Pred(c))]
  IN walk[NSeg].set

(* The segment openWAL anchors at: the first of those with the highest last *)
(* sequence number.                                                         *)
TailSeg(dir) ==
  Min({s \in Live(dir) : \A r \in Live(dir) : dir[r].last <= dir[s].last})

(* The directory openWAL rebuilds from a file, the segment writing resumes  *)
(* in and the next sequence number.                                         *)
openWAL(file) ==
  LET dir == [s \in Seg |-> scanSegment(file[s], 0)] IN
  IF Live(dir) = {} THEN [segs |-> dir, cur |-> 1, next |-> 1]
  ELSE LET t == TailSeg(dir)
           in == ChainInto(dir, t)
       IN [segs |-> [s \in Seg |-> IF s \in in THEN dir[s] ELSE FreeSeg],
           cur  |-> t,
           next |-> dir[t].last + 1]

(* The live segments by their first sequence number.                        *)
liveOrder(dir) ==
  [n \in 1..Cardinality(Live(dir)) |->
     CHOOSE s \in Live(dir) :
       Cardinality({r \in Live(dir) : dir[r].first < dir[s].first}) = n - 1]

(* The frames Replay hands out: segment by segment, anchoring the chain at  *)
(* subsumed segments, ending at the first break.                            *)
Replay(file, dir, barrier) ==
  LET order == liveOrder(dir)
      Above(slots, n) == SelectSeq(SubSeq(slots, 1, n), LAMBDA f : f.seq > barrier)
      walk[n \in 0..Len(order)] ==
        IF n = 0 THEN [after |-> 0, out |-> <<>>, done |-> FALSE]
        ELSE LET w    == walk[n - 1]
                 s    == order[n]
                 scan == scanSegment(file[s], w.after)
             IN IF w.done THEN w
                ELSE IF dir[s].last <= barrier THEN [w EXCEPT !.after = dir[s].last]
                ELSE IF scan = FreeSeg THEN [w EXCEPT !.done = TRUE]
                ELSE [after |-> scan.last,
                      out   |-> w.out \o Above(file[s], scan.end),
                      done  |-> FALSE]
  IN walk[Len(order)].out

----------------------------------------------------------------------------
(* Writing.                                                                 *)

(* Append numbers a frame and buffers it: the buffer after frames fs.       *)
Numbered(fs) == [i \in 1..Len(fs) |-> [fs[i] EXCEPT !.seq = nextSeq + i - 1]]

LastSeq == nextSeq - 1

(* A variant: a segment is taken while its last frame is the one just above *)
(* the barrier.                                                             *)
MutRecyclable(s) == segs[s].first = 0 \/ segs[s].last <= trim + 1

Recyclable(s) == segs[s].first = 0 \/ segs[s].last <= trim

(* The segments advance may move to; the lowest is taken.                   *)
Spare == {s \in Seg \ {cur} : Recyclable(s)}

Fits(b) == segs[cur].end + Len(b) <= SegSlots

(* Bound: the file never needs more than NSeg segments, and nothing is      *)
(* flushed that is larger than one, which Flush would refuse with an error  *)
(* (errWalTooLarge) and keep.                                               *)
Room(b) == Len(b) <= SegSlots /\ (b = <<>> \/ Fits(b) \/ Spare # {})

(* advance closes the chain of the current segment with a zero frame.       *)
Sentinel(file) ==
  IF segs[cur].end < SegSlots
    THEN [file EXCEPT ![cur][segs[cur].end + 1] = Blank]
    ELSE file

WriteAt(file, s, end, b) ==
  [file EXCEPT ![s] = [i \in Slot |-> IF i - end \in DOMAIN b THEN b[i - end] ELSE @[i]]]

(* A variant: advance does not reset the directory entry of the segment it  *)
(* recycles.                                                                *)
MutFlushed(b) ==
  IF b = <<>> THEN [disk |-> disk, segs |-> segs, cur |-> cur]
  ELSE LET here == Fits(b)
           s    == IF here THEN cur ELSE Min(Spare)
           old  == IF here THEN segs[cur] ELSE [segs[s] EXCEPT !.end = 0]
       IN [disk |-> WriteAt(IF here THEN disk ELSE Sentinel(disk), s, old.end, b),
           segs |-> [segs EXCEPT
                       ![s] = [first |-> IF old.first = 0 THEN b[1].seq ELSE old.first,
                               last  |-> b[Len(b)].seq,
                               end   |-> old.end + Len(b)]],
           cur  |-> s]

(* The file, directory and segment once Flush has written the buffer b      *)
(* behind the last frame, in the next segment if it does not fit.           *)
Flushed(b) ==
  IF b = <<>> THEN [disk |-> disk, segs |-> segs, cur |-> cur]
  ELSE LET here == Fits(b)
           s    == IF here THEN cur ELSE Min(Spare)
           old  == IF here THEN segs[cur] ELSE FreeSeg
       IN [disk |-> WriteAt(IF here THEN disk ELSE Sentinel(disk), s, old.end, b),
           segs |-> [segs EXCEPT
                       ![s] = [first |-> IF old.first = 0 THEN b[1].seq ELSE old.first,
                               last  |-> b[Len(b)].seq,
                               end   |-> old.end + Len(b)]],
           cur  |-> s]

Flush(b) ==
  /\ Room(b)
  /\ \E f \in {Flushed(b)} : disk' = f.disk /\ segs' = f.segs /\ cur' = f.cur
  /\ buf' = <<>>

(* What a crash leaves of the file: a slot written since the last Sync is   *)
(* there, or is what it was, or is torn.                                    *)
Unsynced == {p \in Seg \X Slot : disk[p[1]][p[2]] # durable[p[1]][p[2]]}

Landed(new, torn) ==
  [s \in Seg |-> [i \in Slot |->
     IF <<s, i>> \in torn THEN Blank
     ELSE IF <<s, i>> \in new THEN disk[s][i] ELSE durable[s][i]]]

(* The order the unsynced slots were written in: frames by their number, the *)
(* zero frame of a segment behind its last frame.                           *)
Stamp(p) ==
  IF disk[p[1]][p[2]] # Blank THEN 2 * disk[p[1]][p[2]].seq
  ELSE 2 * disk[p[1]][p[2] - 1].seq + 1

(* What lands: a disk that reorders keeps any slots and tears any others, a  *)
(* disk that does not is cut off at one slot, torn or not written.          *)
Cuts(reorders) ==
  LET un == Unsynced IN
  IF reorders
    THEN UNION {{[new |-> n, torn |-> t] : t \in SUBSET (un \ n)} : n \in SUBSET un}
    ELSE {[new |-> un, torn |-> {}]} \cup
         UNION {{[new |-> {q \in un : Stamp(q) < Stamp(p)}, torn |-> t] : t \in {{}, {p}}} :
                  p \in un}

RingInit ==
  /\ disk = [s \in Seg |-> [i \in Slot |-> Blank]]
  /\ durable = disk
  /\ segs = [s \in Seg |-> FreeSeg]
  /\ cur = 1 /\ nextSeq = 1 /\ trim = 0 /\ buf = <<>>
=============================================================================

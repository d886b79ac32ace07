-------------------------- MODULE CheckpointStore --------------------------
(* The sqlo1b store of one shard (engine/sqlo1b): drain batches, generation *)
(* bumps and mint leases made durable through the sidecar of WalRing, the   *)
(* six-step checkpoint that moves them into the data file under one of two  *)
(* alternating superblocks, and the recovery that picks the surviving       *)
(* superblock and replays the sidecar above its trim barrier.  The store's  *)
(* mutex serialises the operations; what interleaves with their steps is    *)
(* the crash.  A killed process leaves its writes with the operating        *)
(* system, where the next one reads them and a power cut may lose them.     *)
(*                                                                          *)
(* A record is its key and a value that names the batch that wrote it.      *)
(* Extents and the index are the snapshot a superblock's roots lead to.     *)
EXTENDS WalRing

CONSTANTS Key,
          Loss,       \* crashes: "kill", "ordered", "reordered" power cuts
          MaxOp,      \* bound: batches, generation bumps and mint leases
          MaxCkpt,    \* bound: checkpoints
          MaxWork,    \* bound: operations and checkpoints together
          MaxSeal,    \* bound: extents sealed
          MaxCrash    \* bound: crashes and clean closes

ASSUME StoreAssumption ==
  /\ Key # {} /\ 0 \notin Key
  /\ Loss \subseteq {"kill", "ordered", "reordered"}
  /\ {MaxOp, MaxCkpt, MaxWork, MaxSeal, MaxCrash} \subseteq Nat

VARIABLES
  mode,       \* "up", "down", or "failed": OpenStore returned an error
  pc,         \* the step the operation holding the mutex has reached
  ram,        \* the records, generation, mint mark and high-water mark served
  fly,        \* the frames flushed and not yet synced by an operation
  sb,         \* the current root in RAM: its seq and trim
  target,     \* the seq a running checkpoint froze
  slots,      \* the two superblock slots, as a process reads them
  dslots,     \* the two superblock slots, as the last Sync left them
  sealed,     \* extents sealed so far
  crashes,
  issued,     \* history: operations begun, which names a batch's values
  acked,      \* history: what the store held when an operation last returned
  synced,     \* history: the frames of the chain at the last Sync
  dead,       \* history: batches a crash interrupted and recovery dropped
  short,      \* history: a recovered sidecar ended below its trim barrier
  ran,        \* history: the youngest root a store was up with
  lost        \* history: a store was opened on an older root than that

rootVars == <<sb, target, slots, dslots>>

histVars == <<issued, acked, synced, dead, short, ran, lost>>

vars == <<ringVars, rootVars, histVars, mode, pc, ram, fly, sealed, crashes>>

Content == [kv : [Key -> 0..MaxOp], gen : 0..MaxOp, mint : 0..MaxOp, hw : 0..MaxOp]

Empty == [kv |-> [k \in Key |-> 0], gen |-> 0, mint |-> 0, hw |-> 0]

Frame(op, key, val) == [seq |-> 0, op |-> op, key |-> key, val |-> val]

Seals(n) == [i \in 1..n |-> Frame("seal", 0, 0)]

----------------------------------------------------------------------------
(* What one frame does to the store, live and in replay: puts overwrite,    *)
(* generations and mint marks only grow, a mark sets the high-water mark.   *)
ApplyFrame(r, f) ==
  CASE f.op = "put"  -> [r EXCEPT !.kv[f.key] = f.val]
    [] f.op = "bump" -> [r EXCEPT !.gen = Max({@, f.val})]
    [] f.op = "mint" -> [r EXCEPT !.mint = Max({@, f.val})]
    [] f.op = "mark" -> [r EXCEPT !.hw = f.val]
    [] OTHER         -> r

ApplyAll(r, fs) ==
  LET upTo[n \in 0..Len(fs)] == IF n = 0 THEN r ELSE ApplyFrame(upTo[n - 1], fs[n])
  IN upTo[Len(fs)]

(* A variant: everything past the last mark goes, standalone bumps and mint *)
(* leases too.                                                              *)
MutTruncateTail(fs) ==
  SubSeq(fs, 1, Max({0} \cup {i \in DOMAIN fs : fs[i].op = "mark"}))

(* The tail without the puts past its last mark.                            *)
truncateTail(fs) ==
  LET last == Max({0} \cup {i \in DOMAIN fs : fs[i].op = "mark"}) IN
  SubSeq(fs, 1, last) \o
    SelectSeq(SubSeq(fs, last + 1, Len(fs)), LAMBDA f : f.op \in {"bump", "mint"})

----------------------------------------------------------------------------
(* Superblocks.                                                             *)

slotOff(seq) == seq % 2

(* NewSuperblock, which InitSuperblocks writes to both slots.               *)
Creation == [seq |-> 1, trim |-> 0, root |-> Empty, ok |-> TRUE, pages |-> TRUE]

(* A variant: slot 0 whenever it verifies.                                  *)
MutReadSuperblock == IF slots[0].ok THEN slots[0] ELSE slots[1]

(* The verifying slot with the higher seq, slot 0 when they are equal.      *)
ReadSuperblock ==
  CHOOSE s \in {slots[0], slots[1]} :
    s.ok /\ \A t \in {slots[0], slots[1]} : t.ok => t.seq <= s.seq

Openable == slots[0].ok \/ slots[1].ok

Landing(s, ok, pages) ==
  [seq |-> s.seq, trim |-> s.trim, root |-> s.root, ok |-> ok, pages |-> pages]

(* The data-file half of a power cut.  A slot written and not synced lands, *)
(* does not, or is torn.  The index and allocmap pages its roots point at   *)
(* were written just before it, with no Sync between: a disk that reorders  *)
(* writes may lose them and keep the slot.                                  *)
SlotOutcomes(i) ==
  IF slots[i] = dslots[i] THEN {slots[i]}
  ELSE {slots[i], dslots[i], Landing(slots[i], FALSE, TRUE)}
         \cup {Landing(slots[i], TRUE, FALSE) : l \in Loss \cap {"reordered"}}

----------------------------------------------------------------------------
Init ==
  /\ RingInit
  /\ mode = "up" /\ pc = "idle"
  /\ ram = Empty
  /\ fly = <<>>
  /\ sb = [seq |-> 1, trim |-> 0]
  /\ target = 0
  /\ slots = [i \in 0..1 |-> Creation]
  /\ dslots = slots
  /\ sealed = 0 /\ crashes = 0 /\ issued = 0
  /\ acked = Empty
  /\ synced = {}
  /\ dead = {}
  /\ short = FALSE
  /\ ran = 1
  /\ lost = FALSE

(* Bound: the operations begun and the checkpoints behind the root in       *)
(* force.                                                                   *)
Busy == issued + sb.seq > MaxWork

(* The operations write their frames as one batch behind what is buffered,  *)
(* then sync.                                                               *)
Emit(fs) ==
  /\ mode = "up" /\ pc = "idle" /\ issued < MaxOp /\ ~Busy
  /\ Flush(buf \o Numbered(fs))
  /\ nextSeq' = nextSeq + Len(fs)
  /\ fly' = fs
  /\ issued' = issued + 1
  /\ pc' = "flushed"
  /\ UNCHANGED <<durable, trim, rootVars, mode, ram, sealed, crashes,
                 acked, synced, dead, short, ran, lost>>

(* ApplyBatch: the puts, the bumps that ride the batch, the mark.           *)
ApplyBatch(keys, bumps) ==
  Emit([i \in 1..Cardinality(keys) |-> Frame("put", SetToSeq(keys)[i], issued + 1)]
       \o [i \in 1..bumps |-> Frame("bump", 0, ram.gen + 1)]
       \o <<Frame("mark", 0, ram.hw + 1)>>)

GenBump == Emit(<<Frame("bump", 0, ram.gen + 1)>>)

MintLease == Emit(<<Frame("mint", 0, ram.mint + 1)>>)

LiveFrames ==
  UNION {{disk[s][i] : i \in 1..segs[s].end} : s \in Live(segs)}

(* The sync is the durability point; then the operation applies to RAM,     *)
(* which may fill an extent and buffer its SEAL frame, and returns.         *)
SyncAndApply(n) ==
  /\ mode = "up" /\ pc = "flushed" /\ sealed + n <= MaxSeal
  /\ durable' = disk
  /\ synced' = {f \in LiveFrames : f.seq > sb.trim}
  /\ ram' = ApplyAll(ram, fly)
  /\ acked' = ram'
  /\ fly' = <<>>
  /\ buf' = Numbered(Seals(n))
  /\ nextSeq' = nextSeq + n
  /\ sealed' = sealed + n
  /\ pc' = "idle"
  /\ UNCHANGED <<disk, segs, cur, trim, rootVars, mode, crashes, issued, dead,
                 short, ran, lost>>

----------------------------------------------------------------------------
(* Checkpoint.                                                              *)

(* A variant: the data file is not synced.                                  *)
MutCkptDrain ==
  /\ mode = "up" /\ pc = "idle" /\ sb.seq <= MaxCkpt /\ ~Busy
  /\ target' = LastSeq
  /\ pc' = "drained"
  /\ UNCHANGED <<ringVars, histVars, sb, slots, dslots, mode, ram, fly,
                 sealed, crashes>>

(* Steps 1 and 2: freeze the target, sync the data file, and with it the    *)
(* root a killed process may have left unsynced.                            *)
CkptDrain ==
  /\ mode = "up" /\ pc = "idle" /\ sb.seq <= MaxCkpt /\ ~Busy
  /\ target' = LastSeq
  /\ dslots' = slots
  /\ pc' = "drained"
  /\ UNCHANGED <<ringVars, histVars, sb, slots, mode, ram, fly, sealed,
                 crashes>>

(* Steps 3 and 4: write index and allocmap pages.  A stream that fills its  *)
(* extent on the way buffers a SEAL frame.                                  *)
CkptFlush(n) ==
  /\ mode = "up" /\ pc = "drained" /\ sealed + n <= MaxSeal
  /\ buf' = buf \o Numbered(Seals(n))
  /\ nextSeq' = nextSeq + n
  /\ sealed' = sealed + n
  /\ pc' = "paged"
  /\ UNCHANGED <<disk, durable, segs, cur, trim, rootVars, histVars, mode,
                 ram, fly, crashes>>

(* Step 5: CommitSuperblock writes the alternate slot ...                   *)
CkptWrite ==
  /\ mode = "up" /\ pc = "paged"
  /\ slots' = [slots EXCEPT ![slotOff(sb.seq + 1)] =
       [seq |-> sb.seq + 1, trim |-> target, root |-> ram,
        ok |-> TRUE, pages |-> TRUE]]
  /\ pc' = "written"
  /\ UNCHANGED <<ringVars, histVars, sb, target, dslots, mode, ram, fly,
                 sealed, crashes>>

(* ... and syncs.                                                           *)
CkptCommit ==
  /\ mode = "up" /\ pc = "written"
  /\ dslots' = slots
  /\ pc' = "committed"
  /\ UNCHANGED <<ringVars, histVars, sb, target, slots, mode, ram, fly,
                 sealed, crashes>>

(* A variant: the CKPT frame goes out before the superblock is synced.      *)
MutCkptFinish ==
  /\ mode = "up" /\ pc = "written"
  /\ Flush(buf \o Numbered(<<Frame("ckpt", 0, sb.seq + 1)>>))
  /\ nextSeq' = nextSeq + 1
  /\ trim' = target
  /\ sb' = [seq |-> sb.seq + 1, trim |-> target]
  /\ pc' = "idle"
  /\ ran' = sb.seq + 1
  /\ UNCHANGED <<durable, target, slots, dslots, issued, acked, synced, dead,
                 short, lost, mode, ram, fly, sealed, crashes>>

(* Step 6: the CKPT frame is flushed, not synced; the barrier moves.        *)
CkptFinish ==
  /\ mode = "up" /\ pc = "committed"
  /\ Flush(buf \o Numbered(<<Frame("ckpt", 0, sb.seq + 1)>>))
  /\ nextSeq' = nextSeq + 1
  /\ trim' = target
  /\ sb' = [seq |-> sb.seq + 1, trim |-> target]
  /\ pc' = "idle"
  /\ ran' = sb.seq + 1
  /\ UNCHANGED <<durable, target, slots, dslots, issued, acked, synced, dead,
                 short, lost, mode, ram, fly, sealed, crashes>>

----------------------------------------------------------------------------
(* Going down and coming back.                                              *)

(* Only the two files outlive the process.                                  *)
Down ==
  /\ mode' = "down" /\ pc' = "idle"
  /\ crashes < MaxCrash /\ crashes' = crashes + 1
  /\ segs' = [s \in Seg |-> FreeSeg]
  /\ cur' = 1 /\ nextSeq' = 1 /\ trim' = 0 /\ buf' = <<>>
  /\ ram' = Empty /\ sb' = [seq |-> 0, trim |-> 0] /\ target' = 0
  /\ UNCHANGED <<histVars, fly, sealed>>

(* The process is killed: the operating system keeps what it wrote.         *)
Kill ==
  /\ mode = "up" /\ "kill" \in Loss
  /\ Down
  /\ UNCHANGED <<disk, durable, slots, dslots>>

(* The machine loses power, under a running store or after one: unsynced    *)
(* slots land, do not, or are torn, in any combination, or only up to the   *)
(* write the power cut hit.                                                 *)
PowerCut ==
  /\ mode \in {"up", "down"} /\ Loss # {"kill"}
  /\ Down
  /\ \E c \in Cuts("reordered" \in Loss) :
       disk' = Landed(c.new, c.torn) /\ durable' = disk'
  /\ \E a \in SlotOutcomes(0), b \in SlotOutcomes(1) :
       slots' = [i \in 0..1 |-> IF i = 0 THEN a ELSE b] /\ dslots' = slots'

(* Close flushes what is buffered and syncs nothing.                        *)
Close ==
  /\ mode = "up" /\ pc = "idle"
  /\ Room(buf)
  /\ Down
  /\ disk' = Flushed(buf).disk
  /\ UNCHANGED <<durable, slots, dslots>>

(* Recover's own checks: frames in order, and no CKPT frame naming a root   *)
(* younger than the survivor.                                               *)
Accepted(fs, seq) ==
  /\ \A i \in 2..Len(fs) : fs[i - 1].seq < fs[i].seq
  /\ \A i \in DOMAIN fs : fs[i].op = "ckpt" => fs[i].val <= seq

(* Recover and OpenStoreOn: the survivor's content, then the truncated      *)
(* tail re-applied, which may fill extents.  A root whose pages do not      *)
(* verify, or a tail Recover does not accept, fails the open, and nothing   *)
(* of what it built is served.                                              *)
Open(n) ==
  /\ mode = "down" /\ Openable /\ sealed + n <= MaxSeal
  /\ \E sup \in {ReadSuperblock}, w \in {openWAL(disk)} :
     \E tail \in {Replay(disk, w.segs, sup.trim)} :
     \E got \in {ApplyAll(sup.root, truncateTail(tail))} :
       /\ mode' = IF sup.pages /\ Accepted(tail, sup.seq) THEN "up" ELSE "failed"
       /\ segs' = w.segs /\ cur' = w.cur /\ nextSeq' = w.next + n
       /\ buf' = [i \in 1..n |-> [Frame("seal", 0, 0) EXCEPT !.seq = w.next + i - 1]]
       /\ trim' = sup.trim
       /\ sb' = [seq |-> sup.seq, trim |-> sup.trim]
       /\ ram' = got
       /\ dead' = dead \cup ({f.val : f \in {g \in Range(fly) : g.op = "put"}}
                               \ {got.kv[k] : k \in Key})
       /\ short' = (short \/ w.next <= sup.trim)
       /\ lost' = (lost \/ sup.seq < ran)
       /\ ran' = Max({ran, sup.seq})
  /\ pc' = "idle" /\ fly' = <<>> /\ target' = 0
  /\ sealed' = sealed + n
  /\ UNCHANGED <<disk, durable, slots, dslots, crashes, issued, acked, synced>>

Next ==
  \/ \E keys \in SUBSET Key \ {{}}, bumps \in 0..1 : ApplyBatch(keys, bumps)
  \/ GenBump
  \/ MintLease
  \/ \E n \in 0..1 : SyncAndApply(n) \/ CkptFlush(n) \/ Open(n)
  \/ CkptDrain
  \/ CkptWrite
  \/ CkptCommit
  \/ CkptFinish
  \/ Kill
  \/ PowerCut
  \/ Close

Spec == Init /\ [][Next]_vars

----------------------------------------------------------------------------
(* Types, and the directory: a live segment counts the frames it names.     *)
TypeOK ==
  /\ mode \in {"up", "down", "failed"}
  /\ pc \in {"idle", "flushed", "drained", "paged", "written", "committed"}
  /\ {ram, acked} \subseteq Content
  /\ \A i \in 0..1 : slots[i].root \in Content /\ dslots[i].root \in Content
  /\ \A s \in Live(segs) : /\ segs[s].end \in Slot
                           /\ segs[s].last - segs[s].first = segs[s].end - 1
  /\ dead \subseteq 1..issued /\ {short, lost} \subseteq BOOLEAN /\ ran \in Nat

(* The root a store was up with is still the one that would be opened.      *)
RootKept == ~lost /\ ran <= ReadSuperblock.seq

(* Whatever a crash does to the writes that were not synced, openWAL and    *)
(* Replay find every frame that was synced and is above the survivor's      *)
(* trim barrier: no torn tail, recycled segment or stale remnant hides one. *)
(* (A store that ran on a root it had not synced, and lost it, may have     *)
(* recycled segments under that root's barrier.)                            *)
SyncedReplayed ==
  mode = "down" /\ RootKept =>
    \E sup \in {ReadSuperblock}, w \in {openWAL(disk)} :
      {f \in synced : f.seq > sup.trim} \subseteq Range(Replay(disk, w.segs, sup.trim))

(* No crash, in the middle of CommitSuperblock or later, costs a root that  *)
(* was committed before: it, or a younger one, is there to be opened.       *)
RootSurvives ==
  [][mode' = "down" =>
       /\ Openable'
       /\ \A i \in 0..1 : dslots[i].ok => dslots[i].seq <= ReadSuperblock'.seq]_vars

(* What makes it so: a root goes into the slot of its parity, so the slot   *)
(* being written is never the one of the root in force; and when a slot is  *)
(* not synced, the root before it is, in the other slot.                    *)
SlotInv(f) ==
  /\ DOMAIN f = 0..1
  /\ \A i \in 0..1 : /\ f[i].seq \in Nat /\ f[i].ok \in BOOLEAN
                     /\ f[i].seq # 1 => slotOff(f[i].seq) = i
  /\ f[0].seq = 1 => f[1].ok /\ f[1].seq = 1

SyncInv ==
  \A i, j \in 0..1 : i # j /\ slots[i] # dslots[i] =>
    /\ slots[i].ok /\ slots[i].seq = slots[j].seq + 1
    /\ slots[j] = dslots[j] /\ slots[j].ok
    /\ dslots[i].ok => dslots[i].seq <= slots[j].seq

ForceInv ==
  /\ slots[slotOff(sb.seq)].ok /\ slots[slotOff(sb.seq)].seq = sb.seq
  /\ pc \notin {"written", "committed"} =>
       \A i \in 0..1 : slots[i].ok => slots[i].seq <= sb.seq
  /\ pc \in {"written", "committed"} =>
       slots[slotOff(sb.seq + 1)].ok /\ slots[slotOff(sb.seq + 1)].seq = sb.seq + 1
  /\ pc \in {"drained", "paged", "committed"} => slots = dslots

RootInv ==
  /\ SlotInv(slots) /\ SlotInv(dslots) /\ SyncInv
  /\ Openable /\ sb.seq \in Nat
  /\ mode = "up" => ForceInv

(* "Dropping the whole unacknowledged suffix lands recovery on the last     *)
(* acknowledged batch boundary": a batch a recovery dropped stays dropped.  *)
NoGhost == mode = "up" => \A k \in Key : ram.kv[k] \notin dead

(* What an operation returned for is there after every recovery: records,   *)
(* generations and mint marks.                                              *)
AckedSurvive ==
  mode = "up" => /\ \A k \in Key : acked.kv[k] <= ram.kv[k]
                 /\ acked.gen <= ram.gen /\ acked.mint <= ram.mint

(* "A crash between any two steps recovers to the previous superblock and   *)
(* replays from its wal_trim_seq": the same, as long as no sidecar came     *)
(* back ending below its superblock's trim barrier.                         *)
CrashesKept == short \/ AckedSurvive

(* The same, as long as neither that happened nor a power cut took a root   *)
(* that a store opened after a kill had found unsynced and run on.          *)
AckedKept == lost \/ CrashesKept

(* "A crash between any two steps recovers to the previous superblock": the *)
(* store always opens again.  Its pages verify, and Recover never meets     *)
(* frames out of order or a CKPT frame naming a root the file has lost.     *)
Reopens == mode # "failed"
=============================================================================

# A TLA+ model of aki's engines

This directory is a verification development of aki, kept beside the code. It
models three parts:

- the durability and ownership core of the obs1 engine (`src/engine/obs1`,
  `src/obs1srv`): how a fleet of nodes agrees on who owns which slot group
  through objects in a bucket, how a write becomes durable, and what a node
  finds when it boots again;
- the sqlo1b store (`src/engine/sqlo1b`, with the write-ahead log of
  `src/engine/sqlo1`): how batches and checkpoints reach the disk, and what a
  crash at any point leaves;
- the cross-shard transactions of the f3 shard runtime (`src/engine/f3/shard`,
  copied into `src/engine/obs1/shard`): tickets, intents, locks and the point
  commands that wait behind them.

Every definition is translated from the Go source; `PROJECT.json` maps each one
to its lines.

- [The system and its parts](#the-system-and-its-parts)
- [The modules](#the-modules)
- [What the runs check](#what-the-runs-check)
- [Bounds](#bounds)
- [Fairness](#fairness)
- [What is proved](#what-is-proved)
- [Where the code and its comments disagree](#where-the-code-and-its-comments-disagree)
- [What is not modelled](#what-is-not-modelled)
- [What would come next](#what-would-come-next)
- [Running it](#running-it)

## The system and its parts

aki is a Redis-protocol server with several engines in one repository: f1
(`engine/f1raw`, in memory), f2 (a spike), f3 (`engine/f3`, a sharded
single-file engine), sqlo1 (a SQLite-style tiered engine) and obs1, the engine
over object storage, which is the distributed one. One obs1 node is a set of shard owners, single goroutines that each run the
commands of their slot groups against in-memory data, plus a durability
pipeline that they share:

| part | source | state it owns | concurrency |
|---|---|---|---|
| commit chain | `append.go`, `chain.go`, `condwrite.go` | objects `chain/<dd>/<seq>`, one appender per process with its tail, batch counter and lease table | all nodes race create-if-absent PUTs for the next seq; answers are lost, requests land late |
| lease fold | `lease.go` | the lease table: a row per group (node, epoch, released, renewal position), member rows with incarnations, grant spans, last checkpoint | pure function of the chain; every node folds by itself |
| identity | `obs1srv/identity.go` | node id and incarnation, persisted at every start | an old process may still run |
| flusher | `flusher.go`, `wal.go` | group buffers, WAL sequence, up to four PUTs out, delivery cursor, lag flag | owners, a loop goroutine, one goroutine per PUT, a deliver goroutine |
| committer, watermarks | `committer.go` | queue of flushed WAL objects, the batch being appended, a watermark per group, the callbacks parked on it | one goroutine; verdicts of the fold run under the appender |
| write log | `writelog.go` | the next frame seq of each group, the last ever emitted | called by owners and by WAITAOF |
| shard gate, strict acks | `shard/worker.go`, `shard/strict.go`, `shard/backpressure.go` | replies held until their commit, writes parked on the lag flag | one goroutine per shard |
| recovery | `recover.go`, `obs1srv/drivers/boot.go` | the replayed data and the sequence numbers to continue with | runs alone, but requests of the dead process may still land |
| lease holders | `leasemgr.go`, `leasegate.go`, `lease.go` (LeaseGuard) | groups held with epochs and deadlines | clocks; driven by a duty cycle |
| failure detection | `liveness.go`, `takeover.go`, `balance.go` | when each member was last seen, watch windows | clocks; every node judges for itself |
| handoff | `handoff.go` | tail window, final commit, release; replay by the taker | two nodes over the chain |
| checkpoints | `checkpoint.go`, `ckptwriter.go`, `root.go` | root pointer (CAS), checkpoint objects, trimmed chain prefix | writer races readers that boot |
| folding | `fold.go`, `segment.go`, `manifest.go`, `manpub.go` | segments, manifests, fold position | old and new holder race |
| read side | `coldread.go`, `directory.go`, `keymap.go`, `resident.go`, `bloom.go`, ... | indexes over segments | one shard each |
| data types | `str`, `hash`, `list`, `set`, `zset`, `stream`, ... | the values | one shard each |

A write flows through them like this. The owner passes the lag gate, runs the
handler, and emits one or more frames, numbered per group, into the group's
buffer. The flusher swaps all dirty buffers into one WAL object when they are
large or old enough, or a strict client waits, and PUTs it; several PUTs are
out at once and finish in any order, but finished objects are handed to the
committer in WAL order. The committer packs what has queued into one batch of
commit records and appends it to the chain. Once the object is on the chain,
every node folds it: sections of a group whose lease names the writer at that
epoch, and whose writer is of the incarnation that joined last, are live,
others are dead. A live verdict moves the group's watermark, which releases the
strict acks and WAITAOF calls it covers. A boot follows the chain and replays
exactly the live sections.

A sqlo1b store is one shard's data file and its sidecar, the write-ahead log: a
ring of segments with consecutively numbered frames. A drain batch is written
as frames and a trailing mark, synced, then applied in memory; generation bumps
and mint leases are single synced frames. A checkpoint freezes the last frame
number as the trim barrier, writes the index, and commits by writing and
syncing the older of two superblock slots; then segments at or below the barrier
may be reused. Opening takes the valid slot with the higher number and replays
the sidecar above its barrier. One mutex serialises the operations, so the only
thing that interleaves with their steps is a crash.

In the f3 shard runtime a key belongs to one owner goroutine, which serves the
hop queues of all connections. A command on several owners takes a ticket from
a global counter and arms one intent per key, sent down the connection's own
hops. Its coordinator waits until each intent is the head of its key's queue,
asks the owners for the locks one by one, undoes them all and waits again if
one was refused, runs its steps, and releases. A point command that arrives at
a key with intents parks until those queued at that time are gone.

The complete list of components, with what is modelled of each, is
`PROJECT.json` "components"; the places where something hard to test can go
wrong are "hazards".

## The modules

```
LeaseFold ── CommitChain ── CommitChainProofs ── SharedLogProofs
    └─ LeaseFoldProofs ─────────┘        SharedLog (abstract) ┘
WritePath ── NodeRecovery ── NodeRecoveryProofs
WalRing ── CheckpointStore ── CheckpointStoreProofs
Intents
```

**LeaseFold** is the lease table as a value and every record kind of the chain
as an operator on it (`lease.go` ApplyChain and the apply functions). A chain
object is a batch: commit sections, then at most one control record. That is the
shape of every batch but one: a single-node boot appends the grants of all the
groups it finds unheld as one batch (`drivers/boot.go:141`). A grant touches no
row but its group's, so such a batch folds like one batch per grant.
`LiveSections` is the verdict of `applyCommit`.

**CommitChain** is any number of processes over the bucket. A process is a pair
of node and incarnation. `Append` numbers a batch and enters the loop of
`ChainAppender.Append`, whose program counter is `phase`: `put` (create if
absent), `own` (it answered 200), `recheck` (412, conflict or ambiguous, GET
the seq), `get` (contended, so GET first). `PutLands`, `PutRefused`,
`PutUnknown`, `AppendFails`, `ApplyOwn`, `Recheck`, `RecheckAbsent`, `GetFirst`
and `GetFirstAbsent` are its branches. A request whose client stopped waiting
goes to `late` and lands at any later time, also after its process died. The
next incarnation may start while the previous one still runs. `canon` is a
history variable: the table after each object.

**SharedLog** is what the chain promises: one log of batches, each ordered at
most once, read by everybody from the front without a gap. In CommitChain,
`Log == INSTANCE SharedLog WITH ...` maps the batch of an Append in progress,
and of a request that can still land, to `open`.

**WritePath** is the pipeline of one running node. Frames are their numbers,
one byte each. `PassGate`, `Emit`, `EmitRefused`, `StrictHold` are the owner;
`Top`, `Woken`, `FinishPut`, `Deliver` the flusher loop (`fl.loop` is where it
stands; the age and barrier triggers are the flag `fl.due`, raised by `Age`);
`PutLands`, `PutReturns`, `PutCancelled` one PUT goroutine each; `DeliverLoop`
and `Queue` the sink; `TakeBatch`, `CommitLands`, `ApplyRival`, `ApplyOwn`,
`AppendFails` the committer; `WaitAof` and `AofRegister` a WAITAOF call, which
takes its snapshot in one step and then registers group by group; `Close`,
`FlusherClosed`, `CommitterClosed` the shutdown. The chain is SharedLog as one
appender sees it: `ApplyRival` folds what others put there, `RivalGrant` takes a
group away, and `RivalCommit` is a commit of the taker, which numbers its frames
from the first seq its replay of the chain did not find (`Applied`), so with
numbers this node has given to frames of its own. ApplyVerdict moves the
watermark for any live section, the taker's too (`LiveSeqs`). That the chain may
be used as a log is what CommitChain and its refinement show.

**NodeRecovery** composes WritePath with crashes. `Crash` loses the process;
each PUT that was out is lost or kept in `lateWAL` / `lateCommit` to land
later. `BootReplay` follows the chain and folds the live sections into `data`
(who wrote each frame), refusing a gap or a section that does not parse.
`BootProbe` finds the WAL sequence to continue with. Then the same WritePath
runs as the next incarnation. `calm` is a history variable: no crash left a
hole in the WAL names and nothing landed late.

**WalRing** is the sidecar as data: `disk` is the file as a process reads it,
`durable` as the last Sync left it, `segs` the directory in memory. `openWAL`,
`scanSegment`, `liveOrder` and `Replay` are functions of a file, so that the
recovery, and a property about it, can be evaluated on any file a crash leaves.
`Flushed` is the effect of Flush, with `advance`'s choice of the next segment
and the zero frame it closes the old one with. `Cuts` and `Landed` are the disk:
what a power cut leaves of the slots written since the last Sync.

**CheckpointStore** composes it with the store. `Emit` (as `ApplyBatch`,
`GenBump`, `MintLease`) is an operation up to its Flush, `SyncAndApply` the
rest; `CkptDrain`, `CkptFlush`, `CkptWrite`, `CkptCommit`, `CkptFinish` the steps
of Checkpointer.Run, with the write and the sync of CommitSuperblock apart;
`Kill`, `PowerCut` and `Close` the ways down; a process that is killed or closes
syncs nothing, so the next one reads writes a power cut can still take, whether
it comes before or after that one opens; `Open` is Recover, truncateTail and
the replay. A stream that fills an extent buffers a SEAL frame at three places;
each has a choice of doing so. The constant `Loss` says which crashes happen:
`kill` (the process dies, its writes do not), `ordered` (a power cut: writes
land up to one, which may be torn) and `reordered` (any subset lands, any other
is torn, which is what the repository's own `faultio.go` assumes of a disk). The
data file and the sidecar are different files: what lands of one says nothing of
the other. Three history variables tell what a recovery met: `short`, a sidecar
that ended below its barrier; `ran`, the youngest root a store was up with; and
`lost`, that one was later opened on an older root.

**Intents** has three kinds of processes. Readers (`DoTxn`, `DoPoint`) dispatch
the commands of `Program` in order. Owners take commands off the hops
(`armIntent`, `execute`, `deferForIntent`) and messages off their control queue
(`lockIntent`, `unlockIntent`, `runStep`, `ApplyRelease`). Coordinators read the
head flags one at a time (`ReadHead`, `Wake`), post their messages (`Post`) and
move on (`NextPhase`). `log[k]` is a history variable, the commands that touched
key k.

The `MC...` modules add symmetry sets, crash sets and command programs; the `.cfg` files give the constants.
Definitions whose comment says "a variant" are deliberately wrong forms of the
definition that follows them. No specification uses them: each one shows that a
property notices that mistake (`PROJECT.json` "mutants").

## What the runs check

| run | shows |
|---|---|
| `chain_contention` | Two nodes race for one group with all record kinds but joins. `FoldsAgree`: the objects are dense and every table is the fold of the prefix its process has read. `ChainOrder`: a batch lands at most once, in its process's order. `OneWriterPerEpoch`: accepted commits never fall back to an older epoch and an epoch has one writer. |
| `chain_restart` | Two incarnations of a node, possibly at once. `ReturnedLanded`: a position Append returned holds that batch. `IncarnationFence`: behind a join nothing an older incarnation wrote is accepted, unless the node left. `IndInv`: the inductive invariant of the proofs. `IsSharedLog`: the chain implements SharedLog. `AppendReturns`: every Append returns. |
| `write_pipeline` | Strict writes, three PUTs out, a takeover, a failing append, Close at any time. `AcksDurable`: an ack is sent only when the frame, and each one before it, is committed live in an object the bucket holds, or has a number the taker of the group has reused (`Reused`; see `write_takeover`). `CommitsDense`: no gap and no repetition in the committed stream. `NoStrandedWaiter`: no callback stays on a covered mark. `CloseDrains`: a clean Close leaves nothing behind. |
| `write_barrier` | Two groups, commands of one or two frames, WAITAOF, a cap of one frame. `AcksDurable` for WAITAOF, `NoStrandedWaiter`, and `CapOvershoot`: the buffers exceed the cap by at most one command per owner past the gate. `TypeOK`. |
| `write_live` | `FramesCommit`, `WaitersWake`, `LagClears`, `CloseReturns`: emitted frames commit, parked acks wake, the lag flag falls, Close returns, or the committer has failed. |
| `recover` | Three incarnations, a crash at any step, holes and late requests. Always: `RecoveryGrows` (what a boot recovered, later boots recover again) and `CommitsFound` (every commit names an object that exists). While `calm`: `AckedSurvive`, `BootSucceeds`, `OrphansSkipped`. |
| `store_crash` | Three operations (batches, bumps, leases) and a checkpoint, or two of each, with two kills, power cuts or closes at any step, the second one also while the store is down. `RootSurvives`: a crash never costs a committed root. `RootInv`: the inductive invariant of its proof. `SyncedReplayed`: whatever became of unsynced writes, recovery finds every frame that was synced and is above the surviving barrier. `Reopens`: the store always opens. `AckedKept`: what an operation returned for is there after every recovery, unless a sidecar came back ending below its barrier or a power cut took a root that a store had run on unsynced (`short`, `lost`; both below). `TypeOK`, with the directory's counts. |
| `intents` | Two transactions on the same three keys of two owners, one behind a point command of its connection, one ahead of a point command on two keys. `LockedAtHead`: a locked intent is at the front of its queue. `Exclusive`: no other command touches a key of a transaction between its last lock and its release. `AfterTxn`: a connection's later command on a key takes effect after its transaction. `LosesToSmaller`: a lock is refused only because a smaller ticket heads that key's queue. `Completes`: every command takes effect and nothing stays queued, locked or parked. `TypeOK`, with the head flag and, for each intent a parked command awaits, the list it is parked on. |
| `write_takeover`, `recover_hole`, `recover_nofence`, `intents_crowd` | Four disagreements, below. |

## Bounds

The bounds are constants named in each module. The interesting cases need few
actors: two appenders suffice for every race on one seq, since a third only
repeats the loser's branch; two batches per process are needed for an old
request to meet a newer one; two faults for a lost answer followed by a crash.
`chain_contention` runs with one group because the fold treats groups
independently; the proofs cover any number. `chain_restart` leaves out the leave
record, which `chain_contention` has; that `IncarnationFence` stands behind leaves
too is what its proof shows. In `write_pipeline` three frames and three PUT slots
let PUTs finish out of order behind one that is still out (four frames were also
run, with the same result). `write_live` has one PUT slot, so that a swap falls
due while the pipeline is full and no timer is armed. `CapBytes = 1` puts every
command at the cap. Recovery needs three incarnations: one that leaves
something behind, one that builds on it, one that reads both. There a crash
happens on one group and no fatal append error, which WritePath covers.

In `store_crash` segments of three frames make a batch with a bump fill one
exactly, and three segments make the ring wrap with one still live; two
checkpoints use both superblock slots; two crashes let the second recovery read
what the first one left and wrote; and with three operations a store that was
killed before it synced its root reuses a segment under that root's barrier
before the power is cut. `MaxWork` keeps operations and checkpoints together at
four. (Three operations with two checkpoints were also run, with the same
result.) One key is enough: puts of two keys differ only in what they overwrite.
`Room` bounds the ring and also says that a batch fits into a segment, which has
64 MiB in the server; Flush refuses a larger one with errWalTooLarge and keeps
it buffered, an error path like those of I/O and not modelled. In `intents` the
two transactions share their keys, which have two owners: the shape every cycle
of waiting has.

The proofs do not depend on any bound. No run uses a state constraint. Deadlock
is not checked: with its bounds used up, and also after Close or a failed boot,
the system really stops. That it does not stop too early is what the liveness
properties say.

Symmetry is used only in runs without liveness properties, over sets whose
members the specification does not distinguish.

## Fairness

`CommitChain.FairSpec`: weak fairness of each process's own `Append` loop, which
never sleeps. Nobody is obliged to start an Append, and faults are bounded, not
fair. Rival appends are bounded too: under an endless stream of rivals a
create-if-absent loop may starve, in the model and in the code.

`WritePath.FairSpec`: weak fairness of every goroutine (owners, flusher loop,
PUTs one by one, deliver loop, committer, the Close call) and of the clock
(`Age`). The Go scheduler and timers give this. For the PUTs it also says that the
store answers in the end; `putWAL` retries every error without a limit, so the
code itself relies on it. Commands, takeovers, errors and Close are not fair.

`Intents.FairSpec`: weak fairness of each reader, of each owner on each of its
hops and on its control queue, and of each coordinator. All are goroutines that
never wait for anything but their own inputs, and an owner's loop drains every
connection and the control queue in each round. `store_crash` has no liveness
property: its operations are sequential, and a crash may always come first.

## What is proved

`LeaseFoldProofs`, `CommitChainProofs`, `SharedLogProofs`, `NodeRecoveryProofs`
and `CheckpointStoreProofs` are checked by TLAPS. The first three hold for every
set of nodes and groups and every value of the bounds, from the two assumptions
`NoNode \notin Node` (the code refuses node id 0) and that the bounds are
naturals.

- `ApplyBatchFacts`: folding a batch yields a table, never lowers an epoch,
  keeps the node of a row while its epoch stands, and keeps member rows from
  falling without a leave.
- `ChainInductive`: `Spec => []IndInv`.
- `ChainConverges` (`FoldsAgree`), `ChainExactlyOnce` (`ChainOrder`),
  `ChainReturns` (`ReturnedLanded`), `ChainEpochFence` (`OneWriterPerEpoch`),
  `ChainIncarnationFence` (`IncarnationFence`), `ChainTypes` (`TypeOK`).
- `ChainIsSharedLog`: `Spec => Log!Spec`, step by step.

None of the properties is inductive alone. A batch could land twice if a retry
went to another seq while the first request is still out; it cannot, because
the tail moves only past objects that were read. So `IndInv` records, for an
Append in progress (`AppendInv`), that its batch can be found or can still land
only at the seq after the tail or at a key that is taken; for a request nobody
waits for (`LateInv`), that while its key is free it is newer than everything
its process landed; that every identity seen was issued (`IssuedInv`); that the
keys are exactly `1..k` (`Dense`); and that `canon` is the fold (`CanonInv`).
From that, `ChainOrder` survives the only two ways an object comes to be
(`BucketStep`, `LandsFacts`). `EpochInv` and `MemberInv` lift what one
`ApplyBatch` does to any two points of the chain; the fences follow. The
refinement uses the same invariant: an Append submits a batch nobody has seen
(`AppendSubmits`), a landing orders an open batch and leaves no request open at
its seq (`LandingOrders`), and every other step keeps or shrinks `open`.

`NodeRecoveryProofs` proves `CommittedObjectsFound`, `RecSpec => []CommitsFound`,
from no assumption on the constants: any number of groups, frames, PUTs out and
incarnations, rivals included. The chain alone does not carry the argument, since
a commit record is made long after the PUT it stands on. `FoundInv` follows an
object on its way: a PUT that returned without an error, what finishPut booked,
what is in deliverC or in the hands of WALFlushed, the committer's queue and its
batch, a chain PUT that outlived its process, and the chain all name keys that are
taken; keys are never freed. There is one lemma per stage (`FoundPut`,
`FoundFlush`, `FoundSink`, `FoundCommit`, `FoundCrash`, `FoundLate`).

`CheckpointStoreProofs` holds for every ring, set of keys and bound and for every
`Loss`, reordering disks included. `RootInductive` is `Spec => []RootInv` and
`CommittedRootSurvives` is `Spec => RootSurvives`. RootSurvives is about one crash
step and needs to know what the slots held before it. `RootInv` says that. A root
is in the slot of its parity, so the one being written is never that of the root
in force (`SlotInv`, `SlotsAlternate`). When a slot is not synced, the other one
is, it holds the root before, and it verifies (`SyncInv`): that is what lets a
power cut tear the first. It holds because a checkpoint begins by syncing the
data file (`DrainKeepsRoot`), also when the store was opened on a root that a
killed process left unsynced; only then is the other slot overwritten
(`WriteKeepsRoot`). And the root in force is the highest one that verifies, or
the one before the highest between the write and the end of a checkpoint
(`ForceInv`). A power cut leaves each slot durable, written or torn (`Outcomes`)
and keeps the invariant (`CutKeepsRoot`); opening takes the highest valid slot
(`SurvivorIsHighest`, `OpenKeepsRoot`). That the pages behind the root are there
is not part of it; see MCStoreRoot below.

Only model-checked: everything else about WritePath and NodeRecovery, everything
about Intents, and of CheckpointStore what concerns the sidecar; all liveness
(the prover has no support for fairness and ENABLED); the replay, which is a
recursion over the chain (induction over data is out of its reach).

## Where the code and its comments disagree

- `write_takeover`. `committer.go:292` says of the parked callbacks that "a mark
  under a fenced epoch never commits live, so its callback never fires", and
  `shard/writelog.go:259` says the same of a strict ack. The watermark is one
  number per group, and ApplyVerdict raises it for every live section of the
  group, whoever wrote it. A taker numbers its frames from the first seq its
  replay did not find (`handoff.go:270`, "SetGroup's next seq is Applied+1"). So
  when a group is taken over while a strict write waits for its commit, the
  taker's first commits cover the number of the waiting frame, and the write is
  acked although no chain object carries it (`FencedSilent`). `AcksDurable`
  excepts just the numbers the taker has reused.
- `recover_hole`. `recover.go:92` says NextWALSeq is "one past the last WAL
  object under our node id, committed or orphaned. A restarted flusher must
  start here". The probe stops at the first free key, but several PUTs are out
  at once, so a crash can leave a free key with an object behind it. The
  restarted flusher then meets that object under its own tag and takes it for
  its own (`NoAdoption`). As long as the crash leaves no hole, the comment holds
  (`OrphansSkipped`).
- `recover_nofence`. `shard/writelog.go:253` says "NotifyCommitted runs fn once
  a chain commit covering the marked frame has landed and folded live". A
  single-node boot never joins, so no member row fences a commit PUT of the dead
  process that lands after the new boot read the chain. It folds live, moves the
  watermark over frames that the new process has numbered alike, and their acks
  are released (`AckedCommitted`). With a join, `IncarnationFence` excludes it.
- `intents_crowd`. `intent.go:287` says of sortList that "it is only ever called
  with no locked node in the queue, so it never reorders a pinned head", and
  `intent.go:31` "once a transaction holds all its locks no other command
  touches any of its keys until it releases". `unlockAll` (`intent.go:523`) posts
  an unlock for every intent, also for the one whose lock was refused and those
  after it, and `unlockIntent` sorts the queue whoever holds its lock. With three
  transactions on a key the one that backs off thereby moves a smaller ticket
  ahead of a locked one, and both are inside their critical sections
  (`Exclusive`). With two transactions it cannot happen (`intents`).

Further configurations show disagreements that are not among the runs. Each
checks one property, and TLC reports it violated.

- `MCIntentsCut.cfg` (`AfterPoint`). `txnroute.go:176` says of a parked command
  that "nothing that arms later may cut in front of it". A ticket is taken
  before the arm reaches the owner. So a connection's point command may park
  behind another transaction with a larger ticket, after which the connection's
  own transaction, sent after the point command, is queued ahead of both.
- `MCIntentsWide.cfg` (`Exclusive`). `intent.go:334` says that "deferred traffic
  lands between critical sections, never inside one". A point command on two keys
  of one owner that waits for an intent on the first resumes while a transaction
  that armed later is inside its critical section on the second.
- `MCStoreGhost.cfg` (`NoGhost`). `store.go:568` says that "Dropping the whole
  unacknowledged suffix lands recovery on the last acknowledged batch boundary".
  The frames stay in the sidecar, and the next batch puts a mark behind them: the
  next recovery applies the batch the previous one dropped.
- `MCStoreTrim.cfg` (`AckedSurvive`). `store.go:1054` says that "Unflushed seal
  frames may be lost, which is safe". A checkpoint's barrier counts them. After a
  kill between its superblock and its last step the sidecar ends below the
  barrier, new frames are numbered below it, and the following recovery skips
  them although they were acknowledged. `AckedKept` excepts this case (`short`).
- `MCStoreKill.cfg` (`CrashesKept`). `checkpoint.go:21` says that "A crash between
  any two steps recovers to the previous superblock and replays from its
  wal_trim_seq". A process killed between the write and the sync of
  CommitSuperblock leaves a root that only the operating system holds. The next
  process opens on it, without a sync, takes its barrier, and reuses a segment
  below it. A power cut then takes the slot: recovery falls back to the root
  before, whose frames were in that segment. Acknowledged records are gone.
  `AckedKept` and `SyncedReplayed` except this case (`lost`). It is closed as soon
  as the next checkpoint syncs the data file.
- `MCStoreRoot.cfg` (`Reopens`). `checkpoint.go:21` says that "A crash between any
  two steps recovers to the previous superblock". The pages its roots point at
  are not synced before the superblock is written. A disk that reorders writes
  may keep the slot and lose the pages; the open then fails.

## What is not modelled

- Byte formats (frames, WAL objects, chain objects, segments), RESP, HTTP,
  signing, multipart: pure encodings and I/O. The store is what the code relies
  on: create-if-absent is atomic, a GET sees every finished create, answers may
  be lost, requests may be late.
- The data types, cold reads and index structures: sequential code owned by one
  shard, whose reference is the Redis command semantics.
- `LeaseTable.Prime` and booting from a checkpoint or from manifests;
  NodeRecovery is a node that has neither folded nor trimmed.
- Lease holders, failure detection and takeover: margins between time-outs, which
  need a clock. WritePath and CommitChain take a rival's grant at any time.
- SMOVE and LMOVE across groups, fan-out commands, the FIFO of parked writes.
- Of the sqlo1b store: what the extents, index and allocation map hold (a root is
  one value), deletes (a delete frame is treated like a put), `reconcileTail`,
  compaction and scrubbing, and I/O errors, errWalTooLarge among them. A disk that reorders writes is left to the proof and to MCStoreRoot: with it the
  scan may also take frames of an earlier lap that continue the numbering for
  the tail.
- Of the f3 runtime: the lock-free hop queues and the wake-up protocol of
  sleeping owners (a hop is a FIFO and an owner always runs), replies,
  throttling, blocking commands across shards (`DoBlockCross`), `ReadShard` and
  `PostOwner`, which take no intents.
- The engines f1 and f2, the single file of f3, the hot tier of sqlo1.

## What would come next

1. **LeaseHolding** (`leasemgr.go`, `leasegate.go`, LeaseGuard, `liveness.go`,
   `takeover.go`, `balance.go`): nodes with bounded-skew clocks over LeaseFold. A
   holder that lost its lease stops serving within the guard window; a takeover
   starts only after the watch window; a crashed holder's group is taken over.
2. **Handoff** (`handoff.go`): the taker starts from exactly what the giver acked.
3. **Checkpoints** (`checkpoint.go`, `ckptwriter.go`, `root.go`, Prime): a boot
   from a checkpoint finds the table a boot from the whole chain finds.
4. **Folding** (`fold.go`, `manpub.go`, SelectManifest, GroupMark): publication by
   an old and a new holder.
5. **ShardGate** (`shard/backpressure.go`, `shard/park.go`, two-group moves): the
   order of parked writes, the atomicity of a move across a crash.
6. Proofs of `CommitsDense` and `AcksDurable` of WritePath, and of
   `SyncedReplayed` for an in-order disk.

## Running it

```
tlc -config MCChainContention.cfg MCCommitChain     # and the other pairs in PROJECT.json
tlapm SharedLogProofs.tla                           # and the other modules named ...Proofs
```

TLC must find a violation with MCWriteTakeover, MCRecoverHole, MCRecoverNoFence,
MCIntentsCrowd, and with the configurations named under the disagreements.

The slowest run is `store_crash` (700 thousand states), three minutes on two
cores; the chain proofs take about five minutes.

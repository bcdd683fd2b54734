# Verification of 3tears

TLA+ models of the three-tier cache of 3tears and of its cross-pod coordination,
model-checked with TLC and proved with TLAPS. Paths below are relative to the
repository; `core/` stands for `packages/core/src/threetears/core/`.

## 1. The system

3tears is a framework for services that run as many processes ("pods"). A
**collection** keeps each row of a table in three tiers: L1, an in-process table
(SQLite or DuckDB) in every pod; L2, a NATS JetStream KV bucket with one key per
principal scope and row; L3, PostgreSQL, which alone decides what the row is. A
read goes down the tiers and promotes what it finds on the way back. A write goes
to L3, then to L2 by compare-and-swap, then to L1, then to the other pods by a
broadcast their registries listen to.

On the same KV buckets stand the **coordination primitives** (leases, coalesced
runs, counters, idempotency keys), and on the collections the rest: epochs, the
tool registry, scheduled jobs, agents, channels, conversations.

Everything is asyncio. Between two awaits a task runs alone in its process; at
an await any other task of the process may run, and other pods run all the time.
So an action of a model is what one server does at once, or what one task does
between two awaits.

### Inventory

`PROJECT.json` lists every component with its sources and status. In groups:

| part | where | status |
|---|---|---|
| row read, save, reload, delete, bypassing write | `core/collections/base.py`, `bypassing_write.py` | `ThreeTier` |
| invalidation listener | `core/collections/registry.py` | `ThreeTier`, `Follow` |
| KV bucket: create, update, delete, put, retry, restart | `packages/nats/.../kv.py` | inside each of the modules |
| KV lease | `core/coordination/lease.py` | `KVLease`, its promise `Lease` |
| coalesced runs | `core/coordination/coalesced_run.py` | `CoalescedRun`, over `Lease` |
| write generations, write marks (each in part), epoch generation source | `core/collections/generation.py`, `write_marks.py`, `packages/epoch/` | `Follow` |
| ordered compare-and-swap, write-behind buffer, flusher | `core/collections/base.py`, `l2_order.py`, `flush.py`, `core/coordination/flusher.py` | `OrderedSwap` |
| the rest | other files and packages | not modelled: section 11 |

How the models meet: `Follow` takes a read and a write of one row as the few
steps their races with a dropped table need, and leaves the races within one row
to `ThreeTier`. `CoalescedRun` uses the lease through the actions of `Lease`, and
`KVLease` is shown to implement `Lease`. `OrderedSwap` is the one write path
`ThreeTier` has no action for.

## 2. `ThreeTier`: one row in three tiers

### State

| variable | in the code |
|---|---|
| `l3` | the stored row, as the number of the commit that made it, and whether there is one |
| `l2[s]` | the row under the key of scope `s`, and the key's revision; a deletion marker also takes a revision |
| `l1[p]` | the row in pod `p`'s L1 |
| `op[o]` | the operation a task has in flight: where it stands, the L2 revision it read, the row it carries, its own commit |
| `outdated` | the tasks whose `_L1Fence` ticket is no longer the newest |
| `inbox`, `hearing` | a pod's subscription, dispatched serially, and the step its listener is at |
| `begun` | how many writes have begun (bounded by `MaxWrites`) |
| `settled`, `told`, `op.floor` | history: the newest commit whose L2 step, or whose step at a pod, is complete; what a pod knew when a read began |

A row is abstracted to its commit number, 0 being "no row". Of a fence ticket
only the answer of `still_newest` is kept.

### Actions

- **read** (`ensure`, `_pull_through`, `_seed_l2_from_store`): `BeginRead`,
  `LookupRow`/`LookupNothing`/`LookupFails`, `Fetch`,
  `SeedLands`/`SeedSuperseded`/`SeedFails`, `Relookup`, `CacheRead`.
- **save** (`save_entity` on the collection's pool): `BeginSave`, `ReadBefore`,
  `Store`/`StoreRefused`/`StoreAnswerLost`, `StoredRow`/`StoredRowUnread`,
  `UpdateLands`/`UpdateFails`, `WithdrawKey`, `KeepSaved`, `DropUnread`,
  `SaveCancelled` at every other await, `Announce`.
- **reload** (`reload_entity`): `BeginReload`, `ReloadBefore`, `ReloadFetch`,
  `ReloadCache`, `ReloadSeed`, `Announce`.
- **delete** and **bypass** (`bypassing_write`, a settling `CallerTransaction`,
  `invalidate_cache`): `BeginDelete`/`BeginBypass`, `WithdrawL1`, `WithdrawL2`,
  `Announce`.
- **the listener**: `HearProbe`, `HearDelete`, `HearEvict`.

`Faults` says which KV calls may raise, `Interrupts` whether a save may be
cancelled or lose its answer.

### Properties

- `L2NeverRegresses`: once a write has finished with the L2 key, no seed, reload
  or save still in flight puts an older row back.
- `L1NeverRegresses`: the same for a pod's L1 and what that pod has saved or
  been told of.
- `ReadsWhatThePodKnows`: a get answers with a row no older than what its pod
  knew when the get began.
- `CoherentAtRest`: when nothing is in flight, every cached row is the stored one.
- `StaleRowsGo`: a stale row in an L1 does not stay (liveness).

Two conditions appear in them. `HomeScope(s)`: every pod that writes the table
has the scope `s`; other scopes' keys are only repaired by the listener, which
skips absent keys. `ReadsApart(p)`: a pod of a home
scope that does not read a key it also deletes or withdraws. `EveryScopeCoherent` and
`EveryPodCoherent` drop one condition each, and section 10 gives the instances on
which they fail: the conditions are where the code's guarantee stops.

## 3. `KVLease`: a mutex with a time to live

An acquire creates the entry, or swaps its own in over an expired one; a
background task renews it by compare-and-swap; a timer in the holder declares it
lost when the entry could have expired; a release deletes it by compare-and-swap.

| variable | in the code |
|---|---|
| `now` | a clock all pods share, in ticks |
| `entry`, `last`, `marker` | the key's entry, the stream's last sequence, and whether the free key holds a delete marker that lapses by itself |
| `wire` | writes sent that have not landed |
| `hold[p]` | the attempt or hold a pod has in hand: `LeaseHandle` (revision, `in_flight_value`), `HeldLease` (deadline, why it ended), and where its task is |
| `sent` | how many values were written; each value is different |

A write is sent, lands (`Lands`) or is refused (`Bounces`), and its answer
arrives or is lost (`Answer`), in which case the bucket may send it once more
(`_run_with_reopen`). A sender that gives up may leave its write on the wire
(`Late`), to land after anything. `CallFails` is a timeout or error at any await,
`Crash` the death of the process. `Lapses` is the server's own per-message TTL.

Properties: `EntryOutlivesHold` (a holder that may act is the one on the entry,
and the entry outlasts its timer), `MutualExclusion`, `TakenMeansTaken` (a lease
is reported taken only if it was), `RefusedReleaseOwnsNothing` (a refused
release leaves no entry of its own), and `ImplementsLease`.

**Refinement.** `Lease` has one variable: where each pod stands, `out`, `held`,
`lapsed` (its deadline has passed and no loss was reported) or `lost`. Its
actions are what a user of a hold may see. `ImplementsLease` is `Lease!Spec` with
the stand computed from `hold` and `now`; every message on the wire and every
read of the entry is a stutter.

Assumptions: synchronised clocks, timers that fire when due (`Tick` waits for
them), one hold at a time per holder id. A KV read is one step with the local
code after its answer, up to the next write sent: the write is conditional on
the revision read, so it cannot tell a later read from an earlier one.

## 4. `CoalescedRun`: one replica runs what many ask for

A request is a key in the lease's bucket. A pod that sees one takes the lease,
deletes the request at the revision it read, runs the operation, and looks again;
what is asked during a run is one more run. A run stopped by a lost lease or a
cancellation asks again.

| variable | in the code |
|---|---|
| `stand` | the pods' standing with the lease (`Lease`) |
| `left` | an entry nobody renews is still in the lease's key, until its TTL (`EntryLapses`) |
| `asked`, `last` | the recorded request's revision and the last one given |
| `pc`, `rev` | where a pod's drain is and the revision it read |
| `made`, `from`, `done` | history: requests made, made when a run's was taken, covered by a whole run |
| `gone` | history: requests lost with their taker |
| `cut`, `barred` | history, since a replica last found a request: a drain was ended by an exception; a drain was refused by an entry nobody holds |

Actions: `Signal` (`request`), `ScheduledDrain`, `Look` (`requested`),
`Hold`/`HoldLate`/`Refused`, `Read`/`Take`/`TakeRefused`/`TakeUnanswered`
(`_take`), `Finish`/`Stop`/`AskAgain`/`WorkEnds` (`_run_holding`,
`_until_ended`), `Release`, `LeaseMoves`, `Interrupt`, `Crash`, `EntryLapses`.
A release whose delete raises is contained by `_delete_entry`: no exception is
seen, and the entry stays (`Abandon`). So may the entry of a hold that was
interrupted before its create was answered, and that of a process that died.

Properties: `NothingForgotten` (a request not yet run is recorded or in hand),
`OverlapOnlyByLoss` (two runs at once only where one has lost its lease: a
stopped run ends before its lease is let go), `NoRequestStranded` (no recorded
request without a draining pod, unless a drain raised or was refused by an entry
nobody holds), `EveryRequestRuns` (liveness).

What the model shows the code to give up, and the properties name: a delete that
landed without an answer in `_take` takes the request with it; a failed ask-again
is logged by `_until_ended` and nothing more; a run that raises ends the drain
(`cut`); a replica refused by an entry left behind leaves its request to nobody
(`barred`; section 10), until the next signal or schedule; a lease lost between
`_take` and the start of the run is only noticed in the run; a death during a run
loses the request (section 10).

## 5. `Follow`: write generations, marks and followers

A row broadcast reaches a pod at most once. So a table has a write generation
(incarnation and count) in the epoch bucket; a writer advances it after its commit
and names it on the commit's broadcasts; a follower counts the rows it hears
against each advance, and drops the table when it reads an advance it did not
hear in full. A trigger leaves a mark with the commit, and a reconciler advances
from the marks for writers that never did.

| variable | in the code |
|---|---|
| `l1`, `l2`, `reading` | a pod's copies of rows, each fresh or stale, and its pull-through in flight |
| `suspect` | keys whose L2 entry the pod reads past (`_distrusts_l2`) |
| `writing` | a write between its commit and its last broadcast |
| `net`, `hearing` | broadcasts sent; one never received is a lost one |
| `bucket`, `incarnations` | the stored generation; how many were minted |
| `mark`, `pending` | `_TableMark`; generations read or pushed and not yet judged |
| `marks`, `drain` | the write-mark queue; the page a reconciler is at |

Actions: reads `Lookup`, `CacheRead`; writes `Commit`, `EvictOwn`,
`MarksBeforeAdvance`, `Advance`/`AdvanceFails`, `ClearMarks`, `AnnounceRow`; a
writer that never advances, `LostCommit`; the listener `HearDelete`, `HearEvict`;
the catch-up pass and the key watch `ReadGeneration`, `SettleGeneration`; the
bucket `Mint` (`current` on an empty bucket), `Wipe`; `Restart` of a pod; the
reconciler `ReadPage`, `AdvancePage`/`AdvancePageFails`, `DeletePage`,
`DrainDies`. `Record`, `Judge`, `Settle` and `MoveOn` are the pure functions of
`generation.py`.

Properties: `NoSilentMiss` (a pod that would serve a replaced row is owed an
advance, or drops the table on judging what the bucket holds now) and `StaleGoes`
(liveness: it stops serving it). Both except `Blank`: a pod whose mark records an
empty bucket, while the bucket is empty. It cannot tell one emptied bucket from
the next, and judges itself current until a generation is minted.

`Mint` is left free: any read that records an absence calls `current`, and
absences themselves are not modelled. Each pod has its own L2 scope.

## 6. `OrderedSwap`: compare-and-swap written through or behind

`l2_cas_mutate` mutates a row by swapping it in L2 at the revision read, and
writes it to L3 fenced on (epoch, revision): the bucket's creation time and the
revision won. The write happens before the call returns, or through a
`WriteBuffer` that a `PeriodicFlusher` drains.

| variable | in the code |
|---|---|
| `deferred` | `l3_write_policy` |
| `bucket`, `l2`, `l3` | creation time and last revision; the row in L2 and in L3, as the set of operations it carries |
| `known` | the creation time a pod remembers (`_l2_epoch_read`) |
| `op` | where an operation's call is |
| `buf`, `claimed`, `flusher` | the buffered write, whether a flush has claimed it, and where flushes are |
| `lost` | history: operations whose change L3 may miss, by cause |
| `shown` | history: operations whose change others were shown, or may be though the call fails |

Actions: `Begin`, `Read`, `Seed`, `ReadEpoch`, `Swap`, `WonOrder`, `ReadBack`,
`CallFails`, `Persist`/`PersistFails`, `Withdraw`, `Add`, `Arm`; `Drain`,
`FlushWrite`, `Ack`, `FlushFails`; `Close`, `Closed`; `Wipe`, `Crash`. Every call
that raises ends the operation as `failed`: before the swap (`CallFails`), after
it and before the persist (`CallFails`: a create or update that landed and
raised, or a read of `_won_order`; nothing takes the swap back), or in the persist
(`PersistFails`, then `Withdraw`, whose delete may raise too). Only an operation
whose process died answers nobody (`dead`).

Properties: `DurableStays` (no step takes out of L3 what reached it),
`DoneLands` (a mutation reported done is in L3 in the end), `FailedIsWithdrawn`
(one reported failed is not in the row a retry starts from, `Current`: L2's, or
L3's where L2 has none). Each names its exceptions by the history variables.

| `lost` | what happened | excused in |
|---|---|---|
| `wiped` | L2 alone had it when the broker restarted empty | both |
| `spanned` | a swap that read before the key went and won after it replaced it | both |
| `withdrawn` | L2 alone had it in a row whose writer took its swap back | both |
| `crashed` | it was in the buffer of a process that died | `DoneLands` |
| `evicted` | an acknowledgement of another flusher's claim removed it | `DoneLands` |
| `dropped` | `_MAX_FLUSH_RETRIES` attempts failed | `DoneLands` |
| `unflushed` | the collection closed with it claimed by a cancelled flush | `DoneLands` |
| `undated` | `_won_order` dated it too early; a later swap that built on it brings it back | `DurableStays` |
| `halted` | it was in a row that won and whose call ended before its persist | `DoneLands`, only together with `undated`: the later swap was such a row |

Both: `DurableStays` and `DoneLands`. Not all of these are what the code says of
itself. It announces `wiped` (`base.py:4452-4457`) and `dropped`; `crashed` is the
write-behind trade. The others contradict a comment: `withdrawn` and `unflushed`
are the runs `swap_withdrawn` and `shutdown_flush`, `spanned`, `evicted` and the
`halted` later swap are in section 10.

`shown` has the exceptions of `FailedIsWithdrawn`: another swap built on the
change before it was taken back (the docstring of `_withdraw_unpersisted_cas`
says so); the persist raised and had landed; the swap, a read of `_won_order` or
the delete raised, and L2 keeps the change; or a swap that had read the change
before the key went won at a revision that was given again.

`AbsentIsCorrect` asks of mutations reported done that they stay in L3, with
`wiped` for the one exception.

## 7. Runs

| run | deployment | result |
|---|---|---|
| `peers` | pod a reads and saves, pod b saves; KV reads and writes fail, saves are cancelled or lose their answer; 2 writes | holds |
| `withdrawals` | a reads, reloads and saves, b saves, deletes or writes behind the collection; 2 writes; fairness | holds |
| `lease_late` | two pods; writes and answers lost, repeated, late; crashes; TTL 2, clock to 2, 3 values | holds |
| `lease_answers` | two pods, one retaking; a bucket that removes entries; nothing lands after its sender gave up; refinement | holds |
| `coalesced` | three replicas, one scheduled; 2 requests, 2 faults of any kind; fairness | holds |
| `follow` | a writer, a follower, a reconciler, a writer that never advances; 2 commits, 1 fault | holds |
| `follow_rows` | commits of one and of two rows, partly heard; a mark of one advance | holds |
| `follow_repaired` | one pod that writes and follows, a reconciler, a writer that never advances; fairness | holds |
| `swaps` | three mutations on two pods, both policies, 1 fault of any kind, 1 restart of the broker; fairness | holds |
| `follow_cleared` | a writer that clears marks; two rows; one failed advance | violation |
| `swap_withdrawn` | synchronous persist, one of which fails | violation |
| `shutdown_flush` | write-behind; a collection is closed | violation |

`PROJECT.json` names for each property a change of one action, of the kind a slip
in the code would be, under which TLC finds it violated.

### Bounds

- `ThreeTier`: three slots (two on one pod, one on its peer) give a task racing
  another of its own process and one of another process at once, the two kinds of
  race the fence and the revision are for. Two writes are the least at which one
  overtakes the other; the third version is the row at the start.
- `KVLease`: three values are an acquire, a renewal and either a second renewal or
  a contender's; the clock reaches the instant at which a first hold expires,
  where a reclaim races a renewal.
- `CoalescedRun`: two requests are one taken and one made during its run; three
  pods are a holder, a contender and one that is refused by either; two faults
  are a loss and something going wrong in its repair.
- `Follow`: two commits give an advance that is heard after one that is missed;
  `MaxHeard` 1 makes the mark overflow on the second. `MaxPending` 2 in
  `follow_rows` lets a generation be judged after a later one. One fault is a
  wipe, a restart, or a lost answer.
- `OrderedSwap`: three operations are a winner, a second built on it and a third
  that starts after either was lost; one wipe gives two orders of epochs;
  `MaxRetries` 2 lets a flush fail, retry and give up. One fault is a call, a
  persist or a delete that raises, a close or a death; a wipe comes on top.
- The proofs lift all of these for the properties they cover.
- `CHECK_DEADLOCK FALSE` in the `ThreeTier`, `KVLease` and `OrderedSwap` runs:
  once the bounded work is done the tasks rest. The others check deadlock.
- Symmetry is used in `lease_late` only, over pods that are configured alike and
  with no temporal property.

### Fairness

- `ThreeTier`: weak fairness of each task's own steps and of each listener: an
  await on a live server returns, and the subscription keeps dispatching. Nothing
  is assumed of when operations begin, and the run has no faults.
- `CoalescedRun`: weak fairness of each drain once it runs (calls are answered, a
  run ends), of the schedule, and of the server's TTL.
- `OrderedSwap`: weak fairness of an operation's steps once it has begun and of
  the flusher's loop, which runs for as long as the collection is open.
- `Follow`: weak fairness of the catch-up pass and of the reconciler's read, which
  their schedules repeat for ever; strong fairness of its advance and its delete,
  since a page may fail any number of times but is tried again. Broadcasts,
  writers and `Mint` get none: repair may not depend on them.

## 8. Proofs

TLAPS checks these for every value of the constants (pods, keys, operations,
bounds, TTL, fault switches), except where said.

| theorem | module | states |
|---|---|---|
| `TypeCorrect` | `ThreeTierInvariant` | `[]TypeOK` |
| `L2Safe` | `ThreeTierL1` | `[]L2NeverRegresses`, if `"delete" \notin Faults` |
| `L1Safe` | `ThreeTierL1` | `[]L1NeverRegresses`, likewise |
| `ReadsSafe` | `ThreeTierL1` | `[]ReadsWhatThePodKnows`, likewise |
| `RestCoherent` | `ThreeTierL1` | `[]CoherentAtRest`, if `"delete" \notin Faults` and not `Interrupts` |
| `TypesKept` | `KVLeaseProof` | `[]TypeOK` |
| `HoldersHaveTheEntry` | `KVLeaseProof` | `[]EntryOutlivesHold` |
| `OneHolderActs` | `KVLeaseProof` | `[]MutualExclusion` |
| `Refinement` | `KVLeaseProof` | `ImplementsLease` |
| `EntryTraced` | `KVLeaseProof` | `[]TraceInv`, if neither `Late` nor `Retries` |
| `RefusedReleases` | `KVLeaseProof` | `[]RefusedReleaseOwnsNothing`, likewise |
| `TakenIsTaken` | `KVLeaseProof` | `TakenMeansTaken`, likewise |
| `RequestsKept` | `CoalescedRunProof` | `[]NothingForgotten` |
| `RunsApart` | `CoalescedRunProof` | `[]OverlapOnlyByLoss` |
| `NoneStranded` | `CoalescedRunProof` | `[]NoRequestStranded` |
| `RefusedServed` | `CoalescedRunProof` | `[]RefusedIsServed`, if no release fails, no drain is interrupted and no process dies |
| `TypeCorrect` | `FollowProof` | `[]TypeOK` |
| `RepairIsOwed` | `FollowProof` | `[]NoSilentMiss`, if `ClearsMarks = FALSE` |
| `DurableKept` | `OrderedSwapProof` | `DurableStays` |
| `NothingGoesBack` | `OrderedSwapProof` | `[][l3.val \subseteq l3'.val]_vars`, if `Undisturbed` |
| `FailedTakenBack` | `OrderedSwapProof` | `[]FailedIsWithdrawn` |

The named assumptions (`PlacementAssumption`, `ModesAssumption`,
`LeaseAssumption`, `RunAssumption`, `FollowAssumption`, `SwapAssumption`) type the
constants and are evaluated in the runs. The conditions in the table are not
technical. Each of those on `Faults`, `Interrupts`, `Late`, `Retries` and
`ClearsMarks` (for `RefusedServed`, each of its three faults) excludes a case in
which the code does break the property: section 10 gives the instances,
`follow_cleared` the last. `Undisturbed` (no wipe, and no synchronous persist that
fails) leaves out the restarts and withdrawals that take rows away; with those L3
may exchange a row for one that lacks what was lost, for the four kinds of loss
`DurableStays` names, which `DurableKept` proves to be the only ones.

**ThreeTier.** None of the properties is inductive: a task in flight may carry
an old row that it has yet to write. The invariant says what such a task can
still do. `KeyFresh`: whoever holds the key's *current* revision carries a row no
older than the newest settled write, because every settled write moved the
revision after the row was read. `SettledFirst`: a commit is settled at the L2
key before it is announced, heard or told. `Fenced`: while a save is in flight
every other ticket of its process is outdated. `PodFresh`: a ticket that is still
newest carries a row no older than anything its pod knows, counting a delete that
has evicted L1 and not yet reached L2. `InRole` and `InOrder` hold the rest up.
`ThreeTierL2` proves the L2 parts, `ThreeTierL1` the L1 parts and the theorems.
`RestCoherent` adds two facts. `RowInv`: every row cached or in a task's hands is
of a past commit or the one L3 holds, so a deleted row is an old one. `Carried`:
each pod has been told of the newest commit, has it in its inbox, or some task
still has its broadcast ahead. At rest the last two are gone, so every pod knows
the newest commit and the invariant above leaves only its row.

**KVLease.** The property speaks of a holder and its entry; what can break it is
on the wire. `FencedFor`: a put that can still land (its revision is the entry's)
is the entry holder's own renewal, with an expiry no earlier, or a reclaim of an
expired entry; a delete that can still land comes from a holder that no longer
believes in its lease. `PledgedTo`: the write a pod waits for carries at least the
expiry the pod will count on once answered. `Founded`: what a pod believes, or
will believe when it takes in an answer already there, is so. `EntryInv`: the
server never removes an entry before the expiry written in it. The refinement
goes action by action from the same invariant, which supplies the one fact
`Lease` asks for: when a pod comes to hold, no other does.
`TraceInv` says what a holding knows of its own entry. `Apart`: holdings are
numbered apart, so the entry names one. `WiredInv`: a pod has at most one write on
the wire, it waits for that one, and if the entry is its own the write names the
entry's revision. `KnownInv`: if the entry is its own, the handle was not refused
and knows the entry by its revision or by the value it has not heard of. A handle
that reads anything else, or is refused, is right to give the lease up.

**CoalescedRun.** The requests a pod has taken are those made by the time it took
one, and never more than were made (`NoneAhead`); a pod in the part of the drain
that needs the lease stands somewhere with it (`LeaseInHand`), and only one stands
at `held` (`OneHolds`). For `NoneStranded`, a request that is recorded while
nobody looks for it was refused by a pod at `held`, which looks again, or by an
entry nobody holds. `RefusedServed` adds that where nothing abandons an entry
there is none (`NothingLeft`), so the first case is the only one.

**Follow.** `NoSilentMiss` needs to know which advances a follower can have
heard. `RepairInv` is stated over a set `U` of generations that no broadcast
names, those of the reconcilers' advances: a mark can pass a member of `U` only by
settling at or beyond it, which drops the table. So for a pod that holds a stale
row, or reads one, there is a mark no reconciler is about to delete (`Uncovered`),
or its own mark stands before a member of `U` the bucket has reached (`Safe`), or
it is `Blank`. The lemmas on `MoveOn`, `Record` and
`Settle` say which advances each lets a mark pass.

**OrderedSwap.** Every row under way is the row that some revision of the key had,
and later revisions' rows carry the earlier ones': there is a history from
revisions to rows that L2, L3, every operation, buffer and flush agree with
(`Agree`); a swap extends it, and the order's fence lets L3 move along it only.
With wipes and withdrawals there is no such history: `DurableInv` says instead that
the rows ever under way are in line by (epoch, revision), each within every later
one but for what is accounted for as lost, that the row a swap would build on
carries all of them in that sense, and that an operation whose revision is still
the entry's, with no removal since it read, has that row in hand (`Fits`). A swap
then adds a last row to the line; a removal counts what only L2 had as lost before
the next swap builds on L3; the fence moves L3 along the line.

`FailedTakenBack` needs to know where the change of a call that has not been shown
can be. `HiddenInv`: not in L3, in a buffer or with a flush (`Stored`); in L2 only
as the entry its own swap wrote, at the revision it won, while the call is still
at it (`OwnEntry`); and in the hands of others only as a row they read from that
entry and have not won with (`Reader`). The step that could break it is a swap of
such a reader after the entry was taken back. It needs the entry's revision to be
the one it read, and then it has either read the entry that is there (`SameEntry`)
and not the one taken back, or the key has gone since, which `shown` records. That
a revision is not given twice while the key stays is a part of `DurableInv`, which
is used as a second invariant.

## 9. Model-checked only

`NoSilentMiss` where writers clear marks (`follow_rows`, with no reconciler and no
failed advance): every other safety property of the passing runs is also a
theorem. And liveness, `StaleRowsGo`, `EveryRequestRuns`, `DoneLands` and
`StaleGoes`: reasoning about fairness and `ENABLED` is out of reach of the prover
used, as is induction over data, so no theorem speaks of what a recursive
definition computes.

## 10. Where code and comments disagree

Three are runs that end in a violation; `PROJECT.json` quotes the lines.

1. `follow_cleared`: a writer reads every mark of its table before its advance
   and deletes them after it, the mark of a commit whose own advance failed
   included. A follower that hears this writer's rows counts the advance as
   heard, so nothing drops the other commit's replaced row.
2. `swap_withdrawn`: "an absent L2 entry is always a correct state". The entry
   withdrawn also carried the change of an earlier winner, reported done or
   about to be, and the next mutation starts from an L3 without it.
3. `shutdown_flush`: "a clean shutdown losing nothing". Closing cancels a flush
   that has claimed the row; the final flush skips what is claimed.

The others are described here with the instance on which TLC shows them: a
`.cfg` of the module's `MC` module with the one property named, `SPECIFICATION
Spec`, `TTL = 2`, `ScopeOf <- OneScope`, `PodOf <- Placement`, and every fault
switch off (`{}` or `FALSE`) except as said; for `OrderedSwap` the other constants
are those of `swap_withdrawn.cfg`.

| where | what the comment says, and what happens | property and instance |
|---|---|---|
| `base.py:2939` | "skipping an absent key costs nothing": the delete would have moved the revision, so a read in flight in another scope seeds the old row | `EveryScopeCoherent`; `Pods = {a, b}`, `Scopes = {s, t}`, `ScopeOf <- TwoScopes`, `Ops = {o1, o3}`, `Roles <- ReadAndSave`, `MaxWrites = 1` |
| `base.py:4351` | `delete` empties L1 before L2 with no ticket: a get in between re-caches the deleted row, and the pod ignores its own broadcast | `EveryPodCoherent`; `Pods = {a}`, `Ops = {o1, o2}`, `Roles <- ReadAndDelete`, `MaxWrites = 1` |
| `base.py:4092` | `_withdraw_unstored` says the winner's write invalidated the caches; when a committed save loses its answer, this save is the winner | `CoherentAtRest`; `Pods = {a}`, `Ops = {o1, o2}`, `Roles <- ReadSaveSave`, `Interrupts = TRUE`, `MaxWrites = 1` |
| `base.py:4224` | "the key is dropped and the next read goes to L3": the drop can fail too, and is only logged | `L2NeverRegresses`; as above with `Interrupts = FALSE`, `Faults = {"write", "delete"}` |
| `lease.py:1520` | "only another holder's write moves the entry on": an earlier write of the handle that lands late does too | `TakenMeansTaken`; `Pods = {a}`, `Losses = TRUE`, `Late = TRUE`, `MaxTime = 1`, `MaxSent = 4` |
| `lease.py:1520`, `kv.py:1879` | so does the first sending of a write the bucket repeats | `TakenMeansTaken`; `Pods = {a}`, `Losses = TRUE`, `Retries = TRUE`, `MaxTime = 1`, `MaxSent = 3` |
| `lease.py:1324` | "Only an entry another holder is on loses the lease": a lapsing delete marker does too | `RetakeRefusedByAnEntry`; `Pods = {a, b}`, `Expiring = TRUE`, `Retaking = {a}`, `Losses = FALSE`, `MaxTime = 3`, `MaxSent = 3` |
| `coalesced_run.py:21` | "a holder that dies leaves its request recorded": `_take` deletes it before the run | `DeathForgetsNothing`; `Pods = {a, b}`, `Scheduled = {b}`, `Faults = {"crash"}`, `MaxSignals = 1`, `MaxFaults = 1` |

| `coalesced_run.py:129`, `:18-20` | another replica holds the lease, "which then runs what was asked": a release that failed left its entry with nobody behind it, and the refused replica returns. Without an exception anywhere the request waits for the next signal or schedule | `RefusedIsServed`; `Pods = {a, b}`, `Scheduled = {}`, `Faults = {"release"}`, `MaxSignals = 2`, `MaxFaults = 1` |
| `base.py:4451-4452` | "nothing that reached L3 is lost": a mutation that read an absent key before a wipe creates it after the wipe, over an L3 that another mutation has reached meanwhile, and its later epoch overwrites that row | `ReachedIsKept`; `Policies = {FALSE}`, `Faults = {}`, `MaxWipes = 1` |
| `base.py:4443-4445` | "a retry does not see a write it was told failed": only a failed persist withdraws; a swap that landed and raised, or a read of `_won_order` that raised, leaves the change in L2 | `FailedIsUnseen`; `Policies = {FALSE}`, `Faults = {"call"}`, `MaxWipes = 0` |
| `base.py:4879-4880` | "L3, which never took the write": a persist that raised may have landed | `FailedIsUnseen`; `Policies = {FALSE}`, `Faults = {"persist"}`, `MaxWipes = 0` |
| `base.py:4784-4785` | "a later swap in the new stream has already built on this one and carries it into L3": not if that swap's call ends before its persist | `LaterSwapCarries` under `FairSpec`; `Policies = {FALSE}`, `Faults = {"call"}`, `MaxWipes = 1` |
| `flush.py:113-116` | "a stale ack ... can never clobber that newer value": the claim is by key, so once the loop of a reopened flusher has claimed the newer row, the acknowledgement of the closing one evicts it | `AckSparesNewer`; `Policies = {TRUE}`, `Faults = {"close"}`, `MaxWipes = 0` |

None of the lease ones breaks mutual exclusion, which is proved. The first four `base.py`
ones leave a stale row that stays until the row is written or withdrawn again, or
the table is dropped; those from line 4443 on, and `flush.py`'s, are about
`l2_cas_mutate` and concern what L3 or a retry has.

## 11. Not modelled

In the modelled parts:

- `ThreeTier`: absence markers, bulk reads, `save_entity`'s write-behind branch,
  a save joined to a caller's transaction, the working copy a new entity puts in
  L1, L1 writes run on threads, cancellation of anything but a save, recreation
  of the bucket, and more than one row (tickets, revisions and broadcasts are per
  key). A lost broadcast is `Follow`'s.
- `KVLease`: `hold_sync`, unreadable entries, `holder` and `held` (reads),
  recreation of the bucket, clocks that disagree.
- `Follow`: the steps within one row's read and write, the lease around a
  reconciler's pass (the proof allows any number of reconcilers), the SQL of the
  queue, and the caches derived from a table, which are dropped with it.
- `Follow` also leaves out the begin and end of following a table (`adopt`,
  `unfollow`) and `announce_unheard_writes`.
- `OrderedSwap`: a create or update that the bucket repeats after it landed
  (`_run_with_reopen`), which then finds its own write and loses its swap; what
  fails after the persist (a generation's advance, `base.py:4688-4689`, which
  raises for a mutation that is in L3); what a winner does to L1 and announces
  (`_swap_still_current`), mutations that change nothing, delete the row or find
  it expired or unreadable, the retry budget of the swap, an order in L3 from a
  bucket later than any that exists (`L2EpochRegressedError`), cancellation
  between `add` and `ensure_flushing`, and rows in the buffer without an order.

Parts with shared state that have no module: scheduled jobs and wakes (a tick
under a lock that claims rows in PostgreSQL), the model circuit breaker, registry
health and presence (collections without L3, which `ThreeTier` and `OrderedSwap`
leave out), snapshots of many rows, the counters and rate limits, whose repeated
increment is listed as a hazard, the epoch counters and their listener, the
buffer of message counts, refresh-token rotation. They can be modelled; the
coherence of the caches and the coordination they stand on came first.

Parts with nothing a model checker would add: SQL text, encodings, tokens and
envelopes, wire formats, providers, MCP, object stores, files, scraping, evals,
observability, static enforcement. The component list gives each its reason.

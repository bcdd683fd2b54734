------------------------------ MODULE ThreeTier ------------------------------
(***************************************************************************)
(* One row of a collection in the three cache tiers of threetears.core:    *)
(* L1, a table in each process (a "pod"); L2, one NATS KV key per          *)
(* principal scope; and L3, the database, which alone decides the row.     *)
(*                                                                         *)
(* The operations are those of BaseCollection (collections/base.py):       *)
(*   read    ensure / get: L1, then L2, then L3, promoting on the way back *)
(*   save    save_entity on the collection's own pool                      *)
(*   reload  reload_entity                                                 *)
(*   delete  delete                                                        *)
(*   bypass  bypassing_write, a CallerTransaction settling, and            *)
(*           invalidate_cache: L3 changes elsewhere, then the key is       *)
(*           withdrawn from the caches                                     *)
(* and the receiver of their broadcasts, CollectionRegistry's invalidation *)
(* listener. Each is cut at its awaits: an action is what runs at one      *)
(* server, or on the event loop between two awaits.                        *)
(*                                                                         *)
(* A row is abstracted to the number of the L3 commit that made it; zero   *)
(* is "no row". Of an _L1Fence ticket only the answer of still_newest is   *)
(* kept: a slot is outdated when its ticket was taken while a write was in *)
(* flight (contended), or the key's counter has moved past the one the     *)
(* ticket saw.                                                             *)
(*                                                                         *)
(* Write generations, absence markers and table drops are left out here,   *)
(* as are a lost broadcast and the write-behind buffer.                    *)
(***************************************************************************)
EXTENDS Integers, Sequences, FiniteSets

CONSTANTS
    Pods,       \* the processes that hold an L1 of the table
    Scopes,     \* the principals: each has its own L2 key for the row
    ScopeOf,    \* the scope a pod's registry was given (kv_key_scope)
    Ops,        \* slots for concurrent operations (asyncio tasks)
    PodOf,      \* the pod an operation slot runs on
    Roles,      \* the kinds of operation a slot runs
    Faults,     \* which KV calls may raise KvError: "read", "write", "delete" (and the
                \* look before a delete)
    Interrupts, \* whether a save may be cancelled, or lose its L3 answer
    MaxWrites   \* bound: how many writes, reloads and withdrawals begin

Kinds == {"read", "save", "reload", "delete", "bypass"}

ASSUME PlacementAssumption ==
    /\ ScopeOf \in [Pods -> Scopes]
    /\ PodOf \in [Ops -> Pods]
    /\ Roles \in [Ops -> SUBSET Kinds]

ASSUME ModesAssumption ==
    /\ Faults \subseteq {"read", "write", "delete"}
    /\ Interrupts \in BOOLEAN
    /\ MaxWrites \in Nat

VARIABLES
    l3,       \* the stored row: its commit number, and whether a row is there
    l2,       \* per scope: the row under the key, and the key's revision
    l1,       \* per pod: the row in its L1
    op,       \* per slot: the operation in flight
    outdated, \* the slots whose ticket is no longer the newest
    inbox,    \* per pod: invalidations delivered and not yet handled, in order
    hearing,  \* per pod: how far the listener is with the first of them
    begun,    \* how many writes, reloads and withdrawals have begun
    settled,  \* history, per scope: newest commit whose L2 step has completed
    told      \* history, per pod: newest commit whose L1 step has completed

bus == <<inbox, hearing>>
history == <<settled, told>>
vars == <<l3, l2, l1, op, outdated, bus, begun, history>>

NoRow == 0
NoRev == -1

Scope(o) == ScopeOf[PodOf[o]]
Newer(a, b) == IF a > b THEN a ELSE b

----------------------------------------------------------------------------
(* Operations and the per-key fence of a process.                          *)

ReadSteps == {"lookup", "fetch", "seed", "relookup", "cache", "answer"}
SaveSteps == {"before", "store", "stored", "update", "withdraw", "keep", "discard", "unread"}
ReloadSteps == {"rbefore", "rfetch", "rcache"}
LooseSteps == {"rseed", "evict", "delete", "announce"}

Steps == {"idle"} \cup ReadSteps \cup SaveSteps \cup ReloadSteps \cup LooseSteps

Idle == [pc |-> "idle", rev |-> NoRev, row |-> NoRow, mine |-> NoRow, floor |-> 0]

SlotsOf(p) == {x \in Ops : PodOf[x] = p}

\* a save holds a writing ticket on the key in this process
Writing(p) == \E x \in SlotsOf(p) : op[x].pc \in SaveSteps

Become(o, r) == op' = [op EXCEPT ![o] = r]
Goto(o, pc) == Become(o, [op[o] EXCEPT !.pc = pc])
Finish(o) == Become(o, Idle)

\* an operation whose ticket has ended, on its way to its broadcast
Announcing(mine) == [Idle EXCEPT !.pc = "announce", !.mine = mine]

\* _L1Fence.begin: the ticket a task takes before its first await; a write's
\* begins by outdating every other ticket on the key
TakeTicket(o, pc, others) ==
    /\ Become(o, [Idle EXCEPT !.pc = pc, !.floor = told[PodOf[o]]])
    /\ outdated' = ((outdated \cup others) \ {o}) \cup (IF Writing(PodOf[o]) THEN {o} ELSE {})

\* _L1Fence.still_newest
StillNewest(o) == o \notin outdated

\* slip: the row leaves L1 behind the fence's back
EvictUnfenced(p) ==
    /\ UNCHANGED outdated
    /\ l1' = [l1 EXCEPT ![p] = NoRow]

\* _evict_l1: the fence first (_L1Fence.changed), then the row
EvictL1(p) ==
    /\ outdated' = outdated \cup SlotsOf(p)
    /\ l1' = [l1 EXCEPT ![p] = NoRow]

KeepL1(p, row) == l1' = [l1 EXCEPT ![p] = row] /\ UNCHANGED outdated

----------------------------------------------------------------------------
(* The KV bucket: every message on the key, a deletion marker included,    *)
(* takes the next revision.                                                *)

PutL2(s, row) == l2' = [l2 EXCEPT ![s] = [row |-> row, rev |-> @.rev + 1]]

\* slip: a deletion reports no revision
DeleteUnnumbered(s) == l2' = [l2 EXCEPT ![s] = [row |-> NoRow, rev |-> NoRev]]

DeleteKey(s) == PutL2(s, NoRow)

\* a delete whose KvError is logged and forgotten
TryDeleteKey(s) == DeleteKey(s) \/ ("delete" \in Faults /\ UNCHANGED l2)

\* the key's history is as the slot's operation found it
AtRevision(o) == op[o].rev = l2[Scope(o)].rev

Begin == begun < MaxWrites /\ begun' = begun + 1

CommitRow(live) == l3' = [ver |-> l3.ver + 1, live |-> live]

SettleL2(s, ver) == settled' = [settled EXCEPT ![s] = Newer(@, ver)]
TellPod(p, ver) == told' = [told EXCEPT ![p] = Newer(@, ver)]

----------------------------------------------------------------------------
(* ensure -> _pull_through -> _seed_l2_from_store                          *)

BeginRead(o) ==
    /\ op[o].pc = "idle"
    /\ "read" \in Roles[o]
    /\ l1[PodOf[o]] = NoRow
    /\ TakeTicket(o, "lookup", {})
    /\ UNCHANGED <<l3, l2, l1, bus, begun, history>>

LookupRow(o) ==
    /\ op[o].pc = "lookup"
    /\ l2[Scope(o)].row # NoRow
    /\ Become(o, [op[o] EXCEPT !.pc = "cache", !.row = l2[Scope(o)].row])
    /\ UNCHANGED <<l3, l2, l1, outdated, bus, begun, history>>

LookupNothing(o) ==
    /\ op[o].pc = "lookup"
    /\ l2[Scope(o)].row = NoRow
    /\ Become(o, [op[o] EXCEPT !.pc = "fetch", !.rev = l2[Scope(o)].rev])
    /\ UNCHANGED <<l3, l2, l1, outdated, bus, begun, history>>

\* KvError: the read goes to L3 with no revision to seed L2 at
LookupFails(o) ==
    /\ op[o].pc = "lookup"
    /\ "read" \in Faults
    /\ Goto(o, "fetch")
    /\ UNCHANGED <<l3, l2, l1, outdated, bus, begun, history>>

Fetch(o) ==
    /\ op[o].pc = "fetch"
    /\ IF l3.live
       THEN Become(o, [op[o] EXCEPT !.pc = IF op[o].rev = NoRev THEN "cache" ELSE "seed", !.row = l3.ver])
       ELSE Finish(o)
    /\ UNCHANGED <<l3, l2, l1, outdated, bus, begun, history>>

\* slip: the seed is an unconditional put
SeedPuts(o) ==
    /\ op[o].pc = "seed"
    /\ PutL2(Scope(o), op[o].row)
    /\ Goto(o, "cache")
    /\ UNCHANGED <<l3, l1, outdated, bus, begun, history>>

\* the seed lands: a compare-and-swap at the revision read before the L3 read
SeedLands(o) ==
    /\ op[o].pc = "seed"
    /\ AtRevision(o)
    /\ PutL2(Scope(o), op[o].row)
    /\ Goto(o, "cache")
    /\ UNCHANGED <<l3, l1, outdated, bus, begun, history>>

SeedSuperseded(o) ==
    /\ op[o].pc = "seed"
    /\ ~AtRevision(o)
    /\ Goto(o, "relookup")
    /\ UNCHANGED <<l3, l2, l1, outdated, bus, begun, history>>

\* KvError: the swap is not retried, and counts as not superseded
SeedFails(o) ==
    /\ op[o].pc = "seed"
    /\ "write" \in Faults
    /\ Goto(o, "cache")
    /\ UNCHANGED <<l3, l2, l1, outdated, bus, begun, history>>

\* the newest row answers; with none to answer, the row read answers uncached
Relookup(o) ==
    /\ op[o].pc = "relookup"
    /\ \/ /\ l2[Scope(o)].row # NoRow
          /\ Become(o, [op[o] EXCEPT !.pc = "cache", !.row = l2[Scope(o)].row])
       \/ /\ l2[Scope(o)].row = NoRow \/ "read" \in Faults
          /\ Goto(o, "answer")
    /\ UNCHANGED <<l3, l2, l1, outdated, bus, begun, history>>

\* _cache_read_in_l1, and the read returns its row
CacheRead(o) ==
    /\ op[o].pc \in {"cache", "answer"}
    /\ IF op[o].pc = "cache" /\ StillNewest(o) THEN KeepL1(PodOf[o], op[o].row) ELSE UNCHANGED <<l1, outdated>>
    /\ Finish(o)
    /\ UNCHANGED <<l3, l2, bus, begun, history>>

----------------------------------------------------------------------------
(* save_entity on the collection's own pool, under a writing ticket        *)

BeginSave(o) ==
    /\ op[o].pc = "idle"
    /\ "save" \in Roles[o]
    /\ Begin
    /\ TakeTicket(o, "before", SlotsOf(PodOf[o]))
    /\ UNCHANGED <<l3, l2, l1, bus, history>>

\* _l2_revision_before_write; an unreadable L2 leaves the save no revision
ReadBefore(o) ==
    /\ op[o].pc = "before"
    /\ \/ Become(o, [op[o] EXCEPT !.pc = "store", !.rev = l2[Scope(o)].rev])
       \/ "read" \in Faults /\ Goto(o, "store")
    /\ UNCHANGED <<l3, l2, l1, outdated, bus, begun, history>>

Store(o) ==
    /\ op[o].pc = "store"
    /\ CommitRow(TRUE)
    /\ Become(o, [op[o] EXCEPT !.pc = "stored", !.row = l3.ver + 1, !.mine = l3.ver + 1])
    /\ UNCHANGED <<l2, l1, outdated, bus, begun, history>>

\* no row affected, or save_to_store raised and L3 took nothing: _withdraw_unstored
StoreRefused(o) ==
    /\ op[o].pc = "store"
    /\ EvictL1(PodOf[o])
    /\ Finish(o)
    /\ UNCHANGED <<l3, l2, bus, begun, history>>

\* save_to_store raised, or was cancelled, after L3 had committed the row
StoreAnswerLost(o) ==
    /\ op[o].pc = "store"
    /\ Interrupts
    /\ CommitRow(TRUE)
    /\ EvictL1(PodOf[o])
    /\ Finish(o)
    /\ UNCHANGED <<l2, bus, begun, history>>

\* _stored_row: the row as sent, or a read of it where the store decides columns
StoredRow(o) ==
    /\ op[o].pc = "stored"
    /\ \/ Goto(o, "update")
       \/ l3.live /\ Become(o, [op[o] EXCEPT !.pc = "update", !.row = l3.ver])
    /\ UNCHANGED <<l3, l2, l1, outdated, bus, begun, history>>

\* the read back failed or found no row: _drop_unread_row evicts L1, then L2
StoredRowUnread(o) ==
    /\ op[o].pc = "stored"
    /\ EvictL1(PodOf[o])
    /\ Goto(o, "unread")
    /\ UNCHANGED <<l3, l2, bus, begun, history>>

\* _write_l2_at: a compare-and-swap at the revision read before the L3 write
UpdateLands(o) ==
    /\ op[o].pc = "update"
    /\ AtRevision(o)
    /\ PutL2(Scope(o), op[o].row)
    /\ SettleL2(Scope(o), op[o].mine)
    /\ Goto(o, "keep")
    /\ UNCHANGED <<l3, l1, outdated, bus, begun, told>>

\* the swap was refused, or raised KvError whether or not it took effect
UpdateFails(o) ==
    /\ op[o].pc = "update"
    /\ \/ (~AtRevision(o) \/ "write" \in Faults) /\ UNCHANGED l2
       \/ AtRevision(o) /\ "write" \in Faults /\ PutL2(Scope(o), op[o].row)
    /\ Goto(o, "withdraw")
    /\ UNCHANGED <<l3, l1, outdated, bus, begun, history>>

\* slip: a refused swap leaves the key as it is
WithdrawNothing(o) ==
    /\ op[o].pc = "withdraw"
    /\ SettleL2(Scope(o), op[o].mine)
    /\ Goto(o, "discard")
    /\ UNCHANGED <<l3, l2, l1, outdated, bus, begun, told>>

\* _delete_from_l2 after a write that did not land
WithdrawKey(o) ==
    /\ op[o].pc = "withdraw"
    /\ TryDeleteKey(Scope(o))
    /\ SettleL2(Scope(o), op[o].mine)
    /\ Goto(o, "discard")
    /\ UNCHANGED <<l3, l1, outdated, bus, begun, told>>

\* _cache_committed_row: L1 takes the row only if L2 did and the fence agrees
KeepSaved(o) ==
    /\ op[o].pc \in {"keep", "discard"}
    /\ IF op[o].pc = "keep" /\ StillNewest(o) THEN KeepL1(PodOf[o], op[o].row) ELSE EvictL1(PodOf[o])
    /\ TellPod(PodOf[o], op[o].mine)
    /\ Become(o, Announcing(op[o].mine))
    /\ UNCHANGED <<l3, l2, bus, begun, settled>>

\* the L2 half of _drop_unread_row; the writing ticket ends with it
DropUnread(o) ==
    /\ op[o].pc = "unread"
    /\ TryDeleteKey(Scope(o))
    /\ SettleL2(Scope(o), op[o].mine)
    /\ TellPod(PodOf[o], op[o].mine)
    /\ Become(o, Announcing(op[o].mine))
    /\ UNCHANGED <<l3, l1, outdated, bus, begun>>

\* the task is cancelled at an await other than the store; one cancelled in
\* the read back evicts L1 on its way out
SaveCancelled(o) ==
    /\ op[o].pc \in {"before", "stored", "update", "withdraw", "keep", "discard", "unread"}
    /\ Interrupts
    /\ \/ UNCHANGED <<l1, outdated>>
       \/ op[o].pc = "stored" /\ EvictL1(PodOf[o])
    /\ Finish(o)
    /\ UNCHANGED <<l3, l2, bus, begun, history>>

\* slip: the operation returns without its broadcast
AnnounceNothing(o) ==
    /\ op[o].pc = "announce"
    /\ Finish(o)
    /\ UNCHANGED <<l3, l2, l1, outdated, bus, begun, history>>

\* _announce_row: the broadcast reaches every other pod's subscription
Announce(o) ==
    /\ op[o].pc = "announce"
    /\ inbox' = [p \in Pods |-> IF p = PodOf[o] THEN inbox[p] ELSE Append(inbox[p], op[o].mine)]
    /\ Finish(o)
    /\ UNCHANGED <<l3, l2, l1, outdated, hearing, begun, history>>

----------------------------------------------------------------------------
(* reload_entity: L1 under a reading ticket, then L2, then the broadcast   *)

BeginReload(o) ==
    /\ op[o].pc = "idle"
    /\ "reload" \in Roles[o]
    /\ Begin
    /\ TakeTicket(o, "rbefore", {})
    /\ UNCHANGED <<l3, l2, l1, bus, history>>

ReloadBefore(o) ==
    /\ op[o].pc = "rbefore"
    /\ \/ Become(o, [op[o] EXCEPT !.pc = "rfetch", !.rev = l2[Scope(o)].rev])
       \/ "read" \in Faults /\ Goto(o, "rfetch")
    /\ UNCHANGED <<l3, l2, l1, outdated, bus, begun, history>>

ReloadFetch(o) ==
    /\ op[o].pc = "rfetch"
    /\ IF l3.live THEN Become(o, [op[o] EXCEPT !.pc = "rcache", !.row = l3.ver]) ELSE Finish(o)
    /\ UNCHANGED <<l3, l2, l1, outdated, bus, begun, history>>

\* slip: a reload always refreshes L1
ReloadKeeps(o) ==
    /\ op[o].pc = "rcache"
    /\ KeepL1(PodOf[o], op[o].row)
    /\ IF op[o].rev = NoRev THEN Become(o, Announcing(NoRow)) ELSE Goto(o, "rseed")
    /\ UNCHANGED <<l3, l2, bus, begun, history>>

\* L1, and the end of the ticket; the L2 refresh is skipped where L2 was unreadable
ReloadCache(o) ==
    /\ op[o].pc = "rcache"
    /\ IF StillNewest(o) THEN KeepL1(PodOf[o], op[o].row) ELSE EvictL1(PodOf[o])
    /\ IF op[o].rev = NoRev THEN Become(o, Announcing(NoRow)) ELSE Goto(o, "rseed")
    /\ UNCHANGED <<l3, l2, bus, begun, history>>

\* slip: a reload always refreshes L2
ReloadPuts(o) ==
    /\ op[o].pc = "rseed"
    /\ PutL2(Scope(o), op[o].row)
    /\ Become(o, Announcing(NoRow))
    /\ UNCHANGED <<l3, l1, outdated, bus, begun, history>>

\* _seed_l2 with its result ignored: it lands at the revision, or nothing happens
ReloadSeed(o) ==
    /\ op[o].pc = "rseed"
    /\ \/ AtRevision(o) /\ PutL2(Scope(o), op[o].row)
       \/ (~AtRevision(o) \/ "write" \in Faults) /\ UNCHANGED l2
    /\ Become(o, Announcing(NoRow))
    /\ UNCHANGED <<l3, l1, outdated, bus, begun, history>>

----------------------------------------------------------------------------
(* delete, and the settling of a write made elsewhere. Neither holds a     *)
(* ticket: L1 is evicted, then the L2 key deleted, then peers are told.    *)

Withdrawing(mine) == [Idle EXCEPT !.pc = "evict", !.mine = mine]

BeginDelete(o) ==
    /\ op[o].pc = "idle"
    /\ "delete" \in Roles[o]
    /\ Begin
    /\ CommitRow(FALSE)
    /\ Become(o, Withdrawing(l3.ver + 1))
    /\ UNCHANGED <<l2, l1, outdated, bus, history>>

\* the statement, or the transaction it joined, left a row, no row, or L3 as it was
BeginBypass(o) ==
    /\ op[o].pc = "idle"
    /\ "bypass" \in Roles[o]
    /\ Begin
    /\ \/ (\E live \in BOOLEAN : CommitRow(live)) /\ Become(o, Withdrawing(l3.ver + 1))
       \/ UNCHANGED l3 /\ Become(o, Withdrawing(NoRow))
    /\ UNCHANGED <<l2, l1, outdated, bus, history>>

WithdrawL1(o) ==
    /\ op[o].pc = "evict"
    /\ EvictL1(PodOf[o])
    /\ Goto(o, "delete")
    /\ UNCHANGED <<l3, l2, bus, begun, history>>

WithdrawL2(o) ==
    /\ op[o].pc = "delete"
    /\ TryDeleteKey(Scope(o))
    /\ SettleL2(Scope(o), op[o].mine)
    /\ TellPod(PodOf[o], op[o].mine)
    /\ Goto(o, "announce")
    /\ UNCHANGED <<l3, l1, outdated, bus, begun>>

----------------------------------------------------------------------------
(* The invalidation listener of a pod: one message at a time, in order.    *)
(* A pod's own broadcasts are skipped, so they never enter its inbox.      *)

\* delete_l2_entry looks first, and skips a key that holds nothing
HearProbe(p) ==
    /\ hearing[p] = "idle"
    /\ inbox[p] # <<>>
    /\ \/ l2[ScopeOf[p]].row # NoRow /\ hearing' = [hearing EXCEPT ![p] = "delete"]
       \/ /\ l2[ScopeOf[p]].row = NoRow \/ "delete" \in Faults
          /\ hearing' = [hearing EXCEPT ![p] = "evict"]
    /\ UNCHANGED <<l3, l2, l1, op, outdated, inbox, begun, history>>

HearDelete(p) ==
    /\ hearing[p] = "delete"
    /\ TryDeleteKey(ScopeOf[p])
    /\ hearing' = [hearing EXCEPT ![p] = "evict"]
    /\ UNCHANGED <<l3, l1, op, outdated, inbox, begun, history>>

\* evict_from_cache_sync, after which the message has been heard
HearEvict(p) ==
    /\ hearing[p] = "evict"
    /\ EvictL1(p)
    /\ SettleL2(ScopeOf[p], Head(inbox[p]))
    /\ TellPod(p, Head(inbox[p]))
    /\ inbox' = [inbox EXCEPT ![p] = Tail(@)]
    /\ hearing' = [hearing EXCEPT ![p] = "idle"]
    /\ UNCHANGED <<l3, l2, op, begun>>

----------------------------------------------------------------------------

Init ==
    /\ l3 \in [ver : {1}, live : BOOLEAN]
    /\ l2 = [s \in Scopes |-> [row |-> NoRow, rev |-> 0]]
    /\ l1 = [p \in Pods |-> NoRow]
    /\ op = [o \in Ops |-> Idle]
    /\ outdated = {}
    /\ inbox = [p \in Pods |-> <<>>]
    /\ hearing = [p \in Pods |-> "idle"]
    /\ begun = 0
    /\ settled = [s \in Scopes |-> 0]
    /\ told = [p \in Pods |-> 0]

ReadStep(o) ==
    \/ LookupRow(o) \/ LookupNothing(o) \/ LookupFails(o) \/ Fetch(o)
    \/ SeedLands(o) \/ SeedSuperseded(o) \/ SeedFails(o) \/ Relookup(o) \/ CacheRead(o)

SaveStep(o) ==
    \/ ReadBefore(o) \/ Store(o) \/ StoreRefused(o) \/ StoreAnswerLost(o)
    \/ StoredRow(o) \/ StoredRowUnread(o) \/ UpdateLands(o) \/ UpdateFails(o)
    \/ WithdrawKey(o) \/ KeepSaved(o) \/ DropUnread(o) \/ SaveCancelled(o)

ReloadStep(o) == ReloadBefore(o) \/ ReloadFetch(o) \/ ReloadCache(o) \/ ReloadSeed(o)

WithdrawStep(o) == WithdrawL1(o) \/ WithdrawL2(o)

OpStep(o) == ReadStep(o) \/ SaveStep(o) \/ ReloadStep(o) \/ WithdrawStep(o) \/ Announce(o)

BeginOp(o) == BeginRead(o) \/ BeginSave(o) \/ BeginReload(o) \/ BeginDelete(o) \/ BeginBypass(o)

Hear(p) == HearProbe(p) \/ HearDelete(p) \/ HearEvict(p)

Next ==
    \/ \E o \in Ops : BeginOp(o) \/ OpStep(o)
    \/ \E p \in Pods : Hear(p)

Spec == Init /\ [][Next]_vars

\* a task whose awaits return runs on, and the subscription keeps dispatching
Fairness ==
    /\ \A o \in Ops : WF_vars(OpStep(o))
    /\ \A p \in Pods : WF_vars(Hear(p))

FairSpec == Spec /\ Fairness

----------------------------------------------------------------------------
(* Properties                                                              *)

OpType == [pc : Steps, rev : Int, row : Nat, mine : Nat, floor : Nat]

\* Every variable has the shape the code gives it.
TypeOK ==
    /\ l3 \in [ver : Nat, live : BOOLEAN]
    /\ l2 \in [Scopes -> [row : Nat, rev : Nat]]
    /\ l1 \in [Pods -> Nat]
    /\ op \in [Ops -> OpType]
    /\ outdated \subseteq Ops
    /\ inbox \in [Pods -> Seq(Nat)]
    /\ hearing \in [Pods -> {"idle", "delete", "evict"}]
    /\ \A p \in Pods : hearing[p] # "idle" => inbox[p] # <<>>
    /\ begun \in Nat
    /\ settled \in [Scopes -> Nat]
    /\ told \in [Pods -> Nat]

\* the kinds of operation some slot of pod p runs
Does(p) == UNION {Roles[o] : o \in {x \in Ops : PodOf[x] = p}}

Commits(p) == Does(p) \cap {"save", "delete", "bypass"} # {}

\* a scope that holds every pod that writes the table
HomeScope(s) == \A p \in Pods : Commits(p) => ScopeOf[p] = s

\* a pod of a home scope that never reads a key it also deletes or withdraws
ReadsApart(p) ==
    /\ HomeScope(ScopeOf[p])
    /\ ~ ("read" \in Does(p) /\ Does(p) \cap {"delete", "bypass"} # {})

RowAtLeast(row, floor) == row # NoRow => row >= floor

\* Once a write has finished with the L2 key (written it, deleted it, or had its
\* broadcast handled), the key never again holds an older row: no seed, reload
\* or save still in flight can put one back (_seed_l2, _write_l2_at).
L2NeverRegresses == \A s \in Scopes : HomeScope(s) => RowAtLeast(l2[s].row, settled[s])

\* Once a pod has finished a save of its own or handled a peer's broadcast, its L1
\* never again holds an older row, whatever reads, reloads and saves were in
\* flight on it (_L1Fence, _cache_read_in_l1, _cache_committed_row).
L1NeverRegresses == \A p \in Pods : ReadsApart(p) => RowAtLeast(l1[p], told[p])

\* A get never answers with a row older than what its pod had saved or been told
\* of when the get began (_pull_through answers with whatever is newest).
ReadsWhatThePodKnows ==
    \A o \in Ops : HomeScope(Scope(o)) /\ op[o].pc \in {"cache", "answer"} => op[o].row >= op[o].floor

AtRest ==
    /\ \A o \in Ops : op[o].pc = "idle"
    /\ \A p \in Pods : inbox[p] = <<>> /\ hearing[p] = "idle"

Current(row) == row # NoRow => l3.live /\ row = l3.ver

\* When nothing is in flight, every cached row is the stored row: no interleaving
\* leaves an older row in L1 or L2 "with nothing left to evict it".
CoherentAtRest ==
    AtRest => /\ \A s \in Scopes : HomeScope(s) => Current(l2[s].row)
              /\ \A p \in Pods : ReadsApart(p) => Current(l1[p])

\* A stale row in a pod's L1 does not stay: each one is replaced or evicted.
StaleRowsGo == \A p \in Pods : ReadsApart(p) => []<>Current(l1[p])

\* The same at rest with no regard to scope: a scope that skips an absent key loses nothing.
EveryScopeCoherent == AtRest => \A s \in Scopes : Current(l2[s].row)

\* The same at rest for every pod of a home scope, deleting ones included.
EveryPodCoherent == AtRest => \A p \in Pods : HomeScope(ScopeOf[p]) => Current(l1[p])
=============================================================================

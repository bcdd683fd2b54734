-------------------------- MODULE ThreeTierInvariant --------------------------
(***************************************************************************)
(* The inductive invariant behind the theorems about ThreeTier, for any    *)
(* pods, scopes, slots, roles and bound: type correctness, the invariant's *)
(* parts, what each step does to its slot, and the parts that do not need  *)
(* the deployment to be a particular one.                                  *)
(***************************************************************************)
EXTENDS ThreeTier, TLAPS

(* Type correctness                                                        *)

\* an idle slot has the shape of an operation
LEMMA IdleType == Idle \in OpType
  BY DEF Idle, OpType, Steps, NoRev, NoRow

\* so has a slot on its way to its broadcast or to its withdrawal
LEMMA LooseType ==
  ASSUME NEW n \in Nat
  PROVE  Announcing(n) \in OpType /\ Withdrawing(n) \in OpType
  BY IdleType, Zenon DEF Announcing, Withdrawing, OpType, Steps, LooseSteps

\* the fields of slots and keys that arithmetic is done on
LEMMA FieldTypes ==
  ASSUME TypeOK, NEW o \in Ops
  PROVE  /\ PodOf[o] \in Pods /\ Scope(o) \in Scopes /\ op[o] \in OpType
         /\ op[o].rev \in Int /\ op[o].row \in Nat /\ op[o].mine \in Nat /\ op[o].floor \in Nat
         /\ l2[Scope(o)].row \in Nat /\ l2[Scope(o)].rev \in Nat /\ l2[Scope(o)].rev \in Int
         /\ l3.ver \in Nat /\ l3.ver + 1 \in Nat
  BY PlacementAssumption DEF TypeOK, OpType, Scope

\* the records an operation moves through keep their type
LEMMA RecordType ==
  ASSUME NEW r \in OpType, NEW pc \in Steps
  PROVE  /\ [r EXCEPT !.pc = pc] \in OpType
         /\ \A rev \in Int : [r EXCEPT !.pc = pc, !.rev = rev] \in OpType
         /\ \A row \in Nat : [r EXCEPT !.pc = pc, !.row = row] \in OpType
         /\ \A floor \in Nat : [r EXCEPT !.pc = pc, !.floor = floor] \in OpType
         /\ \A row, mine \in Nat : [r EXCEPT !.pc = pc, !.row = row, !.mine = mine] \in OpType
  BY Zenon DEF OpType

\* replacing one slot by a record of the right shape keeps op well typed
LEMMA BecomeType ==
  ASSUME TypeOK, NEW o \in Ops, NEW r \in OpType, Become(o, r)
  PROVE  op' \in [Ops -> OpType]
  BY DEF Become, TypeOK

\* so does moving one slot on
LEMMA GotoType ==
  ASSUME TypeOK, NEW o \in Ops
  PROVE  /\ \A pc \in Steps : Goto(o, pc) => op' \in [Ops -> OpType]
         /\ Finish(o) => op' \in [Ops -> OpType]
  BY IdleType, FieldTypes, RecordType, BecomeType, Zenon DEF Goto, Finish

\* _L1Fence.begin keeps op and outdated well typed
LEMMA TicketType ==
  ASSUME TypeOK, NEW o \in Ops, NEW pc \in Steps, NEW others, others \subseteq Ops, TakeTicket(o, pc, others)
  PROVE  op' \in [Ops -> OpType] /\ outdated' \subseteq Ops
<1>1. told[PodOf[o]] \in Nat
  BY PlacementAssumption DEF TypeOK
<1>2. [Idle EXCEPT !.pc = pc, !.floor = told[PodOf[o]]] \in OpType
  BY <1>1, IdleType, RecordType, Zenon
<1>3. op' \in [Ops -> OpType]
  BY <1>2, BecomeType DEF TakeTicket
<1>4. outdated' \subseteq (outdated \cup others) \cup {o}
  BY DEF TakeTicket
<1>5. outdated' \subseteq Ops
  BY <1>4 DEF TypeOK
<1> QED
  BY <1>3, <1>5

\* evicting or filling one L1 keeps l1 and outdated well typed
LEMMA CacheType ==
  ASSUME TypeOK, NEW p \in Pods, NEW row \in Nat
  PROVE  EvictL1(p) \/ KeepL1(p, row) => l1' \in [Pods -> Nat] /\ outdated' \subseteq Ops
<1>1. CASE EvictL1(p)
  <2>1. l1' \in [Pods -> Nat]
    BY <1>1 DEF EvictL1, TypeOK, NoRow
  <2>2. outdated' \subseteq Ops
    BY <1>1 DEF EvictL1, TypeOK, SlotsOf
  <2> QED
    BY <2>1, <2>2
<1>2. CASE KeepL1(p, row)
  BY <1>2 DEF KeepL1, TypeOK
<1> QED
  BY <1>1, <1>2

\* writing or deleting a key keeps l2 well typed
LEMMA KeyType ==
  ASSUME TypeOK, NEW s \in Scopes, NEW row \in Nat
  PROVE  PutL2(s, row) \/ TryDeleteKey(s) => l2' \in [Scopes -> [row : Nat, rev : Nat]]
  BY DEF TypeOK, PutL2, TryDeleteKey, DeleteKey, NoRow

\* recording a finished step keeps the history well typed
LEMMA HistoryType ==
  ASSUME TypeOK, NEW s \in Scopes, NEW p \in Pods, NEW ver \in Nat
  PROVE  /\ SettleL2(s, ver) => settled' \in [Scopes -> Nat]
         /\ TellPod(p, ver) => told' \in [Pods -> Nat]
  BY Zenon DEF TypeOK, SettleL2, TellPod, Newer

\* a commit keeps l3 well typed
LEMMA CommitType ==
  ASSUME TypeOK, NEW live \in BOOLEAN, CommitRow(live)
  PROVE  l3' \in [ver : Nat, live : BOOLEAN]
  BY DEF TypeOK, CommitRow

\* Every step keeps the shape of every variable.
THEOREM TypeStep == TypeOK /\ [Next]_vars => TypeOK'
<1> SUFFICES ASSUME TypeOK, [Next]_vars PROVE TypeOK'
  OBVIOUS
<1>0. NoRow \in Nat
  BY DEF NoRow
<1>1. ASSUME NEW o \in Ops, ReadStep(o) PROVE TypeOK'
  <2>0. {"fetch", "seed", "relookup", "cache", "answer"} \subseteq Steps
    BY DEF Steps, ReadSteps
  <2>1. CASE LookupRow(o) \/ LookupNothing(o)
    BY <2>0, <2>1, FieldTypes, RecordType, BecomeType, Zenon DEF LookupRow, LookupNothing, TypeOK, bus, history
  <2>6. CASE Relookup(o)
    <3>1. op' \in [Ops -> OpType]
      BY <2>0, <2>6, FieldTypes, RecordType, BecomeType, GotoType, Zenon DEF Relookup
    <3> QED
      BY <2>6, <3>1 DEF Relookup, TypeOK, bus, history
  <2>5. CASE Fetch(o)
    BY <2>0, <2>5, FieldTypes, RecordType, BecomeType, GotoType, Zenon DEF Fetch, TypeOK, bus, history
  <2>2. CASE LookupFails(o) \/ SeedSuperseded(o) \/ SeedFails(o)
    BY <2>0, <2>2, GotoType DEF LookupFails, SeedSuperseded, SeedFails, TypeOK, bus, history
  <2>3. CASE SeedLands(o)
    BY <2>0, <2>3, FieldTypes, GotoType, KeyType, Zenon DEF SeedLands, TypeOK, bus, history
  <2>4. CASE CacheRead(o)
    BY <2>0, <2>4, FieldTypes, GotoType, CacheType, Zenon DEF CacheRead, TypeOK, bus, history
  <2> QED
    BY <1>1, <2>1, <2>2, <2>3, <2>4, <2>5, <2>6 DEF ReadStep
<1>2. ASSUME NEW o \in Ops, SaveStep(o) PROVE TypeOK'
  <2>0. {"store", "stored", "update", "withdraw", "keep", "discard", "unread"} \subseteq Steps
    BY DEF Steps, SaveSteps
  <2>1. CASE ReadBefore(o) \/ StoredRow(o)
    <3>1. op' \in [Ops -> OpType]
      BY <2>0, <2>1, FieldTypes, RecordType, BecomeType, GotoType, Zenon DEF ReadBefore, StoredRow
    <3> QED
      BY <2>1, <3>1 DEF ReadBefore, StoredRow, TypeOK, bus, history
  <2>2. CASE Store(o)
    BY <2>0, <2>2, FieldTypes, RecordType, BecomeType, CommitType, Zenon DEF Store, TypeOK, bus, history
  <2>3. CASE StoreRefused(o) \/ StoreAnswerLost(o) \/ StoredRowUnread(o) \/ SaveCancelled(o)
    BY <1>0, <2>0, <2>3, FieldTypes, GotoType, CacheType, CommitType, Zenon
       DEF StoreRefused, StoreAnswerLost, StoredRowUnread, SaveCancelled, TypeOK, bus, history
  <2>4. CASE UpdateLands(o) \/ UpdateFails(o) \/ WithdrawKey(o)
    BY <2>0, <2>4, FieldTypes, GotoType, KeyType, HistoryType, Zenon
       DEF UpdateLands, UpdateFails, WithdrawKey, TypeOK, bus, history
  <2>5. CASE KeepSaved(o)
    BY <2>0, <2>5, FieldTypes, BecomeType, LooseType, CacheType, HistoryType, Zenon
       DEF KeepSaved, TypeOK, bus, history
  <2>6. CASE DropUnread(o)
    BY <1>0, <2>6, FieldTypes, BecomeType, LooseType, KeyType, HistoryType, Zenon
       DEF DropUnread, TypeOK, bus, history
  <2> QED
    BY <1>2, <2>1, <2>2, <2>3, <2>4, <2>5, <2>6 DEF SaveStep
<1>3. ASSUME NEW o \in Ops, ReloadStep(o) PROVE TypeOK'
  <2>0. {"rfetch", "rcache", "rseed"} \subseteq Steps
    BY DEF Steps, ReloadSteps, LooseSteps
  <2>1. CASE ReloadBefore(o) \/ ReloadFetch(o)
    <3>1. op' \in [Ops -> OpType]
      BY <2>0, <2>1, FieldTypes, RecordType, BecomeType, GotoType, Zenon DEF ReloadBefore, ReloadFetch
    <3> QED
      BY <2>1, <3>1 DEF ReloadBefore, ReloadFetch, TypeOK, bus, history
  <2>2. CASE ReloadCache(o)
    BY <1>0, <2>0, <2>2, FieldTypes, BecomeType, LooseType, GotoType, CacheType, Zenon
       DEF ReloadCache, TypeOK, bus, history
  <2>3. CASE ReloadSeed(o)
    BY <1>0, <2>3, FieldTypes, BecomeType, LooseType, KeyType, Zenon DEF ReloadSeed, TypeOK, bus, history
  <2> QED
    BY <1>3, <2>1, <2>2, <2>3 DEF ReloadStep
<1>4. ASSUME NEW o \in Ops, WithdrawStep(o) \/ Announce(o) PROVE TypeOK'
  <2>0. {"delete", "announce"} \subseteq Steps
    BY DEF Steps, LooseSteps
  <2>1. CASE WithdrawL1(o)
    BY <1>0, <2>0, <2>1, FieldTypes, GotoType, CacheType, Zenon DEF WithdrawL1, TypeOK, bus, history
  <2>2. CASE WithdrawL2(o)
    BY <1>0, <2>0, <2>2, FieldTypes, GotoType, KeyType, HistoryType, Zenon DEF WithdrawL2, TypeOK, bus, history
  <2>3. CASE Announce(o)
    <3>1. inbox' \in [Pods -> Seq(Nat)]
      BY <2>3, FieldTypes DEF Announce, TypeOK
    <3>2. ASSUME NEW p \in Pods, hearing[p] # "idle" PROVE inbox'[p] # <<>>
      <4>1. inbox[p] \in Seq(Nat) /\ inbox[p] # <<>> /\ op[o].mine \in Nat
        BY <3>2, FieldTypes, Zenon DEF TypeOK
      <4>2. Append(inbox[p], op[o].mine) # <<>>
        BY <4>1
      <4> QED
        BY <2>3, <4>1, <4>2 DEF Announce
    <3> QED
      BY <2>3, <3>1, <3>2, GotoType, Zenon DEF Announce, TypeOK, history
  <2> QED
    BY <1>4, <2>1, <2>2, <2>3 DEF WithdrawStep
<1>5. ASSUME NEW o \in Ops, BeginOp(o) PROVE TypeOK'
  <2>0. {"lookup", "before", "rbefore"} \subseteq Steps /\ {} \subseteq Ops /\ SlotsOf(PodOf[o]) \subseteq Ops
    BY DEF Steps, ReadSteps, SaveSteps, ReloadSteps, SlotsOf
  <2>1. CASE BeginRead(o) \/ BeginSave(o) \/ BeginReload(o)
    BY <2>0, <2>1, TicketType DEF BeginRead, BeginSave, BeginReload, Begin, TypeOK, bus, history
  <2>2. CASE BeginDelete(o) \/ BeginBypass(o)
    <3>1. op' \in [Ops -> OpType]
      BY <1>0, <2>2, FieldTypes, LooseType, BecomeType, Zenon DEF BeginDelete, BeginBypass
    <3>2. l3' \in [ver : Nat, live : BOOLEAN]
      BY <2>2, CommitType, Zenon DEF BeginDelete, BeginBypass, TypeOK
    <3>3. UNCHANGED <<l2, l1, outdated, bus, history>> /\ Begin
      BY <2>2, Zenon DEF BeginDelete, BeginBypass
    <3> QED
      BY <3>1, <3>2, <3>3 DEF Begin, TypeOK, bus, history
  <2> QED
    BY <1>5, <2>1, <2>2 DEF BeginOp
<1>6. ASSUME NEW p \in Pods, Hear(p) PROVE TypeOK'
  <2>1. CASE HearProbe(p) \/ HearDelete(p)
    BY <1>0, <2>1, KeyType, PlacementAssumption, Zenon DEF HearProbe, HearDelete, TypeOK, history
  <2>2. CASE HearEvict(p)
    <3>1. inbox[p] \in Seq(Nat) /\ inbox[p] # <<>>
      BY <2>2 DEF HearEvict, TypeOK
    <3>2. Head(inbox[p]) \in Nat /\ Tail(inbox[p]) \in Seq(Nat)
      BY <3>1
    <3> QED
      BY <1>0, <2>2, <3>2, CacheType, HistoryType, PlacementAssumption, Zenon DEF HearEvict, TypeOK
  <2> QED
    BY <1>6, <2>1, <2>2 DEF Hear
<1>7. CASE UNCHANGED vars
  BY <1>7 DEF vars, bus, history, TypeOK
<1> QED
  BY <1>1, <1>2, <1>3, <1>4, <1>5, <1>6, <1>7 DEF Next, OpStep

\* Every reachable state has the shape the code gives it, whatever the pods,
\* scopes, slots, faults and bounds.
THEOREM TypeCorrect == Spec => []TypeOK
<1>1. Init => TypeOK
  BY IdleType DEF Init, TypeOK, NoRow
<1> QED
  BY <1>1, TypeStep, PTL DEF Spec

----------------------------------------------------------------------------
(* The inductive invariant: in named parts, each resting on the ones       *)
(* before it.                                                              *)

Holding == ReadSteps \cup SaveSteps \cup ReloadSteps
Commit == {"save", "delete", "bypass"}

\* a slot runs what its role allows, and only a slot that commits has a commit to tell of
InRole ==
    \A o \in Ops :
        /\ op[o].pc \in ReadSteps => "read" \in Roles[o]
        /\ op[o].pc \in SaveSteps => "save" \in Roles[o]
        /\ op[o].pc \in {"evict", "delete"} => Roles[o] \cap {"delete", "bypass"} # {}
        /\ op[o].mine # NoRow => Roles[o] \cap Commit # {}

\* what a slot remembers lies in the past, and a save's row is never older than its commit
InOrder ==
    \A o \in Ops :
        /\ op[o].rev <= l2[Scope(o)].rev
        /\ op[o].mine <= l3.ver
        /\ op[o].floor <= told[PodOf[o]]
        /\ op[o].pc \in {"stored", "update", "keep"} => op[o].row >= op[o].mine

\* while a save is in flight every other ticket on its pod is outdated
Fenced ==
    \A o, x \in Ops :
        o # x /\ PodOf[o] = PodOf[x] /\ op[o].pc \in SaveSteps /\ op[x].pc \in Holding => x \in outdated

\* the L2 key of a home scope: whoever may still swap a row in at the key's
\* revision has one no older than the newest write settled there
KeyFresh(s) ==
    /\ settled[s] <= l3.ver
    /\ RowAtLeast(l2[s].row, settled[s])
    /\ \A o \in Ops :
          Scope(o) = s /\ op[o].pc \in {"seed", "rcache", "rseed", "stored", "update"} /\ op[o].rev = l2[s].rev
             => op[o].row >= settled[s]

\* nothing is announced, handled or told that has not been settled at home first
SettledFirst(s) ==
    /\ \A o \in Ops : op[o].pc \in {"keep", "discard", "announce"} => op[o].mine <= settled[s]
    /\ \A p \in Pods : told[p] <= settled[s]
    /\ \A p \in Pods : \A i \in DOMAIN inbox[p] : inbox[p][i] <= settled[s]

HomeInv == \A s \in Scopes : HomeScope(s) => KeyFresh(s) /\ SettledFirst(s)

\* a get's row is no older than what its pod knew when it began
ReadInv ==
    \A o \in Ops :
        HomeScope(Scope(o)) /\ op[o].pc \in {"seed", "relookup", "cache", "answer"} => op[o].row >= op[o].floor

\* the commits pod p is done with: told of, or half way through withdrawing
KnownTo(p) == {told[p]} \cup {op[w].mine : w \in {x \in SlotsOf(p) : op[x].pc = "delete"}}

\* L1 of a pod, and every row a newest ticket is about to put there
PodFresh(p) ==
    /\ \A n \in KnownTo(p) : RowAtLeast(l1[p], n)
    /\ \A o \in SlotsOf(p) :
          /\ o \notin outdated /\ op[o].pc \in {"seed", "cache", "rcache", "stored", "update", "keep"}
                => \A n \in KnownTo(p) : op[o].row >= n
          /\ op[o].pc = "unread" => l1[p] = NoRow

PodInv == \A p \in Pods : ReadsApart(p) => PodFresh(p)
----------------------------------------------------------------------------
(* What a step does to the slots                                           *)

\* replacing one slot leaves the others alone
LEMMA BecomeSlot ==
  ASSUME TypeOK, NEW o \in Ops, NEW r, Become(o, r)
  PROVE  op'[o] = r /\ \A x \in Ops \ {o} : op'[x] = op[x]
  BY DEF TypeOK, Become

\* slot o becomes what is given, field by field, and no other slot changes
Moves(o, pc, rev, row, mine, floor) ==
    /\ op'[o].pc = pc /\ op'[o].rev = rev /\ op'[o].row = row /\ op'[o].mine = mine /\ op'[o].floor = floor
    /\ \A x \in Ops \ {o} : op'[x] = op[x]

\* Goto changes the pc alone
LEMMA GotoMoves ==
  ASSUME TypeOK, NEW o \in Ops, NEW pc, Goto(o, pc)
  PROVE  Moves(o, pc, op[o].rev, op[o].row, op[o].mine, op[o].floor)
  BY BecomeSlot, FieldTypes DEF Goto, OpType, Moves

\* Finish empties the slot
LEMMA FinishMoves ==
  ASSUME TypeOK, NEW o \in Ops, Finish(o)
  PROVE  Moves(o, "idle", NoRev, NoRow, NoRow, 0)
<1>1. op'[o] = Idle /\ \A x \in Ops \ {o} : op'[x] = op[x]
  BY BecomeSlot DEF Finish
<1> QED
  BY <1>1 DEF Idle, Moves

\* an announcing slot keeps only what it committed
LEMMA AnnouncingMoves ==
  ASSUME TypeOK, NEW o \in Ops, NEW n, Become(o, Announcing(n))
  PROVE  Moves(o, "announce", NoRev, NoRow, n, 0)
<1>1. op'[o] = Announcing(n) /\ \A x \in Ops \ {o} : op'[x] = op[x]
  BY BecomeSlot
<1> QED
  BY <1>1 DEF Announcing, Idle, Moves

\* so does a withdrawing one
LEMMA WithdrawingMoves ==
  ASSUME TypeOK, NEW o \in Ops, NEW n, Become(o, Withdrawing(n))
  PROVE  Moves(o, "evict", NoRev, NoRow, n, 0)
<1>1. op'[o] = Withdrawing(n) /\ \A x \in Ops \ {o} : op'[x] = op[x]
  BY BecomeSlot
<1> QED
  BY <1>1 DEF Withdrawing, Idle, Moves

\* a fresh ticket knows what its pod has been told
LEMMA TicketMoves ==
  ASSUME TypeOK, NEW o \in Ops, NEW pc, NEW others, TakeTicket(o, pc, others)
  PROVE  Moves(o, pc, NoRev, NoRow, NoRow, told[PodOf[o]])
<1>1. op'[o] = [Idle EXCEPT !.pc = pc, !.floor = told[PodOf[o]]] /\ \A x \in Ops \ {o} : op'[x] = op[x]
  BY BecomeSlot DEF TakeTicket
<1> QED
  BY <1>1 DEF Idle, Moves

\* updating fields of a slot, by field
LEMMA SetMoves ==
  ASSUME TypeOK, NEW o \in Ops, NEW pc, NEW v, NEW w
  PROVE  /\ Become(o, [op[o] EXCEPT !.pc = pc, !.rev = v])
              => Moves(o, pc, v, op[o].row, op[o].mine, op[o].floor)
         /\ Become(o, [op[o] EXCEPT !.pc = pc, !.row = v])
              => Moves(o, pc, op[o].rev, v, op[o].mine, op[o].floor)
         /\ Become(o, [op[o] EXCEPT !.pc = pc, !.row = v, !.mine = w])
              => Moves(o, pc, op[o].rev, v, w, op[o].floor)
<1>0. op \in [Ops -> OpType]
  BY DEF TypeOK
<1>1. op[o] \in OpType
  BY FieldTypes
<1>2. ASSUME Become(o, [op[o] EXCEPT !.pc = pc, !.rev = v])
      PROVE  Moves(o, pc, v, op[o].row, op[o].mine, op[o].floor)
  <2>1. op'[o] = [op[o] EXCEPT !.pc = pc, !.rev = v] /\ \A x \in Ops \ {o} : op'[x] = op[x]
    BY <1>0, <1>2 DEF Become
  <2> QED
    BY <1>1, <2>1 DEF OpType, Moves
<1>3. ASSUME Become(o, [op[o] EXCEPT !.pc = pc, !.row = v])
      PROVE  Moves(o, pc, op[o].rev, v, op[o].mine, op[o].floor)
  <2>1. op'[o] = [op[o] EXCEPT !.pc = pc, !.row = v] /\ \A x \in Ops \ {o} : op'[x] = op[x]
    BY <1>0, <1>3 DEF Become
  <2> QED
    BY <1>1, <2>1 DEF OpType, Moves
<1>4. ASSUME Become(o, [op[o] EXCEPT !.pc = pc, !.row = v, !.mine = w])
      PROVE  Moves(o, pc, op[o].rev, v, w, op[o].floor)
  <2>1. op'[o] = [op[o] EXCEPT !.pc = pc, !.row = v, !.mine = w] /\ \A x \in Ops \ {o} : op'[x] = op[x]
    BY <1>0, <1>4, Zenon DEF Become
  <2> QED
    BY <1>1, <2>1 DEF OpType, Moves
<1> QED
  BY <1>2, <1>3, <1>4

\* slot o, by the step it takes
LEMMA ReadMoves ==
  ASSUME TypeOK, NEW o \in Ops
  PROVE  /\ LookupRow(o) => Moves(o, "cache", op[o].rev, l2[Scope(o)].row, op[o].mine, op[o].floor)
         /\ LookupNothing(o) => Moves(o, "fetch", l2[Scope(o)].rev, op[o].row, op[o].mine, op[o].floor)
         /\ LookupFails(o) => Moves(o, "fetch", op[o].rev, op[o].row, op[o].mine, op[o].floor)
         /\ Fetch(o) => \/ Moves(o, "idle", NoRev, NoRow, NoRow, 0)
                        \/ Moves(o, "cache", op[o].rev, l3.ver, op[o].mine, op[o].floor)
                        \/ Moves(o, "seed", op[o].rev, l3.ver, op[o].mine, op[o].floor)
         /\ SeedLands(o) \/ SeedFails(o) => Moves(o, "cache", op[o].rev, op[o].row, op[o].mine, op[o].floor)
         /\ SeedSuperseded(o) => Moves(o, "relookup", op[o].rev, op[o].row, op[o].mine, op[o].floor)
         /\ Relookup(o) => \/ /\ l2[Scope(o)].row # NoRow
                              /\ Moves(o, "cache", op[o].rev, l2[Scope(o)].row, op[o].mine, op[o].floor)
                           \/ Moves(o, "answer", op[o].rev, op[o].row, op[o].mine, op[o].floor)
         /\ CacheRead(o) => Moves(o, "idle", NoRev, NoRow, NoRow, 0)
<1>1. LookupRow(o) => Moves(o, "cache", op[o].rev, l2[Scope(o)].row, op[o].mine, op[o].floor)
  BY SetMoves, Zenon DEF LookupRow
<1>2. LookupNothing(o) => Moves(o, "fetch", l2[Scope(o)].rev, op[o].row, op[o].mine, op[o].floor)
  BY SetMoves, Zenon DEF LookupNothing
<1>3. Fetch(o) => \/ Moves(o, "idle", NoRev, NoRow, NoRow, 0)
                  \/ Moves(o, "cache", op[o].rev, l3.ver, op[o].mine, op[o].floor)
                  \/ Moves(o, "seed", op[o].rev, l3.ver, op[o].mine, op[o].floor)
  BY SetMoves, FinishMoves, Zenon DEF Fetch
<1>4. Relookup(o) => \/ /\ l2[Scope(o)].row # NoRow
                        /\ Moves(o, "cache", op[o].rev, l2[Scope(o)].row, op[o].mine, op[o].floor)
                     \/ Moves(o, "answer", op[o].rev, op[o].row, op[o].mine, op[o].floor)
  BY SetMoves, GotoMoves, Zenon DEF Relookup
<1> QED
  BY <1>1, <1>2, <1>3, <1>4, GotoMoves, FinishMoves
     DEF LookupFails, SeedLands, SeedFails, SeedSuperseded, CacheRead

\* what each step of a save does to its slot
LEMMA SaveMoves ==
  ASSUME TypeOK, NEW o \in Ops
  PROVE  /\ ReadBefore(o) => \E v \in {l2[Scope(o)].rev, op[o].rev} :
                                Moves(o, "store", v, op[o].row, op[o].mine, op[o].floor)
         /\ Store(o) => Moves(o, "stored", op[o].rev, l3.ver + 1, l3.ver + 1, op[o].floor)
         /\ StoreRefused(o) \/ StoreAnswerLost(o) \/ SaveCancelled(o) => Moves(o, "idle", NoRev, NoRow, NoRow, 0)
         /\ StoredRow(o) => \E v \in {l3.ver, op[o].row} : Moves(o, "update", op[o].rev, v, op[o].mine, op[o].floor)
         /\ StoredRowUnread(o) => Moves(o, "unread", op[o].rev, op[o].row, op[o].mine, op[o].floor)
         /\ UpdateLands(o) => Moves(o, "keep", op[o].rev, op[o].row, op[o].mine, op[o].floor)
         /\ UpdateFails(o) => Moves(o, "withdraw", op[o].rev, op[o].row, op[o].mine, op[o].floor)
         /\ WithdrawKey(o) => Moves(o, "discard", op[o].rev, op[o].row, op[o].mine, op[o].floor)
         /\ KeepSaved(o) \/ DropUnread(o) => Moves(o, "announce", NoRev, NoRow, op[o].mine, 0)
<1>1. ReadBefore(o) => \E v \in {l2[Scope(o)].rev, op[o].rev} :
                          Moves(o, "store", v, op[o].row, op[o].mine, op[o].floor)
  BY SetMoves, GotoMoves, Zenon DEF ReadBefore
<1>2. Store(o) => Moves(o, "stored", op[o].rev, l3.ver + 1, l3.ver + 1, op[o].floor)
  BY SetMoves, Zenon DEF Store
<1>3. StoredRow(o) => \E v \in {l3.ver, op[o].row} : Moves(o, "update", op[o].rev, v, op[o].mine, op[o].floor)
  BY SetMoves, GotoMoves, Zenon DEF StoredRow
<1> QED
  BY <1>1, <1>2, <1>3, GotoMoves, FinishMoves, AnnouncingMoves, Zenon
     DEF StoreRefused, StoreAnswerLost, SaveCancelled, StoredRowUnread, UpdateLands, UpdateFails, WithdrawKey,
         KeepSaved, DropUnread

\* what each step of a reload, a withdrawal and a beginning does to its slot
LEMMA OtherMoves ==
  ASSUME TypeOK, NEW o \in Ops
  PROVE  /\ ReloadBefore(o) => \E v \in {l2[Scope(o)].rev, op[o].rev} :
                                  Moves(o, "rfetch", v, op[o].row, op[o].mine, op[o].floor)
         /\ ReloadFetch(o) => \/ Moves(o, "idle", NoRev, NoRow, NoRow, 0)
                              \/ Moves(o, "rcache", op[o].rev, l3.ver, op[o].mine, op[o].floor)
         /\ ReloadCache(o) => \/ Moves(o, "rseed", op[o].rev, op[o].row, op[o].mine, op[o].floor)
                              \/ Moves(o, "announce", NoRev, NoRow, NoRow, 0)
         /\ ReloadSeed(o) => Moves(o, "announce", NoRev, NoRow, NoRow, 0)
         /\ WithdrawL1(o) => Moves(o, "delete", op[o].rev, op[o].row, op[o].mine, op[o].floor)
         /\ WithdrawL2(o) => Moves(o, "announce", op[o].rev, op[o].row, op[o].mine, op[o].floor)
         /\ Announce(o) => Moves(o, "idle", NoRev, NoRow, NoRow, 0)
         /\ BeginRead(o) => Moves(o, "lookup", NoRev, NoRow, NoRow, told[PodOf[o]])
         /\ BeginSave(o) => Moves(o, "before", NoRev, NoRow, NoRow, told[PodOf[o]])
         /\ BeginReload(o) => Moves(o, "rbefore", NoRev, NoRow, NoRow, told[PodOf[o]])
         /\ BeginDelete(o) \/ BeginBypass(o)
              => \/ l3'.ver = l3.ver + 1 /\ Moves(o, "evict", NoRev, NoRow, l3.ver + 1, 0)
                 \/ l3' = l3 /\ Moves(o, "evict", NoRev, NoRow, NoRow, 0)
<1>1. ReloadBefore(o) => \E v \in {l2[Scope(o)].rev, op[o].rev} :
                            Moves(o, "rfetch", v, op[o].row, op[o].mine, op[o].floor)
  BY SetMoves, GotoMoves, Zenon DEF ReloadBefore
<1>2. ReloadFetch(o) => \/ Moves(o, "idle", NoRev, NoRow, NoRow, 0)
                        \/ Moves(o, "rcache", op[o].rev, l3.ver, op[o].mine, op[o].floor)
  BY SetMoves, FinishMoves, Zenon DEF ReloadFetch
<1>3. ReloadCache(o) => \/ Moves(o, "rseed", op[o].rev, op[o].row, op[o].mine, op[o].floor)
                        \/ Moves(o, "announce", NoRev, NoRow, NoRow, 0)
  BY GotoMoves, AnnouncingMoves DEF ReloadCache
<1>4. BeginDelete(o) \/ BeginBypass(o)
        => \/ l3'.ver = l3.ver + 1 /\ Moves(o, "evict", NoRev, NoRow, l3.ver + 1, 0)
           \/ l3' = l3 /\ Moves(o, "evict", NoRev, NoRow, NoRow, 0)
  BY WithdrawingMoves DEF BeginDelete, BeginBypass, CommitRow
<1> QED
  BY <1>1, <1>2, <1>3, <1>4, GotoMoves, FinishMoves, AnnouncingMoves, TicketMoves
     DEF ReloadSeed, WithdrawL1, WithdrawL2, Announce, BeginRead, BeginSave, BeginReload

----------------------------------------------------------------------------
(* Each part of the invariant is kept by every step                        *)

\* a step of a read stays among the read steps
LEMMA ReadPhase ==
  ASSUME TypeOK, NEW o \in Ops, ReadStep(o)
  PROVE  /\ op[o].pc \in ReadSteps /\ op'[o].pc \in ReadSteps \cup {"idle"}
         /\ op'[o].mine \in {op[o].mine, NoRow} /\ \A x \in Ops \ {o} : op'[x] = op[x]
<1>1. op[o].pc \in ReadSteps
  BY Zenon DEF ReadStep, LookupRow, LookupNothing, LookupFails, Fetch, SeedLands, SeedSuperseded, SeedFails, Relookup,
         CacheRead, ReadSteps
<1>2. \E pc \in ReadSteps \cup {"idle"}, mine \in {op[o].mine, NoRow} : \E rev, row, floor :
        Moves(o, pc, rev, row, mine, floor)
  BY ReadMoves DEF ReadStep, ReadSteps
<1> QED
  BY <1>1, <1>2 DEF Moves

\* a step of a save stays among the save steps, or goes to its broadcast
LEMMA SavePhase ==
  ASSUME TypeOK, NEW o \in Ops, SaveStep(o)
  PROVE  /\ op[o].pc \in SaveSteps /\ op'[o].pc \in SaveSteps \cup {"idle", "announce"}
         /\ \A x \in Ops \ {o} : op'[x] = op[x]
<1>1. op[o].pc \in SaveSteps
  BY Zenon DEF SaveStep, ReadBefore, Store, StoreRefused, StoreAnswerLost, StoredRow, StoredRowUnread, UpdateLands,
         UpdateFails, WithdrawKey, KeepSaved, DropUnread, SaveCancelled, SaveSteps
<1>2. \E pc \in SaveSteps \cup {"idle", "announce"} : \E rev, row, mine, floor : Moves(o, pc, rev, row, mine, floor)
  BY SaveMoves, Zenon DEF SaveStep, SaveSteps
<1> QED
  BY <1>1, <1>2 DEF Moves

\* the same for reloads, withdrawals and broadcasts
LEMMA OtherPhase ==
  ASSUME TypeOK, NEW o \in Ops, ReloadStep(o) \/ WithdrawStep(o) \/ Announce(o)
  PROVE  /\ op[o].pc \in ReloadSteps \cup LooseSteps
         /\ op'[o].pc \in {"rfetch", "rcache", "rseed", "delete", "announce", "idle"}
         /\ op'[o].pc = "delete" => op[o].pc = "evict"
         /\ op'[o].pc \in ReloadSteps => op[o].pc \in ReloadSteps
         /\ op'[o].mine \in {op[o].mine, NoRow} /\ \A x \in Ops \ {o} : op'[x] = op[x]
<1>1. CASE ReloadStep(o)
  <2>1. op[o].pc \in ReloadSteps \cup {"rseed"}
    BY <1>1 DEF ReloadStep, ReloadBefore, ReloadFetch, ReloadCache, ReloadSeed, ReloadSteps
  <2>2. op[o].pc = "rseed" => ReloadSeed(o)
    BY <1>1, Zenon DEF ReloadStep, ReloadBefore, ReloadFetch, ReloadCache
  <2>3. /\ op'[o].pc \in {"rfetch", "rcache", "rseed", "announce", "idle"}
        /\ ReloadSeed(o) => op'[o].pc = "announce"
        /\ op'[o].mine \in {op[o].mine, NoRow} /\ \A x \in Ops \ {o} : op'[x] = op[x]
    BY <1>1, OtherMoves, Zenon DEF ReloadStep, Moves
  <2> QED
    BY <2>1, <2>2, <2>3 DEF ReloadSteps, LooseSteps
<1>2. CASE WithdrawStep(o) \/ Announce(o)
  <2>1. op[o].pc \in LooseSteps /\ (WithdrawL1(o) => op[o].pc = "evict")
    BY <1>2, Zenon DEF WithdrawStep, WithdrawL1, WithdrawL2, Announce, LooseSteps
  <2>2. /\ op'[o].pc \in {"delete", "announce", "idle"} /\ (op'[o].pc = "delete" => WithdrawL1(o))
        /\ op'[o].mine \in {op[o].mine, NoRow} /\ \A x \in Ops \ {o} : op'[x] = op[x]
    BY <1>2, OtherMoves, Zenon DEF WithdrawStep, Moves
  <2> QED
    BY <2>1, <2>2, Zenon DEF ReloadSteps
<1> QED
  BY <1>1, <1>2

\* a slot only runs the operations of its role
LEMMA RoleStep == TypeOK /\ InRole /\ [Next]_vars => InRole'
<1> SUFFICES ASSUME TypeOK, InRole, [Next]_vars PROVE InRole'
  OBVIOUS
<1> USE DEF InRole, ReadSteps, SaveSteps, ReloadSteps, LooseSteps, NoRow, Commit
<1>1. ASSUME NEW o \in Ops, ReadStep(o) PROVE InRole'
  BY <1>1, ReadPhase
<1>2. ASSUME NEW o \in Ops, SaveStep(o) PROVE InRole'
  BY <1>2, SavePhase, Zenon
<1>3. ASSUME NEW o \in Ops, ReloadStep(o) \/ WithdrawStep(o) \/ Announce(o) PROVE InRole'
  BY <1>3, OtherPhase, Zenon
<1>4. ASSUME NEW o \in Ops, BeginOp(o) PROVE InRole'
  <2>1. CASE BeginRead(o) \/ BeginSave(o) \/ BeginReload(o)
    BY <2>1, OtherMoves DEF Moves, BeginRead, BeginSave, BeginReload
  <2>2. CASE BeginDelete(o) \/ BeginBypass(o)
    <3>1. Roles[o] \cap {"delete", "bypass"} # {}
      BY <2>2, ZenonT(30) DEF BeginDelete, BeginBypass
    <3>2. op'[o].pc = "evict" /\ \A x \in Ops \ {o} : op'[x] = op[x]
      BY <2>2, OtherMoves, Zenon DEF Moves
    <3> QED
      BY <3>1, <3>2
  <2> QED
    BY <1>4, <2>1, <2>2, Zenon DEF BeginOp
<1>5. ASSUME NEW p \in Pods, Hear(p) PROVE InRole'
  BY <1>5, Zenon DEF Hear, HearProbe, HearDelete, HearEvict
<1>6. CASE UNCHANGED vars
  BY <1>6 DEF vars
<1> QED
  BY <1>1, <1>2, <1>3, <1>4, <1>5, <1>6 DEF Next, OpStep

\* only taking a ticket makes one the newest
LEMMA OutdatedStays ==
  ASSUME \/ \E o \in Ops : OpStep(o) \/ BeginDelete(o) \/ BeginBypass(o)
         \/ \E p \in Pods : Hear(p)
         \/ UNCHANGED vars
  PROVE  outdated \subseteq outdated'
<1> USE DEF EvictL1, KeepL1
<1>1. ASSUME NEW o \in Ops, ReadStep(o) PROVE outdated \subseteq outdated'
  BY <1>1 DEF ReadStep, LookupRow, LookupNothing, LookupFails, Fetch, SeedLands, SeedSuperseded, SeedFails, Relookup,
     CacheRead
<1>2. ASSUME NEW o \in Ops, SaveStep(o) PROVE outdated \subseteq outdated'
  BY <1>2, Zenon DEF SaveStep, ReadBefore, Store, StoreRefused, StoreAnswerLost, StoredRow, StoredRowUnread, UpdateLands,
     UpdateFails, WithdrawKey, KeepSaved, DropUnread, SaveCancelled
<1>3. ASSUME NEW o \in Ops, ReloadStep(o) \/ WithdrawStep(o) \/ Announce(o) PROVE outdated \subseteq outdated'
  BY <1>3 DEF ReloadStep, ReloadBefore, ReloadFetch, ReloadCache, ReloadSeed, WithdrawStep, WithdrawL1, WithdrawL2,
     Announce
<1>4. ASSUME NEW o \in Ops, BeginDelete(o) \/ BeginBypass(o) PROVE outdated \subseteq outdated'
  BY <1>4, Zenon DEF BeginDelete, BeginBypass
<1>5. ASSUME NEW p \in Pods, Hear(p) PROVE outdated \subseteq outdated'
  BY <1>5 DEF Hear, HearProbe, HearDelete, HearEvict
<1> QED
  BY <1>1, <1>2, <1>3, <1>4, <1>5, Zenon DEF OpStep, vars

\* a ticket that is the newest shares its key with no other writing ticket
LEMMA FenceStep == TypeOK /\ Fenced /\ [Next]_vars => Fenced'
<1> SUFFICES ASSUME TypeOK, Fenced, [Next]_vars PROVE Fenced'
  OBVIOUS
<1>0. ASSUME outdated \subseteq outdated',
             \A x \in Ops : /\ op'[x].pc \in SaveSteps => op[x].pc \in SaveSteps
                            /\ op'[x].pc \in Holding => op[x].pc \in Holding
      PROVE  Fenced'
  BY <1>0, Zenon DEF Fenced
<1>1. ASSUME NEW o \in Ops, OpStep(o) PROVE Fenced'
  <2>1. \A x \in Ops : /\ op'[x].pc \in SaveSteps => op[x].pc \in SaveSteps
                       /\ op'[x].pc \in Holding => op[x].pc \in Holding
    <3> USE DEF Holding, ReadSteps, SaveSteps, ReloadSteps, LooseSteps
    <3>1. CASE ReadStep(o)
      BY <3>1, ReadPhase, Zenon
    <3>2. CASE SaveStep(o)
      BY <3>2, SavePhase, Zenon
    <3>3. CASE ReloadStep(o) \/ WithdrawStep(o) \/ Announce(o)
      BY <3>3, OtherPhase, Zenon
    <3> QED
      BY <1>1, <3>1, <3>2, <3>3, Zenon DEF OpStep
  <2> QED
    BY <1>0, <1>1, <2>1, OutdatedStays, Zenon
<1>2. ASSUME NEW o \in Ops, BeginDelete(o) \/ BeginBypass(o) PROVE Fenced'
  <2>1. op'[o].pc = "evict" /\ \A x \in Ops \ {o} : op'[x] = op[x]
    BY <1>2, OtherMoves, Zenon DEF Moves
  <2>2. \A x \in Ops : /\ op'[x].pc \in SaveSteps => op[x].pc \in SaveSteps
                       /\ op'[x].pc \in Holding => op[x].pc \in Holding
    BY <2>1 DEF Holding, ReadSteps, SaveSteps, ReloadSteps
  <2> QED
    BY <1>0, <1>2, <2>2, OutdatedStays, Zenon
<1>3. ASSUME NEW o \in Ops, BeginRead(o) \/ BeginSave(o) \/ BeginReload(o) PROVE Fenced'
  <2>1. /\ op'[o].pc \in SaveSteps => BeginSave(o)
        /\ \A x \in Ops \ {o} : op'[x] = op[x]
    BY <1>3, OtherMoves, Zenon DEF Moves, SaveSteps
  <2>2. outdated \ {o} \subseteq outdated'
    BY <1>3 DEF BeginRead, BeginSave, BeginReload, TakeTicket
  <2>3. BeginSave(o) => SlotsOf(PodOf[o]) \ {o} \subseteq outdated'
    BY DEF BeginSave, TakeTicket
  <2>4. Writing(PodOf[o]) => o \in outdated'
    BY <1>3, Zenon DEF BeginRead, BeginSave, BeginReload, TakeTicket
  <2> SUFFICES ASSUME NEW y \in Ops, NEW x \in Ops, y # x, PodOf[y] = PodOf[x],
                      op'[y].pc \in SaveSteps, op'[x].pc \in Holding
               PROVE  x \in outdated'
    BY Zenon DEF Fenced
  <2>5. CASE x = o
    BY <2>1, <2>4, <2>5 DEF Writing, SlotsOf
  <2>6. CASE y = o
    BY <2>1, <2>3, <2>6, Zenon DEF SlotsOf
  <2>7. CASE x # o /\ y # o
    BY <2>1, <2>2, <2>7 DEF Fenced
  <2> QED
    BY <2>5, <2>6, <2>7, Zenon
<1>4. CASE (\E p \in Pods : Hear(p)) \/ UNCHANGED vars
  <2>1. op' = op
    BY <1>4 DEF Hear, HearProbe, HearDelete, HearEvict, vars
  <2> QED
    BY <1>0, <1>4, <2>1, OutdatedStays, Zenon
<1> QED
  BY <1>1, <1>2, <1>3, <1>4 DEF Next, BeginOp


\* a key's revision only grows when it is written or deleted
LEMMA KeyGrows ==
  ASSUME TypeOK, NEW s \in Scopes, NEW row, PutL2(s, row) \/ TryDeleteKey(s) \/ UNCHANGED l2
  PROVE  \A t \in Scopes : l2'[t].rev >= l2[t].rev
<1>1. l2 \in [Scopes -> [row : Nat, rev : Nat]]
  BY DEF TypeOK
<1>2. ASSUME NEW r, PutL2(s, r), NEW t \in Scopes PROVE l2'[t].rev >= l2[t].rev
  <2>1. l2[t].rev \in Nat /\ l2'[t].rev = IF t = s THEN l2[t].rev + 1 ELSE l2[t].rev
    BY <1>1, <1>2 DEF PutL2
  <2> QED
    BY <2>1
<1>3. UNCHANGED l2 => \A t \in Scopes : l2'[t].rev >= l2[t].rev
  BY <1>1
<1> QED
  BY <1>2, <1>3 DEF TryDeleteKey, DeleteKey

\* the history only grows, at the scope or pod it records
LEMMA HistoryGrows ==
  ASSUME TypeOK, NEW s \in Scopes, NEW p \in Pods, NEW n \in Nat
  PROVE  /\ TellPod(p, n) => \A q \in Pods : told'[q] >= told[q]
         /\ SettleL2(s, n) => \A t \in Scopes : settled'[t] >= settled[t]
<1>1. told \in [Pods -> Nat] /\ settled \in [Scopes -> Nat]
  BY DEF TypeOK
<1>2. TellPod(p, n) => \A q \in Pods : told'[q] >= told[q]
  BY <1>1 DEF TellPod, Newer
<1>3. SettleL2(s, n) => \A t \in Scopes : settled'[t] >= settled[t]
  BY <1>1 DEF SettleL2, Newer
<1> QED
  BY <1>2, <1>3

\* a commit takes the next number
LEMMA CommitGrows ==
  ASSUME TypeOK
  PROVE  /\ \A live : CommitRow(live) => l3'.ver = l3.ver + 1 /\ l3'.ver >= l3.ver
         /\ l3' = l3 => l3'.ver >= l3.ver
  BY DEF TypeOK, CommitRow

\* no step takes L3 back
LEMMA VersionGrows == TypeOK /\ [Next]_vars => l3'.ver >= l3.ver
<1> SUFFICES ASSUME TypeOK, [Next]_vars PROVE l3'.ver >= l3.ver
  OBVIOUS
<1>1. ASSUME NEW o \in Ops, ReadStep(o) PROVE l3' = l3
  BY <1>1 DEF ReadStep, LookupRow, LookupNothing, LookupFails, Fetch, SeedLands, SeedSuperseded, SeedFails, Relookup,
     CacheRead
<1>2. ASSUME NEW o \in Ops, SaveStep(o) PROVE l3'.ver >= l3.ver
  BY <1>2, CommitGrows, Zenon DEF SaveStep, ReadBefore, Store, StoreRefused, StoreAnswerLost, StoredRow, StoredRowUnread, UpdateLands,
     UpdateFails, WithdrawKey, KeepSaved, DropUnread, SaveCancelled
<1>3. ASSUME NEW o \in Ops, ReloadStep(o) \/ WithdrawStep(o) \/ Announce(o) PROVE l3' = l3
  BY <1>3 DEF ReloadStep, ReloadBefore, ReloadFetch, ReloadCache, ReloadSeed, WithdrawStep, WithdrawL1, WithdrawL2,
     Announce
<1>4. ASSUME NEW o \in Ops, BeginOp(o) PROVE l3'.ver >= l3.ver
  BY <1>4, CommitGrows, Zenon DEF BeginOp, BeginRead, BeginSave, BeginReload, BeginDelete, BeginBypass
<1>5. ASSUME NEW p \in Pods, Hear(p) PROVE l3' = l3
  BY <1>5, Zenon DEF Hear, HearProbe, HearDelete, HearEvict
<1> QED
  BY <1>1, <1>2, <1>3, <1>4, <1>5, CommitGrows DEF Next, OpStep, vars

\* no step takes a key's revision back
LEMMA RevisionGrows == TypeOK /\ [Next]_vars => \A s \in Scopes : l2'[s].rev >= l2[s].rev
<1> SUFFICES ASSUME TypeOK, [Next]_vars PROVE \A s \in Scopes : l2'[s].rev >= l2[s].rev
  OBVIOUS
<1>1. ASSUME NEW o \in Ops, ReadStep(o) PROVE \A s \in Scopes : l2'[s].rev >= l2[s].rev
  BY <1>1, FieldTypes, KeyGrows DEF ReadStep, LookupRow, LookupNothing, LookupFails, Fetch, SeedLands, SeedSuperseded,
     SeedFails, Relookup, CacheRead
<1>2. ASSUME NEW o \in Ops, SaveStep(o) PROVE \A s \in Scopes : l2'[s].rev >= l2[s].rev
  BY <1>2, FieldTypes, KeyGrows, Zenon DEF SaveStep, ReadBefore, Store, StoreRefused, StoreAnswerLost, StoredRow,
     StoredRowUnread, UpdateLands, UpdateFails, WithdrawKey, KeepSaved, DropUnread, SaveCancelled
<1>3. ASSUME NEW o \in Ops, ReloadStep(o) \/ WithdrawStep(o) \/ Announce(o) \/ BeginOp(o)
      PROVE  \A s \in Scopes : l2'[s].rev >= l2[s].rev
  BY <1>3, FieldTypes, KeyGrows, Zenon DEF ReloadStep, ReloadBefore, ReloadFetch, ReloadCache, ReloadSeed, WithdrawStep,
     WithdrawL1, WithdrawL2, Announce, BeginOp, BeginRead, BeginSave, BeginReload, BeginDelete, BeginBypass
<1>4. ASSUME NEW p \in Pods, Hear(p) PROVE \A s \in Scopes : l2'[s].rev >= l2[s].rev
  BY <1>4, PlacementAssumption, KeyGrows, Zenon DEF Hear, HearProbe, HearDelete, HearEvict
<1>5. CASE UNCHANGED vars
  BY <1>5 DEF vars, TypeOK
<1> QED
  BY <1>1, <1>2, <1>3, <1>4, <1>5, Zenon DEF Next, OpStep

\* no step takes back what a pod has been told
LEMMA KnowledgeGrows == TypeOK /\ [Next]_vars => \A p \in Pods : told'[p] >= told[p]
<1> SUFFICES ASSUME TypeOK, [Next]_vars PROVE \A p \in Pods : told'[p] >= told[p]
  OBVIOUS
<1>0. told' = told => \A p \in Pods : told'[p] >= told[p]
  BY DEF TypeOK
<1>1. ASSUME NEW o \in Ops, ReadStep(o) PROVE told' = told
  BY <1>1 DEF ReadStep, LookupRow, LookupNothing, LookupFails, Fetch, SeedLands, SeedSuperseded,
     SeedFails, Relookup, CacheRead, history
<1>2. ASSUME NEW o \in Ops, SaveStep(o) PROVE \A p \in Pods : told'[p] >= told[p]
  BY <1>0, <1>2, FieldTypes, HistoryGrows, Zenon DEF SaveStep, ReadBefore, Store, StoreRefused, StoreAnswerLost, StoredRow,
     StoredRowUnread, UpdateLands, UpdateFails, WithdrawKey, KeepSaved, DropUnread, SaveCancelled, history
<1>3. ASSUME NEW o \in Ops, ReloadStep(o) \/ WithdrawStep(o) \/ Announce(o) \/ BeginOp(o)
      PROVE  \A p \in Pods : told'[p] >= told[p]
  BY <1>0, <1>3, FieldTypes, HistoryGrows, Zenon DEF ReloadStep, ReloadBefore, ReloadFetch, ReloadCache, ReloadSeed,
     WithdrawStep, WithdrawL1, WithdrawL2, Announce, BeginOp, BeginRead, BeginSave, BeginReload, BeginDelete,
     BeginBypass, history
<1>4. ASSUME NEW p \in Pods, Hear(p) PROVE \A q \in Pods : told'[q] >= told[q]
  <2>1. CASE HearEvict(p)
    <3>1. inbox[p] \in Seq(Nat) /\ inbox[p] # <<>>
      BY <2>1 DEF HearEvict, TypeOK
    <3>2. Head(inbox[p]) \in Nat
      BY <3>1
    <3> QED
      BY <2>1, <3>2, PlacementAssumption, HistoryGrows, Zenon DEF HearEvict
  <2>2. CASE HearProbe(p) \/ HearDelete(p)
    BY <1>0, <2>2 DEF HearProbe, HearDelete, history
  <2> QED
    BY <1>4, <2>1, <2>2, Zenon DEF Hear
<1> QED
  BY <1>0, <1>1, <1>2, <1>3, <1>4 DEF Next, OpStep, vars, history


\* what a slot carries is never ahead of the tier it was read from
LEMMA OrderStep == TypeOK /\ InOrder /\ [Next]_vars => InOrder'
<1> SUFFICES ASSUME TypeOK, InOrder, [Next]_vars PROVE InOrder'
  OBVIOUS
<1> DEFINE Ordered(x) ==
             /\ op'[x].rev <= l2'[Scope(x)].rev
             /\ op'[x].mine <= l3'.ver
             /\ op'[x].floor <= told'[PodOf[x]]
             /\ op'[x].pc \in {"stored", "update", "keep"} => op'[x].row >= op'[x].mine
<1>a. TypeOK'
  BY TypeStep
<1>b. ASSUME NEW x \in Ops
      PROVE  /\ l3'.ver >= l3.ver /\ l2'[Scope(x)].rev >= l2[Scope(x)].rev /\ told'[PodOf[x]] >= told[PodOf[x]]
             /\ l3.ver \in Nat /\ l3'.ver \in Nat /\ l2[Scope(x)].rev \in Nat /\ l2'[Scope(x)].rev \in Nat
             /\ told[PodOf[x]] \in Nat /\ told'[PodOf[x]] \in Nat
             /\ op[x].rev \in Int /\ op[x].row \in Nat /\ op[x].mine \in Nat /\ op[x].floor \in Nat
  BY <1>a, FieldTypes, VersionGrows, RevisionGrows, KnowledgeGrows, PlacementAssumption, Zenon DEF TypeOK
<1>c. ASSUME NEW x \in Ops
      PROVE  /\ op[x].rev <= l2'[Scope(x)].rev /\ op[x].mine <= l3'.ver /\ op[x].floor <= told'[PodOf[x]]
             /\ NoRev <= l2'[Scope(x)].rev /\ l2[Scope(x)].rev <= l2'[Scope(x)].rev
             /\ NoRow <= l3'.ver /\ 0 <= told'[PodOf[x]] /\ told[PodOf[x]] <= told'[PodOf[x]]
  BY <1>b DEF InOrder, NoRev, NoRow
<1>d. ASSUME NEW x \in Ops, op'[x] = op[x] PROVE Ordered(x)
  BY <1>c, <1>d, Zenon DEF InOrder
<1>e. ASSUME NEW o \in Ops, \A x \in Ops \ {o} : op'[x] = op[x], Ordered(o) PROVE InOrder'
  BY <1>d, <1>e, Zenon DEF InOrder
<1> HIDE DEF Ordered
<1>1. ASSUME NEW o \in Ops, ReadStep(o) PROVE InOrder'
  <2>1. /\ op'[o].rev \in {NoRev, op[o].rev, l2[Scope(o)].rev}
        /\ op'[o].mine \in {NoRow, op[o].mine} /\ op'[o].floor \in {0, op[o].floor}
    BY <1>1, ReadMoves, Zenon DEF ReadStep, Moves
  <2>2. op'[o].pc \notin {"stored", "update", "keep"}
    BY <1>1, ReadPhase, Zenon DEF ReadSteps
  <2>3. Ordered(o)
    BY <1>c, <2>1, <2>2 DEF Ordered
  <2> QED
    BY <1>1, <1>e, <2>3, ReadPhase, Zenon
<1>2. ASSUME NEW o \in Ops, SaveStep(o) PROVE InOrder'
  <2>1. CASE Store(o)
    <3>1. l3'.ver = l3.ver + 1
      BY <2>1, CommitGrows, Zenon DEF Store
    <3>2. Moves(o, "stored", op[o].rev, l3.ver + 1, l3.ver + 1, op[o].floor)
      BY <2>1, SaveMoves, Zenon
    <3>3. Ordered(o)
      BY <1>b, <1>c, <3>1, <3>2 DEF Moves, Ordered
    <3> QED
      BY <1>e, <3>2, <3>3 DEF Moves
  <2>2. CASE StoredRow(o)
    <3>1. op[o].pc = "stored"
      BY <2>2, Zenon DEF StoredRow
    <3>2. PICK v \in {l3.ver, op[o].row} : Moves(o, "update", op[o].rev, v, op[o].mine, op[o].floor)
      BY <2>2, SaveMoves, Zenon
    <3>a. op[o].mine <= l3.ver /\ op[o].row >= op[o].mine
      BY <3>1 DEF InOrder
    <3>b. op[o].mine \in Nat /\ l3.ver \in Nat /\ op[o].row \in Nat
      BY <1>b, Zenon
    <3>3. v >= op[o].mine
      BY <3>2, <3>a, <3>b, Zenon
    <3>4. Ordered(o)
      BY <1>c, <3>2, <3>3, Zenon DEF Moves, Ordered
    <3> QED
      BY <1>e, <3>2, <3>4 DEF Moves
  <2>3. CASE UpdateLands(o)
    <3>1. op[o].pc = "update"
      BY <2>3, Zenon DEF UpdateLands
    <3>2. Moves(o, "keep", op[o].rev, op[o].row, op[o].mine, op[o].floor) /\ op[o].row >= op[o].mine
      BY <2>3, <3>1, SaveMoves, Zenon DEF InOrder
    <3>3. Ordered(o)
      BY <1>c, <3>2, Zenon DEF Moves, Ordered
    <3> QED
      BY <1>e, <3>2, <3>3 DEF Moves
  <2>4. CASE ~Store(o) /\ ~StoredRow(o) /\ ~UpdateLands(o)
    <3>1. /\ op'[o].pc \in {"store", "unread", "withdraw", "discard", "idle", "announce"}
          /\ op'[o].rev \in {NoRev, op[o].rev, l2[Scope(o)].rev}
          /\ op'[o].mine \in {NoRow, op[o].mine} /\ op'[o].floor \in {0, op[o].floor}
      BY <1>2, <2>4, SaveMoves, Zenon DEF SaveStep, Moves
    <3>2. Ordered(o)
      BY <1>c, <3>1, Zenon DEF Ordered
    <3> QED
      BY <1>2, <1>e, <3>2, SavePhase, Zenon
  <2> QED
    BY <2>1, <2>2, <2>3, <2>4, Zenon
<1>3. ASSUME NEW o \in Ops, ReloadStep(o) \/ WithdrawStep(o) \/ Announce(o) PROVE InOrder'
  <2>1. op'[o].rev \in {NoRev, op[o].rev, l2[Scope(o)].rev} /\ op'[o].floor \in {0, op[o].floor}
    BY <1>3, OtherMoves, Zenon DEF ReloadStep, WithdrawStep, Moves
  <2>2. /\ op'[o].pc \notin {"stored", "update", "keep"} /\ op'[o].mine \in {NoRow, op[o].mine}
        /\ \A x \in Ops \ {o} : op'[x] = op[x]
    BY <1>3, OtherPhase, Zenon
  <2>3. Ordered(o)
    BY <1>c, <2>1, <2>2, Zenon DEF Ordered
  <2> QED
    BY <1>e, <2>2, <2>3, Zenon
<1>4. ASSUME NEW o \in Ops, BeginOp(o) PROVE InOrder'
  <2>1. PICK pc \in {"lookup", "before", "rbefore", "evict"}, mine \in {NoRow, l3'.ver}, floor \in {0, told[PodOf[o]]} :
           Moves(o, pc, NoRev, NoRow, mine, floor)
    BY <1>4, OtherMoves, Zenon DEF BeginOp
  <2>2. mine <= l3'.ver /\ floor <= told'[PodOf[o]]
    BY <1>b, <1>c
  <2>3. Ordered(o)
    BY <1>c, <2>1, <2>2, Zenon DEF Moves, Ordered
  <2> QED
    BY <1>e, <2>1, <2>3, Zenon DEF Moves
<1>5. CASE (\E p \in Pods : Hear(p)) \/ UNCHANGED vars
  <2>1. op' = op
    BY <1>5 DEF Hear, HearProbe, HearDelete, HearEvict, vars
  <2> QED
    BY <1>d, <2>1 DEF Ordered, InOrder
<1> QED
  BY <1>1, <1>2, <1>3, <1>4, <1>5, Zenon DEF Next, OpStep
=============================================================================

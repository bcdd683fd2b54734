----------------------------- MODULE ThreeTierL2 -----------------------------
(***************************************************************************)
(* The part of the invariant that keeps the L2 key of a home scope, and    *)
(* the rows its readers answer with, from going back.                      *)
(***************************************************************************)
EXTENDS ThreeTierInvariant

(* The L2 key of a home scope                                              *)

\* a pod that commits is in every home scope
LEMMA CommitsAtHome ==
  ASSUME NEW s \in Scopes, HomeScope(s), NEW o \in Ops, Roles[o] \cap Commit # {}
  PROVE  Scope(o) = s
<1>1. PodOf[o] \in Pods /\ Roles[o] \subseteq Does(PodOf[o])
  BY PlacementAssumption DEF Does
<1>2. Commits(PodOf[o])
  BY <1>1 DEF Commits, Commit
<1> QED
  BY <1>1, <1>2 DEF HomeScope, Scope

Swapping == {"seed", "rcache", "rseed", "stored", "update"}

\* a step that leaves the key and what is settled alone
LEMMA KeyUntouched ==
  ASSUME TypeOK, TypeOK', NEW s \in Scopes, KeyFresh(s), NEW o \in Ops,
         l2'[s] = l2[s], settled'[s] = settled[s], l3'.ver >= l3.ver,
         \A x \in Ops \ {o} : op'[x] = op[x],
         \/ op'[o].pc \notin Swapping
         \/ op'[o].row >= l3.ver
         \/ op[o].pc \in Swapping /\ op'[o].rev = op[o].rev /\ op'[o].row >= op[o].row
  PROVE  KeyFresh(s)'
<1>1. /\ settled[s] \in Nat /\ l3.ver \in Nat /\ l3'.ver \in Nat
      /\ op[o].row \in Nat /\ op'[o].row \in Nat
  BY FieldTypes, FieldTypes, Zenon DEF TypeOK, OpType
<1>2. settled'[s] <= l3'.ver
  BY <1>1 DEF KeyFresh
<1>3. RowAtLeast(l2'[s].row, settled'[s])
  BY DEF KeyFresh, RowAtLeast
<1>4. ASSUME NEW x \in Ops, Scope(x) = s, op'[x].pc \in Swapping, op'[x].rev = l2'[s].rev
      PROVE  op'[x].row >= settled'[s]
  <2>1. CASE x # o
    BY <1>4, <2>1 DEF KeyFresh, Swapping
  <2>2. CASE x = o
    BY <1>1, <1>4, <2>2 DEF KeyFresh, Swapping
  <2> QED
    BY <2>1, <2>2
<1> QED
  BY <1>2, <1>3, <1>4 DEF KeyFresh, Swapping, RowAtLeast

\* a step that takes the key's next revision: nobody can swap at that one yet
LEMMA KeyTaken ==
  ASSUME TypeOK, TypeOK', InOrder, NEW s \in Scopes, KeyFresh(s), NEW row, PutL2(s, row),
         row = NoRow \/ row >= settled'[s], settled'[s] <= l3'.ver,
         \A x \in Ops : op'[x].pc \in Swapping => op'[x].rev = op[x].rev
  PROVE  KeyFresh(s)'
<1>1. l2'[s].row = row /\ l2'[s].rev = l2[s].rev + 1 /\ l2[s].rev \in Nat
  BY DEF PutL2, TypeOK
<1>2. \A x \in Ops : op[x].rev \in Int
  BY FieldTypes
<1>3. ASSUME NEW x \in Ops, Scope(x) = s, op'[x].pc \in Swapping PROVE op'[x].rev # l2'[s].rev
  BY <1>1, <1>2, <1>3 DEF InOrder
<1> QED
  BY <1>1, <1>3 DEF KeyFresh, RowAtLeast, Swapping


\* every step keeps the key of a home scope fresh
LEMMA KeyStep ==
  ASSUME TypeOK, TypeOK', InRole, InOrder, "delete" \notin Faults, [Next]_vars,
         NEW s \in Scopes, HomeScope(s), KeyFresh(s), SettledFirst(s)
  PROVE  KeyFresh(s)'
<1>a. l3'.ver >= l3.ver
  BY VersionGrows
<1>b. ASSUME NEW o \in Ops, op[o].pc \in SaveSteps \cup {"evict", "delete"} PROVE Scope(o) = s
  BY <1>b, CommitsAtHome DEF InRole, Commit
<1>c. ASSUME NEW t \in Scopes, NEW row, PutL2(t, row), t # s PROVE l2'[s] = l2[s]
  BY <1>c DEF PutL2, TypeOK
<1>d. \A t \in Scopes : TryDeleteKey(t) => PutL2(t, NoRow)
  BY DEF TryDeleteKey, DeleteKey
<1>e. ASSUME NEW o \in Ops, SettleL2(s, op[o].mine)
      PROVE  /\ settled'[s] = Newer(settled[s], op[o].mine) /\ settled'[s] <= l3.ver
             /\ settled[s] \in Nat /\ op[o].mine \in Nat
  <2>1. settled[s] \in Nat /\ op[o].mine \in Nat /\ l3.ver \in Nat /\ settled'[s] = Newer(settled[s], op[o].mine)
    BY <1>e, FieldTypes, Zenon DEF SettleL2, TypeOK
  <2> QED
    BY <2>1 DEF KeyFresh, InOrder, Newer
<1>1. ASSUME NEW o \in Ops, ReadStep(o) PROVE KeyFresh(s)'
  <2>1. CASE SeedLands(o)
    <3>1. Moves(o, "cache", op[o].rev, op[o].row, op[o].mine, op[o].floor) /\ settled' = settled /\ l3' = l3
      BY <2>1, ReadMoves DEF SeedLands, history
    <3>2. CASE Scope(o) = s
      <4>1. op[o].row >= settled[s] /\ PutL2(s, op[o].row)
        BY <2>1, <3>2 DEF SeedLands, AtRevision, KeyFresh
      <4> QED
        BY <3>1, <4>1, KeyTaken DEF KeyFresh, Moves, Swapping
    <3>3. CASE Scope(o) # s
      <4>1. l2'[s] = l2[s]
        BY <1>c, <2>1, <3>3, FieldTypes, Zenon DEF SeedLands
      <4> QED
        BY <1>a, <3>1, <4>1, KeyUntouched, Zenon DEF Moves, Swapping
    <3> QED
      BY <3>2, <3>3
  <2>2. CASE ~SeedLands(o)
    <3>1. l2' = l2 /\ settled' = settled
      BY <1>1, <2>2, Zenon DEF ReadStep, LookupRow, LookupNothing, LookupFails, Fetch, SeedSuperseded, SeedFails, Relookup,
         CacheRead, history
    <3>2. op'[o].pc \notin Swapping \/ op'[o].row = l3.ver
      BY <1>1, <2>2, ReadMoves DEF ReadStep, Moves, Swapping
    <3> QED
      BY <1>1, <1>a, <3>1, <3>2, ReadPhase, KeyUntouched, FieldTypes
  <2> QED
    BY <2>1, <2>2
<1>2. ASSUME NEW o \in Ops, SaveStep(o) PROVE KeyFresh(s)'
  <2>0. Scope(o) = s
    BY <1>2, <1>b, SavePhase
  <2>1. CASE UpdateLands(o)
    <3>1. /\ op[o].pc = "update" /\ op[o].rev = l2[s].rev /\ PutL2(s, op[o].row) /\ SettleL2(s, op[o].mine)
          /\ Moves(o, "keep", op[o].rev, op[o].row, op[o].mine, op[o].floor) /\ l3' = l3
      BY <2>0, <2>1, SaveMoves, Zenon DEF UpdateLands, AtRevision
    <3>2. op[o].row >= settled[s] /\ op[o].row >= op[o].mine
      BY <2>0, <3>1, Zenon DEF KeyFresh, InOrder
    <3>3. op[o].row >= settled'[s] /\ settled'[s] <= l3'.ver
      BY <1>e, <3>1, <3>2 DEF Newer
    <3> QED
      BY <3>1, <3>3, KeyTaken, Zenon DEF Moves, Swapping
  <2>2. CASE UpdateFails(o)
    <3>1. /\ op[o].pc = "update" /\ settled' = settled /\ l3' = l3
          /\ Moves(o, "withdraw", op[o].rev, op[o].row, op[o].mine, op[o].floor)
          /\ l2' = l2 \/ (op[o].rev = l2[s].rev /\ PutL2(s, op[o].row))
      BY <2>0, <2>2, SaveMoves, Zenon DEF UpdateFails, AtRevision, history
    <3>2. CASE l2' = l2
      BY <1>a, <3>1, <3>2, KeyUntouched, Zenon DEF Moves, Swapping
    <3>3. CASE op[o].rev = l2[s].rev /\ PutL2(s, op[o].row)
      <4>1. op[o].row >= settled'[s] /\ settled'[s] <= l3'.ver
        BY <2>0, <3>1, <3>3 DEF KeyFresh
      <4> QED
        BY <3>1, <3>3, <4>1, KeyTaken, Zenon DEF Moves, Swapping
    <3> QED
      BY <3>1, <3>2, <3>3, Zenon
  <2>3. CASE WithdrawKey(o) \/ DropUnread(o)
    <3>1. PutL2(s, NoRow) /\ SettleL2(s, op[o].mine) /\ l3' = l3
      BY <1>d, <2>0, <2>3, Zenon DEF WithdrawKey, DropUnread
    <3>2. op'[o].pc \in {"discard", "announce"} /\ \A x \in Ops \ {o} : op'[x] = op[x]
      BY <2>3, SaveMoves DEF Moves
    <3> QED
      BY <1>e, <3>1, <3>2, KeyTaken, Zenon DEF Swapping
  <2>4. CASE ~UpdateLands(o) /\ ~UpdateFails(o) /\ ~WithdrawKey(o) /\ ~DropUnread(o)
    <3>1. l2' = l2 /\ settled' = settled
      <4>1. CASE ReadBefore(o) \/ Store(o) \/ StoredRow(o)
        BY <4>1, Zenon DEF ReadBefore, Store, StoredRow, history
      <4>2. CASE StoreRefused(o) \/ StoreAnswerLost(o) \/ StoredRowUnread(o)
        BY <4>2, ZenonT(30) DEF StoreRefused, StoreAnswerLost, StoredRowUnread, history
      <4>3. CASE KeepSaved(o) \/ SaveCancelled(o)
        BY <4>3, Zenon DEF KeepSaved, SaveCancelled, history
      <4> QED
        BY <1>2, <2>4, <4>1, <4>2, <4>3 DEF SaveStep
    <3>2. op[o].row \in Nat /\ l3.ver \in Nat
      BY FieldTypes
    <3>3. CASE StoredRow(o)
      <4>1. op[o].pc = "stored"
        BY <3>3, Zenon DEF StoredRow
      <4>2. op'[o].rev = op[o].rev /\ op'[o].row \in {l3.ver, op[o].row} /\ \A x \in Ops \ {o} : op'[x] = op[x]
        BY <3>3, SaveMoves, Zenon DEF Moves
      <4> QED
        BY <1>a, <3>1, <3>2, <4>1, <4>2, KeyUntouched DEF Swapping
    <3>4. CASE ~StoredRow(o)
      <4>1. /\ op'[o].pc \in {"store", "idle", "unread", "announce"} \/ op'[o].row = l3.ver + 1
            /\ \A x \in Ops \ {o} : op'[x] = op[x]
        BY <1>2, <2>4, <3>4, SaveMoves DEF SaveStep, Moves
      <4> QED
        BY <1>a, <3>1, <3>2, <4>1, KeyUntouched, SMTT(30) DEF Swapping
    <3> QED
      BY <3>3, <3>4
  <2> QED
    BY <2>1, <2>2, <2>3, <2>4
<1>3. ASSUME NEW o \in Ops, ReloadStep(o) PROVE KeyFresh(s)'
  <2>0. op[o].row \in Nat /\ l3.ver \in Nat
    BY FieldTypes
  <2>1. CASE ReloadSeed(o)
    <3>1. /\ op[o].pc = "rseed" /\ Moves(o, "announce", NoRev, NoRow, NoRow, 0) /\ settled' = settled /\ l3' = l3
          /\ l2' = l2 \/ (op[o].rev = l2[Scope(o)].rev /\ PutL2(Scope(o), op[o].row))
      BY <2>1, OtherMoves, Zenon DEF ReloadSeed, AtRevision, history
    <3>2. CASE l2'[s] = l2[s]
      BY <1>a, <3>1, <3>2, KeyUntouched, Zenon DEF Moves, Swapping
    <3>3. CASE l2'[s] # l2[s]
      <4>1. Scope(o) = s /\ op[o].rev = l2[s].rev /\ PutL2(s, op[o].row)
        BY <1>c, <3>1, <3>3, FieldTypes, Zenon
      <4>2. op[o].row >= settled'[s] /\ settled'[s] <= l3'.ver
        BY <3>1, <4>1, Zenon DEF KeyFresh
      <4> QED
        BY <3>1, <4>1, <4>2, KeyTaken, Zenon DEF Moves, Swapping
    <3> QED
      BY <3>2, <3>3, Zenon
  <2>2. CASE ReloadCache(o)
    <3>1. op[o].pc = "rcache" /\ l2' = l2 /\ settled' = settled
      BY <2>2, SMTT(30) DEF ReloadCache, history
    <3>2. /\ op'[o].pc = "announce" \/ (op'[o].rev = op[o].rev /\ op'[o].row = op[o].row)
          /\ \A x \in Ops \ {o} : op'[x] = op[x]
      BY <2>2, OtherMoves, Zenon DEF Moves
    <3> QED
      BY <1>a, <2>0, <3>1, <3>2, KeyUntouched DEF Swapping
  <2>3. CASE ReloadBefore(o) \/ ReloadFetch(o)
    <3>1. l2' = l2 /\ settled' = settled
      BY <2>3 DEF ReloadBefore, ReloadFetch, history
    <3>2. op'[o].pc \in {"rfetch", "idle"} \/ op'[o].row = l3.ver
      BY <2>3, OtherMoves, ZenonT(30) DEF Moves
    <3> QED
      BY <1>3, <1>a, <2>0, <3>1, <3>2, OtherPhase, KeyUntouched DEF Swapping
  <2> QED
    BY <1>3, <2>1, <2>2, <2>3, Zenon DEF ReloadStep
<1>4. ASSUME NEW o \in Ops, WithdrawStep(o) \/ Announce(o) \/ BeginOp(o) PROVE KeyFresh(s)'
  <2>1. op'[o].pc \notin Swapping /\ \A x \in Ops \ {o} : op'[x] = op[x]
    BY <1>4, OtherMoves, Zenon DEF WithdrawStep, BeginOp, Moves, Swapping
  <2>2. CASE WithdrawL2(o)
    <3>1. Scope(o) = s
      BY <1>b, <2>2, Zenon DEF WithdrawL2
    <3>2. PutL2(s, NoRow) /\ SettleL2(s, op[o].mine) /\ l3' = l3
      BY <1>d, <2>2, <3>1, Zenon DEF WithdrawL2
    <3> QED
      BY <1>e, <2>1, <3>2, KeyTaken, SMTT(30)
  <2>3. CASE ~WithdrawL2(o)
    <3>1. l2' = l2 /\ settled' = settled
      <4>1. CASE WithdrawL1(o) \/ Announce(o)
        BY <4>1, Zenon DEF WithdrawL1, Announce, history
      <4>2. CASE BeginRead(o) \/ BeginSave(o) \/ BeginReload(o)
        BY <4>2 DEF BeginRead, BeginSave, BeginReload, history
      <4>3. CASE BeginDelete(o) \/ BeginBypass(o)
        BY <4>3, Zenon DEF BeginDelete, BeginBypass, history
      <4> QED
        BY <1>4, <2>3, <4>1, <4>2, <4>3, Zenon DEF WithdrawStep, BeginOp
    <3> QED
      BY <1>a, <2>1, <3>1, KeyUntouched
  <2> QED
    BY <2>2, <2>3
<1>5. ASSUME NEW p \in Pods, Hear(p) PROVE KeyFresh(s)'
  <2>0. op' = op /\ l3' = l3
    BY <1>5, Zenon DEF Hear, HearProbe, HearDelete, HearEvict
  <2>1. CASE HearDelete(p) /\ ScopeOf[p] = s
    <3>1. PutL2(s, NoRow) /\ settled' = settled
      BY <1>d, <2>1, Zenon DEF HearDelete, history
    <3> QED
      BY <2>0, <3>1, KeyTaken DEF KeyFresh
  <2>2. CASE ~(HearDelete(p) /\ ScopeOf[p] = s)
    <3>1. l2'[s] = l2[s]
      BY <1>5, <1>c, <1>d, <2>2, PlacementAssumption, Zenon DEF Hear, HearProbe, HearDelete, HearEvict
    <3>2. settled'[s] = settled[s]
      <4>1. CASE HearEvict(p)
        <5>1. inbox[p] \in Seq(Nat) /\ inbox[p] # <<>> /\ settled[s] \in Nat
          BY <4>1 DEF HearEvict, TypeOK
        <5>2. Head(inbox[p]) = inbox[p][1] /\ 1 \in DOMAIN inbox[p] /\ Head(inbox[p]) \in Nat
          BY <5>1
        <5>3. Head(inbox[p]) <= settled[s]
          BY <5>2, Zenon DEF SettledFirst
        <5> QED
          BY <4>1, <5>1, <5>2, <5>3, SMTT(30) DEF HearEvict, SettleL2, Newer, TypeOK
      <4>2. CASE ~HearEvict(p)
        BY <1>5, <4>2, Zenon DEF Hear, HearProbe, HearDelete, history
      <4> QED
        BY <4>1, <4>2, Zenon
    <3> QED
      BY <2>0, <3>1, <3>2, Zenon DEF KeyFresh, RowAtLeast
  <2> QED
    BY <2>1, <2>2, Zenon
<1>6. CASE UNCHANGED vars
  BY <1>6, Zenon DEF vars, history, KeyFresh, RowAtLeast
<1> QED
  BY <1>1, <1>2, <1>3, <1>4, <1>5, <1>6 DEF Next, OpStep

Settling == {"keep", "discard", "announce"}

\* a step of a slot that tells no pod and sends nothing
LEMMA FirstKept ==
  ASSUME TypeOK, TypeOK', NEW s \in Scopes, SettledFirst(s), settled'[s] >= settled[s], inbox' = inbox,
         \A p \in Pods : told'[p] <= settled'[s],
         NEW o \in Ops, \A x \in Ops \ {o} : op'[x] = op[x],
         op'[o].pc \in Settling => op'[o].mine <= settled'[s]
  PROVE  SettledFirst(s)'
<1>1. settled[s] \in Nat /\ settled'[s] \in Nat /\ \A x \in Ops : op[x].mine \in Nat
  BY FieldTypes, Zenon DEF TypeOK
<1>2. ASSUME NEW x \in Ops, op'[x].pc \in Settling PROVE op'[x].mine <= settled'[s]
  BY <1>1, <1>2 DEF SettledFirst, Settling
<1>3. ASSUME NEW p \in Pods, NEW i \in DOMAIN inbox[p] PROVE inbox[p][i] <= settled'[s]
  <2>1. inbox[p] \in Seq(Nat)
    BY Zenon DEF TypeOK
  <2>2. inbox[p][i] \in Nat
    BY <2>1
  <2> QED
    BY <1>1, <2>2 DEF SettledFirst
<1> QED
  BY <1>2, <1>3, Zenon DEF SettledFirst, Settling

\* every step keeps L2 settled before any pod is told
LEMMA FirstStep ==
  ASSUME TypeOK, TypeOK', InRole, InOrder, [Next]_vars,
         NEW s \in Scopes, HomeScope(s), SettledFirst(s)
  PROVE  SettledFirst(s)'
<1>a. /\ settled[s] \in Nat /\ settled'[s] \in Nat
      /\ \A p \in Pods : told[p] \in Nat /\ told'[p] \in Nat
      /\ \A x \in Ops : op[x].mine \in Nat
      /\ \A p \in Pods : told[p] <= settled[s]
  BY FieldTypes, Zenon DEF TypeOK, SettledFirst
<1>b. ASSUME NEW o \in Ops, op[o].pc \in SaveSteps \cup {"evict", "delete"} PROVE Scope(o) = s
  BY <1>b, CommitsAtHome DEF InRole, Commit
<1>c. settled' = settled /\ told' = told => settled'[s] >= settled[s] /\ \A p \in Pods : told'[p] <= settled'[s]
  BY <1>a
<1>d. ASSUME NEW o \in Ops, SettleL2(s, op[o].mine)
      PROVE  settled'[s] >= settled[s] /\ settled'[s] >= op[o].mine
  BY <1>a, <1>d DEF SettleL2, Newer, TypeOK
<1>e. ASSUME NEW o \in Ops, TellPod(PodOf[o], op[o].mine), op[o].mine <= settled'[s], settled'[s] >= settled[s]
      PROVE  \A p \in Pods : told'[p] <= settled'[s]
  <2>1. told' = [told EXCEPT ![PodOf[o]] = Newer(told[PodOf[o]], op[o].mine)] /\ told \in [Pods -> Nat]
    BY <1>e DEF TellPod, TypeOK
  <2>2. ASSUME NEW p \in Pods PROVE told'[p] \in {told[p], op[o].mine}
    BY <2>1, Zenon DEF Newer
  <2> QED
    BY <1>a, <1>e, <2>2
<1>1. ASSUME NEW o \in Ops, ReadStep(o) PROVE SettledFirst(s)'
  <2>1. inbox' = inbox /\ settled' = settled /\ told' = told
    BY <1>1 DEF ReadStep, LookupRow, LookupNothing, LookupFails, Fetch, SeedLands, SeedSuperseded, SeedFails, Relookup,
       CacheRead, history, bus
  <2> QED
    BY <1>1, <1>c, <2>1, ReadPhase, FirstKept, Zenon DEF Settling, ReadSteps
<1>2. ASSUME NEW o \in Ops, SaveStep(o) PROVE SettledFirst(s)'
  <2>0. Scope(o) = s /\ \A x \in Ops \ {o} : op'[x] = op[x]
    BY <1>2, <1>b, SavePhase, Zenon
  <2>1. CASE UpdateLands(o) \/ WithdrawKey(o)
    <3>1. inbox' = inbox /\ told' = told /\ SettleL2(s, op[o].mine) /\ op'[o].mine = op[o].mine
      BY <2>0, <2>1, SaveMoves, Zenon DEF UpdateLands, WithdrawKey, Moves, bus
    <3>2. settled'[s] >= settled[s] /\ settled'[s] >= op'[o].mine
      BY <1>d, <3>1, Zenon
    <3>3. \A p \in Pods : told'[p] <= settled'[s]
      BY <1>a, <3>1, <3>2
    <3> QED
      BY <1>a, <2>0, <3>1, <3>2, <3>3, FirstKept, Zenon
  <2>2. CASE KeepSaved(o)
    <3>1. /\ inbox' = inbox /\ settled' = settled /\ TellPod(PodOf[o], op[o].mine) /\ op'[o].mine = op[o].mine
          /\ op[o].pc \in Settling
      BY <2>2, SaveMoves, Zenon DEF KeepSaved, Moves, Settling, bus
    <3>2. op[o].mine <= settled[s]
      BY <3>1, Zenon DEF SettledFirst, Settling
    <3> QED
      BY <1>a, <1>e, <2>0, <3>1, <3>2, FirstKept
  <2>3. CASE DropUnread(o)
    <3>1. /\ inbox' = inbox /\ SettleL2(s, op[o].mine) /\ TellPod(PodOf[o], op[o].mine) /\ op'[o].mine = op[o].mine
      BY <2>0, <2>3, SaveMoves, Zenon DEF DropUnread, Moves, bus
    <3> QED
      BY <1>a, <1>d, <1>e, <2>0, <3>1, FirstKept, Zenon
  <2>4. CASE ~UpdateLands(o) /\ ~WithdrawKey(o) /\ ~KeepSaved(o) /\ ~DropUnread(o)
    <3>1. inbox' = inbox /\ settled' = settled /\ told' = told
      <4>1. CASE ReadBefore(o) \/ Store(o) \/ StoredRow(o)
        BY <4>1, Zenon DEF ReadBefore, Store, StoredRow, history, bus
      <4>2. CASE StoreRefused(o) \/ StoreAnswerLost(o) \/ StoredRowUnread(o)
        BY <4>2, Zenon DEF StoreRefused, StoreAnswerLost, StoredRowUnread, history, bus
      <4>3. CASE UpdateFails(o) \/ SaveCancelled(o)
        BY <4>3, Zenon DEF UpdateFails, SaveCancelled, history, bus
      <4> QED
        BY <1>2, <2>4, <4>1, <4>2, <4>3, Zenon DEF SaveStep
    <3>2. op'[o].pc \notin Settling
      BY <1>2, <2>4, SaveMoves, Zenon DEF SaveStep, Moves, Settling
    <3> QED
      BY <1>c, <2>0, <3>1, <3>2, FirstKept, Zenon
  <2> QED
    BY <2>1, <2>2, <2>3, <2>4, Zenon
<1>3. ASSUME NEW o \in Ops, ReloadStep(o) PROVE SettledFirst(s)'
  <2>1. inbox' = inbox /\ settled' = settled /\ told' = told
    BY <1>3, SMTT(30) DEF ReloadStep, ReloadBefore, ReloadFetch, ReloadCache, ReloadSeed, history, bus
  <2>2. op'[o].pc \in Settling => op'[o].mine = NoRow
    BY <1>3, OtherMoves, Zenon DEF ReloadStep, Moves, Settling
  <2> QED
    BY <1>3, <1>a, <1>c, <2>1, <2>2, OtherPhase, FirstKept DEF NoRow
<1>4. ASSUME NEW o \in Ops, WithdrawStep(o) PROVE SettledFirst(s)'
  <2>0. Scope(o) = s /\ inbox' = inbox /\ \A x \in Ops \ {o} : op'[x] = op[x]
    BY <1>4, <1>b, OtherPhase, Zenon DEF WithdrawStep, WithdrawL1, WithdrawL2, bus
  <2>1. CASE WithdrawL1(o)
    <3>1. settled' = settled /\ told' = told /\ op'[o].pc \notin Settling
      BY <2>1, OtherMoves, Zenon DEF WithdrawL1, history, Moves, Settling
    <3> QED
      BY <1>c, <2>0, <3>1, FirstKept, Zenon
  <2>2. CASE WithdrawL2(o)
    <3>1. SettleL2(s, op[o].mine) /\ TellPod(PodOf[o], op[o].mine) /\ op'[o].mine = op[o].mine
      BY <2>0, <2>2, OtherMoves, Zenon DEF WithdrawL2, Moves
    <3>2. settled'[s] >= settled[s] /\ settled'[s] >= op[o].mine
      BY <1>d, <3>1, Zenon
    <3>3. op'[o].mine <= settled'[s] /\ \A p \in Pods : told'[p] <= settled'[s]
      BY <1>a, <1>e, <3>1, <3>2, Zenon
    <3> QED
      BY <2>0, <3>2, <3>3, FirstKept, Zenon
  <2> QED
    BY <1>4, <2>1, <2>2 DEF WithdrawStep
<1>5. ASSUME NEW o \in Ops, BeginOp(o) PROVE SettledFirst(s)'
  <2>1. inbox' = inbox /\ settled' = settled /\ told' = told
    BY <1>5, ZenonT(30) DEF BeginOp, BeginRead, BeginSave, BeginReload, BeginDelete, BeginBypass, history, bus
  <2>2. op'[o].pc \notin Settling /\ \A x \in Ops \ {o} : op'[x] = op[x]
    BY <1>5, OtherMoves, Zenon DEF BeginOp, Moves, Settling
  <2> QED
    BY <1>c, <2>1, <2>2, FirstKept
<1>6. ASSUME NEW o \in Ops, Announce(o) PROVE SettledFirst(s)'
  <2>1. op'[o].pc \notin Settling /\ \A x \in Ops \ {o} : op'[x] = op[x]
    BY <1>6, OtherMoves, Zenon DEF Moves, Settling
  <2>2. op[o].mine <= settled[s] /\ settled' = settled /\ told' = told
    BY <1>6, Zenon DEF Announce, SettledFirst, history
  <2>3. ASSUME NEW p \in Pods, NEW i \in DOMAIN inbox'[p] PROVE inbox'[p][i] <= settled[s]
    <3>1. inbox[p] \in Seq(Nat) /\ op[o].mine \in Nat
      BY <1>a, Zenon DEF TypeOK
    <3>2. CASE inbox'[p] = inbox[p]
      BY <2>3, <3>2, Zenon DEF SettledFirst
    <3>3. CASE inbox'[p] = Append(inbox[p], op[o].mine)
      <4>1. i \in DOMAIN inbox[p] \/ inbox'[p][i] = op[o].mine
        BY <2>3, <3>1, <3>3
      <4>2. i \in DOMAIN inbox[p] => inbox'[p][i] = inbox[p][i]
        BY <3>1, <3>3
      <4> QED
        BY <2>2, <4>1, <4>2, Zenon DEF SettledFirst
    <3> QED
      BY <1>6, <3>2, <3>3, Zenon DEF Announce
  <2> QED
    BY <2>1, <2>2, <2>3, Zenon DEF SettledFirst, Settling
<1>7. ASSUME NEW p \in Pods, Hear(p) PROVE SettledFirst(s)'
  <2>0. op' = op
    BY <1>7, Zenon DEF Hear, HearProbe, HearDelete, HearEvict
  <2>1. CASE HearProbe(p) \/ HearDelete(p)
    BY <2>0, <2>1, Zenon DEF HearProbe, HearDelete, SettledFirst, history
  <2>2. CASE HearEvict(p)
    <3>1. inbox[p] \in Seq(Nat) /\ inbox[p] # <<>>
      BY <2>2 DEF HearEvict, TypeOK
    <3>2. /\ Head(inbox[p]) = inbox[p][1] /\ 1 \in DOMAIN inbox[p] /\ Head(inbox[p]) \in Nat
          /\ \A i \in DOMAIN Tail(inbox[p]) : i + 1 \in DOMAIN inbox[p] /\ Tail(inbox[p])[i] = inbox[p][i + 1]
      BY <3>1
    <3>3. Head(inbox[p]) <= settled[s]
      BY <3>2, Zenon DEF SettledFirst
    <3>4. settled'[s] = settled[s]
      BY <1>a, <2>2, <3>2, <3>3, SMTT(30) DEF HearEvict, SettleL2, Newer, TypeOK
    <3>5. \A q \in Pods : told'[q] <= settled[s]
      BY <1>a, <2>2, <3>2, <3>3, Zenon DEF HearEvict, TellPod, Newer, TypeOK
    <3>6. ASSUME NEW q \in Pods, NEW i \in DOMAIN inbox'[q] PROVE inbox'[q][i] <= settled[s]
      <4>1. inbox'[q] = IF q = p THEN Tail(inbox[p]) ELSE inbox[q]
        BY <2>2, Zenon DEF HearEvict, TypeOK
      <4> QED
        BY <3>2, <3>6, <4>1, Zenon DEF SettledFirst
    <3> QED
      BY <2>0, <3>4, <3>5, <3>6, Zenon DEF SettledFirst
  <2> QED
    BY <1>7, <2>1, <2>2, Zenon DEF Hear
<1>8. CASE UNCHANGED vars
  BY <1>8 DEF vars, bus, history, SettledFirst
<1> QED
  BY <1>1, <1>2, <1>3, <1>4, <1>5, <1>6, <1>7, <1>8, Zenon DEF Next, OpStep

\* the two together, for every home scope
LEMMA HomeStep ==
  ASSUME "delete" \notin Faults
  PROVE  TypeOK /\ InRole /\ InOrder /\ HomeInv /\ [Next]_vars => HomeInv'
  BY TypeStep, KeyStep, FirstStep, Zenon DEF HomeInv, HomeScope

----------------------------------------------------------------------------
(* What a get answers                                                      *)

\* at home the key's row and the stored row are both as new as any pod knows of
LEMMA HomeRows ==
  ASSUME TypeOK, HomeInv, NEW p \in Pods, HomeScope(ScopeOf[p])
  PROVE  /\ told[p] \in Nat /\ told[p] <= l3.ver
         /\ l2[ScopeOf[p]].row # NoRow => l2[ScopeOf[p]].row >= told[p]
<1>1. ScopeOf[p] \in Scopes
  BY PlacementAssumption, Zenon
<1>2. told[p] \in Nat /\ settled[ScopeOf[p]] \in Nat /\ l2[ScopeOf[p]].row \in Nat /\ l3.ver \in Nat
  BY <1>1 DEF TypeOK
<1> QED
  BY <1>1, <1>2 DEF HomeInv, KeyFresh, SettledFirst, RowAtLeast

\* every step keeps a read at or above what its pod knew when it began
LEMMA ReadInvStep == TypeOK /\ InOrder /\ HomeInv /\ ReadInv /\ [Next]_vars => ReadInv'
<1> SUFFICES ASSUME TypeOK, InOrder, HomeInv, ReadInv, [Next]_vars PROVE ReadInv'
  OBVIOUS
<1> DEFINE Rowed == {"seed", "relookup", "cache", "answer"}
<1> HIDE DEF Rowed
<1>a. ASSUME NEW o \in Ops, \A x \in Ops \ {o} : op'[x] = op[x],
             HomeScope(Scope(o)) /\ op'[o].pc \in Rowed => op'[o].row >= op'[o].floor
      PROVE  ReadInv'
  BY <1>a DEF ReadInv, Rowed, HomeScope, Scope
<1>1. ASSUME NEW o \in Ops, ReadStep(o) PROVE ReadInv'
  <2>0. \A x \in Ops \ {o} : op'[x] = op[x]
    BY <1>1, ReadPhase
  <2>1. CASE HomeScope(Scope(o))
    <3>1. /\ op[o].floor \in Nat /\ l3.ver \in Nat /\ l2[Scope(o)].row \in Nat
          /\ op[o].floor <= l3.ver /\ (l2[Scope(o)].row # NoRow => op[o].floor <= l2[Scope(o)].row)
      BY <2>1, FieldTypes, HomeRows DEF InOrder, Scope
    <3>2. CASE LookupRow(o) \/ Fetch(o)
      BY <1>a, <2>0, <3>1, <3>2, ReadMoves, Zenon DEF LookupRow, Moves, Rowed
    <3>3. CASE LookupNothing(o) \/ LookupFails(o) \/ CacheRead(o)
      BY <1>a, <2>0, <3>3, ReadMoves, Zenon DEF Moves, Rowed
    <3>4. CASE SeedLands(o) \/ SeedFails(o) \/ SeedSuperseded(o) \/ Relookup(o)
      <4>0. op[o].pc \in {"seed", "relookup"}
        BY <3>4, Zenon DEF SeedLands, SeedFails, SeedSuperseded, Relookup
      <4>1. op[o].row >= op[o].floor
        BY <2>1, <4>0 DEF ReadInv
      <4>2. op'[o].floor = op[o].floor
        BY <3>4, ReadMoves, Zenon DEF Moves
      <4>3. op'[o].row = op[o].row \/ (l2[Scope(o)].row # NoRow /\ op'[o].row = l2[Scope(o)].row)
        BY <3>4, ReadMoves, Zenon DEF Moves
      <4> QED
        BY <1>a, <2>0, <3>1, <4>1, <4>2, <4>3, Zenon
    <3> QED
      BY <1>1, <3>2, <3>3, <3>4, Zenon DEF ReadStep
  <2>2. CASE ~HomeScope(Scope(o))
    BY <1>a, <2>0, <2>2, Zenon
  <2> QED
    BY <2>1, <2>2
<1>2. ASSUME NEW o \in Ops, SaveStep(o) PROVE ReadInv'
  BY <1>2, <1>a, SavePhase, Zenon DEF SaveSteps, Rowed
<1>3. ASSUME NEW o \in Ops, ReloadStep(o) \/ WithdrawStep(o) \/ Announce(o) PROVE ReadInv'
  BY <1>3, <1>a, OtherPhase, Zenon DEF Rowed
<1>4. ASSUME NEW o \in Ops, BeginOp(o) PROVE ReadInv'
  <2>1. op'[o].pc \in {"lookup", "before", "rbefore", "evict"} /\ \A x \in Ops \ {o} : op'[x] = op[x]
    BY <1>4, OtherMoves, Zenon DEF BeginOp, Moves
  <2> QED
    BY <1>a, <2>1 DEF Rowed
<1>5. CASE (\E p \in Pods : Hear(p)) \/ UNCHANGED vars
  <2>1. op' = op
    BY <1>5 DEF Hear, HearProbe, HearDelete, HearEvict, vars
  <2> QED
    BY <2>1, Zenon DEF ReadInv, HomeScope, Scope
<1> QED
  BY <1>1, <1>2, <1>3, <1>4, <1>5, Zenon DEF Next, OpStep
=============================================================================

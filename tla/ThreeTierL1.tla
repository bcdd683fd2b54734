----------------------------- MODULE ThreeTierL1 -----------------------------
(***************************************************************************)
(* The part of the invariant that keeps a pod's L1 from going back, and    *)
(* the theorems that follow from the whole; then what the caches hold once *)
(* every write has been handled.                                           *)
(***************************************************************************)
EXTENDS ThreeTierL2

(* The L1 of a pod that reads apart                                        *)

Caching == {"seed", "cache", "rcache", "stored", "update", "keep"}

\* an eviction leaves nothing, and nobody who may cache
LEMMA PodEvicted ==
  ASSUME NEW p \in Pods, l1'[p] = NoRow, SlotsOf(p) \subseteq outdated'
  PROVE  PodFresh(p)'
  BY DEF PodFresh, RowAtLeast, SlotsOf

\* a step of another pod
LEMMA PodElsewhere ==
  ASSUME NEW p \in Pods, PodFresh(p), l1'[p] = l1[p], told'[p] = told[p],
         \A x \in SlotsOf(p) : op'[x] = op[x] /\ (x \in outdated => x \in outdated')
  PROVE  PodFresh(p)'
<1>1. KnownTo(p)' = KnownTo(p)
  BY DEF KnownTo, SlotsOf
<1> QED
  BY <1>1 DEF PodFresh, SlotsOf, RowAtLeast

\* a step of slot o on p that learns of no commit and leaves L1 alone
LEMMA PodUntouched ==
  ASSUME NEW p \in Pods, PodFresh(p), NEW o \in SlotsOf(p), l1'[p] = l1[p], told'[p] = told[p],
         \A x \in Ops \ {o} : op'[x] = op[x] /\ (x \in outdated => x \in outdated'),
         op'[o].pc \notin {"delete", "unread"},
         \/ op'[o].pc \notin Caching
         \/ \A n \in KnownTo(p) : op'[o].row >= n
         \/ op[o].pc \in Caching /\ op'[o].row = op[o].row /\ (o \in outdated => o \in outdated')
  PROVE  PodFresh(p)'
<1>1. KnownTo(p)' \subseteq KnownTo(p)
  BY DEF KnownTo, SlotsOf
<1>2. \A n \in KnownTo(p)' : RowAtLeast(l1'[p], n)
  BY <1>1 DEF PodFresh, RowAtLeast
<1>3. ASSUME NEW x \in SlotsOf(p)
      PROVE  /\ x \notin outdated' /\ op'[x].pc \in Caching => \A n \in KnownTo(p)' : op'[x].row >= n
             /\ op'[x].pc = "unread" => l1'[p] = NoRow
  <2>1. CASE x = o
    BY <1>1, <2>1 DEF PodFresh, Caching
  <2>2. CASE x # o
    BY <1>1, <2>2 DEF PodFresh, Caching, SlotsOf
  <2> QED
    BY <2>1, <2>2
<1> QED
  BY <1>2, <1>3 DEF PodFresh, Caching, SlotsOf, RowAtLeast

\* slot o on p caches the row of its newest ticket and gives the ticket up
LEMMA PodCached ==
  ASSUME NEW p \in Pods, PodFresh(p), Fenced, NEW o \in SlotsOf(p), o \notin outdated, op[o].pc \in Caching,
         l1'[p] = op[o].row, told'[p] = told[p], outdated' = outdated,
         \A x \in Ops \ {o} : op'[x] = op[x], op'[o].pc \notin Caching \cup {"delete", "unread"}
  PROVE  PodFresh(p)'
<1>1. KnownTo(p)' \subseteq KnownTo(p)
  BY DEF KnownTo, SlotsOf
<1>2. \A n \in KnownTo(p)' : RowAtLeast(l1'[p], n)
  BY <1>1 DEF PodFresh, RowAtLeast, Caching
<1>3. ASSUME NEW x \in SlotsOf(p)
      PROVE  /\ x \notin outdated' /\ op'[x].pc \in Caching => \A n \in KnownTo(p)' : op'[x].row >= n
             /\ op'[x].pc = "unread" => l1'[p] = NoRow
  <2>1. CASE x = o
    BY <2>1
  <2>2. CASE x # o
    <3>1. op[x].pc # "unread"
      BY <2>2 DEF Fenced, SlotsOf, SaveSteps, Holding, ReadSteps, ReloadSteps, Caching
    <3> QED
      BY <1>1, <2>2, <3>1 DEF PodFresh, Caching, SlotsOf
  <2> QED
    BY <2>1, <2>2
<1> QED
  BY <1>2, <1>3 DEF PodFresh, Caching, SlotsOf, RowAtLeast

\* what pod p knows of is committed, and no newer than the key's row where it withdraws nothing
LEMMA KnownBounds ==
  ASSUME TypeOK, InRole, InOrder, HomeInv, NEW p \in Pods, ReadsApart(p), NEW n \in KnownTo(p)
  PROVE  /\ n \in Nat /\ n <= l3.ver
         /\ "read" \in Does(p) /\ l2[ScopeOf[p]].row # NoRow => l2[ScopeOf[p]].row >= n
<1>1. CASE n = told[p]
  BY <1>1, HomeRows DEF ReadsApart
<1>2. ASSUME NEW w \in Ops, PodOf[w] = p, op[w].pc = "delete", n = op[w].mine
      PROVE  n \in Nat /\ n <= l3.ver /\ "read" \notin Does(p)
  <2>1. n \in Nat /\ n <= l3.ver /\ Roles[w] \cap {"delete", "bypass"} # {}
    BY <1>2, FieldTypes DEF InOrder, InRole
  <2>2. Roles[w] \subseteq Does(p)
    BY <1>2 DEF Does
  <2> QED
    BY <2>1, <2>2 DEF ReadsApart
<1> QED
  BY <1>1, <1>2 DEF KnownTo, SlotsOf


\* every step keeps the L1 of a pod that reads apart from its deletes fresh
LEMMA PodStep ==
  ASSUME TypeOK, InRole, InOrder, Fenced, HomeInv, [Next]_vars, NEW p \in Pods, ReadsApart(p), PodFresh(p)
  PROVE  PodFresh(p)'
<1>a. ASSUME NEW q \in Pods, EvictL1(q)
      PROVE  /\ l1'[q] = NoRow /\ SlotsOf(q) \subseteq outdated'
             /\ outdated \subseteq outdated'
             /\ (q # p => l1'[p] = l1[p])
  BY <1>a DEF EvictL1, TypeOK
<1>b. ASSUME NEW q \in Pods, NEW row, KeepL1(q, row)
      PROVE  l1'[q] = row /\ outdated' = outdated /\ (q # p => l1'[p] = l1[p])
  BY <1>b DEF KeepL1, TypeOK
<1>c. EvictL1(p) => PodFresh(p)'
  BY <1>a, PodEvicted
<1>d. ASSUME NEW q \in Pods, NEW n, TellPod(q, n) PROVE /\ told'[q] = Newer(told[q], n) /\ (q # p => told'[p] = told[p])
  BY <1>d DEF TellPod, TypeOK
<1>1. ASSUME NEW o \in Ops, PodOf[o] # p, OpStep(o) \/ BeginOp(o) PROVE PodFresh(p)'
  <2>0. PodOf[o] \in Pods /\ o \notin SlotsOf(p)
    BY <1>1, PlacementAssumption DEF SlotsOf
  <2>1. \A x \in Ops \ {o} : op'[x] = op[x]
    <3>1. CASE ReadStep(o)
      BY <3>1, ReadPhase
    <3>2. CASE SaveStep(o)
      BY <3>2, SavePhase
    <3>3. CASE ReloadStep(o) \/ WithdrawStep(o) \/ Announce(o)
      BY <3>3, OtherPhase, Zenon
    <3>4. CASE BeginOp(o)
      BY <3>4, OtherMoves DEF BeginOp, Moves
    <3> QED
      BY <1>1, <3>1, <3>2, <3>3, <3>4, Zenon DEF OpStep
  <2>2. \A x \in SlotsOf(p) : x \in outdated => x \in outdated'
    <3>1. CASE OpStep(o) \/ BeginDelete(o) \/ BeginBypass(o)
      BY <3>1, OutdatedStays
    <3>2. CASE BeginRead(o) \/ BeginSave(o) \/ BeginReload(o)
      BY <2>0, <3>2, Zenon DEF BeginRead, BeginSave, BeginReload, TakeTicket
    <3> QED
      BY <1>1, <3>1, <3>2 DEF BeginOp
  <2>3. l1'[p] = l1[p]
    <3>1. CASE ReadStep(o)
      BY <1>1, <1>b, <2>0, <3>1, Zenon DEF ReadStep, LookupRow, LookupNothing, LookupFails, Fetch, SeedLands, SeedSuperseded,
         SeedFails, Relookup, CacheRead
    <3>2. CASE ReadBefore(o) \/ Store(o) \/ StoredRow(o) \/ UpdateLands(o) \/ UpdateFails(o) \/ WithdrawKey(o)
      BY <3>2, Zenon DEF ReadBefore, Store, StoredRow, UpdateLands, UpdateFails, WithdrawKey
    <3>3. CASE StoreRefused(o) \/ StoreAnswerLost(o) \/ StoredRowUnread(o) \/ SaveCancelled(o)
      BY <1>1, <1>a, <2>0, <3>3, Zenon DEF StoreRefused, StoreAnswerLost, StoredRowUnread, SaveCancelled
    <3>4. CASE KeepSaved(o) \/ DropUnread(o)
      BY <1>1, <1>a, <1>b, <2>0, <3>4, Zenon DEF KeepSaved, DropUnread
    <3>5. CASE ReloadStep(o)
      BY <1>1, <1>a, <1>b, <2>0, <3>5, Zenon DEF ReloadStep, ReloadBefore, ReloadFetch, ReloadCache, ReloadSeed
    <3>6. CASE WithdrawStep(o) \/ Announce(o)
      BY <1>1, <1>a, <2>0, <3>6 DEF WithdrawStep, WithdrawL1, WithdrawL2, Announce
    <3>7. CASE BeginOp(o)
      BY <3>7, Zenon DEF BeginOp, BeginRead, BeginSave, BeginReload, BeginDelete, BeginBypass
    <3> QED
      BY <1>1, <3>1, <3>2, <3>3, <3>4, <3>5, <3>6, <3>7, Zenon DEF OpStep, SaveStep
  <2>4. told'[p] = told[p]
    <3>1. CASE KeepSaved(o) \/ DropUnread(o) \/ WithdrawL2(o)
      BY <1>1, <1>d, <2>0, <3>1, Zenon DEF KeepSaved, DropUnread, WithdrawL2
    <3>2. CASE ReadStep(o)
      BY <3>2 DEF ReadStep, LookupRow, LookupNothing, LookupFails, Fetch, SeedLands, SeedSuperseded,
         SeedFails, Relookup, CacheRead, history
    <3>3. CASE ReadBefore(o) \/ Store(o) \/ StoredRow(o) \/ UpdateLands(o) \/ UpdateFails(o) \/ WithdrawKey(o)
      BY <3>3, Zenon DEF ReadBefore, Store, StoredRow, UpdateLands, UpdateFails, WithdrawKey, history
    <3>4. CASE StoreRefused(o) \/ StoreAnswerLost(o) \/ StoredRowUnread(o) \/ SaveCancelled(o)
      BY <3>4, Zenon DEF StoreRefused, StoreAnswerLost, StoredRowUnread, SaveCancelled, history
    <3>5. CASE ReloadStep(o) \/ WithdrawL1(o) \/ Announce(o)
      BY <3>5 DEF ReloadStep, ReloadBefore, ReloadFetch, ReloadCache, ReloadSeed, WithdrawL1, Announce, history
    <3>6. CASE BeginOp(o)
      BY <3>6, Zenon DEF BeginOp, BeginRead, BeginSave, BeginReload, BeginDelete, BeginBypass, history
    <3> QED
      BY <1>1, <3>1, <3>2, <3>3, <3>4, <3>5, <3>6, Zenon DEF OpStep, SaveStep, WithdrawStep
  <2> QED
    BY <2>0, <2>1, <2>2, <2>3, <2>4, PodElsewhere, Zenon DEF SlotsOf
<1>2. ASSUME NEW o \in Ops, PodOf[o] = p, ReadStep(o) PROVE PodFresh(p)'
  <2>0. /\ o \in SlotsOf(p) /\ Scope(o) = ScopeOf[p] /\ "read" \in Does(p)
        /\ \A x \in Ops \ {o} : op'[x] = op[x] /\ (x \in outdated => x \in outdated')
        /\ op'[o].pc \notin {"delete", "unread"}
    <3>1. "read" \in Roles[o]
      BY <1>2, ReadPhase DEF InRole
    <3>2. outdated \subseteq outdated'
      BY <1>2, OutdatedStays DEF OpStep
    <3> QED
      BY <1>2, <3>1, <3>2, ReadPhase, Zenon DEF SlotsOf, Scope, Does, ReadSteps
  <2>1. CASE CacheRead(o)
    <3>1. told' = told /\ op'[o].pc = "idle"
      BY <2>1, ReadMoves, Zenon DEF CacheRead, history, Moves
    <3>2. CASE op[o].pc = "cache" /\ StillNewest(o)
      <4>1. l1'[p] = op[o].row /\ outdated' = outdated
        <5>1. KeepL1(p, op[o].row)
          BY <1>2, <2>1, <3>2, Zenon DEF CacheRead
        <5> QED
          BY <1>b, <5>1, Zenon
      <4> QED
        BY <2>0, <3>1, <3>2, <4>1, PodCached, Zenon DEF Caching, StillNewest
    <3>3. CASE ~(op[o].pc = "cache" /\ StillNewest(o))
      BY <2>0, <2>1, <3>1, <3>3, PodUntouched, Zenon DEF CacheRead, Caching
    <3> QED
      BY <3>2, <3>3, Zenon
  <2>2. CASE ~CacheRead(o)
    <3>1. l1' = l1 /\ told' = told /\ outdated' = outdated
      BY <1>2, <2>2, Zenon DEF ReadStep, LookupRow, LookupNothing, LookupFails, Fetch, SeedLands, SeedSuperseded,
         SeedFails, Relookup, history
    <3>2. CASE LookupRow(o) \/ Fetch(o) \/ Relookup(o)
      <4>1. \/ op'[o].pc \notin Caching
            \/ op'[o].row = l3.ver
            \/ op'[o].row = l2[ScopeOf[p]].row /\ l2[ScopeOf[p]].row # NoRow
        BY <2>0, <3>2, ReadMoves, Zenon DEF LookupRow, Moves, Caching
      <4>2. op'[o].pc \notin Caching \/ \A n \in KnownTo(p) : op'[o].row >= n
        BY <2>0, <4>1, KnownBounds, FieldTypes, Zenon
      <4> QED
        BY <2>0, <3>1, <4>2, PodUntouched
    <3>3. CASE LookupNothing(o) \/ LookupFails(o) \/ SeedSuperseded(o)
      BY <2>0, <3>1, <3>3, ReadMoves, PodUntouched, Zenon DEF Moves, Caching
    <3>4. CASE SeedLands(o) \/ SeedFails(o)
      <4>1. op[o].pc = "seed" /\ op'[o].row = op[o].row
        BY <3>4, ReadMoves, Zenon DEF SeedLands, SeedFails, Moves
      <4>2. op[o].pc \in Caching
        BY <4>1 DEF Caching
      <4> QED
        BY <2>0, <3>1, <4>1, <4>2, PodUntouched, Zenon
    <3> QED
      BY <1>2, <2>2, <3>2, <3>3, <3>4, Zenon DEF ReadStep
  <2> QED
    BY <2>1, <2>2, Zenon
<1>3. ASSUME NEW o \in Ops, PodOf[o] = p, SaveStep(o) PROVE PodFresh(p)'
  <2>0. /\ o \in SlotsOf(p) /\ op[o].pc \in SaveSteps /\ \A x \in Ops \ {o} : op'[x] = op[x]
        /\ \A x \in Ops \ {o} : x \in outdated => x \in outdated'
    <3>1. outdated \subseteq outdated'
      BY <1>3, OutdatedStays, Zenon DEF OpStep
    <3> QED
      BY <1>3, <3>1, SavePhase DEF SlotsOf
  <2>1. ASSUME NEW x \in SlotsOf(p), x # o, x \notin outdated PROVE op[x].pc \notin Caching
    BY <2>0, <2>1 DEF Fenced, SlotsOf, Caching, Holding, ReadSteps, SaveSteps, ReloadSteps
  <2>2. CASE KeepSaved(o)
    <3>1. CASE op[o].pc = "keep" /\ StillNewest(o)
      <4>1. l1'[p] = op[o].row /\ outdated' = outdated /\ told'[p] = Newer(told[p], op[o].mine)
        <5>1. KeepL1(p, op[o].row) /\ TellPod(p, op[o].mine)
          BY <1>3, <2>2, <3>1, Zenon DEF KeepSaved
        <5> QED
          BY <1>b, <1>d, <5>1, Zenon
      <4>2. op'[o].pc = "announce"
        BY <2>2, SaveMoves, Zenon DEF Moves
      <4>3. KnownTo(p)' \subseteq KnownTo(p) \cup {op[o].mine}
        BY <2>0, <4>1, <4>2, Zenon DEF KnownTo, SlotsOf, Newer
      <4>4. \A n \in KnownTo(p)' : RowAtLeast(l1'[p], n)
        BY <2>0, <3>1, <4>1, <4>3, Zenon DEF PodFresh, StillNewest, InOrder, RowAtLeast
      <4>5. ASSUME NEW x \in SlotsOf(p) PROVE (x \notin outdated' => op'[x].pc \notin Caching) /\ op'[x].pc # "unread"
        <5>1. CASE x = o
          BY <4>2, <5>1, Zenon DEF Caching
        <5>2. CASE x # o
          <6>1. op[x].pc # "unread"
            BY <2>0, <3>1, <5>2, Zenon DEF Fenced, StillNewest, SlotsOf, SaveSteps, Holding
          <6> QED
            BY <2>0, <2>1, <4>1, <5>2, <6>1, Zenon DEF SlotsOf
        <5> QED
          BY <5>1, <5>2
      <4> QED
        BY <4>4, <4>5 DEF PodFresh, Caching, SlotsOf, RowAtLeast
    <3>2. CASE ~(op[o].pc = "keep" /\ StillNewest(o))
      BY <1>3, <1>c, <2>2, <3>2, Zenon DEF KeepSaved
    <3> QED
      BY <3>1, <3>2, Zenon
  <2>3. CASE DropUnread(o)
    <3>1. l1'[p] = NoRow /\ outdated' = outdated /\ op'[o].pc = "announce"
      BY <2>0, <2>3, SaveMoves, Zenon DEF DropUnread, PodFresh, Moves
    <3>2. ASSUME NEW x \in SlotsOf(p), x \notin outdated' PROVE op'[x].pc \notin Caching
      <4>1. CASE x = o
        BY <3>1, <4>1, Zenon DEF Caching
      <4>2. CASE x # o
        BY <2>0, <2>1, <3>1, <3>2, <4>2, Zenon DEF SlotsOf
      <4> QED
        BY <4>1, <4>2, Zenon
    <3> QED
      BY <3>1, <3>2 DEF PodFresh, Caching, SlotsOf, RowAtLeast
  <2>4. CASE StoreRefused(o) \/ StoreAnswerLost(o) \/ StoredRowUnread(o)
    BY <1>3, <1>c, <2>4, Zenon DEF StoreRefused, StoreAnswerLost, StoredRowUnread
  <2>5. CASE SaveCancelled(o)
    <3>1. CASE EvictL1(p)
      BY <1>c, <3>1, Zenon
    <3>2. CASE ~EvictL1(p)
      <4>1. l1' = l1 /\ told' = told /\ op'[o].pc = "idle"
        BY <1>3, <2>5, <3>2, SaveMoves, Zenon DEF SaveCancelled, history, Moves
      <4> QED
        BY <2>0, <4>1, PodUntouched DEF Caching
    <3> QED
      BY <3>1, <3>2
  <2>6. CASE Store(o) \/ StoredRow(o)
    <3>1. l1' = l1 /\ told' = told /\ outdated' = outdated
      BY <2>6, ZenonT(30) DEF Store, StoredRow, history
    <3>0. l3.ver \in Nat
      BY FieldTypes
    <3>3. Store(o) => op'[o].pc = "stored" /\ op'[o].row = l3.ver + 1
      BY SaveMoves, Zenon DEF Moves
    <3>7. StoredRow(o) => op'[o].pc = "update" /\ op'[o].row \in {l3.ver, op[o].row}
      BY SaveMoves, Zenon DEF Moves
    <3>2. op'[o].pc \in {"stored", "update"} /\ (op'[o].row = op[o].row \/ op'[o].row >= l3.ver)
      BY <2>6, <3>0, <3>3, <3>7
    <3>4. StoredRow(o) => op[o].pc = "stored"
      BY Zenon DEF StoredRow
    <3>5. CASE StoredRow(o) /\ op'[o].row = op[o].row
      BY <2>0, <3>1, <3>2, <3>4, <3>5, PodUntouched, Zenon DEF Caching
    <3>6. CASE op'[o].row >= l3.ver
      <4>1. op'[o].row \in Nat /\ l3.ver \in Nat
        BY <2>6, FieldTypes, SaveMoves, Zenon DEF Moves
      <4>2. \A n \in KnownTo(p) : n \in Nat /\ n <= l3.ver
        BY KnownBounds, Zenon
      <4>3. \A n \in KnownTo(p) : op'[o].row >= n
        BY <3>6, <4>1, <4>2
      <4>4. op'[o].pc \notin {"delete", "unread"}
        BY <3>2
      <4> QED
        BY <2>0, <3>1, <4>3, <4>4, PodUntouched, Zenon
    <3> QED
      BY <2>6, <3>0, <3>2, <3>3, <3>5, <3>6
  <2>7. CASE UpdateLands(o)
    <3>1. /\ l1' = l1 /\ told' = told /\ outdated' = outdated /\ op[o].pc = "update"
          /\ op'[o].pc = "keep" /\ op'[o].row = op[o].row
      BY <2>7, SaveMoves, Zenon DEF UpdateLands, Moves
    <3> QED
      BY <2>0, <3>1, PodUntouched DEF Caching
  <2>8. CASE ReadBefore(o) \/ UpdateFails(o) \/ WithdrawKey(o)
    <3>1. l1' = l1 /\ told' = told /\ outdated' = outdated /\ op'[o].pc \in {"store", "withdraw", "discard"}
      BY <2>8, SaveMoves, Zenon DEF ReadBefore, UpdateFails, WithdrawKey, Moves, history
    <3> QED
      BY <2>0, <3>1, PodUntouched DEF Caching
  <2> QED
    BY <1>3, <2>2, <2>3, <2>4, <2>5, <2>6, <2>7, <2>8, Zenon DEF SaveStep
<1>4. ASSUME NEW o \in Ops, PodOf[o] = p, ReloadStep(o) \/ WithdrawStep(o) \/ Announce(o) PROVE PodFresh(p)'
  <2>0. /\ o \in SlotsOf(p) /\ \A x \in Ops \ {o} : op'[x] = op[x]
        /\ \A x \in Ops \ {o} : x \in outdated => x \in outdated'
    <3>1. outdated \subseteq outdated'
      BY <1>4, OutdatedStays, Zenon DEF OpStep
    <3> QED
      BY <1>4, <3>1, OtherPhase DEF SlotsOf
  <2>1. CASE ReloadCache(o)
    <3>1. CASE StillNewest(o)
      <4>1. /\ l1'[p] = op[o].row /\ outdated' = outdated /\ told' = told /\ op[o].pc = "rcache"
            /\ op'[o].pc \in {"rseed", "announce"}
        BY <1>4, <1>b, <2>1, <3>1, OtherMoves, Zenon DEF ReloadCache, Moves, history
      <4> QED
        BY <2>0, <3>1, <4>1, PodCached DEF StillNewest, Caching
    <3>2. CASE ~StillNewest(o)
      BY <1>4, <1>c, <2>1, <3>2, Zenon DEF ReloadCache
    <3> QED
      BY <3>1, <3>2
  <2>2. CASE ReloadFetch(o)
    <3>1. l1' = l1 /\ told' = told /\ (op'[o].pc = "idle" \/ (op'[o].pc = "rcache" /\ op'[o].row = l3.ver))
      BY <2>2, OtherMoves, Zenon DEF ReloadFetch, Moves, history
    <3>2. op'[o].pc \notin Caching \/ \A n \in KnownTo(p) : op'[o].row >= n
      BY <3>1, KnownBounds, FieldTypes, Zenon DEF Caching
    <3> QED
      BY <2>0, <3>1, <3>2, PodUntouched
  <2>3. CASE ReloadBefore(o) \/ ReloadSeed(o) \/ Announce(o)
    <3>1. l1' = l1 /\ told' = told /\ op'[o].pc \in {"rfetch", "announce", "idle"}
      BY <2>3, OtherMoves, Zenon DEF ReloadBefore, ReloadSeed, Announce, Moves, history
    <3> QED
      BY <2>0, <3>1, PodUntouched DEF Caching
  <2>4. CASE WithdrawL1(o)
    BY <1>4, <1>c, <2>4, Zenon DEF WithdrawL1
  <2>5. CASE WithdrawL2(o)
    <3>1. /\ l1' = l1 /\ outdated' = outdated /\ told'[p] = Newer(told[p], op[o].mine) /\ op[o].pc = "delete"
          /\ op'[o].pc = "announce"
      BY <1>4, <1>d, <2>5, OtherMoves, Zenon DEF WithdrawL2, Moves
    <3>2. op[o].mine \in KnownTo(p) /\ told[p] \in KnownTo(p)
      BY <2>0, <3>1, Zenon DEF KnownTo
    <3>3. KnownTo(p)' \subseteq KnownTo(p)
      BY <2>0, <3>1, <3>2 DEF KnownTo, SlotsOf, Newer
    <3>4. ASSUME NEW x \in SlotsOf(p)
          PROVE  /\ x \notin outdated' /\ op'[x].pc \in Caching => \A n \in KnownTo(p)' : op'[x].row >= n
                 /\ op'[x].pc = "unread" => l1'[p] = NoRow
      BY <2>0, <3>1, <3>3, Zenon DEF PodFresh, Caching, SlotsOf
    <3> QED
      BY <3>1, <3>3, <3>4 DEF PodFresh, Caching, SlotsOf, RowAtLeast
  <2> QED
    BY <1>4, <2>1, <2>2, <2>3, <2>4, <2>5, Zenon DEF ReloadStep, WithdrawStep
<1>5. ASSUME NEW o \in Ops, PodOf[o] = p, BeginOp(o) PROVE PodFresh(p)'
  <2>1. l1' = l1 /\ told' = told
    BY <1>5, Zenon DEF BeginOp, BeginRead, BeginSave, BeginReload, BeginDelete, BeginBypass, history
  <2>2. op'[o].pc \in {"lookup", "before", "rbefore", "evict"} /\ \A x \in Ops \ {o} : op'[x] = op[x]
    BY <1>5, OtherMoves, Zenon DEF BeginOp, Moves
  <2>3. \A x \in Ops \ {o} : x \in outdated => x \in outdated'
    BY <1>5, Zenon DEF BeginOp, BeginRead, BeginSave, BeginReload, BeginDelete, BeginBypass, TakeTicket
  <2> QED
    BY <1>5, <2>1, <2>2, <2>3, PodUntouched, Zenon DEF Caching, SlotsOf
<1>6. ASSUME NEW q \in Pods, Hear(q) PROVE PodFresh(p)'
  <2>0. op' = op
    BY <1>6 DEF Hear, HearProbe, HearDelete, HearEvict
  <2>1. CASE HearEvict(q) /\ q = p
    BY <1>c, <2>1, Zenon DEF HearEvict
  <2>2. CASE HearEvict(q) /\ q # p
    <3>1. l1'[p] = l1[p] /\ told'[p] = told[p] /\ outdated \subseteq outdated'
      BY <1>a, <1>d, <2>2, Zenon DEF HearEvict
    <3> QED
      BY <2>0, <3>1, PodElsewhere, Zenon
  <2>3. CASE HearProbe(q) \/ HearDelete(q)
    BY <2>0, <2>3, PodElsewhere, Zenon DEF HearProbe, HearDelete, history
  <2> QED
    BY <1>6, <2>1, <2>2, <2>3, Zenon DEF Hear
<1>7. CASE UNCHANGED vars
  BY <1>7, PodElsewhere DEF vars, history
<1> QED
  BY <1>1, <1>2, <1>3, <1>4, <1>5, <1>6, <1>7, Zenon DEF Next, OpStep
----------------------------------------------------------------------------
(* The caches at rest: every row anywhere is a stored one, and the newest  *)
(* commit is known to a pod, on its way there, or still to be announced    *)

\* a row of a past commit, or the row L3 holds now
IsStored(row) == row <= l3.ver /\ (row # NoRow /\ row = l3.ver => l3.live)

RowInv ==
    /\ \A s \in Scopes : IsStored(l2[s].row)
    /\ \A p \in Pods : IsStored(l1[p])
    /\ \A o \in Ops : IsStored(op[o].row)

\* the newest commit has come to pod p, waits in its inbox, or has its broadcast ahead
Reaches(p) ==
    \/ l3.ver = 1
    \/ told[p] >= l3.ver
    \/ \E i \in DOMAIN inbox[p] : inbox[p][i] = l3.ver
    \/ \E o \in Ops : op[o].mine = l3.ver

Owing == {"stored", "update", "withdraw", "keep", "discard", "unread", "evict", "delete", "announce"}

\* only a slot with a broadcast ahead has a commit to tell of, and its own pod comes first
Carried ==
    /\ l3.ver >= 1 /\ (l3.ver # 1 => Pods # {})
    /\ \A p \in Pods : Reaches(p)
    /\ \A o \in Ops : /\ op[o].mine # NoRow => op[o].pc \in Owing
                      /\ op[o].pc = "announce" => op[o].mine <= told[PodOf[o]]

\* a row that is stored stays so: a commit only makes it older
LEMMA StoredStays ==
  ASSUME TypeOK, l3' = l3 \/ l3'.ver = l3.ver + 1, NEW row \in Nat, IsStored(row)
  PROVE  IsStored(row)'
<1>1. l3.ver \in Nat
  BY DEF TypeOK
<1>2. CASE l3' = l3
  BY <1>2 DEF IsStored
<1>3. CASE l3'.ver = l3.ver + 1
  BY <1>1, <1>3 DEF IsStored
<1> QED
  BY <1>2, <1>3, Zenon

\* L3 keeps its row or takes the next commit
LEMMA NextCommit ==
  ASSUME TypeOK, [Next]_vars
  PROVE  l3' = l3 \/ l3'.ver = l3.ver + 1
<1>0. \A live : CommitRow(live) => l3'.ver = l3.ver + 1
  BY DEF CommitRow
<1>1. ASSUME NEW o \in Ops, ReadStep(o) PROVE l3' = l3
  BY <1>1 DEF ReadStep, LookupRow, LookupNothing, LookupFails, Fetch, SeedLands, SeedSuperseded, SeedFails, Relookup,
     CacheRead
<1>2. ASSUME NEW o \in Ops, SaveStep(o) PROVE l3' = l3 \/ l3'.ver = l3.ver + 1
  BY <1>0, <1>2, Zenon DEF SaveStep, ReadBefore, Store, StoreRefused, StoreAnswerLost, StoredRow, StoredRowUnread,
     UpdateLands, UpdateFails, WithdrawKey, KeepSaved, DropUnread, SaveCancelled
<1>3. ASSUME NEW o \in Ops, ReloadStep(o) \/ WithdrawStep(o) \/ Announce(o) PROVE l3' = l3
  BY <1>3 DEF ReloadStep, ReloadBefore, ReloadFetch, ReloadCache, ReloadSeed, WithdrawStep, WithdrawL1, WithdrawL2,
     Announce
<1>4. ASSUME NEW o \in Ops, BeginOp(o) PROVE l3' = l3 \/ l3'.ver = l3.ver + 1
  BY <1>0, <1>4, Zenon DEF BeginOp, BeginRead, BeginSave, BeginReload, BeginDelete, BeginBypass
<1>5. ASSUME NEW p \in Pods, Hear(p) PROVE l3' = l3
  BY <1>5, Zenon DEF Hear, HearProbe, HearDelete, HearEvict
<1> QED
  BY <1>1, <1>2, <1>3, <1>4, <1>5, Zenon DEF Next, OpStep, vars

\* writing a key or an L1 puts nothing there but the row given, or none
LEMMA PutRows ==
  ASSUME TypeOK, NEW s \in Scopes, NEW p \in Pods, NEW row
  PROVE  /\ PutL2(s, row) => \A t \in Scopes : l2'[t].row \in {l2[t].row, row}
         /\ TryDeleteKey(s) => \A t \in Scopes : l2'[t].row \in {l2[t].row, NoRow}
         /\ KeepL1(p, row) => \A q \in Pods : l1'[q] \in {l1[q], row}
         /\ EvictL1(p) => \A q \in Pods : l1'[q] \in {l1[q], NoRow}
<1>0. l2 \in [Scopes -> [row : Nat, rev : Nat]] /\ l1 \in [Pods -> Nat]
  BY DEF TypeOK
<1>1. ASSUME NEW r, PutL2(s, r), NEW t \in Scopes PROVE l2'[t].row \in {l2[t].row, r}
  <2>1. l2'[t].row = IF t = s THEN r ELSE l2[t].row
    BY <1>0, <1>1 DEF PutL2
  <2> QED
    BY <2>1
<1>2. /\ KeepL1(p, row) => \A q \in Pods : l1'[q] \in {l1[q], row}
      /\ EvictL1(p) => \A q \in Pods : l1'[q] \in {l1[q], NoRow}
  BY <1>0 DEF KeepL1, EvictL1
<1> QED
  BY <1>1, <1>2, Zenon DEF TryDeleteKey, DeleteKey

\* the row a slot comes to carry: its own, none, the key's, or the one L3 holds
LEMMA CarriedRow ==
  ASSUME TypeOK, NEW o \in Ops, OpStep(o) \/ BeginOp(o)
  PROVE  /\ op'[o].row \in {op[o].row, NoRow, l2[Scope(o)].row} \/ (op'[o].row = l3'.ver /\ l3'.live)
         /\ \A x \in Ops \ {o} : op'[x] = op[x]
<1> DEFINE Good == /\ op'[o].row \in {op[o].row, NoRow, l2[Scope(o)].row} \/ (op'[o].row = l3'.ver /\ l3'.live)
                   /\ \A x \in Ops \ {o} : op'[x] = op[x]
<1>0. ASSUME NEW pc, NEW rev, NEW row \in {op[o].row, NoRow, l2[Scope(o)].row}, NEW mine, NEW floor,
             Moves(o, pc, rev, row, mine, floor)
      PROVE  Good
  BY <1>0 DEF Moves
<1>1. CASE LookupRow(o) \/ LookupNothing(o) \/ LookupFails(o) \/ SeedLands(o) \/ SeedSuperseded(o) \/ SeedFails(o)
           \/ Relookup(o) \/ CacheRead(o)
  BY <1>0, <1>1, ReadMoves, Zenon
<1>2. CASE Fetch(o)
  <2>1. CASE l3.live
    <3>1. l3' = l3
      BY <1>2 DEF Fetch
    <3>2. PICK pc : Become(o, [op[o] EXCEPT !.pc = pc, !.row = l3.ver])
      BY <1>2, <2>1, Zenon DEF Fetch
    <3>3. Moves(o, pc, op[o].rev, l3.ver, op[o].mine, op[o].floor)
      BY <3>2, SetMoves, Zenon
    <3> QED
      BY <2>1, <3>1, <3>3 DEF Moves
  <2>2. CASE ~l3.live
    BY <1>0, <1>2, <2>2, FinishMoves, Zenon DEF Fetch
  <2> QED
    BY <2>1, <2>2, Zenon
<1>3. CASE Store(o)
  <2>1. l3'.ver = l3.ver + 1 /\ l3'.live
    BY <1>3, Zenon DEF Store, CommitRow
  <2> QED
    BY <1>3, <2>1, SaveMoves, Zenon DEF Moves
<1>4. CASE StoredRow(o)
  <2>1. CASE Goto(o, "update")
    BY <1>0, <2>1, GotoMoves, Zenon
  <2>2. CASE ~Goto(o, "update")
    <3>1. l3' = l3 /\ l3.live /\ Become(o, [op[o] EXCEPT !.pc = "update", !.row = l3.ver])
      BY <1>4, <2>2, Zenon DEF StoredRow
    <3>2. Moves(o, "update", op[o].rev, l3.ver, op[o].mine, op[o].floor)
      BY <3>1, SetMoves, Zenon
    <3> QED
      BY <3>1, <3>2, Zenon DEF Moves
  <2> QED
    BY <2>1, <2>2, Zenon
<1>5. CASE ReadBefore(o) \/ StoreRefused(o) \/ StoreAnswerLost(o) \/ StoredRowUnread(o) \/ UpdateLands(o)
           \/ UpdateFails(o) \/ WithdrawKey(o) \/ KeepSaved(o) \/ DropUnread(o) \/ SaveCancelled(o)
  BY <1>0, <1>5, SaveMoves, Zenon
<1>6. CASE ReloadFetch(o)
  <2>1. CASE l3.live
    <3>1. l3' = l3 /\ Become(o, [op[o] EXCEPT !.pc = "rcache", !.row = l3.ver])
      BY <1>6, <2>1 DEF ReloadFetch
    <3>3. Moves(o, "rcache", op[o].rev, l3.ver, op[o].mine, op[o].floor)
      BY <3>1, SetMoves, Zenon
    <3> QED
      BY <2>1, <3>1, <3>3, Zenon DEF Moves
  <2>2. CASE ~l3.live
    BY <1>0, <1>6, <2>2, FinishMoves, Zenon DEF ReloadFetch
  <2> QED
    BY <2>1, <2>2
<1>7. CASE ReloadBefore(o) \/ ReloadCache(o) \/ ReloadSeed(o) \/ WithdrawStep(o) \/ Announce(o) \/ BeginOp(o)
  BY <1>0, <1>7, OtherMoves, Zenon DEF WithdrawStep, BeginOp
<1> QED
  BY <1>1, <1>2, <1>3, <1>4, <1>5, <1>6, <1>7, Zenon DEF OpStep, ReadStep, SaveStep, ReloadStep

\* no step makes up a row: what a cache comes to hold, it held, or a slot carried
LEMMA RowStep == TypeOK /\ RowInv /\ [Next]_vars => RowInv'
<1> SUFFICES ASSUME TypeOK, RowInv, [Next]_vars PROVE RowInv'
  OBVIOUS
<1> DEFINE Ok(r) == r <= l3'.ver /\ (r # NoRow /\ r = l3'.ver => l3'.live)
<1>a. TypeOK'
  BY TypeStep, Zenon
<1>b. ASSUME NEW r \in Nat, IsStored(r) PROVE Ok(r)
  BY <1>b, NextCommit, StoredStays, Zenon DEF IsStored
<1>c. Ok(NoRow) /\ (l3'.live => Ok(l3'.ver))
  BY <1>a DEF TypeOK, NoRow
<1>d. ASSUME \A s \in Scopes : Ok(l2'[s].row), \A p \in Pods : Ok(l1'[p]), \A o \in Ops : Ok(op'[o].row)
      PROVE  RowInv'
  BY <1>d, Zenon DEF RowInv, IsStored
<1> HIDE DEF Ok
<1>e. /\ \A s \in Scopes : Ok(l2[s].row)
      /\ \A p \in Pods : Ok(l1[p])
      /\ \A o \in Ops : Ok(op[o].row)
  BY <1>b, FieldTypes, Zenon DEF RowInv, TypeOK
<1>1. ASSUME NEW o \in Ops, OpStep(o) \/ BeginOp(o) PROVE RowInv'
  <2>0. PodOf[o] \in Pods /\ Scope(o) \in Scopes
    BY FieldTypes, Zenon
  <2>1. \A x \in Ops : Ok(op'[x].row)
    BY <1>1, <1>c, <1>e, <2>0, CarriedRow, Zenon
  <2>2. \A s \in Scopes : l2'[s].row \in {l2[s].row, NoRow, op[o].row}
    <3>1. CASE ReadStep(o)
      BY <2>0, <3>1, PutRows, Zenon DEF ReadStep, LookupRow, LookupNothing, LookupFails, Fetch, SeedLands, SeedSuperseded,
         SeedFails, Relookup, CacheRead
    <3>2. CASE SaveStep(o)
      <4>1. l2' = l2 \/ PutL2(Scope(o), op[o].row) \/ TryDeleteKey(Scope(o))
        BY <3>2, Zenon DEF SaveStep, ReadBefore, Store, StoreRefused, StoreAnswerLost, StoredRow, StoredRowUnread,
           UpdateLands, UpdateFails, WithdrawKey, KeepSaved, DropUnread, SaveCancelled
      <4> QED
        BY <2>0, <4>1, PutRows
    <3>3. CASE ReloadStep(o) \/ WithdrawStep(o) \/ Announce(o) \/ BeginOp(o)
      <4>1. l2' = l2 \/ PutL2(Scope(o), op[o].row) \/ TryDeleteKey(Scope(o))
        BY <3>3, Zenon DEF ReloadStep, ReloadBefore, ReloadFetch, ReloadCache, ReloadSeed, WithdrawStep, WithdrawL1,
           WithdrawL2, Announce, BeginOp, BeginRead, BeginSave, BeginReload, BeginDelete, BeginBypass
      <4> QED
        BY <2>0, <4>1, PutRows
    <3> QED
      BY <1>1, <3>1, <3>2, <3>3, Zenon DEF OpStep
  <2>3. \A p \in Pods : l1'[p] \in {l1[p], NoRow, op[o].row}
    <3>0. CASE l1' = l1 \/ KeepL1(PodOf[o], op[o].row) \/ EvictL1(PodOf[o])
      BY <2>0, <3>0, PutRows, Zenon
    <3>1. CASE ReadStep(o)
      BY <3>0, <3>1, Zenon DEF ReadStep, LookupRow, LookupNothing, LookupFails, Fetch, SeedLands, SeedSuperseded,
         SeedFails, Relookup, CacheRead
    <3>2. CASE SaveStep(o)
      BY <3>0, <3>2, Zenon DEF SaveStep, ReadBefore, Store, StoreRefused, StoreAnswerLost, StoredRow, StoredRowUnread,
         UpdateLands, UpdateFails, WithdrawKey, KeepSaved, DropUnread, SaveCancelled
    <3>3. CASE ReloadStep(o) \/ WithdrawStep(o) \/ Announce(o) \/ BeginOp(o)
      BY <3>0, <3>3, Zenon DEF ReloadStep, ReloadBefore, ReloadFetch, ReloadCache, ReloadSeed, WithdrawStep, WithdrawL1,
         WithdrawL2, Announce, BeginOp, BeginRead, BeginSave, BeginReload, BeginDelete, BeginBypass
    <3> QED
      BY <1>1, <3>1, <3>2, <3>3, Zenon DEF OpStep
  <2> QED
    BY <1>c, <1>d, <1>e, <2>1, <2>2, <2>3, Zenon
<1>2. ASSUME NEW p \in Pods, Hear(p) PROVE RowInv'
  <2>1. op' = op /\ (l2' = l2 \/ TryDeleteKey(ScopeOf[p])) /\ (l1' = l1 \/ EvictL1(p))
    BY <1>2, Zenon DEF Hear, HearProbe, HearDelete, HearEvict
  <2>2. /\ \A s \in Scopes : l2'[s].row \in {l2[s].row, NoRow}
        /\ \A q \in Pods : l1'[q] \in {l1[q], NoRow}
    BY <2>1, PutRows, PlacementAssumption, Zenon
  <2> QED
    BY <1>c, <1>d, <1>e, <2>1, <2>2, Zenon
<1>3. CASE UNCHANGED vars
  BY <1>3, <1>d, <1>e DEF vars
<1> QED
  BY <1>1, <1>2, <1>3, Zenon DEF Next

\* without interrupts a slot keeps its commit until it broadcasts it
LEMMA MineKept ==
  ASSUME TypeOK, Carried, ~Interrupts, NEW o \in Ops, OpStep(o) \/ BeginOp(o), ~Announce(o)
  PROVE  /\ (l3' = l3 /\ op'[o].mine = op[o].mine) \/ op'[o].mine = l3'.ver
         /\ op'[o].mine # NoRow => op'[o].pc \in Owing
         /\ op'[o].pc = "announce" => op'[o].mine = NoRow \/ op'[o].mine <= told'[PodOf[o]]
<1>i. /\ op[o].mine # NoRow => op[o].pc \in Owing
      /\ op[o].mine \in Nat
  BY FieldTypes, Zenon DEF Carried
<1>t. \A n \in Nat : TellPod(PodOf[o], n) => n <= told'[PodOf[o]]
  BY PlacementAssumption DEF TypeOK, TellPod, Newer
<1>1. CASE ReadStep(o)
  <2>1. l3' = l3 /\ op[o].pc \in ReadSteps
    BY <1>1, ReadPhase, Zenon DEF ReadStep, LookupRow, LookupNothing, LookupFails, Fetch, SeedLands, SeedSuperseded, SeedFails,
       Relookup, CacheRead
  <2>2. op[o].mine = NoRow
    BY <1>i, <2>1, Zenon DEF Owing, ReadSteps
  <2> QED
    BY <1>1, <2>1, <2>2, ReadPhase, Zenon DEF ReadSteps
<1>2. CASE ReloadStep(o)
  <2>1. l3' = l3 /\ op[o].pc \in ReloadSteps \cup {"rseed"}
    BY <1>2, Zenon DEF ReloadStep, ReloadBefore, ReloadFetch, ReloadCache, ReloadSeed, ReloadSteps
  <2>2. op[o].mine = NoRow
    BY <1>i, <2>1, Zenon DEF Owing, ReloadSteps
  <2> QED
    BY <1>2, <2>1, <2>2, OtherPhase, Zenon
<1>3. CASE ReadBefore(o) \/ StoreRefused(o)
  <2>1. l3' = l3 /\ op[o].pc \in {"before", "store"}
    BY <1>3, Zenon DEF ReadBefore, StoreRefused
  <2>2. op[o].mine = NoRow
    BY <1>i, <2>1 DEF Owing
  <2>3. op'[o].mine = NoRow /\ op'[o].pc # "announce"
    BY <1>3, <2>2, SaveMoves, Zenon DEF Moves
  <2> QED
    BY <2>1, <2>2, <2>3
<1>4. CASE Store(o)
  <2>1. l3'.ver = l3.ver + 1
    BY <1>4, Zenon DEF Store, CommitRow
  <2> QED
    BY <1>4, <2>1, SaveMoves, Zenon DEF Moves, Owing
<1>5. CASE StoredRow(o) \/ StoredRowUnread(o) \/ UpdateLands(o) \/ UpdateFails(o) \/ WithdrawKey(o)
  <2>1. l3' = l3
    BY <1>5, Zenon DEF StoredRow, StoredRowUnread, UpdateLands, UpdateFails, WithdrawKey
  <2> QED
    BY <1>5, <2>1, SaveMoves, Zenon DEF Moves, Owing
<1>6. CASE KeepSaved(o) \/ DropUnread(o)
  <2>1. l3' = l3 /\ TellPod(PodOf[o], op[o].mine)
    BY <1>6, Zenon DEF KeepSaved, DropUnread
  <2> QED
    BY <1>6, <1>i, <1>t, <2>1, SaveMoves, Zenon DEF Moves, Owing
<1>7. ~StoreAnswerLost(o) /\ ~SaveCancelled(o)
  BY Zenon DEF StoreAnswerLost, SaveCancelled
<1>8. CASE WithdrawL1(o)
  BY <1>8, OtherMoves, Zenon DEF WithdrawL1, Moves, Owing
<1>9. CASE WithdrawL2(o)
  <2>1. l3' = l3 /\ TellPod(PodOf[o], op[o].mine)
    BY <1>9, Zenon DEF WithdrawL2
  <2> QED
    BY <1>9, <1>i, <1>t, <2>1, OtherMoves, Zenon DEF Moves, Owing
<1>10. CASE BeginRead(o) \/ BeginSave(o) \/ BeginReload(o)
  <2>1. l3' = l3 /\ op[o].pc = "idle"
    BY <1>10, Zenon DEF BeginRead, BeginSave, BeginReload
  <2>2. op[o].mine = NoRow
    BY <1>i, <2>1 DEF Owing
  <2> QED
    BY <1>10, <2>1, <2>2, OtherMoves, Zenon DEF Moves
<1>11. CASE BeginDelete(o) \/ BeginBypass(o)
  <2>1. op[o].pc = "idle"
    BY <1>11, Zenon DEF BeginDelete, BeginBypass
  <2>2. op[o].mine = NoRow
    BY <1>i, <2>1 DEF Owing
  <2> QED
    BY <1>11, <2>2, OtherMoves, Zenon DEF Moves, Owing
<1> QED
  BY <1>1, <1>2, <1>3, <1>4, <1>5, <1>6, <1>7, <1>8, <1>9, <1>10, <1>11, Zenon DEF OpStep, BeginOp, SaveStep, WithdrawStep

\* only a broadcast and the listener touch an inbox
LEMMA InboxKept ==
  ASSUME NEW o \in Ops, OpStep(o) \/ BeginOp(o), ~Announce(o)
  PROVE  inbox' = inbox
<1>1. CASE ReadStep(o)
  BY <1>1 DEF ReadStep, LookupRow, LookupNothing, LookupFails, Fetch, SeedLands, SeedSuperseded, SeedFails, Relookup,
     CacheRead, bus
<1>2. CASE SaveStep(o)
  BY <1>2, Zenon DEF SaveStep, ReadBefore, Store, StoreRefused, StoreAnswerLost, StoredRow, StoredRowUnread,
     UpdateLands, UpdateFails, WithdrawKey, KeepSaved, DropUnread, SaveCancelled, bus
<1>3. CASE ReloadStep(o) \/ WithdrawStep(o) \/ BeginOp(o)
  BY <1>3, Zenon DEF ReloadStep, ReloadBefore, ReloadFetch, ReloadCache, ReloadSeed, WithdrawStep, WithdrawL1,
     WithdrawL2, BeginOp, BeginRead, BeginSave, BeginReload, BeginDelete, BeginBypass, bus
<1> QED
  BY <1>1, <1>2, <1>3 DEF OpStep

\* without interrupts no commit is forgotten on its way to the other pods
LEMMA CarriedStep ==
  ASSUME ~Interrupts
  PROVE  TypeOK /\ Carried /\ [Next]_vars => Carried'
<1> SUFFICES ASSUME TypeOK, Carried, [Next]_vars PROVE Carried'
  OBVIOUS
<1>a. TypeOK'
  BY TypeStep, Zenon
<1>b. /\ l3.ver \in Nat /\ l3'.ver \in Nat /\ l3'.ver >= l3.ver /\ l3.ver >= 1
      /\ \A p \in Pods : told[p] \in Nat /\ told'[p] \in Nat /\ told'[p] >= told[p]
      /\ \A o \in Ops : PodOf[o] \in Pods /\ op[o].mine \in Nat /\ op'[o].mine \in Nat
  <2>1. \A o \in Ops : PodOf[o] \in Pods /\ op[o].mine \in Nat /\ op'[o].mine \in Nat
    BY <1>a, FieldTypes, Zenon DEF TypeOK, OpType
  <2> QED
    BY <1>a, <2>1, VersionGrows, KnowledgeGrows, Zenon DEF TypeOK, Carried
<1>c. \A o \in Ops : op[o].pc = "announce" => op[o].mine <= told'[PodOf[o]]
  BY <1>b DEF Carried
<1>1. ASSUME NEW o \in Ops, OpStep(o) \/ BeginOp(o), ~Announce(o) PROVE Carried'
  <2>1. \A x \in Ops \ {o} : op'[x] = op[x]
    BY <1>1, CarriedRow, Zenon
  <2>2. /\ (l3' = l3 /\ op'[o].mine = op[o].mine) \/ op'[o].mine = l3'.ver
        /\ op'[o].mine # NoRow => op'[o].pc \in Owing
        /\ op'[o].pc = "announce" => op'[o].mine = NoRow \/ op'[o].mine <= told'[PodOf[o]]
    BY <1>1, MineKept
  <2>3. inbox' = inbox
    BY <1>1, InboxKept, Zenon
  <2>4. \A x \in Ops : /\ op'[x].mine # NoRow => op'[x].pc \in Owing
                       /\ op'[x].pc = "announce" => op'[x].mine <= told'[PodOf[x]]
    BY <1>b, <1>c, <2>1, <2>2 DEF Carried, NoRow
  <2>5. ASSUME NEW p \in Pods PROVE Reaches(p)'
    <3>1. CASE op'[o].mine = l3'.ver
      BY <3>1 DEF Reaches
    <3>2. CASE l3' = l3 /\ op'[o].mine = op[o].mine
      <4>1. \A x \in Ops : op'[x].mine = op[x].mine
        BY <2>1, <3>2, Zenon
      <4>2. Reaches(p)
        BY Zenon DEF Carried
      <4>3. told[p] >= l3.ver => told'[p] >= l3'.ver
        BY <1>b, <3>2
      <4> QED
        BY <2>3, <3>2, <4>1, <4>2, <4>3, Zenon DEF Reaches
    <3> QED
      BY <2>2, <3>1, <3>2, Zenon
  <2>6. l3'.ver >= 1 /\ Pods # {}
    BY <1>b
  <2> QED
    BY <2>4, <2>5, <2>6, Zenon DEF Carried
<1>2. ASSUME NEW o \in Ops, Announce(o) PROVE Carried'
  <2>1. l3' = l3 /\ told' = told
    BY <1>2 DEF Announce, history
  <2>2. op'[o].pc = "idle" /\ op'[o].mine = NoRow /\ \A x \in Ops \ {o} : op'[x] = op[x]
    BY <1>2, OtherMoves, Zenon DEF Moves
  <2>4. \A x \in Ops : /\ op'[x].mine # NoRow => op'[x].pc \in Owing
                       /\ op'[x].pc = "announce" => op'[x].mine <= told'[PodOf[x]]
    BY <1>c, <2>2, Zenon DEF Carried
  <2>5. ASSUME NEW p \in Pods PROVE Reaches(p)'
    <3>0. inbox[p] \in Seq(Nat) /\ op[o].mine \in Nat /\ op[o].pc = "announce"
      BY <1>2, <1>b, Zenon DEF TypeOK, Announce
    <3>1. CASE p = PodOf[o] /\ op[o].mine = l3.ver
      BY <1>b, <1>c, <2>1, <3>0, <3>1, Zenon DEF Reaches
    <3>2. CASE p # PodOf[o] /\ op[o].mine = l3.ver
      <4>1. inbox'[p] = Append(inbox[p], l3.ver)
        BY <1>2, <3>2, Zenon DEF Announce
      <4>2. Len(inbox[p]) + 1 \in DOMAIN Append(inbox[p], l3.ver)
            /\ Append(inbox[p], l3.ver)[Len(inbox[p]) + 1] = l3.ver
        BY <3>0, <1>b
      <4> QED
        BY <2>1, <4>1, <4>2, Zenon DEF Reaches
    <3>3. CASE op[o].mine # l3.ver
      <4>1. Reaches(p)
        BY DEF Carried
      <4>2. ASSUME NEW x \in Ops, op[x].mine = l3.ver PROVE op'[x].mine = l3'.ver
        BY <2>1, <2>2, <3>3, <4>2, Zenon
      <4>3. ASSUME NEW i \in DOMAIN inbox[p], inbox[p][i] = l3.ver
            PROVE  i \in DOMAIN inbox'[p] /\ inbox'[p][i] = l3'.ver
        <5>1. inbox'[p] = inbox[p] \/ inbox'[p] = Append(inbox[p], op[o].mine)
          BY <1>2 DEF Announce
        <5>2. i \in DOMAIN Append(inbox[p], op[o].mine) /\ Append(inbox[p], op[o].mine)[i] = inbox[p][i]
          BY <3>0, <4>3
        <5> QED
          BY <2>1, <4>3, <5>1, <5>2, Zenon
      <4> QED
        BY <2>1, <4>1, <4>2, <4>3, Zenon DEF Reaches
    <3> QED
      BY <3>1, <3>2, <3>3, Zenon
  <2> QED
    BY <2>1, <2>4, <2>5, Zenon DEF Carried
<1>3. ASSUME NEW q \in Pods, Hear(q) PROVE Carried'
  <2>1. l3' = l3 /\ op' = op
    BY <1>3, Zenon DEF Hear, HearProbe, HearDelete, HearEvict
  <2>2. ASSUME NEW p \in Pods PROVE Reaches(p)'
    <3>1. Reaches(p)
      BY DEF Carried
    <3>2. ASSUME NEW i \in DOMAIN inbox[p], inbox[p][i] = l3.ver PROVE Reaches(p)'
      <4>0. inbox[p] \in Seq(Nat)
        BY Zenon DEF TypeOK
      <4>1. CASE inbox'[p] = inbox[p]
        BY <2>1, <3>2, <4>1, Zenon DEF Reaches
      <4>2. CASE inbox'[p] # inbox[p]
        <5>1. HearEvict(q) /\ q = p
          BY <1>3, <4>2, Zenon DEF Hear, HearProbe, HearDelete, HearEvict, TypeOK
        <5>2. inbox'[p] = Tail(inbox[p]) /\ TellPod(p, Head(inbox[p]))
          BY <5>1 DEF HearEvict, TypeOK
        <5>3. CASE i = 1
          <6>1. Head(inbox[p]) = l3.ver
            BY <3>2, <4>0, <5>3
          <6>2. told'[p] >= l3.ver
            BY <1>b, <5>2, <6>1 DEF TellPod, Newer, TypeOK
          <6> QED
            BY <2>1, <6>2 DEF Reaches
        <5>4. CASE i # 1
          <6>1. i - 1 \in DOMAIN Tail(inbox[p]) /\ Tail(inbox[p])[i - 1] = inbox[p][i]
            BY <3>2, <4>0, <5>4
          <6> QED
            BY <2>1, <3>2, <5>2, <6>1, Zenon DEF Reaches
        <5> QED
          BY <5>3, <5>4, Zenon
      <4> QED
        BY <4>1, <4>2, Zenon
    <3>3. told[p] >= l3.ver => told'[p] >= l3'.ver
      BY <1>b, <2>1
    <3> QED
      BY <2>1, <3>1, <3>2, <3>3, Zenon DEF Reaches
  <2> QED
    BY <1>c, <2>1, <2>2, Zenon DEF Carried
<1>4. CASE UNCHANGED vars
  BY <1>4 DEF vars, bus, history, Carried, Reaches
<1> QED
  BY <1>1, <1>2, <1>3, <1>4, Zenon DEF Next
----------------------------------------------------------------------------
(* The theorems                                                            *)

IInv == TypeOK /\ InRole /\ InOrder /\ Fenced /\ HomeInv /\ ReadInv /\ PodInv

\* the inductive invariant holds initially
LEMMA InitInv == Init => IInv
<1> SUFFICES ASSUME Init PROVE IInv
  OBVIOUS
<1>1. TypeOK
  BY IdleType DEF Init, TypeOK, NoRow
<1>2. \A o \in Ops : op[o].pc = "idle" /\ op[o].rev = -1 /\ op[o].row = 0 /\ op[o].mine = 0 /\ op[o].floor = 0
  BY Zenon DEF Init, Idle, NoRev, NoRow
<1>3. /\ l3.ver = 1
      /\ \A s \in Scopes : l2[s].row = NoRow /\ l2[s].rev = 0 /\ settled[s] = 0
      /\ \A p \in Pods : l1[p] = NoRow /\ told[p] = 0 /\ inbox[p] = << >>
  BY Zenon DEF Init
<1>4. InRole /\ InOrder
  BY <1>2, <1>3, PlacementAssumption DEF InRole, InOrder, ReadSteps, SaveSteps, NoRow, Scope
<1>5. Fenced /\ ReadInv
  BY <1>2, Zenon DEF Fenced, ReadInv, SaveSteps
<1>6. HomeInv
  BY <1>2, <1>3 DEF HomeInv, KeyFresh, SettledFirst, RowAtLeast
<1>7. PodInv
  BY <1>2, <1>3 DEF PodInv, PodFresh, RowAtLeast, SlotsOf
<1> QED
  BY <1>1, <1>4, <1>5, <1>6, <1>7, Zenon DEF IInv

\* and every step keeps it, where a KV delete never fails
LEMMA StepInv ==
  ASSUME "delete" \notin Faults
  PROVE  IInv /\ [Next]_vars => IInv'
<1> SUFFICES ASSUME IInv, [Next]_vars PROVE IInv'
  OBVIOUS
<1>1. TypeOK' /\ InRole' /\ InOrder' /\ Fenced'
  BY TypeStep, RoleStep, OrderStep, FenceStep, Zenon DEF IInv
<1>2. HomeInv' /\ ReadInv'
  BY HomeStep, ReadInvStep, Zenon DEF IInv
<1>3. PodInv'
  BY PodStep DEF IInv, PodInv, ReadsApart, HomeScope
<1> QED
  BY <1>1, <1>2, <1>3 DEF IInv

\* In every deployment, as long as deleting a key does not fail: once a write has
\* settled at the L2 key of the scope its writers share, no seed, reload or save in
\* flight (_seed_l2, _write_l2_at) brings an older row back.
THEOREM L2Safe ==
  ASSUME "delete" \notin Faults
  PROVE  Spec => []L2NeverRegresses
<1>1. IInv => L2NeverRegresses
  BY Zenon DEF IInv, HomeInv, KeyFresh, L2NeverRegresses
<1> QED
  BY <1>1, InitInv, StepInv, PTL DEF Spec

\* Likewise for the L1 of a pod (_L1Fence): what a pod has saved or been told of is
\* never again behind an older row there, whatever was in flight.
THEOREM L1Safe ==
  ASSUME "delete" \notin Faults
  PROVE  Spec => []L1NeverRegresses
<1>1. IInv => L1NeverRegresses
  BY Zenon DEF IInv, PodInv, PodFresh, KnownTo, L1NeverRegresses
<1> QED
  BY <1>1, InitInv, StepInv, PTL DEF Spec

\* A get that missed L1 (_pull_through) never answers with a row older than what its
\* pod knew of when the get began.
THEOREM ReadsSafe ==
  ASSUME "delete" \notin Faults
  PROVE  Spec => []ReadsWhatThePodKnows
<1>1. IInv => ReadsWhatThePodKnows
  BY DEF IInv, ReadInv, ReadsWhatThePodKnows
<1> QED
  BY <1>1, InitInv, StepInv, PTL DEF Spec

\* With no task cancelled and no store answer lost, as long as deleting a key does not
\* fail: when every operation has returned and every broadcast has been handled, each
\* row cached in the L2 scope its writers share, or in a pod that reads apart there, is
\* the row L3 holds. No interleaving of gets, saves, reloads, deletes and bypassing
\* writes leaves an older row, or a deleted one, in that L1 or L2.
THEOREM RestCoherent ==
  ASSUME "delete" \notin Faults, ~Interrupts
  PROVE  Spec => []CoherentAtRest
<1>1. Init => RowInv /\ Carried
  <2> SUFFICES ASSUME Init PROVE RowInv /\ Carried
    OBVIOUS
  <2>1. /\ l3.ver = 1
        /\ \A s \in Scopes : l2[s].row = NoRow
        /\ \A p \in Pods : l1[p] = NoRow
        /\ \A o \in Ops : op[o].pc = "idle" /\ op[o].row = NoRow /\ op[o].mine = NoRow
    BY DEF Init, Idle
  <2> QED
    BY <2>1 DEF RowInv, IsStored, Carried, Reaches, NoRow
<1>2. IInv /\ RowInv /\ Carried /\ [Next]_vars => RowInv' /\ Carried'
  BY RowStep, CarriedStep, Zenon DEF IInv
<1>3. IInv /\ RowInv /\ Carried => CoherentAtRest
  <2> SUFFICES ASSUME IInv, RowInv, Carried, AtRest
               PROVE  /\ \A s \in Scopes : HomeScope(s) => Current(l2[s].row)
                      /\ \A p \in Pods : ReadsApart(p) => Current(l1[p])
    BY Zenon DEF CoherentAtRest
  <2>0. TypeOK /\ l3.ver \in Nat /\ l3.ver >= 1
    BY DEF IInv, TypeOK, Carried
  <2>1. ASSUME NEW row \in Nat, NEW n \in Nat, IsStored(row), RowAtLeast(row, n), n >= l3.ver \/ l3.ver = 1
        PROVE  Current(row)
    BY <2>0, <2>1 DEF IsStored, RowAtLeast, Current, NoRow
  <2>2. ASSUME NEW p \in Pods PROVE told[p] \in Nat /\ (told[p] >= l3.ver \/ l3.ver = 1)
    <3>1. inbox[p] = << >> /\ \A o \in Ops : op[o].pc = "idle"
      BY Zenon DEF AtRest
    <3>2. \A o \in Ops : op[o].mine # l3.ver
      BY <2>0, <3>1 DEF Carried, Owing, NoRow
    <3>3. Reaches(p) /\ told[p] \in Nat
      BY <2>0, Zenon DEF Carried, TypeOK
    <3> QED
      BY <3>1, <3>2, <3>3 DEF Reaches
  <2>3. ASSUME NEW s \in Scopes, HomeScope(s) PROVE Current(l2[s].row)
    <3>1. l2[s].row \in Nat /\ settled[s] \in Nat /\ RowAtLeast(l2[s].row, settled[s]) /\ IsStored(l2[s].row)
      BY <2>0, <2>3, Zenon DEF TypeOK, IInv, HomeInv, KeyFresh, RowInv
    <3>2. settled[s] >= l3.ver \/ l3.ver = 1
      <4>1. CASE l3.ver # 1
        <5>1. PICK p \in Pods : TRUE
          BY <4>1, Zenon DEF Carried
        <5>2. told[p] <= settled[s]
          BY <2>3, Zenon DEF IInv, HomeInv, SettledFirst
        <5> QED
          BY <2>0, <2>2, <3>1, <4>1, <5>2
      <4> QED
        BY <4>1, Zenon
    <3> QED
      BY <2>1, <3>1, <3>2, Zenon
  <2>4. ASSUME NEW p \in Pods, ReadsApart(p) PROVE Current(l1[p])
    <3>1. l1[p] \in Nat /\ RowAtLeast(l1[p], told[p]) /\ IsStored(l1[p])
      BY <2>0, <2>4, Zenon DEF TypeOK, IInv, PodInv, PodFresh, KnownTo, RowInv
    <3> QED
      BY <2>1, <2>2, <3>1, Zenon
  <2> QED
    BY <2>3, <2>4, Zenon
<1> QED
  BY <1>1, <1>2, <1>3, InitInv, StepInv, PTL DEF Spec
=============================================================================

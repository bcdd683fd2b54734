------------------------------- MODULE Follow -------------------------------
(***************************************************************************)
(* Write generations, write marks and the pods that follow them            *)
(* (core/collections/generation.py, write_marks.py, epoch/generation*.py). *)
(*                                                                         *)
(* A row broadcast reaches a pod at most once.  So a table carries a write *)
(* generation in the epoch bucket, which a writer advances after its       *)
(* commit and names on the commit's row broadcasts.  A pod that follows    *)
(* the table counts the rows it hears against the advance each names, and  *)
(* drops everything it holds of the table when a pass reads an advance it  *)
(* did not hear all of.  A trigger leaves a mark in the writer's own       *)
(* transaction, and a reconciler advances the generation from the marks,   *)
(* for the writer that dies before it advances.                            *)
(*                                                                         *)
(* One table.  A copy of a row is FRESH when it is the row L3 holds now    *)
(* and STALE once a commit has replaced that row.  Each pod has its own L2 *)
(* scope, as principals do.  The steps inside one read of one row are      *)
(* ThreeTier's: here a read looks up, fetches and caches.                  *)
(***************************************************************************)
EXTENDS Integers, FiniteSets, FiniteSetsExt

CONSTANTS
  Pods,          \* processes that hold the table's collection
  Writers,       \* the pods that write rows
  Readers,       \* the pods that read rows and follow the table
  Keys,          \* rows of the table
  ReadKeys,      \* the rows pods read
  RowSets,       \* the sets of rows one commit of a pod changes
  LostRowSets,   \* those a writer that never advances changes
  Reconcilers,   \* processes that drain the write marks
  ClearsMarks,   \* whether writers name the mark queue (write_marks_schema)
  PageSize,      \* marks one page of a drain reads
  MaxHeard,      \* _MAX_REMEMBERED_ADVANCES
  MaxCommits,    \* bound: commits
  MaxFaults,     \* bound: wipes of the epoch bucket, restarts, answers lost
  MaxPending     \* bound: generations a pod has read and not judged yet

ASSUME FollowAssumption ==
  /\ IsFiniteSet(Pods) /\ IsFiniteSet(Keys) /\ IsFiniteSet(Reconcilers)
  /\ Writers \subseteq Pods /\ Readers \subseteq Pods
  /\ ReadKeys \subseteq Keys /\ RowSets \cup LostRowSets \subseteq (SUBSET Keys) \ {{}}
  /\ ClearsMarks \in BOOLEAN
  /\ PageSize \in Nat \ {0} /\ MaxHeard \in Nat \ {0} /\ MaxPending \in Nat \ {0}
  /\ {MaxCommits, MaxFaults} \subseteq Nat

VARIABLES
  l1,        \* pod -> key -> the copy the pod's L1 holds
  l2,        \* pod -> key -> the copy under the pod's own L2 key
  suspect,   \* pod -> keys whose L2 entry the pod reads past (_distrusts_l2)
  reading,   \* pod -> its pull-through in flight
  writing,   \* pod -> its write in flight
  net,       \* row broadcasts sent and not received; one left here is a lost one
  hearing,   \* pod -> the broadcast its listener is handling
  bucket,    \* the generation the epoch bucket holds
  mark,      \* pod -> its _TableMark
  pending,   \* pod -> generations read or pushed and not judged yet
  marks,     \* ids in the write-mark queue
  drain,     \* reconciler -> the page it is draining
  commits, incarnations, faults

copies == <<l1, l2, suspect, reading>>
queue == <<marks, drain>>
vars == <<copies, writing, net, hearing, bucket, mark, pending, queue, commits, incarnations, faults>>

NoCopy == "none"
Fresh == "fresh"
Stale == "stale"

\* what _parts makes of a store that holds no generation
NoGeneration == [inc |-> 0, n |-> 0]

NoRead == [key |-> "none"]
NoWrite == [pc |-> "idle", rows |-> {}, ids |-> {}, tok |-> NoGeneration, of |-> 0]
NoMessage == [key |-> "none"]
NoPage == [pc |-> "idle", ids |-> {}]
NewMark == [sighted |-> FALSE, inc |-> 0, acc |-> 0, heard |-> {}, over |-> FALSE]

-----------------------------------------------------------------------------
(* GenerationMarks: one table's mark.                                      *)

\* slip: an advance is taken as heard in full at its first row
HeardInFullAtFirstRow(m) == {h.n : h \in {x \in m.heard : x.inc = m.inc}}

HeardInFull(m) == {h.n : h \in {x \in m.heard : x.inc = m.inc /\ x.rows >= x.of}}

MoveOn(m) ==
  LET ends == {n \in m.acc .. m.acc + Cardinality(m.heard) : m.acc + 1 .. n \subseteq HeardInFull(m)}
      end == Max(ends)
  IN  IF ~m.sighted \/ m.inc = 0 THEN m
      ELSE [m EXCEPT !.acc = end, !.heard = {h \in @ : h.inc # m.inc \/ h.n \notin m.acc + 1 .. end}]

\* slip: an advance the mark has passed is recorded again
RecordOfTheAccounted(m, tok, of) ==
  LET known == {h \in m.heard : h.inc = tok.inc /\ h.n = tok.n}
      rows == IF known = {} THEN 0 ELSE (CHOOSE h \in known : TRUE).rows
  IN  IF known = {} /\ Cardinality(m.heard) >= MaxHeard THEN [m EXCEPT !.over = TRUE]
      ELSE MoveOn([m EXCEPT !.heard = (@ \ known) \cup
                     {[inc |-> tok.inc, n |-> tok.n, rows |-> rows + 1, of |-> of]}])

\* one row of the advance that wrote tok, of the of rows it covered
Record(m, tok, of) ==
  LET known == {h \in m.heard : h.inc = tok.inc /\ h.n = tok.n}
      rows == IF known = {} THEN 0 ELSE (CHOOSE h \in known : TRUE).rows
  IN  IF m.sighted /\ tok.inc = m.inc /\ tok.n <= m.acc THEN m
      ELSE IF known = {} /\ Cardinality(m.heard) >= MaxHeard THEN [m EXCEPT !.over = TRUE]
      ELSE MoveOn([m EXCEPT !.heard = (@ \ known) \cup
                     {[inc |-> tok.inc, n |-> tok.n, rows |-> rows + 1, of |-> of]}])

Judge(m, tok) ==
  IF ~m.sighted THEN "first_sight"
  ELSE IF tok.inc # m.inc THEN "replaced"
  ELSE IF tok.n > m.acc \/ m.over THEN "missed" ELSE "current"

Drops(m, tok) == Judge(m, tok) # "current"

Settle(m, tok) ==
  IF ~Drops(m, tok) THEN m
  ELSE MoveOn([sighted |-> TRUE, inc |-> tok.inc, acc |-> tok.n, over |-> FALSE,
               heard |-> {h \in m.heard : h.inc = tok.inc /\ h.n > tok.n}])

-----------------------------------------------------------------------------
(* The epoch bucket.                                                       *)

\* EpochGenerationSource.advance: the compare-and-swap that wins
NextGeneration ==
  IF bucket.inc = 0 THEN [inc |-> incarnations + 1, n |-> 1] ELSE [bucket EXCEPT !.n = @ + 1]

AdvanceBucket ==
  /\ bucket' = NextGeneration
  /\ incarnations' = IF bucket.inc = 0 THEN incarnations + 1 ELSE incarnations

Fault == faults < MaxFaults /\ faults' = faults + 1

\* EpochGenerationSource.current, of a read that records an absence: the first of an incarnation
Mint ==
  /\ bucket.inc = 0
  /\ bucket' = [NoGeneration EXCEPT !.inc = incarnations + 1]
  /\ incarnations' = incarnations + 1
  /\ UNCHANGED <<copies, writing, net, hearing, mark, pending, queue, commits, faults>>

\* a broker restart empties the memory-backed bucket
Wipe ==
  /\ bucket.inc # 0 /\ Fault
  /\ bucket' = NoGeneration
  /\ UNCHANGED <<copies, writing, net, hearing, mark, pending, queue, commits, incarnations>>

-----------------------------------------------------------------------------
(* Reads: BaseCollection._pull_through.                                    *)

\* an eviction of keys ks from pod p's L1: the fence tells a read in flight
FenceRead(r, ks) == IF r # NoRead /\ r.key \in ks THEN [r EXCEPT !.newest = FALSE] ELSE r
MoveRead(r, k) == IF r # NoRead /\ r.key = k THEN [r EXCEPT !.moved = TRUE] ELSE r

EvictL1(p, ks) ==
  /\ l1' = [l1 EXCEPT ![p] = [k \in Keys |-> IF k \in ks THEN NoCopy ELSE @[k]]]
  /\ reading' = [reading EXCEPT ![p] = FenceRead(@, ks)]

DeleteL2(p, k) ==
  /\ l2' = [l2 EXCEPT ![p][k] = NoCopy]
  /\ reading' = [reading EXCEPT ![p] = MoveRead(@, k)]

\* the L2 lookup, and the L3 read when L2 holds no row the pod trusts
Lookup(p, k) ==
  LET trusted == l2[p][k] # NoCopy /\ k \notin suspect[p]
  IN  /\ reading[p] = NoRead /\ l1[p][k] = NoCopy
      /\ reading' = [reading EXCEPT ![p] =
           [key |-> k, copy |-> IF trusted THEN l2[p][k] ELSE Fresh, seeds |-> ~trusted,
            newest |-> TRUE, moved |-> FALSE, dropped |-> FALSE]]
      /\ UNCHANGED <<l1, l2, suspect, writing, net, hearing, bucket, mark, pending, queue, commits,
                     incarnations, faults>>

\* the seed lands at the revision looked up, or the key has moved on; L1 takes the row while the
\* ticket is newest; the key is trusted again unless the table was dropped meanwhile
CacheRead(p) ==
  LET r == reading[p]
      lands == r.seeds /\ ~r.moved
      newL2 == IF lands THEN r.copy ELSE l2[p][r.key]
      answer == IF r.seeds THEN newL2 ELSE r.copy
  IN  /\ r # NoRead
      /\ l2' = [l2 EXCEPT ![p][r.key] = newL2]
      /\ l1' = [l1 EXCEPT ![p][r.key] = IF r.newest /\ answer # NoCopy THEN answer ELSE @]
      /\ suspect' = [suspect EXCEPT ![p] = IF r.seeds /\ ~r.dropped THEN @ \ {r.key} ELSE @]
      /\ reading' = [reading EXCEPT ![p] = NoRead]
      /\ UNCHANGED <<writing, net, hearing, bucket, mark, pending, queue, commits, incarnations, faults>>

-----------------------------------------------------------------------------
(* Writes: a write that bypasses save_entity and then settles its rows     *)
(* with invalidate_cache_many, shielded from cancellation.                 *)

Age(copy) == IF copy = Fresh THEN Stale ELSE copy
AgeRead(r, ks) == IF r # NoRead /\ r.key \in ks THEN [r EXCEPT !.copy = Age(@)] ELSE r

\* the rows change in L3, and the trigger's mark commits with them
CommitRows(ks) ==
  /\ commits < MaxCommits
  /\ commits' = commits + 1
  /\ marks' = marks \cup {commits + 1}
  /\ l1' = [p \in Pods |-> [k \in Keys |-> IF k \in ks THEN Age(l1[p][k]) ELSE l1[p][k]]]
  /\ l2' = [p \in Pods |-> [k \in Keys |-> IF k \in ks THEN Age(l2[p][k]) ELSE l2[p][k]]]
  /\ reading' = [p \in Pods |-> AgeRead(reading[p], ks)]
  /\ UNCHANGED <<suspect, net, hearing, bucket, mark, pending, drain, incarnations, faults>>

Commit(p, ks) ==
  /\ writing[p].pc = "idle"
  /\ writing' = [writing EXCEPT ![p] = [NoWrite EXCEPT !.pc = "evict", !.rows = ks, !.of = Cardinality(ks)]]
  /\ CommitRows(ks)

\* a writer that dies at once, or one that is no pod of this fleet
LostCommit(ks) == CommitRows(ks) /\ UNCHANGED writing

EvictOwn(p) ==
  /\ writing[p].pc = "evict"
  /\ EvictL1(p, writing[p].rows)
  /\ writing' = [writing EXCEPT ![p].pc = IF ClearsMarks THEN "marks" ELSE "advance"]
  /\ UNCHANGED <<l2, suspect, net, hearing, bucket, mark, pending, queue, commits, incarnations, faults>>

\* _marks_before_advance; a read that fails covers nothing
MarksBeforeAdvance(p) ==
  /\ writing[p].pc = "marks"
  /\ \E covered \in {marks, {}} : writing' = [writing EXCEPT ![p].pc = "advance", ![p].ids = covered]
  /\ UNCHANGED <<copies, net, hearing, bucket, mark, pending, queue, commits, incarnations, faults>>

\* the advance lands, and this registry's mark accounts for it without a broadcast
Advance(p) ==
  /\ writing[p].pc = "advance"
  /\ AdvanceBucket
  /\ mark' = [mark EXCEPT ![p] = Record(@, NextGeneration, 1)]
  /\ writing' = [writing EXCEPT ![p].tok = NextGeneration,
                                ![p].pc = IF writing[p].ids = {} THEN "announce" ELSE "clear"]
  /\ UNCHANGED <<copies, net, hearing, pending, queue, commits, faults>>

\* GenerationUnavailableError: nothing landed, or it did and the answer was lost
AdvanceFails(p) ==
  /\ writing[p].pc = "advance"
  /\ Fault /\ (AdvanceBucket \/ UNCHANGED <<bucket, incarnations>>)
  /\ writing' = [writing EXCEPT ![p].pc = "announce"]
  /\ UNCHANGED <<copies, net, hearing, mark, pending, queue, commits>>

ClearMarks(p) ==
  /\ writing[p].pc = "clear"
  /\ marks' \in {marks \ writing[p].ids, marks}
  /\ writing' = [writing EXCEPT ![p].pc = "announce"]
  /\ UNCHANGED <<copies, net, hearing, bucket, mark, pending, drain, commits, incarnations, faults>>

\* the keys settle in any order, each its L2 delete and then its broadcast
AnnounceRow(p, k) ==
  /\ writing[p].pc = "announce" /\ k \in writing[p].rows
  /\ DeleteL2(p, k)
  /\ net' = net \cup {[to |-> q, key |-> k, tok |-> writing[p].tok, of |-> writing[p].of] : q \in Readers \ {p}}
  /\ writing' = [writing EXCEPT ![p] =
                    IF writing[p].rows = {k} THEN NoWrite ELSE [writing[p] EXCEPT !.rows = @ \ {k}]]
  /\ UNCHANGED <<l1, suspect, hearing, bucket, mark, pending, queue, commits, incarnations, faults>>

-----------------------------------------------------------------------------
(* The invalidation listener: L2, then L1, and only then is the row        *)
(* counted.                                                                *)

HearDelete(p, m) ==
  /\ m \in net /\ m.to = p /\ hearing[p] = NoMessage
  /\ net' = net \ {m}
  /\ hearing' = [hearing EXCEPT ![p] = m]
  /\ DeleteL2(p, m.key)
  /\ UNCHANGED <<l1, suspect, writing, bucket, mark, pending, queue, commits, incarnations, faults>>

HearEvict(p) ==
  LET m == hearing[p]
  IN  /\ m # NoMessage
      /\ hearing' = [hearing EXCEPT ![p] = NoMessage]
      /\ EvictL1(p, {m.key})
      /\ mark' = [mark EXCEPT ![p] = IF m.tok.inc = 0 THEN @ ELSE Record(@, m.tok, m.of)]
      /\ UNCHANGED <<l2, suspect, writing, net, bucket, pending, queue, commits, incarnations, faults>>

-----------------------------------------------------------------------------
(* The catch-up pass and the key watch: a generation is read or pushed,    *)
(* and judged later; both may run, so several may be pending.              *)

ReadGeneration(p) ==
  /\ bucket \notin pending[p] /\ Cardinality(pending[p]) < MaxPending
  /\ pending' = [pending EXCEPT ![p] = @ \cup {bucket}]
  /\ UNCHANGED <<copies, writing, net, hearing, bucket, mark, queue, commits, incarnations, faults>>

\* slip: the table leaves L1 and the pod goes on trusting its L2 entries
DropTableFromL1(p) ==
  /\ l1' = [l1 EXCEPT ![p] = [k \in Keys |-> NoCopy]]
  /\ reading' = [reading EXCEPT ![p] = IF @ = NoRead THEN @ ELSE [@ EXCEPT !.newest = FALSE, !.dropped = TRUE]]
  /\ UNCHANGED suspect

\* CollectionRegistry.drop_table
DropTable(p) ==
  /\ l1' = [l1 EXCEPT ![p] = [k \in Keys |-> NoCopy]]
  /\ suspect' = [suspect EXCEPT ![p] = Keys]
  /\ reading' = [reading EXCEPT ![p] = IF @ = NoRead THEN @ ELSE [@ EXCEPT !.newest = FALSE, !.dropped = TRUE]]

SettleGeneration(p, tok) ==
  /\ tok \in pending[p]
  /\ pending' = [pending EXCEPT ![p] = @ \ {tok}]
  /\ mark' = [mark EXCEPT ![p] = Settle(@, tok)]
  /\ IF Drops(mark[p], tok) THEN DropTable(p) ELSE UNCHANGED <<l1, suspect, reading>>
  /\ UNCHANGED <<l2, writing, net, hearing, bucket, queue, commits, incarnations, faults>>

\* the process dies and a new one starts: only its L2 entries outlive it
Restart(p) ==
  /\ Fault
  /\ l1' = [l1 EXCEPT ![p] = [k \in Keys |-> NoCopy]]
  /\ suspect' = [suspect EXCEPT ![p] = {}]
  /\ reading' = [reading EXCEPT ![p] = NoRead]
  /\ writing' = [writing EXCEPT ![p] = NoWrite]
  /\ hearing' = [hearing EXCEPT ![p] = NoMessage]
  /\ mark' = [mark EXCEPT ![p] = NewMark]
  /\ pending' = [pending EXCEPT ![p] = {}]
  /\ net' = {m \in net : m.to # p}
  /\ UNCHANGED <<l2, bucket, queue, commits, incarnations>>

-----------------------------------------------------------------------------
(* WriteMarkReconciler._drain, one page at a time.                         *)

ReadPage(r) ==
  /\ drain[r].pc = "idle" /\ marks # {}
  /\ \E page \in SUBSET marks :
       /\ Cardinality(page) = Min({PageSize, Cardinality(marks)})
       /\ drain' = [drain EXCEPT ![r] = [pc |-> "advance", ids |-> page]]
  /\ UNCHANGED <<copies, writing, net, hearing, bucket, mark, pending, marks, commits, incarnations, faults>>

AdvancePage(r) ==
  /\ drain[r].pc = "advance"
  /\ AdvanceBucket
  /\ drain' = [drain EXCEPT ![r].pc = "delete"]
  /\ UNCHANGED <<copies, writing, net, hearing, mark, pending, marks, commits, faults>>

\* slip: the page's marks go although its advance failed
AdvancePageFailsAnyway(r) ==
  /\ drain[r].pc = "advance"
  /\ UNCHANGED <<bucket, incarnations, faults>> \/ (AdvanceBucket /\ Fault)
  /\ drain' = [drain EXCEPT ![r] = NoPage]
  /\ marks' = marks \ drain[r].ids
  /\ UNCHANGED <<copies, writing, net, hearing, mark, pending, commits>>

\* the advance fails, or its answer is lost: the page's marks stay
AdvancePageFails(r) ==
  /\ drain[r].pc = "advance"
  /\ UNCHANGED <<bucket, incarnations, faults>> \/ (AdvanceBucket /\ Fault)
  /\ drain' = [drain EXCEPT ![r] = NoPage]
  /\ UNCHANGED <<copies, writing, net, hearing, mark, pending, marks, commits>>

DeletePage(r) ==
  /\ drain[r].pc = "delete"
  /\ marks' = marks \ drain[r].ids
  /\ drain' = [drain EXCEPT ![r] = NoPage]
  /\ UNCHANGED <<copies, writing, net, hearing, bucket, mark, pending, commits, incarnations, faults>>

\* the reconciler dies between its advance and its delete
DrainDies(r) ==
  /\ drain[r].pc = "delete" /\ Fault
  /\ drain' = [drain EXCEPT ![r] = NoPage]
  /\ UNCHANGED <<copies, writing, net, hearing, bucket, mark, pending, marks, commits, incarnations>>

-----------------------------------------------------------------------------
Init ==
  /\ l1 = [p \in Pods |-> [k \in Keys |-> NoCopy]]
  /\ l2 = [p \in Pods |-> [k \in Keys |-> NoCopy]]
  /\ suspect = [p \in Pods |-> {}]
  /\ reading = [p \in Pods |-> NoRead]
  /\ writing = [p \in Pods |-> NoWrite]
  /\ net = {}
  /\ hearing = [p \in Pods |-> NoMessage]
  /\ bucket = NoGeneration
  /\ mark = [p \in Pods |-> NewMark]
  /\ pending = [p \in Pods |-> {}]
  /\ marks = {}
  /\ drain = [r \in Reconcilers |-> NoPage]
  /\ commits = 0 /\ incarnations = 0 /\ faults = 0

Read(p) == (\E k \in ReadKeys : Lookup(p, k)) \/ CacheRead(p)

Write(p) ==
  \/ \E ks \in RowSets : Commit(p, ks)
  \/ EvictOwn(p) \/ MarksBeforeAdvance(p) \/ Advance(p) \/ AdvanceFails(p) \/ ClearMarks(p)
  \/ \E k \in Keys : AnnounceRow(p, k)

Hear(p) == (\E m \in net : HearDelete(p, m)) \/ HearEvict(p)

CatchUp(p) == ReadGeneration(p) \/ \E tok \in pending[p] : SettleGeneration(p, tok)

Drain(r) == ReadPage(r) \/ AdvancePage(r) \/ AdvancePageFails(r) \/ DeletePage(r) \/ DrainDies(r)

Next ==
  \/ \E p \in Writers : Write(p)
  \/ \E p \in Readers : Read(p) \/ Hear(p) \/ CatchUp(p)
  \/ \E p \in Pods : Restart(p)
  \/ \E r \in Reconcilers : Drain(r)
  \/ \E ks \in LostRowSets : LostCommit(ks)
  \/ Mint \/ Wipe

Spec == Init /\ [][Next]_vars

\* the scheduler runs the passes for ever, and a bucket that is up now and then takes an advance
Fairness ==
  /\ \A p \in Readers : WF_vars(CatchUp(p))
  /\ \A r \in Reconcilers : WF_vars(ReadPage(r)) /\ SF_vars(AdvancePage(r)) /\ SF_vars(DeletePage(r))

FairSpec == Spec /\ Fairness

-----------------------------------------------------------------------------
(* Properties.                                                             *)

Copies == {NoCopy, Fresh, Stale}
Generations == [inc : Nat, n : Nat]

\* The type of every variable; a mark remembers at most MaxHeard advances, each beyond the one it
\* stands at (_TableMark.heard).
TypeOK ==
  /\ l1 \in [Pods -> [Keys -> Copies]] /\ l2 \in [Pods -> [Keys -> Copies]]
  /\ suspect \in [Pods -> SUBSET Keys]
  /\ \A p \in Pods : reading[p] = NoRead \/ reading[p].copy \in Copies
  /\ \A p \in Pods : writing[p].pc \in {"idle", "evict", "marks", "advance", "clear", "announce"}
  /\ bucket \in Generations /\ \A p \in Pods : pending[p] \subseteq Generations
  /\ \A p \in Pods : LET m == mark[p] IN
       /\ m.inc \in Nat /\ m.acc \in Nat /\ Cardinality(m.heard) <= MaxHeard
       /\ m.sighted => \A h \in m.heard : h.inc = m.inc => h.n > m.acc
  /\ marks \subseteq 1 .. commits

\* what pod p may answer a read of key k with from its caches
Servable(p, k) == {l1[p][k]} \cup (IF k \in suspect[p] THEN {} ELSE {l2[p][k]})

ServesStale(p) == \E k \in Keys : Stale \in Servable(p, k)

\* a pod that recorded "no generation" cannot tell one wiped bucket from the next
Blank(p) == mark[p].inc = 0 /\ bucket.inc = 0

\* an advance or an eviction is still to come: a mark is queued, or a writer is alive
Owed == marks # {} \/ \E q \in Pods : writing[q].pc # "idle"

\* A pod that would serve a row some commit replaced is still owed its repair: an advance is to come,
\* or judging the generation the bucket holds now drops the table (registry.settle_generation).
\* The one exception is a pod whose mark says the bucket was empty, while it is empty again.
NoSilentMiss == \A p \in Pods : ServesStale(p) => Owed \/ Drops(mark[p], bucket) \/ Blank(p)

\* Worst-case repair (write_marks.py): however broadcasts, writers, the reconciler and the bucket
\* fail, a pod stops serving a replaced row, with the same exception.
StaleGoes == \A p \in Pods : []<>(~ServesStale(p) \/ Blank(p))
=============================================================================

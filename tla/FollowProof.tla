----------------------------- MODULE FollowProof -----------------------------
(***************************************************************************)
(* Types, for all constants; and that no miss is silent, for writers that  *)
(* leave the mark queue to the reconciler (no write_marks_schema).         *)
(*                                                                         *)
(* The argument of the second: a commit leaves a mark.  The mark goes only *)
(* after the reconciler's advance, whose generation no broadcast names, so *)
(* no pod can count it as heard: every pod's mark stands before it until   *)
(* the pod drops the table.  MissInv says so with the set U of those       *)
(* generations.                                                            *)
(***************************************************************************)
EXTENDS Follow, TLAPS, FiniteSetTheorems, WellFoundedInduction

-----------------------------------------------------------------------------
(* GenerationMarks: what recording and settling do to one mark.            *)

HeardRec == [inc : Nat, n : Nat, rows : Nat, of : Nat]
MarkRec == [sighted : BOOLEAN, inc : Nat, acc : Nat, heard : SUBSET HeardRec, over : BOOLEAN]

Beyond(m) == m.sighted => \A h \in m.heard : h.inc = m.inc => h.n > m.acc

MarkOK(m) == m \in MarkRec /\ IsFiniteSet(m.heard) /\ Cardinality(m.heard) <= MaxHeard /\ Beyond(m)

\* a bounded set of numbers has a largest member
LEMMA MaxIn ==
  ASSUME NEW S, NEW b \in Nat, S \subseteq 0 .. b, S # {}
  PROVE  Max(S) \in S /\ \A y \in S : y <= Max(S)
<1>. DEFINE T == {b - x : x \in S}
<1>0. PICK e \in S : TRUE
  BY Zenon
<1>1. T \subseteq Nat /\ b - e \in T
  OBVIOUS
<1>2. PICK t \in T : \A y \in T : ~(<<y, t>> \in OpToRel(<, Nat))
  BY <1>1, NatLessThanWellFounded, WFMin, Zenon
<1>3. \A y \in T : ~(y < t)
  BY <1>1, <1>2, Zenon DEF OpToRel
<1>4. PICK x \in S : t = b - x
  OBVIOUS
<1>5. \A y \in S : x >= y
  <2>. TAKE y \in S
  <2>1. ~(b - y < b - x)
    BY <1>3, <1>4, Zenon
  <2>2. x \in Int /\ y \in Int /\ b \in Int
    OBVIOUS
  <2>. QED  BY <2>1, <2>2
<1>. QED  BY <1>5, Zenon DEF Max

\* moving on passes only advances that were heard
LEMMA MovesOn ==
  ASSUME NEW m, MarkOK(m)
  PROVE  /\ MarkOK(MoveOn(m))
         /\ MoveOn(m).sighted = m.sighted /\ MoveOn(m).inc = m.inc /\ MoveOn(m).acc >= m.acc
         /\ MoveOn(m).heard \subseteq m.heard
         /\ \A n \in m.acc + 1 .. MoveOn(m).acc : \E h \in m.heard : h.inc = m.inc /\ h.n = n
<1>0. m \in MarkRec /\ m.acc \in Nat /\ IsFiniteSet(m.heard) /\ Cardinality(m.heard) \in Nat /\ m.heard \subseteq HeardRec
  BY FS_CardinalityType DEF MarkOK, MarkRec
<1>1. CASE ~m.sighted \/ m.inc = 0
  BY <1>0, <1>1 DEF MoveOn, MarkOK
<1>2. CASE m.sighted /\ m.inc # 0
  <2>. DEFINE ends == {n \in m.acc .. m.acc + Cardinality(m.heard) : m.acc + 1 .. n \subseteq HeardInFull(m)}
              end == Max(ends)
              rest == {h \in m.heard : h.inc # m.inc \/ h.n \notin m.acc + 1 .. end}
  <2>1. MoveOn(m) = [m EXCEPT !.acc = end, !.heard = rest]
    BY <1>2 DEF MoveOn
  <2>2. m.acc \in ends
    BY <1>0
  <2>3. end \in ends
    BY <1>0, <2>2, MaxIn
  <2>4. end \in Nat /\ end >= m.acc /\ m.acc + 1 .. end \subseteq HeardInFull(m)
    BY <1>0, <2>3
  <2>5. rest \subseteq m.heard
    OBVIOUS
  <2>. HIDE DEF ends, end
  <2>6. IsFiniteSet(rest) /\ Cardinality(rest) <= Cardinality(m.heard) /\ Cardinality(rest) \in Nat
    BY <1>0, <2>5, FS_Subset, FS_CardinalityType
  <2>7. \A h \in rest : h.inc = m.inc => h.n > end
    BY <1>0, <1>2, <2>4 DEF MarkOK, Beyond, HeardRec
  <2>. HIDE DEF rest
  <2>8. [m EXCEPT !.acc = end, !.heard = rest] \in MarkRec
    BY <1>0, <2>4, <2>5, Zenon DEF MarkRec
  <2>9. /\ MoveOn(m).acc = end /\ MoveOn(m).heard = rest /\ MoveOn(m).sighted = m.sighted
        /\ MoveOn(m).inc = m.inc
    BY <1>0, <2>1 DEF MarkRec
  <2>10. MarkOK(MoveOn(m))
    <3>1. Cardinality(rest) <= MaxHeard
      BY <1>0, <2>6, FollowAssumption DEF MarkOK
    <3>. QED  BY <2>1, <2>6, <2>7, <2>8, <2>9, <3>1 DEF MarkOK, Beyond
  <2>11. \A n \in m.acc + 1 .. end : \E h \in m.heard : h.inc = m.inc /\ h.n = n
    BY <2>4 DEF HeardInFull
  <2>. QED  BY <2>4, <2>5, <2>9, <2>10, <2>11
<1>. QED  BY <1>0, <1>1, <1>2 DEF MarkRec

\* recording an advance passes only that advance and advances that were heard
LEMMA Records ==
  ASSUME NEW m, MarkOK(m), NEW tok \in Generations, NEW of \in Nat
  PROVE  LET w == Record(m, tok, of) IN
         /\ MarkOK(w)
         /\ w.sighted = m.sighted /\ w.inc = m.inc /\ w.acc >= m.acc
         /\ \A h \in w.heard : (h.inc = tok.inc /\ h.n = tok.n) \/ \E g \in m.heard : g.inc = h.inc /\ g.n = h.n
         /\ \A n \in m.acc + 1 .. w.acc :
              (tok.inc = m.inc /\ tok.n = n) \/ \E g \in m.heard : g.inc = m.inc /\ g.n = n
<1>. DEFINE known == {h \in m.heard : h.inc = tok.inc /\ h.n = tok.n}
            rows == IF known = {} THEN 0 ELSE (CHOOSE h \in known : TRUE).rows
            new == [inc |-> tok.inc, n |-> tok.n, rows |-> rows + 1, of |-> of]
            more == (m.heard \ known) \cup {new}
            v == [m EXCEPT !.heard = more]
<1>0. /\ m \in MarkRec /\ m.acc \in Nat /\ IsFiniteSet(m.heard) /\ Cardinality(m.heard) \in Nat
      /\ m.heard \subseteq HeardRec /\ tok.inc \in Nat /\ tok.n \in Nat
  BY FS_CardinalityType DEF MarkOK, MarkRec, Generations
<1>1. CASE m.sighted /\ tok.inc = m.inc /\ tok.n <= m.acc
  <2>1. Record(m, tok, of) = m
    BY <1>1 DEF Record
  <2>2. \A n : n \notin m.acc + 1 .. m.acc
    BY <1>0
  <2>. QED  BY <1>0, <2>1, <2>2
<1>2. CASE ~(m.sighted /\ tok.inc = m.inc /\ tok.n <= m.acc) /\ known = {} /\ Cardinality(m.heard) >= MaxHeard
  <2>1. Record(m, tok, of) = [m EXCEPT !.over = TRUE]
    BY <1>2 DEF Record
  <2>. DEFINE u == [m EXCEPT !.over = TRUE]
  <2>2. u \in MarkRec /\ u.heard = m.heard /\ u.sighted = m.sighted /\ u.inc = m.inc /\ u.acc = m.acc
    BY <1>0, Zenon DEF MarkRec
  <2>3. \A n : n \notin m.acc + 1 .. m.acc
    BY <1>0
  <2>. HIDE DEF u
  <2>4. MarkOK(u)
    BY <2>2 DEF MarkOK, Beyond
  <2>. QED  BY <1>0, <2>1, <2>2, <2>3, <2>4 DEF u
<1>3. CASE ~(m.sighted /\ tok.inc = m.inc /\ tok.n <= m.acc) /\ ~(known = {} /\ Cardinality(m.heard) >= MaxHeard)
  <2>1. Record(m, tok, of) = MoveOn(v)
    BY <1>3 DEF Record
  <2>2. rows \in Nat
    BY <1>0 DEF HeardRec
  <2>. HIDE DEF rows
  <2>3. new \in HeardRec /\ new.inc = tok.inc /\ new.n = tok.n
    BY <1>0, <2>2 DEF HeardRec
  <2>. HIDE DEF new
  <2>4. IsFiniteSet(more) /\ Cardinality(more) <= MaxHeard
    <3>1. CASE known = {}
      <4>1. more = m.heard \cup {new}
        BY <3>1
      <4>2. IsFiniteSet(more) /\ Cardinality(more) \in {Cardinality(m.heard), Cardinality(m.heard) + 1}
        BY <1>0, <4>1, FS_AddElement, Zenon
      <4>3. Cardinality(m.heard) < MaxHeard /\ MaxHeard \in Nat
        BY <1>0, <1>3, <3>1, FollowAssumption
      <4>. HIDE DEF more
      <4>. QED  BY <1>0, <4>2, <4>3
    <3>2. CASE known # {}
      <4>1. PICK k \in known : TRUE
        BY <3>2
      <4>2. /\ IsFiniteSet(m.heard \ {k}) /\ Cardinality(m.heard \ {k}) = Cardinality(m.heard) - 1
        BY <1>0, FS_RemoveElement, Zenon
      <4>3. m.heard \ known \in SUBSET (m.heard \ {k})
        OBVIOUS
      <4>4. /\ IsFiniteSet(m.heard \ known) /\ Cardinality(m.heard \ known) <= Cardinality(m.heard) - 1
            /\ Cardinality(m.heard \ known) \in Nat
        BY <4>2, <4>3, FS_Subset, FS_CardinalityType
      <4>. HIDE DEF known
      <4>. DEFINE others == m.heard \ known
      <4>5. IsFiniteSet(others) /\ Cardinality(others) \in Nat
        BY <4>4
      <4>. HIDE DEF others
      <4>6. /\ IsFiniteSet(others \cup {new})
            /\ Cardinality(others \cup {new}) \in {Cardinality(others), Cardinality(others) + 1}
        BY <4>5, FS_AddElement
      <4>7. IsFiniteSet(more) /\ Cardinality(more) \in {Cardinality(others), Cardinality(others) + 1}
        BY <4>6 DEF others
      <4>8. Cardinality(others) <= Cardinality(m.heard) - 1
        BY <4>4 DEF others
      <4>. HIDE DEF more
      <4>. QED  BY <1>0, <4>5, <4>7, <4>8, FollowAssumption DEF MarkOK
    <3>. QED  BY <3>1, <3>2
  <2>5. \A h \in more : h \in HeardRec /\ (h = new \/ h \in m.heard)
    BY <1>0, <2>3
  <2>. HIDE DEF more
  <2>6. /\ v \in MarkRec /\ v.heard = more /\ v.sighted = m.sighted /\ v.inc = m.inc /\ v.acc = m.acc
    BY <1>0, <2>5 DEF MarkRec
  <2>. HIDE DEF v
  <2>7. MarkOK(v)
    BY <1>0, <1>3, <2>3, <2>4, <2>5, <2>6 DEF MarkOK, Beyond
  <2>. HIDE DEF known
  <2>8. \A h \in more : (h.inc = tok.inc /\ h.n = tok.n) \/ \E g \in m.heard : g.inc = h.inc /\ g.n = h.n
    BY <2>3, <2>5
  <2>9. /\ MarkOK(MoveOn(v)) /\ MoveOn(v).sighted = m.sighted /\ MoveOn(v).inc = m.inc /\ MoveOn(v).acc >= m.acc
        /\ MoveOn(v).heard \subseteq more
        /\ \A n \in m.acc + 1 .. MoveOn(v).acc : \E h \in more : h.inc = m.inc /\ h.n = n
    BY <2>6, <2>7, MovesOn
  <2>10. \A n \in m.acc + 1 .. MoveOn(v).acc :
              (tok.inc = m.inc /\ tok.n = n) \/ \E g \in m.heard : g.inc = m.inc /\ g.n = n
    BY <2>8, <2>9
  <2>. QED  BY <2>1, <2>8, <2>9, <2>10
<1>. QED  BY <1>1, <1>2, <1>3

\* recording an advance leaves the incarnation the mark is of
LEMMA RecordKeeps ==
  ASSUME NEW m, MarkOK(m), NEW tok \in Generations, NEW of \in Nat PROVE Record(m, tok, of).inc = m.inc
BY Records

\* settling a generation passes it, and beyond it only advances that were heard
LEMMA Settles ==
  ASSUME NEW m, MarkOK(m), NEW tok \in Generations, Drops(m, tok)
  PROVE  LET w == Settle(m, tok) IN
         /\ MarkOK(w)
         /\ w.inc = tok.inc /\ w.acc >= tok.n /\ w.heard \subseteq m.heard
         /\ \A n \in tok.n + 1 .. w.acc : \E g \in m.heard : g.inc = tok.inc /\ g.n = n
<1>. DEFINE rest == {h \in m.heard : h.inc = tok.inc /\ h.n > tok.n}
            v == [sighted |-> TRUE, inc |-> tok.inc, acc |-> tok.n, over |-> FALSE, heard |-> rest]
<1>0. /\ m \in MarkRec /\ IsFiniteSet(m.heard) /\ Cardinality(m.heard) \in Nat /\ Cardinality(m.heard) <= MaxHeard
      /\ m.heard \subseteq HeardRec /\ tok.inc \in Nat /\ tok.n \in Nat /\ MaxHeard \in Nat
  BY FS_CardinalityType, FollowAssumption DEF MarkOK, MarkRec, Generations
<1>1. Settle(m, tok) = MoveOn(v)
  BY DEF Settle
<1>2. rest \in SUBSET m.heard
  OBVIOUS
<1>3. IsFiniteSet(rest) /\ Cardinality(rest) <= MaxHeard
  BY <1>0, <1>2, FS_Subset, FS_CardinalityType
<1>4. \A h \in rest : h.n > tok.n
  OBVIOUS
<1>. HIDE DEF rest
<1>5. v \in MarkRec /\ v.inc = tok.inc /\ v.acc = tok.n /\ v.heard = rest /\ v.sighted
  BY <1>0, <1>2 DEF MarkRec
<1>. HIDE DEF v
<1>6. MarkOK(v)
  BY <1>3, <1>4, <1>5 DEF MarkOK, Beyond
<1>7. /\ MarkOK(MoveOn(v)) /\ MoveOn(v).inc = tok.inc /\ MoveOn(v).acc >= tok.n /\ MoveOn(v).heard \subseteq rest
      /\ \A n \in tok.n + 1 .. MoveOn(v).acc : \E h \in rest : h.inc = tok.inc /\ h.n = n
  BY <1>5, <1>6, MovesOn
<1>. QED  BY <1>1, <1>2, <1>7

-----------------------------------------------------------------------------
(* Types.                                                                  *)

Reads == [key : Keys, copy : Copies, seeds : BOOLEAN, newest : BOOLEAN, moved : BOOLEAN, dropped : BOOLEAN]
Messages == [to : Pods, key : Keys, tok : Generations, of : Nat]
WritePcs == {"idle", "evict", "marks", "advance", "clear", "announce"}
Writes == [pc : WritePcs, rows : SUBSET Keys, ids : SUBSET Nat, tok : Generations, of : Nat]
Pages == [pc : {"idle", "advance", "delete"}, ids : SUBSET Nat]

CopiesOK ==
  /\ l1 \in [Pods -> [Keys -> Copies]] /\ l2 \in [Pods -> [Keys -> Copies]]
  /\ suspect \in [Pods -> SUBSET Keys]
  /\ reading \in [Pods -> Reads \cup {NoRead}]

WritesOK ==
  /\ writing \in [Pods -> Writes]
  /\ net \subseteq Messages
  /\ hearing \in [Pods -> Messages \cup {NoMessage}]

BucketOK == bucket \in Generations /\ incarnations \in Nat /\ bucket.inc \in {0, incarnations}

QueueOK ==
  /\ commits \in Nat /\ marks \subseteq 1 .. commits
  /\ drain \in [Reconcilers -> Pages] /\ \A r \in Reconcilers : drain[r].ids \subseteq 1 .. commits

MarksOK ==
  /\ mark \in [Pods -> MarkRec] /\ \A p \in Pods : MarkOK(mark[p])
  /\ pending \in [Pods -> SUBSET Generations]

TypeInv == CopiesOK /\ WritesOK /\ BucketOK /\ QueueOK /\ MarksOK

\* the values the records start from
LEMMA GenerationType == ASSUME NEW i \in Nat, NEW n \in Nat PROVE [inc |-> i, n |-> n] \in Generations
BY DEF Generations

\* ... and the records that stand for nothing in flight
LEMMA NoneTypes ==
  /\ NoGeneration \in Generations /\ NoGeneration.inc = 0 /\ NoGeneration.n = 0
  /\ NoWrite \in Writes /\ NoWrite.pc = "idle" /\ NoWrite.ids = {} /\ NoWrite.tok = NoGeneration
  /\ NoPage \in Pages /\ NoPage.ids = {} /\ NoPage.pc = "idle"
<1>1. NoGeneration \in Generations /\ NoGeneration.inc = 0 /\ NoGeneration.n = 0
  BY DEF NoGeneration, Generations
<1>2. NoWrite \in Writes /\ NoWrite.pc = "idle" /\ NoWrite.ids = {} /\ NoWrite.tok = NoGeneration
  BY <1>1 DEF NoWrite, Writes, WritePcs
<1>. QED  BY <1>1, <1>2 DEF NoPage, Pages

\* a new process's mark is well formed
LEMMA NewMarkOK == MarkOK(NewMark) /\ NewMark \in MarkRec /\ ~NewMark.sighted /\ NewMark.heard = {} /\ NewMark.inc = 0 /\ NewMark.acc = 0
<1>1. IsFiniteSet({}) /\ Cardinality({}) = 0
  BY FS_EmptySet
<1>2. NewMark \in MarkRec /\ ~NewMark.sighted /\ NewMark.heard = {} /\ NewMark.inc = 0 /\ NewMark.acc = 0
  BY DEF NewMark, MarkRec
<1>3. 0 <= MaxHeard
  BY FollowAssumption
<1>. QED  BY <1>1, <1>2, <1>3 DEF MarkOK, Beyond

\* evicting from L1 and deleting from L2 keep the types of what they change
LEMMA EvictType ==
  ASSUME CopiesOK, NEW p \in Pods, NEW ks, EvictL1(p, ks)
  PROVE  l1' \in [Pods -> [Keys -> Copies]] /\ reading' \in [Pods -> Reads \cup {NoRead}]
<1>1. FenceRead(reading[p], ks) \in Reads \cup {NoRead}
  BY Zenon DEF CopiesOK, FenceRead, Reads
<1>2. [k \in Keys |-> IF k \in ks THEN NoCopy ELSE l1[p][k]] \in [Keys -> Copies]
  BY DEF CopiesOK, Copies
<1>. QED  BY <1>1, <1>2 DEF EvictL1, CopiesOK

\* ... and so does deleting from L2
LEMMA DeleteType ==
  ASSUME CopiesOK, NEW p \in Pods, NEW k \in Keys, DeleteL2(p, k)
  PROVE  l2' \in [Pods -> [Keys -> Copies]] /\ reading' \in [Pods -> Reads \cup {NoRead}]
<1>1. MoveRead(reading[p], k) \in Reads \cup {NoRead}
  BY Zenon DEF CopiesOK, MoveRead, Reads
<1>. QED  BY <1>1 DEF DeleteL2, CopiesOK, Copies

\* what pods hold and read keeps its type
LEMMA CopiesStep == ASSUME TypeInv, [Next]_vars PROVE CopiesOK'
<1>. USE DEF TypeInv
<1>1. ASSUME NEW p \in Pods, NEW k \in Keys, Lookup(p, k) PROVE CopiesOK'
  <2>. DEFINE trusted == l2[p][k] # NoCopy /\ k \notin suspect[p]
              c == IF trusted THEN l2[p][k] ELSE Fresh
              r == [key |-> k, copy |-> c, seeds |-> ~trusted, newest |-> TRUE, moved |-> FALSE, dropped |-> FALSE]
  <2>1. reading' = [reading EXCEPT ![p] = r] /\ UNCHANGED <<l1, l2, suspect>>
    BY <1>1 DEF Lookup
  <2>2. c \in Copies /\ (~trusted) \in BOOLEAN
    BY DEF CopiesOK, Copies
  <2>. HIDE DEF c, trusted
  <2>3. r \in Reads
    BY <2>2 DEF Reads
  <2>. QED  BY <2>1, <2>3 DEF CopiesOK
<1>2. ASSUME NEW p \in Pods, CacheRead(p) PROVE CopiesOK'
  <2>1. reading[p] \in Reads /\ reading[p].key \in Keys /\ reading[p].copy \in Copies
    BY <1>2 DEF CacheRead, CopiesOK, Reads
  <2>. DEFINE r == reading[p]
              newL2 == IF r.seeds /\ ~r.moved THEN r.copy ELSE l2[p][r.key]
              answer == IF r.seeds THEN newL2 ELSE r.copy
  <2>2. newL2 \in Copies /\ answer \in Copies
    BY <2>1, Zenon DEF CopiesOK
  <2>3. /\ l2' = [l2 EXCEPT ![p][r.key] = newL2]
        /\ l1' = [l1 EXCEPT ![p][r.key] = IF r.newest /\ answer # NoCopy THEN answer ELSE @]
        /\ suspect' = [suspect EXCEPT ![p] = IF r.seeds /\ ~r.dropped THEN @ \ {r.key} ELSE @]
        /\ reading' = [reading EXCEPT ![p] = NoRead]
    BY <1>2 DEF CacheRead
  <2>. HIDE DEF newL2, answer
  <2>. QED  BY <2>1, <2>2, <2>3, Zenon DEF CopiesOK
<1>3. ASSUME NEW ks, CommitRows(ks) PROVE CopiesOK'
  <2>1. \A c \in Copies : Age(c) \in Copies
    BY DEF Age, Copies
  <2>2. \A p \in Pods : AgeRead(reading[p], ks) \in Reads \cup {NoRead}
    BY <2>1, Zenon DEF AgeRead, CopiesOK, Reads
  <2>3. \A f \in [Keys -> Copies] : [k \in Keys |-> IF k \in ks THEN Age(f[k]) ELSE f[k]] \in [Keys -> Copies]
    BY <2>1
  <2>. QED  BY <1>3, <2>2, <2>3, Zenon DEF CommitRows, CopiesOK
<1>4. ASSUME NEW p \in Pods, EvictOwn(p) PROVE CopiesOK'
  BY <1>4, EvictType DEF EvictOwn, CopiesOK
<1>5. ASSUME NEW p \in Pods, NEW k \in Keys, AnnounceRow(p, k) PROVE CopiesOK'
  BY <1>5, DeleteType DEF AnnounceRow, CopiesOK
<1>6. ASSUME NEW p \in Pods, NEW m \in net, HearDelete(p, m) PROVE CopiesOK'
  <2>1. m.key \in Keys
    BY DEF WritesOK, Messages
  <2>. QED  BY <1>6, <2>1, DeleteType DEF HearDelete, CopiesOK
<1>7. ASSUME NEW p \in Pods, HearEvict(p) PROVE CopiesOK'
  BY <1>7, EvictType DEF HearEvict, CopiesOK
<1>8. ASSUME NEW p \in Pods, NEW tok, SettleGeneration(p, tok) PROVE CopiesOK'
  <2>1. CASE UNCHANGED <<l1, suspect, reading>>
    BY <1>8, <2>1 DEF SettleGeneration, CopiesOK
  <2>2. CASE DropTable(p)
    <3>1. (IF reading[p] = NoRead THEN reading[p] ELSE [reading[p] EXCEPT !.newest = FALSE, !.dropped = TRUE])
            \in Reads \cup {NoRead}
      BY Zenon DEF CopiesOK, Reads
    <3>2. [k \in Keys |-> NoCopy] \in [Keys -> Copies]
      BY DEF Copies
    <3>3. UNCHANGED l2
      BY <1>8 DEF SettleGeneration
    <3>. QED  BY <2>2, <3>1, <3>2, <3>3 DEF DropTable, CopiesOK
  <2>. QED  BY <1>8, <2>1, <2>2 DEF SettleGeneration
<1>9. ASSUME NEW p \in Pods, Restart(p) PROVE CopiesOK'
  <2>1. [k \in Keys |-> NoCopy] \in [Keys -> Copies]
    BY DEF Copies
  <2>. QED  BY <1>9, <2>1 DEF Restart, CopiesOK
<1>10. CASE UNCHANGED copies
  BY <1>10 DEF copies, CopiesOK
<1>11. ASSUME NEW p \in Writers, Write(p) PROVE CopiesOK'
  BY <1>3, <1>4, <1>5, <1>10, <1>11, FollowAssumption, Zenon
     DEF Write, Commit, MarksBeforeAdvance, Advance, AdvanceFails, ClearMarks
<1>12. ASSUME NEW p \in Readers, Read(p) \/ Hear(p) \/ CatchUp(p) PROVE CopiesOK'
  BY <1>1, <1>2, <1>6, <1>7, <1>8, <1>10, <1>12, FollowAssumption, Zenon DEF Read, Hear, CatchUp, ReadGeneration
<1>13. ASSUME NEW r \in Reconcilers, Drain(r) PROVE UNCHANGED copies
  BY <1>13 DEF Drain, ReadPage, AdvancePage, AdvancePageFails, DeletePage, DrainDies
<1>14. CASE Wipe \/ Mint \/ UNCHANGED vars
  BY <1>10, <1>14 DEF Wipe, Mint, vars
<1>. QED  BY <1>3, <1>9, <1>10, <1>11, <1>12, <1>13, <1>14 DEF Next, LostCommit

\* an advance moves the bucket one on, or mints an incarnation
LEMMA AdvanceType ==
  ASSUME BucketOK
  PROVE  /\ NextGeneration \in Generations
         /\ NextGeneration.inc = (IF bucket.inc = 0 THEN incarnations + 1 ELSE bucket.inc)
         /\ NextGeneration.n = (IF bucket.inc = 0 THEN 1 ELSE bucket.n + 1)
         /\ AdvanceBucket => BucketOK'
<1>1. bucket.inc \in Nat /\ bucket.n \in Nat /\ incarnations + 1 \in Nat
  BY DEF BucketOK, Generations
<1>2. CASE bucket.inc = 0
  <2>. DEFINE i == incarnations + 1
              z == 1
  <2>1. NextGeneration = [inc |-> i, n |-> z] /\ i \in Nat /\ z \in Nat
    BY <1>1, <1>2 DEF NextGeneration
  <2>2. AdvanceBucket => bucket' = NextGeneration /\ incarnations' = i
    BY <1>2 DEF AdvanceBucket
  <2>. HIDE DEF i, z
  <2>3. NextGeneration \in Generations /\ NextGeneration.inc = i /\ NextGeneration.n = z
    BY <2>1 DEF Generations
  <2>4. AdvanceBucket => BucketOK'
    BY <2>1, <2>2, <2>3 DEF BucketOK
  <2>. QED  BY <1>2, <2>3, <2>4 DEF i, z
<1>3. CASE bucket.inc # 0
  <2>1. NextGeneration = [bucket EXCEPT !.n = bucket.n + 1]
    BY <1>3 DEF NextGeneration
  <2>2. NextGeneration \in Generations /\ NextGeneration.inc = bucket.inc /\ NextGeneration.n = bucket.n + 1
    BY <1>1, <2>1 DEF BucketOK, Generations
  <2>3. AdvanceBucket => bucket' = NextGeneration /\ UNCHANGED incarnations
    BY <1>3 DEF AdvanceBucket
  <2>. QED  BY <1>3, <2>2, <2>3 DEF BucketOK
<1>. QED  BY <1>2, <1>3

\* a minted generation is the first of a new incarnation
LEMMA MintType ==
  ASSUME BucketOK, Mint
  PROVE  /\ bucket' \in Generations /\ bucket'.inc = incarnations + 1 /\ bucket'.n = 0
         /\ incarnations' = incarnations + 1 /\ incarnations \in Nat
BY NoneTypes DEF Mint, BucketOK, Generations

\* who may change the bucket
LEMMA BucketCases == ASSUME [Next]_vars PROVE AdvanceBucket \/ Wipe \/ Mint \/ UNCHANGED <<bucket, incarnations>>
<1>1. ASSUME NEW p, Write(p) PROVE AdvanceBucket \/ UNCHANGED <<bucket, incarnations>>
  BY <1>1, Zenon DEF Write, Commit, CommitRows, EvictOwn, MarksBeforeAdvance, Advance, AdvanceFails, ClearMarks, AnnounceRow
<1>2. ASSUME NEW p, Read(p) \/ Hear(p) \/ CatchUp(p) \/ Restart(p) PROVE UNCHANGED <<bucket, incarnations>>
  BY <1>2 DEF Read, Lookup, CacheRead, Hear, HearDelete, HearEvict, CatchUp, ReadGeneration, SettleGeneration, Restart
<1>3. ASSUME NEW r, Drain(r) PROVE AdvanceBucket \/ UNCHANGED <<bucket, incarnations>>
  BY <1>3 DEF Drain, ReadPage, AdvancePage, AdvancePageFails, DeletePage, DrainDies
<1>. QED  BY <1>1, <1>2, <1>3 DEF Next, vars, LostCommit, CommitRows

\* the bucket keeps its type
LEMMA BucketStep == ASSUME TypeInv, [Next]_vars PROVE BucketOK'
<1>. USE DEF TypeInv
<1>1. CASE AdvanceBucket
  BY <1>1, AdvanceType
<1>2. CASE UNCHANGED <<bucket, incarnations>>
  BY <1>2, Zenon DEF BucketOK
<1>3. CASE Wipe
  BY <1>3, NoneTypes DEF Wipe, BucketOK
<1>4. CASE Mint
  BY <1>4, MintType DEF BucketOK
<1>. QED  BY <1>1, <1>2, <1>3, <1>4, BucketCases, Zenon

\* marks and pages name commits that happened
LEMMA QueueStep == ASSUME TypeInv, [Next]_vars PROVE QueueOK'
<1>. USE DEF TypeInv
<1>1. ASSUME NEW ks, CommitRows(ks) PROVE QueueOK'
  <2>1. 1 .. commits \subseteq 1 .. commits + 1 /\ commits + 1 \in 1 .. commits + 1 /\ commits + 1 \in Nat
    BY DEF QueueOK
  <2>. QED  BY <1>1, <2>1, Zenon DEF CommitRows, QueueOK
<1>2. CASE marks' \subseteq marks /\ UNCHANGED <<commits, drain>>
  BY <1>2 DEF QueueOK
<1>3. ASSUME NEW r \in Reconcilers, NEW page \in Pages, page.ids \subseteq 1 .. commits,
             drain' = [drain EXCEPT ![r] = page], marks' \subseteq marks, UNCHANGED commits
      PROVE  QueueOK'
  BY <1>3 DEF QueueOK
<1>4. ASSUME NEW r \in Reconcilers, Drain(r) PROVE QueueOK'
  <2>1. drain[r] \in Pages /\ drain[r].ids \subseteq 1 .. commits
    BY DEF QueueOK
  <2>2. CASE ReadPage(r)
    <3>1. PICK page \in SUBSET marks : drain' = [drain EXCEPT ![r] = [pc |-> "advance", ids |-> page]]
      BY <2>2, Zenon DEF ReadPage
    <3>2. [pc |-> "advance", ids |-> page] \in Pages
      BY <3>1 DEF Pages, QueueOK
    <3>. QED  BY <1>3, <2>2, <3>1, <3>2, Zenon DEF ReadPage, QueueOK
  <2>3. CASE AdvancePage(r)
    <3>1. [drain[r] EXCEPT !.pc = "delete"] \in Pages /\ [drain[r] EXCEPT !.pc = "delete"].ids = drain[r].ids
      BY <2>1, Zenon DEF Pages
    <3>. QED  BY <1>3, <2>1, <2>3, <3>1, Zenon DEF AdvancePage
  <2>4. CASE AdvancePageFails(r) \/ DeletePage(r) \/ DrainDies(r)
    BY <1>3, <2>4, NoneTypes DEF AdvancePageFails, DeletePage, DrainDies
  <2>. QED  BY <1>4, <2>2, <2>3, <2>4, Zenon DEF Drain
<1>5. ASSUME NEW p, Write(p) PROVE QueueOK'
  BY <1>1, <1>2, <1>5, Zenon
     DEF Write, Commit, EvictOwn, MarksBeforeAdvance, Advance, AdvanceFails, ClearMarks, AnnounceRow, queue
<1>6. ASSUME NEW p, Read(p) \/ Hear(p) \/ CatchUp(p) \/ Restart(p) PROVE QueueOK'
  BY <1>2, <1>6
     DEF Read, Lookup, CacheRead, Hear, HearDelete, HearEvict, CatchUp, ReadGeneration, SettleGeneration, Restart, queue
<1>7. CASE Wipe \/ Mint \/ UNCHANGED vars
  BY <1>2, <1>7 DEF Wipe, Mint, vars, queue
<1>. QED  BY <1>1, <1>4, <1>5, <1>6, <1>7, Zenon DEF Next, LostCommit

\* every mark stays well formed
LEMMA MarksStep == ASSUME TypeInv, [Next]_vars PROVE MarksOK'
<1>. USE DEF TypeInv
<1>1. ASSUME NEW p \in Pods, NEW m, MarkOK(m), mark' = [mark EXCEPT ![p] = m],
             pending' \in [Pods -> SUBSET Generations]
      PROVE  MarksOK'
  BY <1>1 DEF MarksOK, MarkOK
<1>2. ASSUME NEW p \in Pods, Advance(p) PROVE MarksOK'
  <2>1. MarkOK(Record(mark[p], NextGeneration, 1))
    BY AdvanceType, Records DEF MarksOK
  <2>. QED  BY <1>1, <1>2, <2>1, Zenon DEF Advance, MarksOK
<1>3. ASSUME NEW p \in Pods, HearEvict(p) PROVE MarksOK'
  <2>1. hearing[p].tok \in Generations /\ hearing[p].of \in Nat
    BY <1>3, Zenon DEF HearEvict, WritesOK, Messages
  <2>2. MarkOK(mark[p]) /\ MarkOK(Record(mark[p], hearing[p].tok, hearing[p].of))
    BY <2>1, Records, Zenon DEF MarksOK
  <2>. QED  BY <1>1, <1>3, <2>2, Zenon DEF HearEvict, MarksOK
<1>4. ASSUME NEW p \in Pods, ReadGeneration(p) PROVE MarksOK'
  BY <1>4 DEF ReadGeneration, MarksOK, BucketOK
<1>5. ASSUME NEW p \in Pods, NEW tok \in pending[p], SettleGeneration(p, tok) PROVE MarksOK'
  <2>1. tok \in Generations /\ MarkOK(mark[p])
    BY DEF MarksOK
  <2>2. MarkOK(Settle(mark[p], tok))
    <3>1. CASE Drops(mark[p], tok)
      BY <2>1, <3>1, Settles, Zenon
    <3>2. CASE ~Drops(mark[p], tok)
      BY <2>1, <3>2, Zenon DEF Settle
    <3>. QED  BY <3>1, <3>2, Zenon
  <2>3. pending' \in [Pods -> SUBSET Generations]
    BY <1>5, Zenon DEF SettleGeneration, MarksOK
  <2>. QED  BY <1>1, <1>5, <2>2, <2>3, Zenon DEF SettleGeneration
<1>6. ASSUME NEW p \in Pods, Restart(p) PROVE MarksOK'
  BY <1>1, <1>6, NewMarkOK DEF Restart, MarksOK
<1>7. CASE UNCHANGED <<mark, pending>>
  BY <1>7 DEF MarksOK
<1>8. ASSUME NEW p \in Writers, Write(p) PROVE MarksOK'
  BY <1>2, <1>7, <1>8, FollowAssumption, Zenon
     DEF Write, Commit, CommitRows, EvictOwn, MarksBeforeAdvance, AdvanceFails, ClearMarks, AnnounceRow
<1>9. ASSUME NEW p \in Readers, Read(p) \/ Hear(p) \/ CatchUp(p) PROVE MarksOK'
  BY <1>3, <1>4, <1>5, <1>7, <1>9, FollowAssumption, Zenon DEF Read, Lookup, CacheRead, Hear, HearDelete, CatchUp
<1>10. ASSUME NEW r, Drain(r) PROVE MarksOK'
  BY <1>7, <1>10 DEF Drain, ReadPage, AdvancePage, AdvancePageFails, DeletePage, DrainDies
<1>11. CASE Wipe \/ Mint \/ UNCHANGED vars \/ \E ks \in LostRowSets : LostCommit(ks)
  BY <1>7, <1>11, Zenon DEF Wipe, Mint, vars, LostCommit, CommitRows
<1>. QED  BY <1>6, <1>8, <1>9, <1>10, <1>11, Zenon DEF Next

\* writes and broadcasts keep their types
LEMMA WritesStep == ASSUME TypeInv, [Next]_vars PROVE WritesOK'
<1>. USE DEF TypeInv
<1>1. ASSUME NEW p \in Pods, NEW w \in Writes, writing' = [writing EXCEPT ![p] = w], UNCHANGED <<net, hearing>>
      PROVE  WritesOK'
  BY <1>1 DEF WritesOK
<1>2. ASSUME NEW p \in Pods, NEW ks \in RowSets, Commit(p, ks) PROVE WritesOK'
  <2>. DEFINE c == Cardinality(ks)
  <2>1. ks \in SUBSET Keys /\ c \in Nat
    BY FollowAssumption, FS_Subset, FS_CardinalityType
  <2>2. writing' = [writing EXCEPT ![p] = [NoWrite EXCEPT !.pc = "evict", !.rows = ks, !.of = c]] /\ UNCHANGED <<net, hearing>>
    BY <1>2 DEF Commit, CommitRows
  <2>. HIDE DEF c
  <2>3. [NoWrite EXCEPT !.pc = "evict", !.rows = ks, !.of = c] \in Writes
    BY <2>1, NoneTypes, Zenon DEF Writes, WritePcs
  <2>. QED  BY <1>1, <2>2, <2>3, Zenon
<1>3. ASSUME NEW p \in Pods, EvictOwn(p) \/ MarksBeforeAdvance(p) \/ Advance(p) \/ AdvanceFails(p) \/ ClearMarks(p)
      PROVE  WritesOK'
  <2>1. writing[p] \in Writes
    BY DEF WritesOK
  <2>2. ASSUME NEW pc \in WritePcs, NEW ids \in SUBSET Nat, NEW tok \in Generations
        PROVE  [writing[p] EXCEPT !.pc = pc, !.ids = ids, !.tok = tok] \in Writes
    BY <2>1, Zenon DEF Writes
  <2>3. \E w \in Writes : writing' = [writing EXCEPT ![p] = w]
    <3>0. ASSUME NEW pc \in WritePcs, writing' = [writing EXCEPT ![p].pc = pc]
          PROVE  \E w \in Writes : writing' = [writing EXCEPT ![p] = w]
      <4>1. [writing[p] EXCEPT !.pc = pc] \in Writes
        BY <2>1 DEF Writes
      <4>2. writing' = [writing EXCEPT ![p] = [writing[p] EXCEPT !.pc = pc]]
        BY <3>0
      <4>. QED  BY <4>1, <4>2, Zenon
    <3>1. CASE EvictOwn(p)
      <4>. DEFINE pc == IF ClearsMarks THEN "marks" ELSE "advance"
      <4>1. pc \in WritePcs /\ writing' = [writing EXCEPT ![p].pc = pc]
        BY <3>1 DEF EvictOwn, WritePcs
      <4>. HIDE DEF pc
      <4>. QED  BY <3>0, <4>1, Zenon
    <3>2. CASE MarksBeforeAdvance(p)
      <4>1. PICK covered \in {marks, {}} : writing' = [writing EXCEPT ![p].pc = "advance", ![p].ids = covered]
        BY <3>2, Zenon DEF MarksBeforeAdvance
      <4>2. covered \in SUBSET Nat /\ "advance" \in WritePcs /\ writing[p].tok \in Generations
        BY <2>1, <4>1 DEF QueueOK, WritePcs, Writes
      <4>3. writing' = [writing EXCEPT ![p] = [writing[p] EXCEPT !.pc = "advance", !.ids = covered, !.tok = writing[p].tok]]
        BY <2>1, <4>1, Zenon DEF WritesOK, Writes
      <4>. QED  BY <2>2, <4>2, <4>3, Zenon
    <3>3. CASE Advance(p)
      <4>. DEFINE pc == IF writing[p].ids = {} THEN "announce" ELSE "clear"
      <4>1. writing' = [writing EXCEPT ![p].tok = NextGeneration, ![p].pc = pc]
        BY <3>3 DEF Advance
      <4>2. pc \in WritePcs /\ writing[p].ids \in SUBSET Nat /\ NextGeneration \in Generations
        BY <2>1, AdvanceType DEF WritePcs, Writes
      <4>. HIDE DEF pc
      <4>3. writing' = [writing EXCEPT ![p] = [writing[p] EXCEPT !.pc = pc, !.ids = writing[p].ids, !.tok = NextGeneration]]
        BY <2>1, <4>1, Zenon DEF WritesOK, Writes
      <4>. QED  BY <2>2, <4>2, <4>3, Zenon
    <3>4. CASE AdvanceFails(p) \/ ClearMarks(p)
      <4>1. "announce" \in WritePcs /\ writing' = [writing EXCEPT ![p].pc = "announce"]
        BY <3>4 DEF AdvanceFails, ClearMarks, WritePcs
      <4>. QED  BY <3>0, <4>1, Zenon
    <3>. QED  BY <1>3, <3>1, <3>2, <3>3, <3>4, Zenon
  <2>4. UNCHANGED <<net, hearing>>
    BY <1>3 DEF EvictOwn, MarksBeforeAdvance, Advance, AdvanceFails, ClearMarks
  <2>. QED  BY <1>1, <2>3, <2>4, Zenon
<1>4. ASSUME NEW p \in Pods, NEW k \in Keys, AnnounceRow(p, k) PROVE WritesOK'
  <2>1. writing[p] \in Writes
    BY DEF WritesOK
  <2>. DEFINE w == IF writing[p].rows = {k} THEN NoWrite ELSE [writing[p] EXCEPT !.rows = @ \ {k}]
  <2>2. w \in Writes /\ writing' = [writing EXCEPT ![p] = w]
    <3>1. w \in Writes
      BY <2>1, NoneTypes, Zenon DEF Writes
    <3>. QED  BY <1>4, <3>1 DEF AnnounceRow
  <2>3. \A q \in Readers \ {p} : [to |-> q, key |-> k, tok |-> writing[p].tok, of |-> writing[p].of] \in Messages
    BY <2>1, FollowAssumption DEF Messages, Writes
  <2>4. net' \subseteq Messages
    BY <1>4, <2>3 DEF AnnounceRow, WritesOK
  <2>. HIDE DEF w
  <2>5. writing' \in [Pods -> Writes]
    BY <2>2, Zenon DEF WritesOK
  <2>. QED  BY <1>4, <2>4, <2>5 DEF AnnounceRow, WritesOK
<1>5. ASSUME NEW p \in Pods, Hear(p) \/ Restart(p) PROVE WritesOK'
  BY <1>5, NoneTypes DEF Hear, HearDelete, HearEvict, Restart, WritesOK
<1>6. CASE UNCHANGED <<writing, net, hearing>>
  BY <1>6, Zenon DEF WritesOK
<1>7. ASSUME NEW p \in Readers, Read(p) \/ CatchUp(p) PROVE WritesOK'
  BY <1>6, <1>7, Zenon DEF Read, Lookup, CacheRead, CatchUp, ReadGeneration, SettleGeneration
<1>8. ASSUME NEW r, Drain(r) PROVE WritesOK'
  BY <1>6, <1>8 DEF Drain, ReadPage, AdvancePage, AdvancePageFails, DeletePage, DrainDies
<1>9. CASE Wipe \/ Mint \/ UNCHANGED vars \/ \E ks \in LostRowSets : LostCommit(ks)
  BY <1>6, <1>9 DEF Wipe, Mint, vars, LostCommit, CommitRows
<1>. QED  BY <1>2, <1>3, <1>4, <1>5, <1>7, <1>8, <1>9, FollowAssumption, Zenon DEF Next, Write

\* the initial state has the types
LEMMA TypeInit == Init => TypeInv
<1>. SUFFICES ASSUME Init PROVE TypeInv
  OBVIOUS
<1>1. CopiesOK /\ WritesOK
  BY NoneTypes, Zenon DEF Init, CopiesOK, WritesOK, Copies
<1>2. BucketOK
  <2>1. [inc |-> 1, n |-> 0] \in Generations
    BY GenerationType, Zenon
  <2>. QED  BY <2>1, NoneTypes, Zenon DEF Init, BucketOK, Generations
<1>3. QueueOK
  BY NoneTypes, Zenon DEF Init, QueueOK
<1>4. MarksOK
  BY NewMarkOK DEF Init, MarksOK
<1>. QED  BY <1>1, <1>2, <1>3, <1>4 DEF TypeInv

\* every step keeps the types
LEMMA TypeStep == ASSUME TypeInv, [Next]_vars PROVE TypeInv'
BY CopiesStep, WritesStep, BucketStep, QueueStep, MarksStep, Zenon DEF TypeInv

\* Every variable keeps its type, and a mark remembers at most MaxHeard advances, each beyond the
\* one it stands at (GenerationMarks.record, settle), however messages, restarts and wipes fall.
THEOREM TypeCorrect == Spec => []TypeOK
<1>1. TypeInv => TypeOK
  <2>. SUFFICES ASSUME TypeInv PROVE TypeOK
    OBVIOUS
  <2>1. \A p \in Pods : reading[p] = NoRead \/ reading[p].copy \in Copies
    BY DEF TypeInv, CopiesOK, Reads
  <2>2. \A p \in Pods : writing[p].pc \in {"idle", "evict", "marks", "advance", "clear", "announce"}
    BY Zenon DEF TypeInv, WritesOK, Writes, WritePcs
  <2>3. \A p \in Pods : LET m == mark[p] IN
          /\ m.inc \in Nat /\ m.acc \in Nat /\ Cardinality(m.heard) <= MaxHeard
          /\ m.sighted => \A h \in m.heard : h.inc = m.inc => h.n > m.acc
    BY Zenon DEF TypeInv, MarksOK, MarkOK, MarkRec, Beyond
  <2>. QED  BY <2>1, <2>2, <2>3 DEF TypeInv, TypeOK, CopiesOK, BucketOK, QueueOK, MarksOK
<1>. QED  BY <1>1, TypeInit, TypeStep, PTL DEF Spec

-----------------------------------------------------------------------------
(* No silent miss, of writers that leave the mark queue to the reconciler. *)

\* generation (i, n) was written to a bucket of which b is the latest value, c buckets minted so far
Known(b, c, i, n) == i <= c /\ (i = 0 => n = 0) /\ (i = b.inc => n <= b.n)

\* (i, n) is none of the generations of U
Avoids(U, i, n) == \A u \in U : ~(u.inc = i /\ u.n = n)

MarkSent(U, b, c, m) ==
  /\ Known(b, c, m.inc, m.acc)
  /\ \A h \in m.heard : Known(b, c, h.inc, h.n) /\ Avoids(U, h.inc, h.n)

Sent(U, tok) == Known(bucket, incarnations, tok.inc, tok.n) /\ Avoids(U, tok.inc, tok.n)

\* U: generations of the reconciler's advances, which no broadcast names, so that no pod hears of them
SentInv(U) ==
  /\ U \subseteq Generations
  /\ \A u \in U : u.inc # 0 /\ Known(bucket, incarnations, u.inc, u.n)
  /\ Known(bucket, incarnations, bucket.inc, bucket.n)
  /\ \A p \in Pods : \A tok \in pending[p] : Known(bucket, incarnations, tok.inc, tok.n)
  /\ \A p \in Pods : Sent(U, writing[p].tok)
  /\ \A m \in net : Sent(U, m.tok)
  /\ \A p \in Pods : hearing[p] # NoMessage => Sent(U, hearing[p].tok)
  /\ \A p \in Pods : MarkSent(U, bucket, incarnations, mark[p])

\* what a read in flight knows of the drops and deletes it met
ReadInv ==
  \A p \in Pods : LET r == reading[p] IN
    r # NoRead => /\ r.dropped => ~r.newest /\ r.key \in suspect[p]
                  /\ r.moved => l2[p][r.key] = NoCopy

\* no writer clears marks
LeavesMarks == \A p \in Pods : writing[p].pc \notin {"marks", "clear"} /\ writing[p].ids = {}

\* a read in flight may still cache a stale row
Carries(p) == reading[p] # NoRead /\ reading[p].copy = Stale /\ ~reading[p].dropped

StaleAt(p, k) == l1[p][k] = Stale \/ (l2[p][k] = Stale /\ k \notin suspect[p])

Holds(p) == Carries(p) \/ \E k \in Keys : StaleAt(p, k)

\* a mark no reconciler is about to delete
Uncovered == \E i \in marks : \A r \in Reconcilers : drain[r].pc = "delete" => i \notin drain[r].ids

\* a pod with mark m drops the table when it judges b
Safe(U, b, m) == ~m.sighted \/ m.inc # b.inc \/ \E u \in U : u.inc = b.inc /\ m.acc < u.n

\* a pod that holds a stale row is owed its repair
RepairInv(U) == \A p \in Pods : Holds(p) => Uncovered \/ Safe(U, bucket, mark[p]) \/ Blank(p)

\* a pod serves a stale row when one of its keys is stale to it
LEMMA ServesStaleAt == ASSUME NEW p \in Pods PROVE ServesStale(p) <=> \E k \in Keys : StaleAt(p, k)
BY Zenon DEF ServesStale, Servable, StaleAt

\* a generation that was written stays one that was
LEMMA KnownKept ==
  ASSUME TypeInv, Known(bucket, incarnations, bucket.inc, bucket.n), [Next]_vars
  PROVE  /\ \A i, n \in Nat : Known(bucket, incarnations, i, n) => Known(bucket', incarnations', i, n)
         /\ Known(bucket', incarnations', bucket'.inc, bucket'.n)
<1>1. bucket.inc \in Nat /\ bucket.n \in Nat /\ incarnations \in Nat /\ bucket.inc \in {0, incarnations}
  BY DEF TypeInv, BucketOK, Generations
<1>2. CASE AdvanceBucket
  <2>1. /\ bucket'.inc = (IF bucket.inc = 0 THEN incarnations + 1 ELSE bucket.inc)
        /\ bucket'.n = (IF bucket.inc = 0 THEN 1 ELSE bucket.n + 1)
        /\ incarnations' = (IF bucket.inc = 0 THEN incarnations + 1 ELSE incarnations)
    BY <1>2, AdvanceType DEF AdvanceBucket, TypeInv
  <2>. QED  BY <1>1, <2>1 DEF Known
<1>3. CASE Wipe
  <2>1. bucket'.inc = 0 /\ bucket'.n = 0 /\ incarnations' = incarnations
    BY <1>3, NoneTypes DEF Wipe
  <2>. QED  BY <1>1, <2>1 DEF Known
<1>4. CASE UNCHANGED <<bucket, incarnations>>
  BY <1>4
<1>5. CASE Mint
  BY <1>1, <1>5, MintType DEF Known, TypeInv
<1>. QED  BY <1>2, <1>3, <1>4, <1>5, BucketCases, Zenon

\* the next generation is one no token names yet
LEMMA NextIsNew ==
  ASSUME BucketOK, AdvanceBucket
  PROVE  /\ bucket' = NextGeneration /\ NextGeneration \in Generations
         /\ NextGeneration.inc # 0
         /\ \A i, n \in Nat : Known(bucket, incarnations, i, n) => ~(NextGeneration.inc = i /\ NextGeneration.n = n)
         /\ \A i, n \in Nat : Known(bucket, incarnations, i, n) => i # bucket'.inc \/ n < NextGeneration.n
         /\ Known(bucket', incarnations', NextGeneration.inc, NextGeneration.n)
<1>1. bucket.inc \in Nat /\ bucket.n \in Nat /\ incarnations \in Nat /\ bucket.inc \in {0, incarnations}
  BY DEF BucketOK, Generations
<1>2. /\ bucket' = NextGeneration /\ NextGeneration \in Generations
      /\ NextGeneration.inc = (IF bucket.inc = 0 THEN incarnations + 1 ELSE bucket.inc)
      /\ NextGeneration.n = (IF bucket.inc = 0 THEN 1 ELSE bucket.n + 1)
      /\ incarnations' = (IF bucket.inc = 0 THEN incarnations + 1 ELSE incarnations)
  BY AdvanceType, Zenon DEF AdvanceBucket
<1>. QED  BY <1>1, <1>2 DEF Known

\* recording a broadcast advance keeps a mark before the advances of U
LEMMA RecordSent ==
  ASSUME NEW U \in SUBSET Generations, NEW b \in Generations, NEW c \in Nat, NEW m, MarkOK(m), MarkSent(U, b, c, m),
         NEW tok \in Generations, Known(b, c, tok.inc, tok.n), Avoids(U, tok.inc, tok.n), NEW of \in Nat
  PROVE  /\ MarkSent(U, b, c, Record(m, tok, of))
         /\ Safe(U, b, m) => Safe(U, b, Record(m, tok, of))
<1>. DEFINE w == Record(m, tok, of)
<1>1. /\ MarkOK(w) /\ w.sighted = m.sighted /\ w.inc = m.inc /\ w.acc >= m.acc
      /\ \A h \in w.heard : (h.inc = tok.inc /\ h.n = tok.n) \/ \E g \in m.heard : g.inc = h.inc /\ g.n = h.n
      /\ \A n \in m.acc + 1 .. w.acc :
           (tok.inc = m.inc /\ tok.n = n) \/ \E g \in m.heard : g.inc = m.inc /\ g.n = n
  BY Records, ZenonT(30)
<1>. HIDE DEF w
<1>2. m.acc \in Nat /\ w.acc \in Nat /\ m.inc \in Nat
  BY <1>1 DEF MarkOK, MarkRec
<1>3. \A n \in m.acc + 1 .. w.acc : Known(b, c, m.inc, n) /\ Avoids(U, m.inc, n)
  BY <1>1 DEF MarkSent
<1>4. Known(b, c, w.inc, w.acc)
  <2>1. CASE w.acc = m.acc
    BY <1>1, <2>1 DEF MarkSent
  <2>2. CASE w.acc # m.acc
    <3>1. w.acc \in m.acc + 1 .. w.acc
      BY <1>1, <1>2, <2>2
    <3>. QED  BY <1>1, <1>3, <3>1, Zenon
  <2>. QED  BY <2>1, <2>2
<1>5. \A h \in w.heard : Known(b, c, h.inc, h.n) /\ Avoids(U, h.inc, h.n)
  BY <1>1, Zenon DEF MarkSent
<1>6. ASSUME Safe(U, b, m) PROVE Safe(U, b, w)
  <2>1. CASE ~m.sighted \/ m.inc # b.inc
    BY <1>1, <2>1, Zenon DEF Safe
  <2>2. ASSUME NEW u \in U, u.inc = b.inc, m.acc < u.n, m.inc = b.inc PROVE w.acc < u.n
    <3>1. u.n \in Nat
      BY DEF Generations
    <3>2. SUFFICES ASSUME u.n <= w.acc PROVE FALSE
      BY <1>2, <3>1
    <3>3. u.n \in m.acc + 1 .. w.acc
      BY <1>2, <2>2, <3>1, <3>2
    <3>. QED  BY <1>3, <2>2, <3>3, Zenon DEF Avoids
  <2>. QED  BY <1>6, <2>1, <2>2, Zenon DEF Safe
<1>. QED  BY <1>4, <1>5, <1>6 DEF MarkSent, w

\* settling a generation that was written leaves a mark at one that was
LEMMA SettleSent ==
  ASSUME NEW U, NEW b, NEW c, NEW m, MarkOK(m), MarkSent(U, b, c, m),
         NEW tok \in Generations, Known(b, c, tok.inc, tok.n)
  PROVE  MarkSent(U, b, c, Settle(m, tok))
<1>. DEFINE w == Settle(m, tok)
<1>1. CASE Drops(m, tok)
  <2>1. /\ MarkOK(w) /\ w.inc = tok.inc /\ w.acc >= tok.n /\ w.heard \subseteq m.heard
        /\ \A n \in tok.n + 1 .. w.acc : \E g \in m.heard : g.inc = tok.inc /\ g.n = n
    BY <1>1, Settles
  <2>. HIDE DEF w
  <2>2. tok.n \in Nat /\ w.acc \in Nat
    BY <2>1, Zenon DEF MarkOK, MarkRec, Generations
  <2>3. \A n \in tok.n + 1 .. w.acc : Known(b, c, tok.inc, n)
    BY <2>1, Zenon DEF MarkSent
  <2>4. Known(b, c, w.inc, w.acc)
    <3>1. CASE w.acc = tok.n
      BY <2>1, <3>1, Zenon
    <3>2. CASE w.acc # tok.n
      <4>1. w.acc \in tok.n + 1 .. w.acc
        BY <2>1, <2>2, <3>2
      <4>. QED  BY <2>1, <2>3, <4>1, Zenon
    <3>. QED  BY <3>1, <3>2, Zenon
  <2>. QED  BY <2>1, <2>4, Zenon DEF MarkSent, w
<1>2. CASE ~Drops(m, tok)
  BY <1>2, Zenon DEF Settle
<1>. QED  BY <1>1, <1>2, Zenon

\* a read the table was dropped under caches nothing in L1, and its key stays suspect
LEMMA ReadStep == ASSUME TypeInv, ReadInv, [Next]_vars PROVE ReadInv'
<1>. USE DEF TypeInv, CopiesOK
<1>0. ASSUME NEW p \in Pods, NEW r \in Reads \cup {NoRead}, reading' = [reading EXCEPT ![p] = r],
             \A q \in Pods \ {p} : suspect'[q] = suspect[q],
             \A q \in Pods \ {p} : \A k \in Keys : l2[q][k] = NoCopy => l2'[q][k] = NoCopy,
             r # NoRead => /\ r.dropped => ~r.newest /\ r.key \in suspect'[p]
                           /\ r.moved => l2'[p][r.key] = NoCopy
      PROVE  ReadInv'
  <2>1. \A q \in Pods \ {p} : reading'[q] = reading[q] /\ (reading[q] # NoRead => reading[q].key \in Keys)
    BY <1>0, Zenon DEF Reads
  <2>2. reading'[p] = r
    BY <1>0, Zenon
  <2>. QED  BY <1>0, <2>1, <2>2, Zenon DEF ReadInv
<1>01. ASSUME NEW p \in Pods, reading[p] # NoRead
       PROVE  /\ reading[p] \in Reads /\ reading[p].key \in Keys
              /\ reading[p].dropped => ~reading[p].newest /\ reading[p].key \in suspect[p]
              /\ reading[p].moved => l2[p][reading[p].key] = NoCopy
  BY <1>01 DEF ReadInv, Reads
<1>1. ASSUME NEW p \in Pods, NEW k \in Keys, Lookup(p, k) PROVE ReadInv'
  <2>1. PICK r \in [key : {k}, copy : Copies, seeds : BOOLEAN, newest : {TRUE}, moved : {FALSE}, dropped : {FALSE}] :
          reading' = [reading EXCEPT ![p] = r]
    <3>. DEFINE c == IF l2[p][k] # NoCopy /\ k \notin suspect[p] THEN l2[p][k] ELSE Fresh
                s == ~(l2[p][k] # NoCopy /\ k \notin suspect[p])
    <3>1. s \in BOOLEAN /\ reading' = [reading EXCEPT ![p] = [key |-> k, copy |-> c, seeds |-> s,
                                         newest |-> TRUE, moved |-> FALSE, dropped |-> FALSE]]
      BY <1>1 DEF Lookup
    <3>2. c \in Copies
      BY DEF Copies
    <3>. HIDE DEF c, s
    <3>. QED  BY <3>1, <3>2, Zenon
  <2>2. r \in Reads /\ ~r.dropped /\ ~r.moved
    BY Zenon DEF Reads
  <2>3. UNCHANGED <<l2, suspect>>
    BY <1>1, Zenon DEF Lookup
  <2>. QED  BY <1>0, <2>1, <2>2, <2>3, Zenon
<1>2. ASSUME NEW p \in Pods, CacheRead(p) PROVE ReadInv'
  BY <1>2, Zenon DEF CacheRead, ReadInv
<1>3. ASSUME NEW ks, CommitRows(ks) PROVE ReadInv'
  <2>1. ASSUME NEW p \in Pods, reading'[p] # NoRead
        PROVE  /\ reading[p] # NoRead /\ reading'[p].key = reading[p].key /\ reading'[p].newest = reading[p].newest
               /\ reading'[p].moved = reading[p].moved /\ reading'[p].dropped = reading[p].dropped
    <3>1. reading'[p] = AgeRead(reading[p], ks)
      BY <1>3, Zenon DEF CommitRows
    <3>. QED  BY <2>1, <3>1 DEF AgeRead, Reads
  <2>2. \A p \in Pods, k \in Keys : l2[p][k] = NoCopy => l2'[p][k] = NoCopy
    BY <1>3, Zenon DEF CommitRows, Age, NoCopy, Fresh
  <2>3. UNCHANGED suspect
    BY <1>3 DEF CommitRows
  <2>. QED  BY <1>01, <2>1, <2>2, <2>3 DEF ReadInv
<1>4. ASSUME NEW p \in Pods, NEW ks, EvictL1(p, ks), UNCHANGED <<l2, suspect>> PROVE ReadInv'
  <2>. DEFINE r == FenceRead(reading[p], ks)
  <2>1. reading' = [reading EXCEPT ![p] = r]
    BY <1>4 DEF EvictL1
  <2>2. /\ r \in Reads \cup {NoRead}
        /\ r # NoRead => /\ reading[p] # NoRead /\ r.key = reading[p].key /\ r.newest \in {reading[p].newest, FALSE}
                         /\ r.dropped = reading[p].dropped /\ r.moved = reading[p].moved
    BY Zenon DEF FenceRead, Reads
  <2>. HIDE DEF r
  <2>. QED  BY <1>0, <1>01, <1>4, <2>1, <2>2, Zenon
<1>5. ASSUME NEW p \in Pods, NEW k \in Keys, DeleteL2(p, k), UNCHANGED suspect PROVE ReadInv'
  <2>. DEFINE r == MoveRead(reading[p], k)
  <2>1. reading' = [reading EXCEPT ![p] = r]
    BY <1>5 DEF DeleteL2
  <2>2. /\ r \in Reads \cup {NoRead}
        /\ r # NoRead => /\ reading[p] # NoRead /\ r.key = reading[p].key /\ r.newest = reading[p].newest
                         /\ r.dropped = reading[p].dropped /\ (r.moved = reading[p].moved \/ r.key = k)
    BY Zenon DEF MoveRead, Reads
  <2>3. l2'[p][k] = NoCopy /\ \A q \in Pods, j \in Keys : l2[q][j] = NoCopy => l2'[q][j] = NoCopy
    BY <1>5, Zenon DEF DeleteL2
  <2>. HIDE DEF r
  <2>. QED  BY <1>0, <1>01, <1>5, <2>1, <2>2, <2>3, Zenon
<1>6. ASSUME NEW p \in Pods, NEW tok, SettleGeneration(p, tok) PROVE ReadInv'
  <2>1. CASE UNCHANGED <<l1, suspect, reading>>
    BY <1>6, <2>1 DEF SettleGeneration, ReadInv
  <2>2. CASE DropTable(p)
    <3>. DEFINE r == IF reading[p] = NoRead THEN reading[p] ELSE [reading[p] EXCEPT !.newest = FALSE, !.dropped = TRUE]
    <3>1. reading' = [reading EXCEPT ![p] = r]
      BY <2>2 DEF DropTable
    <3>2. /\ r \in Reads \cup {NoRead}
          /\ r # NoRead => /\ reading[p] # NoRead /\ r.key = reading[p].key /\ ~r.newest
                           /\ r.moved = reading[p].moved
      BY Zenon DEF Reads
    <3>3. suspect' = [suspect EXCEPT ![p] = Keys] /\ UNCHANGED l2
      BY <1>6, <2>2, Zenon DEF DropTable, SettleGeneration
    <3>. HIDE DEF r
    <3>. QED  BY <1>0, <1>01, <3>1, <3>2, <3>3, Zenon
  <2>. QED  BY <1>6, <2>1, <2>2, Zenon DEF SettleGeneration
<1>7. ASSUME NEW p \in Pods, Restart(p) PROVE ReadInv'
  BY <1>7, Zenon DEF Restart, ReadInv
<1>8. CASE UNCHANGED <<l2, suspect, reading>>
  BY <1>8 DEF ReadInv
<1>9. ASSUME NEW p \in Writers, Write(p) PROVE ReadInv'
  BY <1>3, <1>4, <1>5, <1>8, <1>9, FollowAssumption, Zenon
     DEF Write, Commit, EvictOwn, MarksBeforeAdvance, Advance, AdvanceFails, ClearMarks, AnnounceRow, copies
<1>10. ASSUME NEW p \in Readers, Hear(p) PROVE ReadInv'
  <2>1. \A m \in net : m.key \in Keys
    BY Zenon DEF WritesOK, Messages
  <2>. QED  BY <1>4, <1>5, <1>10, <2>1, FollowAssumption, Zenon DEF Hear, HearDelete, HearEvict
<1>11. ASSUME NEW p \in Readers, Read(p) \/ CatchUp(p) PROVE ReadInv'
  BY <1>1, <1>2, <1>6, <1>8, <1>11, FollowAssumption, Zenon DEF Read, CatchUp, ReadGeneration, copies
<1>12. ASSUME NEW r, Drain(r) PROVE ReadInv'
  BY <1>8, <1>12 DEF Drain, ReadPage, AdvancePage, AdvancePageFails, DeletePage, DrainDies, copies
<1>13. CASE Wipe \/ Mint \/ UNCHANGED vars
  BY <1>8, <1>13 DEF Wipe, Mint, vars, copies
<1>. QED  BY <1>3, <1>7, <1>9, <1>10, <1>11, <1>12, <1>13, Zenon DEF Next, LostCommit

\* no writer reads or clears the queue
LEMMA LeavesMarksStep == ASSUME ClearsMarks = FALSE, TypeInv, LeavesMarks, [Next]_vars PROVE LeavesMarks'
<1>. USE DEF TypeInv, WritesOK
<1>1. CASE UNCHANGED writing
  BY <1>1, Zenon DEF LeavesMarks
<1>2. ASSUME NEW p \in Pods, NEW w, w.pc \notin {"marks", "clear"}, w.ids = {}, writing' = [writing EXCEPT ![p] = w]
      PROVE  LeavesMarks'
  BY <1>2 DEF LeavesMarks
<1>3. ASSUME NEW p \in Pods, NEW pc \in {"advance", "announce"}, writing' = [writing EXCEPT ![p].pc = pc]
      PROVE  LeavesMarks'
  <2>1. [writing[p] EXCEPT !.pc = pc].pc = pc /\ [writing[p] EXCEPT !.pc = pc].ids = writing[p].ids
    BY DEF Writes
  <2>. QED  BY <1>2, <1>3, <2>1 DEF LeavesMarks
<1>4. ASSUME NEW p \in Writers, Write(p) PROVE LeavesMarks'
  <2>0. p \in Pods /\ writing[p] \in Writes
    BY FollowAssumption
  <2>1. CASE \E ks \in RowSets : Commit(p, ks)
    <3>1. PICK ks \in RowSets : Commit(p, ks)
      BY <2>1
    <3>. DEFINE c == Cardinality(ks)
    <3>2. writing' = [writing EXCEPT ![p] = [NoWrite EXCEPT !.pc = "evict", !.rows = ks, !.of = c]]
      BY <3>1 DEF Commit
    <3>. HIDE DEF c
    <3>3. /\ [NoWrite EXCEPT !.pc = "evict", !.rows = ks, !.of = c].pc = "evict"
          /\ [NoWrite EXCEPT !.pc = "evict", !.rows = ks, !.of = c].ids = {}
      BY NoneTypes DEF Writes
    <3>. QED  BY <1>2, <2>0, <3>2, <3>3, Zenon
  <2>2. CASE EvictOwn(p) \/ AdvanceFails(p)
    BY <1>3, <2>0, <2>2 DEF EvictOwn, AdvanceFails
  <2>3. CASE MarksBeforeAdvance(p) \/ ClearMarks(p)
    BY <2>0, <2>3 DEF MarksBeforeAdvance, ClearMarks, LeavesMarks
  <2>4. CASE Advance(p)
    <3>1. writing' = [writing EXCEPT ![p].tok = NextGeneration, ![p].pc = "announce"]
      BY <2>0, <2>4, Zenon DEF Advance, LeavesMarks
    <3>2. writing' = [writing EXCEPT ![p] = [writing[p] EXCEPT !.tok = NextGeneration, !.pc = "announce"]]
      BY <2>0, <3>1, Zenon
    <3>3. /\ [writing[p] EXCEPT !.tok = NextGeneration, !.pc = "announce"].pc = "announce"
          /\ [writing[p] EXCEPT !.tok = NextGeneration, !.pc = "announce"].ids = {}
      BY <2>0, Zenon DEF Writes, LeavesMarks
    <3>. QED  BY <1>2, <2>0, <3>2, <3>3, Zenon
  <2>5. ASSUME NEW k \in Keys, AnnounceRow(p, k) PROVE LeavesMarks'
    <3>1. CASE writing[p].rows = {k}
      BY <1>2, <2>0, <2>5, <3>1, NoneTypes, Zenon DEF AnnounceRow
    <3>2. CASE writing[p].rows # {k}
      <4>1. writing' = [writing EXCEPT ![p] = [writing[p] EXCEPT !.rows = @ \ {k}]]
        BY <2>5, <3>2 DEF AnnounceRow
      <4>2. /\ [writing[p] EXCEPT !.rows = @ \ {k}].pc = writing[p].pc
            /\ [writing[p] EXCEPT !.rows = @ \ {k}].ids = writing[p].ids
        BY <2>0 DEF Writes
      <4>. QED  BY <1>2, <2>0, <4>1, <4>2, Zenon DEF LeavesMarks
    <3>. QED  BY <3>1, <3>2
  <2>. QED  BY <1>4, <2>1, <2>2, <2>3, <2>4, <2>5, Zenon DEF Write
<1>5. ASSUME NEW p \in Pods, Restart(p) PROVE LeavesMarks'
  BY <1>2, <1>5, NoneTypes, Zenon DEF Restart
<1>6. ASSUME NEW p, Read(p) \/ Hear(p) \/ CatchUp(p) PROVE UNCHANGED writing
  BY <1>6, Zenon DEF Read, Lookup, CacheRead, Hear, HearDelete, HearEvict, CatchUp, ReadGeneration, SettleGeneration
<1>7. ASSUME NEW r, Drain(r) PROVE UNCHANGED writing
  BY <1>7 DEF Drain, ReadPage, AdvancePage, AdvancePageFails, DeletePage, DrainDies
<1>. QED  BY <1>1, <1>4, <1>5, <1>6, <1>7, Zenon DEF Next, Wipe, Mint, vars, LostCommit

\* who may change a mark
LEMMA MarkCases ==
  ASSUME TypeInv, [Next]_vars, NEW p \in Pods
  PROVE  \/ mark'[p] = mark[p] \/ Advance(p) \/ HearEvict(p) \/ Restart(p)
         \/ \E tok \in pending[p] : SettleGeneration(p, tok)
<1>. USE DEF TypeInv
<1>1. ASSUME NEW q \in Writers, Write(q) PROVE mark'[p] = mark[p] \/ Advance(p)
  BY <1>1, Zenon DEF Write, Commit, CommitRows, EvictOwn, MarksBeforeAdvance, Advance, AdvanceFails, ClearMarks, AnnounceRow, MarksOK
<1>2. ASSUME NEW q \in Readers, Read(q) \/ Hear(q) PROVE mark'[p] = mark[p] \/ HearEvict(p)
  BY <1>2, Zenon DEF Read, Lookup, CacheRead, Hear, HearDelete, HearEvict, MarksOK
<1>3. ASSUME NEW q \in Readers, CatchUp(q) PROVE mark'[p] = mark[p] \/ \E tok \in pending[p] : SettleGeneration(p, tok)
  <2>1. CASE ReadGeneration(q)
    BY <2>1, Zenon DEF ReadGeneration
  <2>2. ASSUME NEW tok \in pending[q], SettleGeneration(q, tok), q # p PROVE mark'[p] = mark[p]
    BY <2>2, Zenon DEF SettleGeneration, MarksOK
  <2>. QED  BY <1>3, <2>1, <2>2, Zenon DEF CatchUp
<1>4. ASSUME NEW q \in Pods, Restart(q) PROVE mark'[p] = mark[p] \/ Restart(p)
  <2>1. ASSUME q # p PROVE mark'[p] = mark[p]
    BY <1>4, <2>1, Zenon DEF Restart, MarksOK
  <2>. QED  BY <1>4, <2>1, Zenon
<1>5. ASSUME NEW r, Drain(r) PROVE UNCHANGED mark
  BY <1>5, Zenon DEF Drain, ReadPage, AdvancePage, AdvancePageFails, DeletePage, DrainDies
<1>. QED  BY <1>1, <1>2, <1>3, <1>4, <1>5, Zenon DEF Next, Wipe, Mint, vars, LostCommit, CommitRows

\* a mark at generations that were written stays so
LEMMA MarkSentKept ==
  ASSUME NEW CONSTANT U, TypeInv, SentInv(U), [Next]_vars, NEW p \in Pods
  PROVE  MarkOK(mark[p]) /\ MarkSent(U, bucket', incarnations', mark[p])
<1>1. /\ MarkOK(mark[p]) /\ mark[p].inc \in Nat /\ mark[p].acc \in Nat
      /\ \A h \in mark[p].heard : h.inc \in Nat /\ h.n \in Nat
  BY DEF TypeInv, MarksOK, MarkOK, MarkRec, HeardRec
<1>. QED  BY <1>1, KnownKept, Zenon DEF MarkSent, SentInv

\* a pod is to judge what the bucket held
LEMMA PendingCases ==
  ASSUME pending \in [Pods -> SUBSET Generations], [Next]_vars, NEW p \in Pods, NEW tok \in pending'[p]
  PROVE  tok \in pending[p] \/ tok = bucket
<1>1. ASSUME NEW q, Write(q) PROVE UNCHANGED pending
  BY <1>1, Zenon DEF Write, Commit, CommitRows, EvictOwn, MarksBeforeAdvance, Advance, AdvanceFails, ClearMarks, AnnounceRow
<1>2. ASSUME NEW q, Read(q) \/ Hear(q) PROVE UNCHANGED pending
  BY <1>2, Zenon DEF Read, Lookup, CacheRead, Hear, HearDelete, HearEvict
<1>3. ASSUME NEW q \in Pods, ReadGeneration(q) PROVE tok \in pending[p] \/ tok = bucket
  BY <1>3, Zenon DEF ReadGeneration
<1>4. ASSUME NEW q \in Pods, NEW g, SettleGeneration(q, g) PROVE tok \in pending[p]
  BY <1>4, Zenon DEF SettleGeneration
<1>5. ASSUME NEW q \in Pods, Restart(q) PROVE tok \in pending[p]
  BY <1>5, Zenon DEF Restart
<1>6. ASSUME NEW r, Drain(r) PROVE UNCHANGED pending
  BY <1>6, Zenon DEF Drain, ReadPage, AdvancePage, AdvancePageFails, DeletePage, DrainDies
<1>. QED  BY <1>1, <1>2, <1>3, <1>4, <1>5, <1>6, FollowAssumption, Zenon DEF Next, CatchUp, Mint, Wipe, vars, LostCommit, CommitRows

\* what broadcasts name and pods count was written, and is none of U
LEMMA SentStep == ASSUME NEW CONSTANT U, TypeInv, SentInv(U), [Next]_vars PROVE SentInv(U)'
<1>. USE DEF TypeInv
<1>1. /\ \A i, n \in Nat : Known(bucket, incarnations, i, n) => Known(bucket', incarnations', i, n)
      /\ Known(bucket', incarnations', bucket'.inc, bucket'.n)
  BY KnownKept DEF SentInv
<1>2. \A tok \in Generations : tok.inc \in Nat /\ tok.n \in Nat
  BY DEF Generations
<1>3. ASSUME NEW tok \in Generations, Sent(U, tok) PROVE Known(bucket', incarnations', tok.inc, tok.n) /\ Avoids(U, tok.inc, tok.n)
  BY <1>1, <1>2, <1>3 DEF Sent
<1>4. \A p \in Pods : writing[p].tok \in Generations /\ Sent(U, writing[p].tok)
  BY Zenon DEF WritesOK, Writes, SentInv
<1>5. \A m \in net : m.tok \in Generations /\ Sent(U, m.tok)
  BY Zenon DEF WritesOK, Messages, SentInv
<1>6. \A p \in Pods : hearing[p] # NoMessage => hearing[p].tok \in Generations /\ hearing[p].of \in Nat /\ Sent(U, hearing[p].tok)
  BY Zenon DEF WritesOK, Messages, SentInv
<1>7. Known(bucket', incarnations', 0, 0) /\ Avoids(U, 0, 0)
  <2>1. bucket' \in Generations /\ incarnations' \in Nat
    BY BucketStep, Zenon DEF BucketOK
  <2>. QED  BY <1>2, <2>1 DEF Known, Avoids, SentInv
<1>8. U \subseteq Generations /\ \A u \in U : u.inc # 0 /\ Known(bucket', incarnations', u.inc, u.n)
  BY <1>1, <1>2, Zenon DEF SentInv
<1>9. ASSUME NEW p \in Pods, NEW tok \in pending'[p] PROVE Known(bucket', incarnations', tok.inc, tok.n)
  <2>1. tok \in pending[p] => Known(bucket', incarnations', tok.inc, tok.n)
    BY <1>1, <1>2, Zenon DEF SentInv, MarksOK
  <2>2. tok = bucket => Known(bucket', incarnations', tok.inc, tok.n)
    BY <1>1, <1>2 DEF SentInv, BucketOK
  <2>3. tok \in pending[p] \/ tok = bucket
    BY PendingCases, Zenon DEF MarksOK
  <2>. QED  BY <2>1, <2>2, <2>3
<1>10. ASSUME NEW p \in Pods
       PROVE  writing'[p].tok \in {writing[p].tok, NoGeneration} \/ (AdvanceBucket /\ writing'[p].tok = NextGeneration)
  <2>0. writing \in [Pods -> Writes]
    BY DEF WritesOK
  <2>1. ASSUME NEW q \in Writers, Write(q)
        PROVE  writing'[p].tok \in {writing[p].tok, NoGeneration} \/ (AdvanceBucket /\ writing'[p].tok = NextGeneration)
    <3>0. q \in Pods /\ writing[q] \in Writes
      BY <2>0, FollowAssumption
    <3>1. ASSUME NEW ks, Commit(q, ks) PROVE writing'[p].tok \in {writing[p].tok, NoGeneration}
      <4>. DEFINE c == Cardinality(ks)
      <4>1. writing' = [writing EXCEPT ![q] = [NoWrite EXCEPT !.pc = "evict", !.rows = ks, !.of = c]]
        BY <3>1 DEF Commit
      <4>. HIDE DEF c
      <4>2. [NoWrite EXCEPT !.pc = "evict", !.rows = ks, !.of = c].tok = NoGeneration
        BY NoneTypes DEF Writes
      <4>. QED  BY <2>0, <3>0, <4>1, <4>2, Zenon
    <3>2. CASE EvictOwn(q) \/ AdvanceFails(q) \/ ClearMarks(q)
      <4>1. PICK pc : writing' = [writing EXCEPT ![q].pc = pc]
        BY <3>2 DEF EvictOwn, AdvanceFails, ClearMarks
      <4>2. [writing[q] EXCEPT !.pc = pc].tok = writing[q].tok
        BY <3>0 DEF Writes
      <4>. QED  BY <2>0, <3>0, <4>1, <4>2, Zenon
    <3>3. CASE MarksBeforeAdvance(q)
      <4>1. PICK covered : writing' = [writing EXCEPT ![q].pc = "advance", ![q].ids = covered]
        BY <3>3, Zenon DEF MarksBeforeAdvance
      <4>2. [writing[q] EXCEPT !.pc = "advance", !.ids = covered].tok = writing[q].tok
        BY <3>0 DEF Writes
      <4>. QED  BY <2>0, <3>0, <4>1, <4>2, Zenon
    <3>4. CASE Advance(q)
      <4>1. AdvanceBucket
        BY <3>4 DEF Advance
      <4>2. PICK pc : writing' = [writing EXCEPT ![q].tok = NextGeneration, ![q].pc = pc]
        BY <3>4 DEF Advance
      <4>3. [writing[q] EXCEPT !.tok = NextGeneration, !.pc = pc].tok = NextGeneration
        BY <3>0 DEF Writes
      <4>. QED  BY <2>0, <3>0, <4>1, <4>2, <4>3, Zenon
    <3>5. ASSUME NEW k, AnnounceRow(q, k) PROVE writing'[p].tok \in {writing[p].tok, NoGeneration}
      <4>1. [writing[q] EXCEPT !.rows = @ \ {k}].tok = writing[q].tok
        BY <3>0, Zenon DEF Writes
      <4>. QED  BY <2>0, <3>0, <3>5, <4>1, NoneTypes, Zenon DEF AnnounceRow
    <3>. QED  BY <2>1, <3>1, <3>2, <3>3, <3>4, <3>5, Zenon DEF Write
  <2>2. ASSUME NEW q \in Pods, Restart(q) PROVE writing'[p].tok \in {writing[p].tok, NoGeneration}
    BY <2>0, <2>2, NoneTypes, Zenon DEF Restart
  <2>3. ASSUME NEW q, Read(q) \/ Hear(q) \/ CatchUp(q) PROVE UNCHANGED writing
    BY <2>3, Zenon DEF Read, Lookup, CacheRead, Hear, HearDelete, HearEvict, CatchUp, ReadGeneration, SettleGeneration
  <2>4. ASSUME NEW r, Drain(r) PROVE UNCHANGED writing
    BY <2>4, Zenon DEF Drain, ReadPage, AdvancePage, AdvancePageFails, DeletePage, DrainDies
  <2>. QED  BY <2>1, <2>2, <2>3, <2>4, Zenon DEF Next, Wipe, Mint, vars, LostCommit
<1>11. AdvanceBucket => /\ NextGeneration \in Generations
                        /\ Known(bucket', incarnations', NextGeneration.inc, NextGeneration.n)
                        /\ Avoids(U, NextGeneration.inc, NextGeneration.n)
  <2>1. SUFFICES ASSUME AdvanceBucket, NEW u \in U PROVE ~(u.inc = NextGeneration.inc /\ u.n = NextGeneration.n)
    BY NextIsNew DEF Avoids
  <2>2. Known(bucket, incarnations, u.inc, u.n) /\ u.inc \in Nat /\ u.n \in Nat
    BY <1>2, Zenon DEF SentInv
  <2>. QED  BY <2>1, <2>2, NextIsNew, Zenon
<1>12. \A p \in Pods : Sent(U, writing[p].tok)'
  BY <1>3, <1>4, <1>7, <1>10, <1>11, NoneTypes, Zenon DEF Sent
<1>13. \A m \in net' : Sent(U, m.tok)'
  <2>1. ASSUME NEW m \in net' PROVE m \in net \/ \E p \in Pods : m.tok = writing[p].tok
    <3>1. ASSUME NEW q \in Writers, Write(q) PROVE m \in net \/ m.tok = writing[q].tok
      <4>1. ASSUME NEW k, AnnounceRow(q, k) PROVE m \in net \/ m.tok = writing[q].tok
        BY <2>1, <4>1 DEF AnnounceRow
      <4>2. UNCHANGED net \/ \E k \in Keys : AnnounceRow(q, k)
        BY <3>1, Zenon DEF Write, Commit, CommitRows, EvictOwn, MarksBeforeAdvance, Advance, AdvanceFails, ClearMarks
      <4>. QED  BY <2>1, <4>1, <4>2, Zenon
    <3>2. ASSUME NEW q, Read(q) \/ Hear(q) \/ CatchUp(q) \/ Restart(q) PROVE m \in net
      BY <2>1, <3>2, Zenon DEF Read, Lookup, CacheRead, Hear, HearDelete, HearEvict, CatchUp, ReadGeneration, SettleGeneration, Restart
    <3>3. ASSUME NEW r, Drain(r) PROVE m \in net
      BY <2>1, <3>3 DEF Drain, ReadPage, AdvancePage, AdvancePageFails, DeletePage, DrainDies
    <3>. QED  BY <2>1, <3>1, <3>2, <3>3, FollowAssumption, Zenon DEF Next, Wipe, Mint, vars, LostCommit, CommitRows
  <2>. QED  BY <1>3, <1>4, <1>5, <2>1, Zenon DEF Sent
<1>14. \A p \in Pods : hearing'[p] # NoMessage => Sent(U, hearing[p].tok)'
  <2>1. ASSUME NEW p \in Pods PROVE hearing'[p] \in net \cup {hearing[p], NoMessage}
    <3>1. ASSUME NEW q, Write(q) PROVE UNCHANGED hearing
      BY <3>1, Zenon DEF Write, Commit, CommitRows, EvictOwn, MarksBeforeAdvance, Advance, AdvanceFails, ClearMarks, AnnounceRow
    <3>2. ASSUME NEW q \in Pods, Hear(q) \/ Restart(q) PROVE hearing'[p] \in net \cup {hearing[p], NoMessage}
      BY <3>2 DEF Hear, HearDelete, HearEvict, Restart, WritesOK
    <3>3. ASSUME NEW q, Read(q) \/ CatchUp(q) PROVE UNCHANGED hearing
      BY <3>3, Zenon DEF Read, Lookup, CacheRead, CatchUp, ReadGeneration, SettleGeneration
    <3>4. ASSUME NEW r, Drain(r) PROVE UNCHANGED hearing
      BY <3>4 DEF Drain, ReadPage, AdvancePage, AdvancePageFails, DeletePage, DrainDies
    <3>. QED  BY <3>1, <3>2, <3>3, <3>4, FollowAssumption, Zenon DEF Next, Wipe, Mint, vars, LostCommit, CommitRows
  <2>. QED  BY <1>3, <1>5, <1>6, <2>1, Zenon DEF Sent
<1>15. \A p \in Pods : MarkSent(U, bucket', incarnations', mark'[p])
  <2>1. \A p \in Pods : MarkOK(mark[p]) /\ MarkSent(U, bucket', incarnations', mark[p])
    BY MarkSentKept
  <2>2. U \in SUBSET Generations /\ bucket' \in Generations /\ incarnations' \in Nat
    BY BucketStep, Zenon DEF SentInv, BucketOK
  <2>3. ASSUME NEW p \in Pods, Advance(p) PROVE MarkSent(U, bucket', incarnations', mark'[p])
    <3>1. mark'[p] = Record(mark[p], NextGeneration, 1) /\ AdvanceBucket
      BY <2>3 DEF Advance, MarksOK
    <3>. QED  BY <1>11, <2>1, <2>2, <3>1, RecordSent, Zenon
  <2>4. ASSUME NEW p \in Pods, HearEvict(p) PROVE MarkSent(U, bucket', incarnations', mark'[p])
    <3>1. hearing[p] # NoMessage /\ mark'[p] \in {mark[p], Record(mark[p], hearing[p].tok, hearing[p].of)}
      BY <2>4, Zenon DEF HearEvict, MarksOK
    <3>2. Known(bucket', incarnations', hearing[p].tok.inc, hearing[p].tok.n) /\ Avoids(U, hearing[p].tok.inc, hearing[p].tok.n)
      BY <1>3, <1>6, <3>1, Zenon
    <3>3. MarkSent(U, bucket', incarnations', Record(mark[p], hearing[p].tok, hearing[p].of))
      BY <1>6, <2>1, <2>2, <3>1, <3>2, RecordSent, Zenon
    <3>. QED  BY <2>1, <3>1, <3>3, Zenon
  <2>5. ASSUME NEW p \in Pods, NEW tok \in pending[p], SettleGeneration(p, tok) PROVE MarkSent(U, bucket', incarnations', mark'[p])
    <3>1. mark'[p] = Settle(mark[p], tok) /\ tok \in Generations /\ Known(bucket', incarnations', tok.inc, tok.n)
      BY <1>1, <1>2, <2>5, Zenon DEF SettleGeneration, MarksOK, SentInv
    <3>. QED  BY <2>1, <3>1, SettleSent, Zenon
  <2>6. ASSUME NEW p \in Pods, Restart(p) PROVE MarkSent(U, bucket', incarnations', mark'[p])
    <3>1. mark'[p] = NewMark
      BY <2>6, Zenon DEF Restart, MarksOK
    <3>. QED  BY <1>7, <3>1, NewMarkOK, Zenon DEF MarkSent
  <2>. QED  BY <2>1, <2>3, <2>4, <2>5, <2>6, MarkCases, Zenon
<1>. QED  BY <1>1, <1>8, <1>9, <1>12, <1>13, <1>14, <1>15, Zenon DEF SentInv

\* a read in flight that ends puts its row in one place of each cache
LEMMA CacheReadAt ==
  ASSUME l1 \in [Pods -> [Keys -> Copies]], l2 \in [Pods -> [Keys -> Copies]],
         NEW p \in Pods, reading[p].key \in Keys, CacheRead(p), NEW k \in Keys
  PROVE  LET r == reading[p]
             newL2 == IF r.seeds /\ ~r.moved THEN r.copy ELSE l2[p][r.key]
             answer == IF r.seeds THEN newL2 ELSE r.copy
         IN  /\ l2'[p][k] = IF k = r.key THEN newL2 ELSE l2[p][k]
             /\ l1'[p][k] = IF k = r.key /\ r.newest /\ answer # NoCopy THEN answer ELSE l1[p][k]
BY Zenon DEF CacheRead

\* a copy a pod holds stale was stale before the step, but for a commit, or the pod's restart
LEMMA HeldBefore ==
  ASSUME TypeInv, ReadInv, [Next]_vars, NEW p \in Pods, Holds(p)'
  PROVE  Holds(p) \/ (\E ks : CommitRows(ks)) \/ Restart(p)
<1>. USE DEF TypeInv, CopiesOK
<1>1. ASSUME \A k \in Keys : l1'[p][k] \in {l1[p][k], NoCopy},
             \A k \in Keys : l2'[p][k] \in {l2[p][k], NoCopy},
             suspect[p] \subseteq suspect'[p], Carries(p)' => Carries(p)
      PROVE  Holds(p)
  <2>1. ASSUME NEW k \in Keys, StaleAt(p, k)' PROVE StaleAt(p, k)
    BY <1>1, <2>1, Zenon DEF StaleAt, Stale, NoCopy
  <2>. QED  BY <1>1, <2>1, Zenon DEF Holds
<1>2. ASSUME UNCHANGED copies PROVE Holds(p)
  BY <1>1, <1>2, Zenon DEF copies, Carries
<1>3. ASSUME NEW q \in Pods, NEW k \in Keys, Lookup(q, k) PROVE Holds(p)
  <2>1. CASE q # p
    <3>1. reading'[p] = reading[p] /\ UNCHANGED <<l1, l2, suspect>>
      BY <1>3, <2>1, Zenon DEF Lookup
    <3>. QED  BY <1>1, <3>1, Zenon DEF Carries
  <2>2. CASE q = p
    <3>1. UNCHANGED <<l1, l2, suspect>> /\ (reading'[p].copy = Stale => StaleAt(p, k))
      BY <1>3, <2>2, Zenon DEF Lookup, StaleAt, Stale, Fresh
    <3>2. Carries(p)' => StaleAt(p, k)
      BY <3>1, Zenon DEF Carries
    <3>3. \A j \in Keys : StaleAt(p, j)' => StaleAt(p, j)
      BY <3>1 DEF StaleAt
    <3>. QED  BY <3>2, <3>3, Zenon DEF Holds
  <2>. QED  BY <2>1, <2>2, Zenon
<1>4. ASSUME NEW q \in Pods, CacheRead(q) PROVE Holds(p)
  <2>1. CASE q # p
    <3>1. reading'[p] = reading[p] /\ l1'[p] = l1[p] /\ l2'[p] = l2[p] /\ suspect'[p] = suspect[p]
      BY <1>4, <2>1, Zenon DEF CacheRead
    <3>. QED  BY <1>1, <3>1, Zenon DEF Carries
  <2>2. CASE q = p
    <3>. DEFINE r == reading[p]
                newL2 == IF r.seeds /\ ~r.moved THEN r.copy ELSE l2[p][r.key]
                answer == IF r.seeds THEN newL2 ELSE r.copy
    <3>1. /\ r # NoRead /\ r \in Reads /\ r.key \in Keys
          /\ r.dropped => ~r.newest /\ r.key \in suspect[p]
          /\ r.moved => l2[p][r.key] = NoCopy
      BY <1>4, <2>2 DEF CacheRead, ReadInv, Reads
    <3>2. /\ suspect'[p] = (IF r.seeds /\ ~r.dropped THEN suspect[p] \ {r.key} ELSE suspect[p])
          /\ reading'[p] = NoRead
      BY <1>4, <2>2, Zenon DEF CacheRead
    <3>4. \A k \in Keys : /\ l2'[p][k] = IF k = r.key THEN newL2 ELSE l2[p][k]
                          /\ l1'[p][k] = IF k = r.key /\ r.newest /\ answer # NoCopy THEN answer ELSE l1[p][k]
      BY <1>4, <2>2, <3>1, CacheReadAt, Zenon
    <3>3. ASSUME NEW k \in Keys, StaleAt(p, k)' PROVE Holds(p)
      <4>1. l1'[p][k] = Stale \/ (l2'[p][k] = Stale /\ k \notin suspect'[p])
        BY <3>3, Zenon DEF StaleAt
      <4>2. StaleAt(p, k) => Holds(p)
        BY Zenon DEF Holds
      <4>3. r.copy = Stale /\ ~r.dropped => Holds(p)
        BY <3>1 DEF Holds, Carries
      <4>4. CASE k # r.key
        <5>1. l1'[p][k] = l1[p][k] /\ l2'[p][k] = l2[p][k]
          BY <3>4, <4>4, Zenon
        <5>2. k \notin suspect'[p] => k \notin suspect[p]
          BY <3>2, <4>4, Zenon
        <5>. QED  BY <4>1, <4>2, <5>1, <5>2, Zenon DEF StaleAt
      <4>5. CASE k = r.key
        <5>1. /\ l2'[p][k] = newL2
              /\ l1'[p][k] = (IF r.newest /\ answer # NoCopy THEN answer ELSE l1[p][k])
          BY <3>4, <4>5, Zenon
        <5>2. CASE l1'[p][k] = Stale
          BY <3>1, <4>2, <4>3, <4>5, <5>1, <5>2, Zenon DEF StaleAt, Stale, NoCopy
        <5>3. CASE l2'[p][k] = Stale /\ k \notin suspect'[p]
          BY <3>1, <3>2, <4>2, <4>3, <4>5, <5>1, <5>3, Zenon DEF StaleAt, Stale, NoCopy
        <5>. QED  BY <4>1, <5>2, <5>3, Zenon
      <4>. QED  BY <4>4, <4>5
    <3>5. ~Carries(p)'
      BY <3>2, Zenon DEF Carries
    <3>. QED  BY <3>3, <3>5, Zenon DEF Holds
  <2>. QED  BY <2>1, <2>2, Zenon
<1>5. ASSUME NEW q \in Pods, NEW ks, EvictL1(q, ks), UNCHANGED <<l2, suspect>> PROVE Holds(p)
  <2>1. \A k \in Keys : l1'[p][k] \in {l1[p][k], NoCopy}
    BY <1>5, Zenon DEF EvictL1
  <2>2. reading'[p] \in {reading[p], FenceRead(reading[p], ks)}
    BY <1>5 DEF EvictL1
  <2>3. Carries(p)' => Carries(p)
    BY <2>2, Zenon DEF Carries, FenceRead, Reads
  <2>. QED  BY <1>1, <1>5, <2>1, <2>3, Zenon
<1>6. ASSUME NEW q \in Pods, NEW k \in Keys, DeleteL2(q, k), UNCHANGED <<l1, suspect>> PROVE Holds(p)
  <2>1. \A j \in Keys : l2'[p][j] \in {l2[p][j], NoCopy}
    BY <1>6, Zenon DEF DeleteL2
  <2>2. reading'[p] \in {reading[p], MoveRead(reading[p], k)}
    BY <1>6 DEF DeleteL2
  <2>3. Carries(p)' => Carries(p)
    BY <2>2, Zenon DEF Carries, MoveRead, Reads
  <2>. QED  BY <1>1, <1>6, <2>1, <2>3, Zenon
<1>7. ASSUME NEW q \in Pods, NEW tok, SettleGeneration(q, tok) PROVE Holds(p)
  <2>1. CASE UNCHANGED <<l1, suspect, reading>>
    BY <1>2, <1>7, <2>1, Zenon DEF SettleGeneration, copies
  <2>2. CASE DropTable(q)
    <3>1. \A k \in Keys : l1'[p][k] \in {l1[p][k], NoCopy}
      BY <2>2 DEF DropTable
    <3>2. suspect[p] \subseteq suspect'[p]
      BY <2>2 DEF DropTable
    <3>3. reading'[p] = reading[p] \/ (reading[p] \in Reads /\ reading'[p] = [reading[p] EXCEPT !.newest = FALSE, !.dropped = TRUE])
      BY <2>2, Zenon DEF DropTable
    <3>4. Carries(p)' => Carries(p)
      BY <3>3, Zenon DEF Carries, Reads
    <3>5. UNCHANGED l2
      BY <1>7, Zenon DEF SettleGeneration
    <3>. QED  BY <1>1, <3>1, <3>2, <3>4, <3>5, Zenon
  <2>. QED  BY <1>7, <2>1, <2>2, Zenon DEF SettleGeneration
<1>8. ASSUME NEW q \in Pods, Restart(q), q # p PROVE Holds(p)
  <2>1. reading'[p] = reading[p] /\ l1'[p] = l1[p] /\ l2' = l2 /\ suspect'[p] = suspect[p]
    BY <1>8 DEF Restart
  <2>. QED  BY <1>1, <2>1, Zenon DEF Carries
<1>9. ASSUME NEW q \in Writers, Write(q) PROVE Holds(p) \/ \E ks : CommitRows(ks)
  BY <1>2, <1>5, <1>6, <1>9, FollowAssumption, Zenon
     DEF Write, Commit, EvictOwn, MarksBeforeAdvance, Advance, AdvanceFails, ClearMarks, AnnounceRow
<1>10. ASSUME NEW q \in Readers, Hear(q) PROVE Holds(p)
  <2>1. \A m \in net : m.key \in Keys
    BY Zenon DEF WritesOK, Messages
  <2>. QED  BY <1>5, <1>6, <1>10, <2>1, FollowAssumption, Zenon DEF Hear, HearDelete, HearEvict
<1>11. ASSUME NEW q \in Readers, Read(q) \/ CatchUp(q) PROVE Holds(p)
  BY <1>2, <1>3, <1>4, <1>7, <1>11, FollowAssumption, Zenon DEF Read, CatchUp, ReadGeneration
<1>12. ASSUME NEW r, Drain(r) PROVE UNCHANGED copies
  BY <1>12 DEF Drain, ReadPage, AdvancePage, AdvancePageFails, DeletePage, DrainDies
<1>13. CASE Wipe \/ Mint \/ UNCHANGED vars
  BY <1>2, <1>13, Zenon DEF Wipe, Mint, vars
<1>. QED  BY <1>2, <1>8, <1>9, <1>10, <1>11, <1>12, <1>13, Zenon DEF Next, LostCommit

\* CollectionRegistry.drop_table leaves nothing stale to serve
LEMMA DropClears ==
  ASSUME TypeInv, NEW p \in Pods, NEW tok, SettleGeneration(p, tok), Drops(mark[p], tok)
  PROVE  ~Holds(p)'
<1>. USE DEF TypeInv, CopiesOK
<1>1. DropTable(p)
  BY DEF SettleGeneration
<1>2. \A k \in Keys : l1'[p][k] = NoCopy /\ k \in suspect'[p]
  BY <1>1 DEF DropTable
<1>3. reading'[p] = NoRead \/ (reading[p] \in Reads /\ reading'[p] = [reading[p] EXCEPT !.newest = FALSE, !.dropped = TRUE])
  BY <1>1 DEF DropTable
<1>4. ~Carries(p)'
  BY <1>3, Zenon DEF Carries, Reads
<1>. QED  BY <1>2, <1>4, Zenon DEF Holds, StaleAt, Stale, NoCopy

\* a mark nobody has advanced for stays until someone does
LEMMA UncoveredKept ==
  ASSUME TypeInv, LeavesMarks, [Next]_vars, Uncovered, ~\E r \in Reconcilers : AdvancePage(r)
  PROVE  Uncovered'
<1>. USE DEF TypeInv, QueueOK
<1>0. PICK i \in marks : \A r \in Reconcilers : drain[r].pc = "delete" => i \notin drain[r].ids
  BY Zenon DEF Uncovered
<1>1. CASE marks \subseteq marks' /\ UNCHANGED drain
  BY <1>0, <1>1, Zenon DEF Uncovered
<1>2. ASSUME NEW r \in Reconcilers, Drain(r) PROVE Uncovered'
  <2>1. i \in marks'
    BY <1>0, <1>2, Zenon DEF Drain, ReadPage, AdvancePage, AdvancePageFails, DeletePage, DrainDies
  <2>2. PICK page : drain' = [drain EXCEPT ![r] = page] /\ page.pc # "delete"
    <3>1. CASE ReadPage(r)
      BY <3>1, Zenon DEF ReadPage
    <3>2. CASE AdvancePageFails(r) \/ DeletePage(r) \/ DrainDies(r)
      BY <3>2, NoneTypes, Zenon DEF AdvancePageFails, DeletePage, DrainDies
    <3>. QED  BY <1>2, <3>1, <3>2, Zenon DEF Drain
  <2>. QED  BY <1>0, <2>1, <2>2, Zenon DEF Uncovered
<1>3. ASSUME NEW p \in Writers, Write(p) PROVE marks \subseteq marks' /\ UNCHANGED drain
  BY <1>3, FollowAssumption, Zenon DEF Write, Commit, CommitRows, EvictOwn, MarksBeforeAdvance, Advance, AdvanceFails, ClearMarks,
     AnnounceRow, queue, LeavesMarks
<1>4. ASSUME NEW p, Read(p) \/ Hear(p) \/ CatchUp(p) \/ Restart(p) PROVE UNCHANGED queue
  BY <1>4, Zenon DEF Read, Lookup, CacheRead, Hear, HearDelete, HearEvict, CatchUp, ReadGeneration, SettleGeneration, Restart
<1>. QED  BY <1>1, <1>2, <1>3, <1>4, Zenon DEF Next, Wipe, Mint, vars, queue, LostCommit, CommitRows

\* a pod that would drop the table goes on doing so until it does
LEMMA SafeKept ==
  ASSUME NEW CONSTANT U, TypeInv, SentInv(U), [Next]_vars, NEW p \in Pods, Safe(U, bucket, mark[p]) \/ Blank(p)
  PROVE  \/ Safe(U, bucket', mark'[p]) \/ Blank(p)'
         \/ \E tok \in pending[p] : SettleGeneration(p, tok) /\ Drops(mark[p], tok)
<1>. DEFINE m == mark[p]
<1>0. /\ MarkOK(m) /\ MarkSent(U, bucket', incarnations', m)
      /\ Known(bucket, incarnations, m.inc, m.acc) /\ m.inc \in Nat /\ m.acc \in Nat
  BY MarkSentKept, Zenon DEF SentInv, MarkSent, MarkOK, MarkRec
<1>1. /\ bucket.inc \in Nat /\ bucket.n \in Nat /\ incarnations \in Nat
      /\ bucket' \in Generations /\ incarnations' \in Nat
  BY BucketStep DEF TypeInv, BucketOK, Generations
<1>2. Safe(U, bucket', m) \/ (m.inc = 0 /\ bucket'.inc = 0)
  <2>1. CASE AdvanceBucket
    <3>1. bucket'.inc = (IF bucket.inc = 0 THEN incarnations + 1 ELSE bucket.inc)
      BY <2>1, AdvanceType, Zenon DEF AdvanceBucket, TypeInv
    <3>2. \A u \in U : u.inc # 0
      BY Zenon DEF SentInv
    <3>3. CASE bucket.inc = 0
      BY <1>0, <1>1, <3>1, <3>3 DEF Known, Safe
    <3>4. CASE bucket.inc # 0
      BY <3>1, <3>4, Zenon DEF Safe, Blank
    <3>. QED  BY <3>3, <3>4, Zenon
  <2>2. CASE Wipe
    BY <2>2, NoneTypes, Zenon DEF Wipe, Safe
  <2>3. CASE UNCHANGED <<bucket, incarnations>>
    BY <2>3, Zenon DEF Safe, Blank
  <2>4. CASE Mint
    <3>1. bucket.inc = 0 /\ bucket'.inc = incarnations + 1
      BY <2>4, MintType DEF Mint, TypeInv
    <3>. QED  BY <1>0, <1>1, <3>1, SMT DEF Known, Safe
  <2>. QED  BY <2>1, <2>2, <2>3, <2>4, BucketCases, Zenon
<1>3. CASE mark'[p] = mark[p]
  BY <1>2, <1>3, Zenon DEF Blank
<1>4. ASSUME NEW tok \in Generations, Known(bucket', incarnations', tok.inc, tok.n), Avoids(U, tok.inc, tok.n),
             NEW of \in Nat, mark'[p] = Record(m, tok, of)
      PROVE  Safe(U, bucket', mark'[p]) \/ Blank(p)'
  <2>1. U \in SUBSET Generations
    BY DEF SentInv
  <2>2. Safe(U, bucket', m) => Safe(U, bucket', mark'[p])
    BY <1>0, <1>1, <1>4, <2>1, RecordSent, Zenon
  <2>3. mark'[p].inc = m.inc
    <3>1. Record(m, tok, of).inc = m.inc
      BY <1>0, RecordKeeps, Zenon
    <3>. QED  BY <1>4, <3>1, Zenon
  <2>. QED  BY <1>2, <2>2, <2>3, Zenon DEF Blank
<1>5. CASE Advance(p)
  <2>1. AdvanceBucket /\ mark'[p] = Record(m, NextGeneration, 1)
    BY <1>5 DEF Advance, TypeInv, MarksOK
  <2>2. /\ NextGeneration \in Generations
        /\ Known(bucket', incarnations', NextGeneration.inc, NextGeneration.n)
    BY <2>1, NextIsNew, Zenon DEF TypeInv
  <2>3. Avoids(U, NextGeneration.inc, NextGeneration.n)
    <3>1. ASSUME NEW u \in U PROVE Known(bucket, incarnations, u.inc, u.n) /\ u.inc \in Nat /\ u.n \in Nat
      BY Zenon DEF SentInv, Generations
    <3>. QED  BY <2>1, <3>1, NextIsNew, Zenon DEF TypeInv, Avoids
  <2>. QED  BY <1>4, <2>1, <2>2, <2>3, Zenon
<1>6. CASE HearEvict(p)
  <2>1. hearing[p] # NoMessage /\ mark'[p] \in {m, Record(m, hearing[p].tok, hearing[p].of)}
    BY <1>6, Zenon DEF HearEvict, TypeInv, MarksOK
  <2>2. /\ hearing[p].tok \in Generations /\ hearing[p].of \in Nat
        /\ hearing[p].tok.inc \in Nat /\ hearing[p].tok.n \in Nat
    BY <2>1, Zenon DEF TypeInv, WritesOK, Messages, Generations
  <2>3. Known(bucket', incarnations', hearing[p].tok.inc, hearing[p].tok.n) /\ Avoids(U, hearing[p].tok.inc, hearing[p].tok.n)
    BY <2>1, <2>2, KnownKept, Zenon DEF SentInv, Sent
  <2>. QED  BY <1>3, <1>4, <2>1, <2>2, <2>3, Zenon
<1>7. CASE Restart(p)
  <2>1. mark'[p] = NewMark
    BY <1>7 DEF Restart, TypeInv, MarksOK
  <2>. QED  BY <2>1, NewMarkOK, Zenon DEF Safe
<1>8. ASSUME NEW tok \in pending[p], SettleGeneration(p, tok), ~Drops(mark[p], tok) PROVE mark'[p] = mark[p]
  BY <1>8, Zenon DEF SettleGeneration, Settle, TypeInv, MarksOK
<1>. QED  BY <1>3, <1>5, <1>6, <1>7, <1>8, MarkCases, Zenon

\* the inductive invariant
MissInv == TypeInv /\ ReadInv /\ LeavesMarks /\ \E U \in SUBSET Generations : SentInv(U) /\ RepairInv(U)

\* a page's advance is one no pod will hear of: every pod is behind it from then on
LEMMA AdvancePageStep ==
  ASSUME NEW CONSTANT U \in SUBSET Generations, TypeInv, SentInv(U), NEW r \in Reconcilers, AdvancePage(r)
  PROVE  \E V \in SUBSET Generations : SentInv(V)' /\ RepairInv(V)'
<1>. USE DEF TypeInv
<1>0. /\ AdvanceBucket /\ UNCHANGED <<writing, net, hearing, mark, pending>>
      /\ [Next]_vars
  BY Zenon DEF AdvancePage, Next, Drain
<1>1. /\ bucket' = NextGeneration /\ NextGeneration \in Generations /\ NextGeneration.inc # 0
      /\ \A i, n \in Nat : Known(bucket, incarnations, i, n) => ~(NextGeneration.inc = i /\ NextGeneration.n = n)
      /\ \A i, n \in Nat : Known(bucket, incarnations, i, n) => i # bucket'.inc \/ n < NextGeneration.n
      /\ Known(bucket', incarnations', NextGeneration.inc, NextGeneration.n)
  BY <1>0, NextIsNew, Zenon
<1>2. PICK g : g = NextGeneration
  OBVIOUS
<1>. DEFINE V == U \cup {g}
<1>3. SentInv(U)'
  BY <1>0, SentStep, Zenon
<1>4. \A i, n \in Nat : Known(bucket, incarnations, i, n) /\ Avoids(U, i, n) => Avoids(V, i, n)
  BY <1>1, <1>2, Zenon DEF Avoids
<1>5. \A tok \in Generations : Sent(U, tok) => Avoids(V, tok.inc, tok.n)
  BY <1>4 DEF Sent, Generations
<1>6. \A p \in Pods : Sent(V, writing[p].tok)'
  <2>1. \A p \in Pods : writing[p].tok \in Generations /\ Sent(U, writing[p].tok) /\ writing'[p] = writing[p]
    BY <1>0, Zenon DEF WritesOK, Writes, SentInv
  <2>. QED  BY <1>3, <1>5, <2>1, Zenon DEF Sent, SentInv
<1>7. \A m \in net' : Sent(V, m.tok)'
  <2>1. \A m \in net' : m \in net /\ m.tok \in Generations /\ Sent(U, m.tok)
    BY <1>0, Zenon DEF WritesOK, Messages, SentInv
  <2>. QED  BY <1>3, <1>5, <2>1, Zenon DEF Sent, SentInv
<1>8. \A p \in Pods : hearing'[p] # NoMessage => Sent(V, hearing[p].tok)'
  <2>1. \A p \in Pods : /\ hearing'[p] = hearing[p]
                        /\ hearing[p] # NoMessage => hearing[p].tok \in Generations /\ Sent(U, hearing[p].tok)
    BY <1>0, Zenon DEF WritesOK, Messages, SentInv
  <2>. QED  BY <1>3, <1>5, <2>1, Zenon DEF Sent, SentInv
<1>9. \A p \in Pods : MarkSent(V, bucket', incarnations', mark'[p])
  <2>1. ASSUME NEW p \in Pods
        PROVE  \A h \in mark[p].heard : /\ h.inc \in Nat /\ h.n \in Nat
                                        /\ Known(bucket, incarnations, h.inc, h.n) /\ Avoids(U, h.inc, h.n)
    BY Zenon DEF MarksOK, MarkOK, MarkRec, HeardRec, SentInv, MarkSent
  <2>. QED  BY <1>0, <1>3, <1>4, <2>1, Zenon DEF SentInv, MarkSent
<1>10. V \in SUBSET Generations /\ \A u \in V : u.inc # 0 /\ Known(bucket', incarnations', u.inc, u.n)
  BY <1>1, <1>2, <1>3, Zenon DEF SentInv
<1>11. SentInv(V)'
  <2>. HIDE DEF V
  <2>. QED  BY <1>3, <1>6, <1>7, <1>8, <1>9, <1>10, Zenon DEF SentInv
<1>12. \A p \in Pods : Safe(V, bucket', mark'[p])
  <2>. TAKE p \in Pods
  <2>1. mark'[p] = mark[p] /\ mark[p].inc \in Nat /\ mark[p].acc \in Nat /\ Known(bucket, incarnations, mark[p].inc, mark[p].acc)
    BY <1>0, Zenon DEF MarksOK, MarkRec, SentInv, MarkSent
  <2>2. mark[p].inc # bucket'.inc \/ mark[p].acc < g.n
    BY <1>1, <1>2, <2>1, Zenon
  <2>. QED  BY <1>1, <1>2, <2>1, <2>2, Zenon DEF Safe
<1>. QED  BY <1>10, <1>11, <1>12, Zenon DEF RepairInv

\* every step keeps the invariant
LEMMA MissStep == ASSUME ClearsMarks = FALSE, MissInv, [Next]_vars PROVE MissInv'
<1>1. TypeInv' /\ ReadInv' /\ LeavesMarks'
  BY TypeStep, ReadStep, LeavesMarksStep, Zenon DEF MissInv
<1>2. PICK U \in SUBSET Generations : SentInv(U) /\ RepairInv(U)
  BY Zenon DEF MissInv
<1>3. CASE \E r \in Reconcilers : AdvancePage(r)
  BY <1>1, <1>2, <1>3, AdvancePageStep, Zenon DEF MissInv
<1>4. CASE ~\E r \in Reconcilers : AdvancePage(r)
  <2>1. SentInv(U)'
    BY <1>2, SentStep, Zenon DEF MissInv
  <2>2. ASSUME NEW p \in Pods, Holds(p)' PROVE Uncovered' \/ Safe(U, bucket', mark'[p]) \/ Blank(p)'
    <3>1. CASE \E ks : CommitRows(ks)
      <4>1. commits + 1 \in marks' /\ UNCHANGED drain /\ commits \in Nat
        BY <3>1, Zenon DEF CommitRows, MissInv, TypeInv, QueueOK
      <4>2. \A r \in Reconcilers : commits + 1 \notin drain[r].ids
        BY <4>1 DEF MissInv, TypeInv, QueueOK
      <4>. QED  BY <4>1, <4>2 DEF Uncovered
    <3>2. CASE Restart(p)
      <4>1. mark'[p] = NewMark
        BY <3>2, Zenon DEF Restart, MissInv, TypeInv, MarksOK
      <4>. QED  BY <4>1, NewMarkOK, Zenon DEF Safe
    <3>3. CASE Holds(p)
      <4>1. Uncovered \/ Safe(U, bucket, mark[p]) \/ Blank(p)
        BY <1>2, <3>3, Zenon DEF RepairInv
      <4>2. ASSUME NEW tok, SettleGeneration(p, tok), Drops(mark[p], tok) PROVE FALSE
        BY <2>2, <4>2, DropClears, Zenon DEF MissInv
      <4>3. CASE Uncovered
        BY <1>4, <4>3, UncoveredKept, Zenon DEF MissInv
      <4>4. CASE Safe(U, bucket, mark[p]) \/ Blank(p)
        BY <1>2, <4>2, <4>4, SafeKept, Zenon DEF MissInv
      <4>. QED  BY <4>1, <4>3, <4>4, Zenon
    <3>. QED  BY <2>2, <3>1, <3>2, <3>3, HeldBefore, Zenon DEF MissInv
  <2>3. RepairInv(U)'
    BY <2>2 DEF RepairInv
  <2>. QED  BY <1>1, <1>2, <2>1, <2>3, Zenon DEF MissInv
<1>. QED  BY <1>3, <1>4

\* the initial state satisfies it
LEMMA MissInit == Init => MissInv
<1>. SUFFICES ASSUME Init PROVE MissInv
  OBVIOUS
<1>1. TypeInv
  BY TypeInit
<1>2. ReadInv /\ LeavesMarks
  BY NoneTypes, Zenon DEF Init, ReadInv, LeavesMarks
<1>3. SentInv({})
  <2>1. Known(bucket, incarnations, bucket.inc, bucket.n)
    BY <1>1, NoneTypes, SMTT(60) DEF Init, Known, TypeInv, BucketOK, Generations
  <2>2. Known(bucket, incarnations, 0, 0)
    BY <1>1 DEF Known, TypeInv, BucketOK, Generations
  <2>3. \A p \in Pods : writing[p].tok = NoGeneration /\ mark[p] = NewMark
    BY NoneTypes, Zenon DEF Init
  <2>4. \A p \in Pods : Sent({}, writing[p].tok) /\ MarkSent({}, bucket, incarnations, mark[p])
    BY <2>2, <2>3, NoneTypes, NewMarkOK, Zenon DEF Sent, Avoids, MarkSent
  <2>. QED  BY <2>1, <2>4, Zenon DEF Init, SentInv
<1>4. RepairInv({})
  <2>1. \A p \in Pods : ~mark[p].sighted
    BY NewMarkOK, Zenon DEF Init
  <2>. QED  BY <2>1 DEF RepairInv, Safe
<1>. QED  BY <1>1, <1>2, <1>3, <1>4, Zenon DEF MissInv

\* and it implies the property
LEMMA MissImplies == MissInv => NoSilentMiss
<1>. SUFFICES ASSUME MissInv, NEW p \in Pods, ServesStale(p) PROVE Owed \/ Drops(mark[p], bucket) \/ Blank(p)
  BY DEF NoSilentMiss
<1>1. PICK U \in SUBSET Generations : SentInv(U) /\ RepairInv(U)
  BY DEF MissInv
<1>2. Holds(p)
  BY ServesStaleAt, Zenon DEF Holds
<1>3. CASE Uncovered
  BY <1>3, Zenon DEF Uncovered, Owed
<1>4. CASE Safe(U, bucket, mark[p])
  <2>1. /\ bucket.n \in Nat /\ mark[p].acc \in Nat
        /\ \A u \in U : u.n \in Nat /\ (u.inc = bucket.inc => u.n <= bucket.n)
    BY <1>1, Zenon DEF MissInv, TypeInv, BucketOK, Generations, MarksOK, MarkRec, SentInv, Known
  <2>. QED  BY <1>4, <2>1 DEF Safe, Drops, Judge
<1>. QED  BY <1>1, <1>2, <1>3, <1>4, Zenon DEF RepairInv

\* A pod that would serve a replaced row is owed its repair (settle_generation, WriteMarkReconciler):
\* a mark is still queued or a writer still at work, or judging the bucket's generation drops the
\* table, or the pod's mark and the bucket are both blank.  For any number of pods, rows, commits,
\* reconcilers and faults, when writers do not clear marks themselves.
THEOREM RepairIsOwed == ASSUME ClearsMarks = FALSE PROVE Spec => []NoSilentMiss
<1>1. MissInv /\ [Next]_vars => MissInv'
  BY MissStep, Zenon
<1>. QED  BY <1>1, MissInit, MissImplies, PTL DEF Spec
=============================================================================

------------------------- MODULE OrderedSwapProof --------------------------
(***************************************************************************)
(* What has reached L3 stays there, for every number of pods and           *)
(* operations, whatever the flushes, closes and crashes.                   *)
(*                                                                         *)
(* While the bucket keeps its entry - no broker restart, and no persist    *)
(* that fails before the call returns, so nothing withdraws a swap - that  *)
(* is so with no exception. Every row under way, wherever it is, is the    *)
(* row some revision of the key had, and a later revision's row carries an *)
(* earlier one's: there is a history H from revisions to rows, growing up  *)
(* to the entry L2 holds, that every row agrees with (Agree). A swap at    *)
(* the revision it read adds to the history; the fence on the order only   *)
(* lets L3 move along it.                                                  *)
(*                                                                         *)
(* For every setting of the constants it is so but for what is accounted   *)
(* for as lost: the rows ever under way are in line by (epoch, revision),  *)
(* each within the next but for what was lost (DurableInv).                *)
(*                                                                         *)
(* And a mutation that is reported failed is not in the row a retry starts *)
(* from, but for the cases FailedIsWithdrawn names: until it is shown, its *)
(* change is in the entry its own swap wrote and in what others read from  *)
(* there, nowhere else (HiddenInv).                                        *)
(***************************************************************************)
EXTENDS OrderedSwap, TLAPS

\* nothing takes the key away
Undisturbed == MaxWipes = 0 /\ (FALSE \in Policies => "persist" \notin Faults)

Ended == {"new", "done", "failed", "dead"}
OpPcs == Ended \cup {"read", "seed", "epoch", "swap", "won", "readback", "persist", "withdraw", "arm"}
FlushPcs == {"off", "idle", "batch", "entity", "ack", "over"}
OpRec == [pc : OpPcs, epoch : Nat, rev : Nat, val : SUBSET Ops, read : Nat, won : Nat, now : Nat]
WriteRec == [epoch : Nat, rev : Nat, val : SUBSET Ops, retries : Nat]

\* H grows with the revision, up to the entry's
History(H, top) ==
    /\ H \in [Nat -> SUBSET Ops]
    /\ H[0] = {}
    /\ \A m, n \in Nat : m <= n /\ n <= top => H[m] \subseteq H[n]

\* a row under its order is the one the history has at its revision
Good(r, H, top) ==
    /\ r.rev \in Nat /\ r.rev <= top
    /\ r.epoch \in {0, 1}
    /\ r.epoch = 0 => r.rev = 0
    /\ r.val = H[r.rev]

\* an operation about to swap at the entry's revision has read the entry; one that won wrote it
OpGood(r, H, top) ==
    /\ r \in OpRec
    /\ r.pc \notin {"withdraw", "readback"}
    /\ r.rev <= top
    /\ r.pc \notin Ended => r.epoch = 1
    /\ r.pc = "seed" => r.rev = 0
    /\ r.pc \in {"swap", "epoch"} /\ r.rev = top => r.val = H[r.rev]
    /\ r.pc \in {"won", "persist"} => r.val = H[r.rev]

Entry(H) ==
    /\ l2.rev \in Nat
    /\ l2.val = H[l2.rev]
    /\ bucket \in [epoch : {1}, seq : Nat, gone : Nat]
    /\ bucket.seq = l2.rev

Agree(H) ==
    /\ History(H, l2.rev)
    /\ Entry(H)
    /\ Good(l3, H, l2.rev)
    /\ op \in [Ops -> OpRec]
    /\ \A o \in Ops : OpGood(op[o], H, l2.rev)
    /\ buf \in [Pods -> WriteRec]
    /\ \A p \in Pods : Good(buf[p], H, l2.rev)
    /\ flusher \in [Flushers -> [pc : FlushPcs, w : WriteRec]]
    /\ \A f \in Flushers : Good(flusher[f].w, H, l2.rev)
    /\ known \in [Pods -> {0, 1}]
    /\ deferred \in Policies

IInv == \E H : Agree(H)

\* the ordered upsert moves L3 along the history, never back
LEMMA LandedGood ==
    ASSUME NEW H, NEW top \in Nat, NEW w, History(H, top), Good(l3, H, top), Good(w, H, top)
    PROVE  Good(Landed(w), H, top) /\ l3.val \subseteq Landed(w).val
<1>1. CASE ~Older(l3, w)
  BY <1>1 DEF Landed
<1>2. CASE Older(l3, w)
  <2>1. Landed(w) = [epoch |-> w.epoch, rev |-> w.rev, val |-> w.val]
    BY <1>2 DEF Landed
  <2>2. l3.rev <= w.rev
    BY <1>2 DEF Older, Good
  <2>3. H[l3.rev] \subseteq H[w.rev]
    BY <2>2 DEF History, Good
  <2>. QED  BY <2>1, <2>3 DEF Good
<1>. QED  BY <1>1, <1>2

\* the records operations are made of
LEMMA OpRecord ==
    ASSUME NEW pc \in OpPcs, NEW z \in Nat, NEW val \in SUBSET Ops
    PROVE  [pc |-> pc, epoch |-> z, rev |-> z, val |-> val, read |-> z, won |-> z, now |-> z] \in OpRec
BY DEF OpRec

\* an operation that moves on keeps what it has read
LEMMA OpMoves ==
    ASSUME NEW r \in OpRec, NEW pc \in OpPcs
    PROVE  /\ [r EXCEPT !.pc = pc] \in OpRec
           /\ [r EXCEPT !.pc = pc].pc = pc
           /\ [r EXCEPT !.pc = pc].rev = r.rev
           /\ [r EXCEPT !.pc = pc].epoch = r.epoch
           /\ [r EXCEPT !.pc = pc].val = r.val
BY DEF OpRec

\* an operation that has not begun, or has ended
LEMMA EndGood ==
    ASSUME NEW H, NEW top \in Nat, NEW pc \in Ended
    PROVE  OpGood([NewOp EXCEPT !.pc = pc], H, top) /\ OpGood(NewOp, H, top)
<1>1. "new" \in OpPcs /\ pc \in OpPcs /\ 0 \in Nat /\ {} \in SUBSET Ops
  BY DEF Ended, OpPcs
<1>2. NewOp \in OpRec
  BY <1>1, OpRecord, Zenon DEF NewOp
<1>3. NewOp.pc = "new" /\ NewOp.rev = 0
  BY Zenon DEF NewOp
<1>4. OpGood(NewOp, H, top)
  BY <1>2, <1>3 DEF OpGood, Ended
<1>. DEFINE r == [NewOp EXCEPT !.pc = pc]
<1>5. r \in OpRec /\ r.pc = pc /\ r.rev = 0
  BY <1>1, <1>2, <1>3, OpMoves
<1>. HIDE DEF r
<1>6. OpGood(r, H, top)
  BY <1>5 DEF OpGood, Ended
<1>. QED  BY <1>4, <1>6 DEF r

\* the empty history fits the initial state
LEMMA Initially == ASSUME Init PROVE IInv
<1>. DEFINE H == [n \in Nat |-> {}]
<1>1. History(H, 0) /\ H[0] = {}
  BY DEF History
<1>. HIDE DEF H
<1>2. l2.rev = 0 /\ l2.val = {} /\ bucket \in [epoch : {1}, seq : Nat, gone : Nat] /\ bucket.seq = 0
  BY DEF Init, NoEntry
<1>3. NewOp \in OpRec /\ OpGood(NewOp, H, 0)
  BY EndGood DEF OpGood, Ended
<1>4. NoWrite \in WriteRec /\ Good(NoWrite, H, 0)
  BY <1>1 DEF NoWrite, WriteRec, Good
<1>5. NoFlush \in [pc : FlushPcs, w : WriteRec] /\ NoFlush.w = NoWrite
  BY <1>4 DEF NoFlush, FlushPcs
<1>6. Good(l3, H, 0)
  BY <1>1 DEF Init, Good
<1>7. Agree(H)
  BY <1>1, <1>2, <1>3, <1>4, <1>5, <1>6, SwapAssumption, Zenon DEF Init, Agree, Entry
<1>. QED  BY <1>7 DEF IInv

----------------------------------------------------------------------------
(* Steps that leave the entry as it is                                     *)

\* one operation moves on
LEMMA OpStepAgrees ==
    ASSUME NEW H, Agree(H), NEW o \in Ops, NEW r, OpGood(r, H, l2.rev), Step(o, r),
           known' \in [Pods -> {0, 1}], UNCHANGED <<deferred, bucket, l2, l3, buf, flusher>>
    PROVE  Agree(H)'
BY DEF Agree, Step, OpGood, Entry, History, Good

\* an operation of which only the place changes
LEMMA GotoGood ==
    ASSUME NEW H, NEW top \in Nat, NEW r, OpGood(r, H, top), NEW pc \in OpPcs,
           pc \notin {"withdraw", "readback", "seed"},
           r.pc \notin Ended,
           pc \in {"swap", "epoch"} => r.pc = "epoch",
           pc \in {"won", "persist"} => r.pc = "won"
    PROVE  OpGood([r EXCEPT !.pc = pc], H, top)
<1>1. r \in OpRec
  BY DEF OpGood
<1>. DEFINE s == [r EXCEPT !.pc = pc]
<1>2. s \in OpRec /\ s.pc = pc /\ s.rev = r.rev /\ s.epoch = r.epoch /\ s.val = r.val
  BY <1>1, OpMoves
<1>. HIDE DEF s
<1>3. OpGood(s, H, top)
  BY <1>2 DEF OpGood
<1>. QED  BY <1>3 DEF s

\* reading the bucket, L2 or L3 keeps the history
LEMMA ReadsAgree ==
    ASSUME NEW H, Agree(H), NEW o \in Ops,
           Begin(o) \/ Read(o) \/ Seed(o) \/ ReadEpoch(o) \/ WonOrder(o)
    PROVE  Agree(H)'
<1>0. /\ op[o] \in OpRec /\ OpGood(op[o], H, l2.rev) /\ bucket.epoch = 1 /\ bucket.gone \in Nat
      /\ l2.rev \in Nat /\ Home[o] \in Pods /\ known[Home[o]] \in {0, 1}
  BY SwapAssumption DEF Agree, Entry
<1>v. l2.val \in SUBSET Ops /\ l2.val = H[l2.rev] /\ l3.val \in SUBSET Ops
  BY <1>0 DEF Agree, Entry, Good, History
<1>1. CASE Begin(o)
  <2>. DEFINE e == IF known[Home[o]] # 0 THEN known[Home[o]] ELSE bucket.epoch
              r == [op[o] EXCEPT !.pc = "read", !.epoch = e]
  <2>1. e = 1
    BY <1>0
  <2>2. Step(o, r) /\ known' \in [Pods -> {0, 1}] /\ UNCHANGED <<deferred, bucket, l2, l3, buf, flusher>>
    BY <1>0, <1>1, <2>1 DEF Begin, Agree
  <2>. HIDE DEF e
  <2>3. r \in OpRec /\ r.pc = "read" /\ r.epoch = 1 /\ r.rev = op[o].rev
    BY <1>0, <2>1, Zenon DEF OpRec, OpPcs
  <2>. HIDE DEF r
  <2>4. OpGood(r, H, l2.rev)
    BY <1>0, <2>3 DEF OpGood
  <2>. QED  BY <2>2, <2>4, OpStepAgrees
<1>2. CASE Read(o)
  <2>. DEFINE pc == IF l2.rev = 0 THEN "seed" ELSE "swap"
              r == [op[o] EXCEPT !.pc = pc, !.rev = l2.rev, !.val = l2.val, !.read = bucket.gone]
  <2>2. Step(o, r) /\ known' \in [Pods -> {0, 1}] /\ UNCHANGED <<deferred, bucket, l2, l3, buf, flusher>>
    BY <1>2 DEF Read, Agree
  <2>3. op[o].epoch = 1
    BY <1>0, <1>2 DEF Read, OpGood, Ended
  <2>4. r \in OpRec /\ r.pc = pc /\ r.epoch = 1 /\ r.rev = l2.rev /\ r.val = l2.val
    BY <1>0, <1>v, <2>3, Zenon DEF OpRec, OpPcs
  <2>. HIDE DEF r
  <2>5. OpGood(r, H, l2.rev)
    BY <1>0, <1>v, <2>4 DEF OpGood
  <2>. QED  BY <2>2, <2>5, OpStepAgrees
<1>3. CASE Seed(o)
  <2>. DEFINE pc == IF l3.epoch > op[o].epoch THEN "epoch" ELSE "swap"
              r == [op[o] EXCEPT !.pc = pc, !.val = l3.val]
  <2>2. Step(o, r) /\ known' \in [Pods -> {0, 1}] /\ UNCHANGED <<deferred, bucket, l2, l3, buf, flusher>>
    BY <1>3 DEF Seed, Agree
  <2>3. op[o].epoch = 1 /\ op[o].rev = 0
    BY <1>0, <1>3 DEF Seed, OpGood, Ended
  <2>4. r \in OpRec /\ r.pc = pc /\ r.epoch = 1 /\ r.rev = 0 /\ r.val = l3.val
    BY <1>0, <1>v, <2>3, Zenon DEF OpRec, OpPcs
  <2>5. 0 = l2.rev => l3.val = H[0]
    BY DEF Agree, Good
  <2>6. pc \in {"epoch", "swap"}
    OBVIOUS
  <2>. HIDE DEF r, pc
  <2>7. OpGood(r, H, l2.rev)
    BY <1>0, <2>4, <2>5, <2>6 DEF OpGood
  <2>. QED  BY <2>2, <2>7, OpStepAgrees
<1>4. CASE ReadEpoch(o)
  <2>. DEFINE e == bucket.epoch
              r == [op[o] EXCEPT !.pc = "swap", !.epoch = e]
  <2>1. e = 1
    BY <1>0
  <2>2. Step(o, r) /\ known' \in [Pods -> {0, 1}] /\ UNCHANGED <<deferred, bucket, l2, l3, buf, flusher>>
    BY <1>0, <1>4 DEF ReadEpoch, Agree
  <2>. HIDE DEF e
  <2>3. r \in OpRec /\ r.pc = "swap" /\ r.epoch = 1 /\ r.rev = op[o].rev /\ r.val = op[o].val
    BY <1>0, <2>1, Zenon DEF OpRec, OpPcs
  <2>. HIDE DEF r
  <2>4. OpGood(r, H, l2.rev)
    BY <1>0, <1>4, <2>3 DEF OpGood, ReadEpoch
  <2>. QED  BY <2>2, <2>4, OpStepAgrees
<1>5. CASE WonOrder(o)
  <2>. DEFINE r == [op[o] EXCEPT !.pc = "persist", !.won = 0]
  <2>1. op[o].epoch = 1
    BY <1>0, <1>5 DEF WonOrder, OpGood, Ended
  <2>2. Step(o, r) /\ known' \in [Pods -> {0, 1}] /\ UNCHANGED <<deferred, bucket, l2, l3, buf, flusher>>
    BY <1>0, <1>5, <2>1 DEF WonOrder, Agree
  <2>3. r \in OpRec /\ r.pc = "persist" /\ r.epoch = 1 /\ r.rev = op[o].rev /\ r.val = op[o].val
    BY <1>0, <2>1, Zenon DEF OpRec, OpPcs
  <2>. HIDE DEF r
  <2>4. OpGood(r, H, l2.rev)
    BY <1>0, <1>5, <2>3 DEF OpGood, WonOrder
  <2>. QED  BY <2>2, <2>4, OpStepAgrees
<1>. QED  BY <1>1, <1>2, <1>3, <1>4, <1>5

\* a swap that wins at the entry's revision extends the history; one that does not reads again
LEMMA SwapAgrees ==
    ASSUME NEW H, Agree(H), NEW o \in Ops, Swap(o)
    PROVE  IInv'
<1>0. op[o] \in OpRec /\ OpGood(op[o], H, l2.rev) /\ l2.rev \in Nat /\ op[o].pc = "swap"
  BY DEF Agree, Entry, Swap
<1>1. CASE l2.rev # op[o].rev
  <2>1. Goto(o, "read") /\ UNCHANGED <<l2, bucket, deferred, l3, known, buf, flusher>>
    BY <1>1 DEF Swap
  <2>2. OpGood([op[o] EXCEPT !.pc = "read"], H, l2.rev)
    BY <1>0, GotoGood, Zenon DEF OpPcs, Ended
  <2>3. Agree(H)'
    BY <2>1, <2>2, OpStepAgrees DEF Goto, Agree
  <2>. QED  BY <2>3 DEF IInv
<1>2. CASE l2.rev = op[o].rev
  <2>. DEFINE row == op[o].val \cup {o}
              won == bucket.seq + 1
              G == [H EXCEPT ![won] = row]
              r == [op[o] EXCEPT !.pc = "won", !.rev = won, !.val = row, !.won = bucket.epoch, !.read = 0]
  <2>1. /\ l2' = [rev |-> won, val |-> row, by |-> o]
        /\ bucket' = [bucket EXCEPT !.seq = won]
        /\ Step(o, r) /\ UNCHANGED <<deferred, l3, known, buf, flusher>>
    BY <1>2 DEF Swap
  <2>2. bucket.seq = l2.rev /\ bucket.epoch = 1 /\ won = l2.rev + 1 /\ won \in Nat
    BY <1>0 DEF Agree, Entry
  <2>3. op[o].val = H[l2.rev] /\ op[o].val \in SUBSET Ops /\ row \in SUBSET Ops
    BY <1>0, <1>2 DEF OpGood, OpRec
  <2>4. op[o].epoch = 1
    BY <1>0 DEF OpGood, Ended
  <2>5. r \in OpRec /\ r.pc = "won" /\ r.rev = won /\ r.val = row /\ r.epoch = 1
    BY <1>0, <2>2, <2>3, <2>4, Zenon DEF OpRec, OpPcs
  <2>6. l2'.rev = won /\ l2'.val = row
    BY <2>1
  <2>7. bucket' \in [epoch : {1}, seq : Nat, gone : Nat] /\ bucket'.seq = won
    BY <2>1, <2>2 DEF Agree, Entry
  <2>8. H[l2.rev] \subseteq row
    BY <2>3
  <2>. HIDE DEF row, r
  <2>9. G[won] = row /\ \A n \in Nat : n <= l2.rev => G[n] = H[n]
    BY <1>0, <2>2 DEF Agree, History
  <2>10. History(G, won)
    <3>1. G \in [Nat -> SUBSET Ops] /\ G[0] = {}
      BY <1>0, <2>2, <2>3, <2>9 DEF Agree, History
    <3>2. \A n \in Nat : n <= l2.rev => H[n] \subseteq H[l2.rev]
      BY <1>0 DEF Agree, History
    <3>. HIDE DEF G
    <3>3. ASSUME NEW m \in Nat, NEW n \in Nat, m <= n, n <= won PROVE G[m] \subseteq G[n]
      <4>1. CASE n <= l2.rev
        BY <1>0, <2>9, <3>3, <4>1 DEF Agree, History
      <4>2. CASE n = won /\ m <= l2.rev
        BY <2>8, <2>9, <3>2, <4>2
      <4>3. CASE n = won /\ m = won
        BY <4>3
      <4>. QED  BY <1>0, <2>2, <3>3, <4>1, <4>2, <4>3
    <3>. QED  BY <3>1, <3>3 DEF History
  <2>g. PICK K : K = G
    BY Zenon
  <2>h. History(K, won) /\ K[won] = row /\ \A n \in Nat : n <= l2.rev => K[n] = H[n]
    BY <2>9, <2>10, <2>g
  <2>. HIDE DEF G, won
  <2>11. ASSUME NEW x, Good(x, H, l2.rev) PROVE Good(x, K, won)
    BY <1>0, <2>2, <2>h, <2>11 DEF Good
  <2>12. ASSUME NEW x, OpGood(x, H, l2.rev) PROVE OpGood(x, K, won)
    BY <1>0, <2>2, <2>h, <2>12 DEF OpGood, OpRec
  <2>13. OpGood(r, K, won)
    BY <2>2, <2>5, <2>h DEF OpGood
  <2>14. Entry(K)'
    BY <2>2, <2>6, <2>7, <2>h DEF Entry
  <2>15. op' \in [Ops -> OpRec] /\ \A x \in Ops : OpGood(op'[x], K, won)
    BY <2>1, <2>5, <2>12, <2>13 DEF Step, Agree
  <2>16. Agree(K)'
    BY <2>1, <2>6, <2>h, <2>11, <2>14, <2>15, Zenon DEF Agree
  <2>. QED  BY <2>16 DEF IInv
<1>. QED  BY <1>1, <1>2

\* one operation ends, and L3 is what it was or what the operation's row makes of it
LEMMA EndAgrees ==
    ASSUME NEW H, Agree(H), NEW o \in Ops, NEW pc \in Ended, End(o, pc), Good(l3', H, l2.rev),
           UNCHANGED <<deferred, bucket, l2, known, buf>>,
           flusher' \in [Flushers -> [pc : FlushPcs, w : WriteRec]],
           \A f \in Flushers : flusher'[f].w = flusher[f].w
    PROVE  Agree(H)'
<1>. DEFINE r == [NewOp EXCEPT !.pc = pc]
<1>1. OpGood(r, H, l2.rev) /\ Step(o, r)
  BY EndGood, Zenon DEF End, Agree, Entry
<1>2. r \in OpRec
  BY <1>1 DEF OpGood
<1>. HIDE DEF r
<1>3. op' \in [Ops -> OpRec] /\ \A x \in Ops : OpGood(op'[x], H, l2.rev)
  BY <1>1, <1>2 DEF Step, Agree
<1>. QED  BY <1>3 DEF Agree, Entry

\* a persist, and every other end of an operation, keeps the history
LEMMA EndsAgree ==
    ASSUME NEW H, Agree(H), Undisturbed, NEW o \in Ops,
           \/ CallFails(o) \/ Persist(o) \/ Arm(o)
           \/ ReadBack(o) \/ Withdraw(o) \/ PersistFails(o)
    PROVE  Agree(H)' /\ l3.val \subseteq l3'.val
<1>0. /\ op[o] \in OpRec /\ OpGood(op[o], H, l2.rev) /\ l2.rev \in Nat /\ Good(l3, H, l2.rev)
      /\ flusher \in [Flushers -> [pc : FlushPcs, w : WriteRec]] /\ History(H, l2.rev)
      /\ <<Home[o], "loop">> \in Flushers
      /\ deferred \in Policies /\ deferred \in BOOLEAN
  BY SwapAssumption, Zenon DEF Agree, Entry, Flushers, Parts
<1>1. CASE CallFails(o)
  BY <1>0, <1>1, EndAgrees, Zenon DEF CallFails, Ended
<1>2. CASE Persist(o)
  <2>1. Good(op[o], H, l2.rev)
    BY <1>0, <1>2 DEF Persist, OpGood, Good, OpRec, Ended
  <2>2. Good(l3', H, l2.rev) /\ l3.val \subseteq l3'.val
    BY <1>0, <1>2, <2>1, LandedGood DEF Persist
  <2>. QED  BY <1>0, <1>2, <2>2, EndAgrees, Zenon DEF Persist, Ended
<1>3. CASE Arm(o)
  <2>1. /\ flusher' \in [Flushers -> [pc : FlushPcs, w : WriteRec]]
        /\ \A f \in Flushers : flusher'[f].w = flusher[f].w
    BY <1>0, <1>3, Zenon DEF Arm, FlushPcs
  <2>. QED  BY <1>0, <1>3, <2>1, EndAgrees, Zenon DEF Arm, Ended
<1>4. ~ReadBack(o) /\ ~Withdraw(o)
  BY <1>0 DEF OpGood, ReadBack, Withdraw
<1>5. ~PersistFails(o)
  BY <1>0, Zenon DEF PersistFails, Undisturbed, Fault
<1>. QED  BY <1>1, <1>2, <1>3, <1>4, <1>5, Zenon

\* a row added to the buffer is a row of the history
LEMMA AddAgrees ==
    ASSUME NEW H, Agree(H), NEW o \in Ops, Add(o)
    PROVE  Agree(H)'
<1>0. /\ op[o] \in OpRec /\ OpGood(op[o], H, l2.rev) /\ l2.rev \in Nat /\ op[o].pc = "persist"
      /\ Home[o] \in Pods
  BY SwapAssumption, Zenon DEF Agree, Entry, Add
<1>1. Pending(o) \in WriteRec /\ Good(Pending(o), H, l2.rev)
  BY <1>0 DEF Pending, OpGood, Good, OpRec, WriteRec, Ended
<1>2. buf' \in [Pods -> WriteRec] /\ \A p \in Pods : Good(buf'[p], H, l2.rev)
  BY <1>0, <1>1 DEF Add, Agree
<1>. DEFINE r == [op[o] EXCEPT !.pc = "arm"]
<1>3. OpGood(r, H, l2.rev) /\ Step(o, r)
  BY <1>0, GotoGood, Zenon DEF Add, Goto, OpPcs, Ended
<1>4. r \in OpRec
  BY <1>3 DEF OpGood
<1>. HIDE DEF r
<1>5. op' \in [Ops -> OpRec] /\ \A x \in Ops : OpGood(op'[x], H, l2.rev)
  BY <1>3, <1>4 DEF Step, Agree
<1>6. UNCHANGED <<deferred, bucket, l2, l3, known, flusher>>
  BY Zenon DEF Add
<1>. QED  BY <1>2, <1>5, <1>6, Zenon DEF Agree, Entry

----------------------------------------------------------------------------
(* The flushers, and the end of a pod                                      *)

\* what a flush does to the buffer and to the flushers keeps to the rows there are
LEMMA FlushAgrees ==
    ASSUME NEW H, Agree(H), Good(l3', H, l2.rev), UNCHANGED <<deferred, bucket, l2, known, op>>,
           buf' \in [Pods -> WriteRec], \A p \in Pods : Good(buf'[p], H, l2.rev),
           flusher' \in [Flushers -> [pc : FlushPcs, w : WriteRec]],
           \A f \in Flushers : Good(flusher'[f].w, H, l2.rev)
    PROVE  Agree(H)'
BY DEF Agree, Entry

\* an empty buffer and an idle flush agree with any history
LEMMA NoWriteGood ==
    ASSUME NEW H, NEW top \in Nat, History(H, top)
    PROVE  NoWrite \in WriteRec /\ Good(NoWrite, H, top) /\ NoFlush \in [pc : FlushPcs, w : WriteRec] /\ NoFlush.w = NoWrite
BY DEF NoWrite, WriteRec, Good, History, NoFlush, FlushPcs

\* a flush writes only rows of the history
LEMMA FlushesAgree ==
    ASSUME NEW H, Agree(H), NEW f \in Flushers,
           Drain(f) \/ FlushWrite(f) \/ Ack(f) \/ FlushFails(f)
    PROVE  Agree(H)' /\ l3.val \subseteq l3'.val
<1>0. /\ l2.rev \in Nat /\ Good(l3, H, l2.rev) /\ History(H, l2.rev) /\ f[1] \in Pods
      /\ flusher \in [Flushers -> [pc : FlushPcs, w : WriteRec]]
      /\ \A g \in Flushers : Good(flusher[g].w, H, l2.rev)
      /\ buf \in [Pods -> WriteRec] /\ \A p \in Pods : Good(buf[p], H, l2.rev)
  BY DEF Agree, Entry, Flushers
<1>a. flusher[f].w \in WriteRec /\ Good(flusher[f].w, H, l2.rev)
  BY <1>0, Zenon
<1>b. Good(Landed(flusher[f].w), H, l2.rev) /\ l3.val \subseteq Landed(flusher[f].w).val
  BY <1>0, <1>a, LandedGood
<1>n. NoWrite \in WriteRec /\ Good(NoWrite, H, l2.rev)
  BY <1>0, NoWriteGood
<1>r. ASSUME Rest(f)
      PROVE  /\ flusher' \in [Flushers -> [pc : FlushPcs, w : WriteRec]]
             /\ \A g \in Flushers : Good(flusher'[g].w, H, l2.rev)
  BY <1>0, <1>n, <1>r DEF Rest, FlushPcs
<1>p. ASSUME NEW pc \in FlushPcs, Flush(f, pc)
      PROVE  /\ flusher' \in [Flushers -> [pc : FlushPcs, w : WriteRec]]
             /\ \A g \in Flushers : Good(flusher'[g].w, H, l2.rev)
  BY <1>0, <1>p, Zenon DEF Flush
<1>1. CASE Drain(f)
  <2>1. /\ flusher' \in [Flushers -> [pc : FlushPcs, w : WriteRec]]
        /\ \A g \in Flushers : Good(flusher'[g].w, H, l2.rev)
    BY <1>0, <1>1, Zenon DEF Drain, FlushPcs
  <2>2. UNCHANGED <<deferred, bucket, l2, l3, known, op, buf>>
    BY <1>1, Zenon DEF Drain
  <2>. QED  BY <1>0, <2>1, <2>2, FlushAgrees, Zenon
<1>2. CASE FlushWrite(f)
  <2>1. Flush(f, "ack") /\ "ack" \in FlushPcs /\ l3' = Landed(flusher[f].w)
    BY <1>2 DEF FlushWrite, FlushPcs
  <2>2. UNCHANGED <<deferred, bucket, l2, known, op, buf>>
    BY <1>2, Zenon DEF FlushWrite
  <2>. QED  BY <1>0, <1>b, <1>p, <2>1, <2>2, FlushAgrees, Zenon
<1>3. CASE Ack(f)
  <2>1. buf' \in [Pods -> WriteRec] /\ \A p \in Pods : Good(buf'[p], H, l2.rev)
    BY <1>0, <1>3, <1>n, Zenon DEF Ack
  <2>2. Rest(f) /\ UNCHANGED <<deferred, bucket, l2, l3, known, op>>
    BY <1>3, Zenon DEF Ack
  <2>. QED  BY <1>0, <1>r, <2>1, <2>2, FlushAgrees, Zenon
<1>4. CASE FlushFails(f)
  <2>1. UNCHANGED <<deferred, bucket, l2, known, op>> /\ l3' \in {l3, Landed(flusher[f].w)}
    BY <1>4, Zenon DEF FlushFails
  <2>2. Good(l3', H, l2.rev) /\ l3.val \subseteq l3'.val
    BY <1>0, <1>b, <2>1
  <2>3. /\ flusher' \in [Flushers -> [pc : FlushPcs, w : WriteRec]]
        /\ \A g \in Flushers : Good(flusher'[g].w, H, l2.rev)
    <3>1. Rest(f) \/ Flush(f, "entity") \/ Flush(f, "ack")
      BY <1>4 DEF FlushFails
    <3>. QED  BY <1>p, <1>r, <3>1, Zenon DEF FlushPcs
  <2>4. buf' \in [Pods -> WriteRec] /\ \A p \in Pods : Good(buf'[p], H, l2.rev)
    <3>. DEFINE w == [flusher[f].w EXCEPT !.retries = @ + 1]
    <3>1. w \in WriteRec /\ Good(w, H, l2.rev)
      BY <1>a DEF WriteRec, Good
    <3>2. buf' = buf \/ buf' = [buf EXCEPT ![f[1]] = w]
      BY <1>4 DEF FlushFails, ReEnqueue
    <3>. HIDE DEF w
    <3>. QED  BY <1>0, <3>1, <3>2
  <2>. QED  BY <2>1, <2>2, <2>3, <2>4, FlushAgrees, Zenon
<1>. QED  BY <1>1, <1>2, <1>3, <1>4, Zenon

\* a close and a crash only forget rows
LEMMA PodsAgree ==
    ASSUME NEW H, Agree(H), NEW p \in Pods, Close(p) \/ Closed(p) \/ Crash(p)
    PROVE  Agree(H)' /\ l3.val \subseteq l3'.val
<1>0. /\ l2.rev \in Nat /\ Good(l3, H, l2.rev) /\ History(H, l2.rev)
      /\ <<p, "loop">> \in Flushers /\ <<p, "close">> \in Flushers
      /\ flusher \in [Flushers -> [pc : FlushPcs, w : WriteRec]]
      /\ \A g \in Flushers : Good(flusher[g].w, H, l2.rev)
      /\ buf \in [Pods -> WriteRec] /\ \A q \in Pods : Good(buf[q], H, l2.rev)
  BY DEF Agree, Entry, Flushers, Parts
<1>n. /\ NoWrite \in WriteRec /\ Good(NoWrite, H, l2.rev)
      /\ NoFlush \in [pc : FlushPcs, w : WriteRec] /\ NoFlush.w = NoWrite
  BY <1>0, NoWriteGood, Zenon
<1>1. CASE Close(p)
  <2>. DEFINE w == flusher[<<p, "loop">>].w
  <2>1. Good(Landed(w), H, l2.rev) /\ l3.val \subseteq Landed(w).val
    BY <1>0, LandedGood
  <2>2. l3' \in {l3, Landed(w)} /\ UNCHANGED <<deferred, bucket, l2, known, op, buf>>
    BY <1>1 DEF Close
  <2>3. /\ flusher' \in [Flushers -> [pc : FlushPcs, w : WriteRec]]
        /\ \A g \in Flushers : Good(flusher'[g].w, H, l2.rev)
    BY <1>0, <1>1, <1>n, Zenon DEF Close, FlushPcs
  <2>. HIDE DEF w
  <2>. QED  BY <1>0, <2>1, <2>2, <2>3, FlushAgrees, Zenon
<1>2. CASE Closed(p)
  <2>1. UNCHANGED <<deferred, bucket, l2, l3, known, op, buf>>
    BY <1>2 DEF Closed
  <2>2. /\ flusher' \in [Flushers -> [pc : FlushPcs, w : WriteRec]]
        /\ \A g \in Flushers : Good(flusher'[g].w, H, l2.rev)
    BY <1>0, <1>2, Zenon DEF Closed, Flush, FlushPcs
  <2>. QED  BY <1>0, <2>1, <2>2, FlushAgrees, Zenon
<1>3. CASE Crash(p)
  <2>1. UNCHANGED <<deferred, bucket, l2, l3>>
    BY <1>3 DEF Crash
  <2>2. buf' \in [Pods -> WriteRec] /\ \A q \in Pods : Good(buf'[q], H, l2.rev)
    BY <1>0, <1>3, <1>n DEF Crash
  <2>3. /\ flusher' \in [Flushers -> [pc : FlushPcs, w : WriteRec]]
        /\ \A g \in Flushers : Good(flusher'[g].w, H, l2.rev)
    BY <1>0, <1>3, <1>n DEF Crash
  <2>4. known' \in [Pods -> {0, 1}]
    BY <1>3 DEF Crash, Agree
  <2>5. op' \in [Ops -> OpRec] /\ \A o \in Ops : OpGood(op'[o], H, l2.rev)
    <3>. DEFINE r == [NewOp EXCEPT !.pc = "dead"]
    <3>1. OpGood(r, H, l2.rev) /\ r \in OpRec
      BY <1>0, EndGood DEF OpGood, Ended
    <3>2. op' = [o \in Ops |-> IF Home[o] = p /\ Running(o) THEN r ELSE op[o]]
      BY <1>3 DEF Crash
    <3>. HIDE DEF r
    <3>. QED  BY <3>1, <3>2 DEF Agree
  <2>. QED  BY <2>1, <2>2, <2>3, <2>4, <2>5 DEF Agree, Entry
<1>. QED  BY <1>1, <1>2, <1>3, Zenon

----------------------------------------------------------------------------

\* every step keeps a history, and takes nothing out of L3
LEMMA StepAgrees ==
    ASSUME IInv, Undisturbed, [Next]_vars
    PROVE  IInv' /\ l3.val \subseteq l3'.val
<1>0. PICK H : Agree(H)
  BY DEF IInv
<1>1. ASSUME NEW o \in Ops, Begin(o) \/ Read(o) \/ Seed(o) \/ ReadEpoch(o) \/ WonOrder(o)
      PROVE  Agree(H)' /\ UNCHANGED l3
  BY <1>0, <1>1, ReadsAgree, Zenon DEF Begin, Read, Seed, ReadEpoch, WonOrder
<1>2. ASSUME NEW o \in Ops, Swap(o) PROVE IInv' /\ UNCHANGED l3
  BY <1>0, <1>2, SwapAgrees, Zenon DEF Swap
<1>3. ASSUME NEW o \in Ops, CallFails(o) \/ Persist(o) \/ Arm(o) \/ ReadBack(o) \/ Withdraw(o) \/ PersistFails(o)
      PROVE  Agree(H)' /\ l3.val \subseteq l3'.val
  BY <1>0, <1>3, EndsAgree, Zenon
<1>4. ASSUME NEW o \in Ops, Add(o) PROVE Agree(H)' /\ UNCHANGED l3
  BY <1>0, <1>4, AddAgrees DEF Add
<1>5. ASSUME NEW f \in Flushers, Drain(f) \/ FlushWrite(f) \/ Ack(f) \/ FlushFails(f)
      PROVE  Agree(H)' /\ l3.val \subseteq l3'.val
  BY <1>0, <1>5, FlushesAgree
<1>6. ASSUME NEW p \in Pods, Close(p) \/ Closed(p) \/ Crash(p)
      PROVE  Agree(H)' /\ l3.val \subseteq l3'.val
  BY <1>0, <1>6, PodsAgree, Zenon
<1>7. ~Wipe
  BY <1>0 DEF Wipe, Undisturbed, Agree, Entry
<1>8. CASE UNCHANGED vars
  <2>1. Agree(H)' /\ UNCHANGED l3
    BY <1>0, <1>8, Zenon DEF vars, Agree, Entry
  <2>. QED  BY <2>1, Zenon DEF IInv
<1>9. CASE Next
  <2>1. CASE \E o \in Ops : Begin(o) \/ OpStep(o) \/ CallFails(o) \/ PersistFails(o)
    BY <1>1, <1>2, <1>3, <1>4, <2>1 DEF OpStep, IInv
  <2>2. CASE \E p \in Pods : FlushStep(p)
    <3>1. PICK p \in Pods : FlushStep(p)
      BY <2>2
    <3>2. CASE Closed(p)
      BY <1>6, <3>2 DEF IInv
    <3>3. ASSUME NEW k \in Parts, Drain(<<p, k>>) \/ FlushWrite(<<p, k>>) \/ Ack(<<p, k>>)
          PROVE  IInv' /\ l3.val \subseteq l3'.val
      <4>1. <<p, k>> \in Flushers
        BY DEF Flushers
      <4>. QED  BY <1>5, <3>3, <4>1 DEF IInv
    <3>. QED  BY <3>1, <3>2, <3>3, Zenon DEF FlushStep
  <2>3. CASE \E p \in Mortal : Close(p) \/ Crash(p)
    BY <1>6, <2>3, SwapAssumption DEF IInv
  <2>4. CASE \E f \in Flushers : FlushFails(f)
    BY <1>5, <2>4 DEF IInv
  <2>. QED  BY <1>7, <1>9, <2>1, <2>2, <2>3, <2>4, Zenon DEF Next
<1>. QED  BY <1>8, <1>9

\* the step that takes nothing from L3
TakesNothing == l3.val \subseteq l3'.val

\* While nothing takes the key from L2, what has reached L3 stays there, for every number of pods,
\* operations, closes, crashes and failed flushes: the fence on the order of upsert_ordered is
\* enough, and the exception DurableStays makes for what is lost is not needed.
THEOREM NothingGoesBack == ASSUME Undisturbed PROVE Spec => [][TakesNothing]_vars
<1>1. Init => IInv
  BY Initially
<1>2. IInv /\ [Next]_vars => IInv' /\ l3.val \subseteq l3'.val
  BY StepAgrees
<1>3. IInv /\ [Next]_vars => [TakesNothing]_vars
  BY <1>2 DEF TakesNothing
<1>. QED  BY <1>1, <1>2, <1>3, PTL DEF Spec

----------------------------------------------------------------------------
(* DurableStays, with wipes, withdrawals and rows dated too early: the     *)
(* rows that were ever under way (R) are ordered, each carrying the        *)
(* earlier ones but for what is lost, and the row a next swap builds on    *)
(* (Current) carries them all. A row dated too early is lost as a whole    *)
(* for the account, and still carries what its date puts before it.        *)

Kinds == KeyLosses \cup BufferLosses \cup RowNotes
Excusing == KeyLosses \cup {"undated"}
BucketRec == [epoch : Nat, seq : Nat, gone : Nat]
EntryRec == [rev : Nat, val : SUBSET Ops, by : Ops \cup {Nobody}]
RowRec == [epoch : Nat, rev : Nat, val : SUBSET Ops]
FlushRec == [pc : FlushPcs, w : WriteRec]

\* what the exceptions of DurableStays account for
Excused == UNION {lost[kind] : kind \in Excusing}

\* a row under the date it has, and under another
RowAt(r, epoch) == [epoch |-> epoch, rev |-> r.rev, val |-> r.val]
RowOf(r) == RowAt(r, r.epoch)

\* the rows R up to the bucket b's last revision, each within the next but for X, and all within top
Line(R, top, X, b) ==
    /\ R \subseteq RowRec /\ RowOf(NoWrite) \in R
    /\ \A r, s \in R : Older(r, s) => r.val \subseteq s.val \cup X
    /\ \A r \in R : r.val \subseteq top \cup X
    /\ \A r \in R : r.epoch < b.epoch \/ (r.epoch = b.epoch /\ r.rev <= b.seq)

\* operation o about to swap at the entry's revision has all of the current row, unless the key
\* went since it read; one that won has a row of R under the date of its bucket
Fits(o, r, R, X, b, e, cur) ==
    /\ r \in OpRec
    /\ r.pc \notin Ended => r.epoch <= b.epoch
    /\ r.pc \in {"seed", "epoch", "swap"} => r.read <= b.gone /\ (r.read = b.gone => r.rev <= b.seq)
    /\ r.pc \in {"seed", "epoch"} => r.rev = 0
    /\ r.pc \in {"epoch", "swap"} /\ r.read = b.gone /\ r.rev = e.rev => cur \subseteq r.val \cup X
    /\ r.pc \in {"won", "readback"} => r.epoch <= r.won /\ r.won <= b.epoch /\ RowAt(r, r.won) \in R
    /\ e.by = o => (r.pc = "won" => r.won = b.epoch) /\ (r.pc = "readback" => r.now = r.won)
    /\ r.pc = "persist" => RowOf(r) \in R

Shapes ==
    /\ bucket \in BucketRec /\ l2 \in EntryRec /\ l3 \in RowRec /\ lost \in [Kinds -> SUBSET Ops]
    /\ known \in [Pods -> Nat] /\ op \in [Ops -> OpRec]
    /\ buf \in [Pods -> WriteRec] /\ flusher \in [Flushers -> FlushRec]

Whole(R) ==
    /\ Shapes
    /\ l2.rev <= bucket.seq /\ \A p \in Pods : known[p] <= bucket.epoch
    /\ Line(R, Current, Excused, bucket)
    /\ RowOf(l3) \in R
    /\ \A p \in Pods : RowOf(buf[p]) \in R
    /\ \A f \in Flushers : RowOf(flusher[f].w) \in R
    /\ \A o \in Ops : Fits(o, op[o], R, Excused, bucket, l2, Current)

DurableInv == \E R : Whole(R)

\* An account that takes in more excuses that much more.
LEMMA LostGrows ==
    ASSUME lost \in [Kinds -> SUBSET Ops], NEW kind \in Kinds, NEW A \in SUBSET Ops,
           lost' = [lost EXCEPT ![kind] = @ \cup A]
    PROVE  lost' \in [Kinds -> SUBSET Ops] /\ Excused \subseteq Excused' /\ (kind \in Excusing => A \subseteq Excused')
<1>1. lost' \in [Kinds -> SUBSET Ops] /\ Excusing \subseteq Kinds
  BY DEF Kinds, Excusing, RowNotes
<1>2. A \subseteq lost'[kind] /\ \A k \in Kinds : lost[k] \subseteq lost'[k]
  OBVIOUS
<1>3. Excused \subseteq Excused'
  <2>. SUFFICES ASSUME NEW k \in Excusing, NEW x \in lost[k] PROVE x \in Excused'
    BY DEF Excused
  <2>. QED  BY <1>1, <1>2 DEF Excused
<1>4. kind \in Excusing => A \subseteq Excused'
  BY <1>2 DEF Excused
<1>. QED  BY <1>1, <1>3, <1>4

\* What goes is in L3, or accounted for.
LEMMA MissingGrows ==
    ASSUME lost \in [Kinds -> SUBSET Ops], NEW kind \in Kinds, NEW val \in SUBSET Ops, Missing(kind, val)
    PROVE  /\ lost' \in [Kinds -> SUBSET Ops] /\ Excused \subseteq Excused'
           /\ kind \in Excusing => val \subseteq l3.val \cup Excused'
<1>. DEFINE A == val \ (l3.val \ lost.undated)
<1>1. A \in SUBSET Ops /\ val \subseteq l3.val \cup A
  OBVIOUS
<1>2. lost' = [lost EXCEPT ![kind] = @ \cup A]
  BY DEF Missing
<1>. HIDE DEF A
<1>. QED  BY <1>1, <1>2, LostGrows, Zenon

\* The same account excuses the same.
LEMMA LostSame == ASSUME lost \in [Kinds -> SUBSET Ops], lost' = lost PROVE lost' \in [Kinds -> SUBSET Ops] /\ Excused' = Excused
BY Zenon DEF Excused

\* A row with all of an old one but for what is excused can stand for it.
LEMMA LineMore ==
    ASSUME NEW R, NEW top, NEW X, NEW b, Line(R, top, X, b), NEW t, NEW Y, X \subseteq Y, top \subseteq t \cup Y
    PROVE  Line(R, t, Y, b)
BY Zenon DEF Line

\* The same for what an operation has read.
LEMMA FitsMore ==
    ASSUME NEW o, NEW r, NEW R, NEW X, NEW b, NEW e, NEW cur, Fits(o, r, R, X, b, e, cur),
           NEW S, R \subseteq S, NEW Y, X \subseteq Y, NEW c, c \subseteq cur \cup Y
    PROVE  Fits(o, r, S, Y, b, e, c)
BY Zenon DEF Fits

\* L3 moves along the rows.
LEMMA LandedInLine ==
    ASSUME NEW R, NEW top, NEW X, NEW b, Line(R, top, X, b), l3 \in RowRec, RowOf(l3) \in R, NEW w, RowOf(w) \in R
    PROVE  /\ Landed(w) \in RowRec /\ RowOf(Landed(w)) \in R
           /\ l3.val \subseteq Landed(w).val \cup X
<1>1. CASE ~Older(l3, w)
  BY <1>1, Zenon DEF Landed
<1>2. CASE Older(l3, w)
  <2>1. Landed(w) = RowOf(w)
    BY <1>2 DEF Landed, RowOf, RowAt
  <2>2. RowOf(w) \in RowRec
    BY Zenon DEF Line
  <2>3. RowOf(RowOf(w)) = RowOf(w) /\ RowOf(w).val = w.val /\ RowOf(l3).val = l3.val
    BY Zenon DEF RowOf, RowAt
  <2>4. Older(RowOf(l3), RowOf(w))
    BY <1>2, Zenon DEF Older, RowOf, RowAt
  <2>5. l3.val \subseteq w.val \cup X
    BY <2>3, <2>4, Zenon DEF Line
  <2>. QED  BY <2>1, <2>2, <2>3, <2>5, Zenon
<1>. QED  BY <1>1, <1>2, Zenon

\* A step that leaves the entry and the bucket as they are, and every row among the rows.
LEMMA QuietWhole ==
    ASSUME NEW R, Whole(R), NEW S, R \subseteq S, UNCHANGED <<bucket, l2>>,
           lost' \in [Kinds -> SUBSET Ops], Excused \subseteq Excused', Line(S, Current, Excused', bucket),
           l3' \in RowRec, RowOf(l3') \in R, l3.val \subseteq l3'.val \cup Excused',
           known' \in [Pods -> Nat], \A p \in Pods : known'[p] <= bucket.epoch,
           buf' \in [Pods -> WriteRec], \A p \in Pods : RowOf(buf'[p]) \in S,
           flusher' \in [Flushers -> FlushRec], \A f \in Flushers : RowOf(flusher'[f].w) \in S,
           op' \in [Ops -> OpRec],
           \A o \in Ops : op'[o] = op[o] \/ Fits(o, op'[o], S, Excused', bucket, l2, Current)
    PROVE  DurableInv' /\ l3.val \subseteq l3'.val \cup Excused'
<1>. DEFINE X == Excused'
            c == Current'
<1>1. Current \subseteq c \cup X
  BY Zenon DEF Current
<1>2. c \subseteq Current \cup X
  <2>1. RowOf(l3').val = l3'.val
    BY Zenon DEF RowOf, RowAt
  <2>2. l3'.val \subseteq Current \cup Excused
    BY <2>1, Zenon DEF Whole, Line
  <2>. QED  BY <2>2, Zenon DEF Current
<1>. HIDE DEF c, X
<1>3. Line(S, c, X, bucket)
  BY <1>1, LineMore, Zenon DEF X
<1>4. \A o \in Ops : Fits(o, op'[o], S, X, bucket, l2, c)
  <2>. SUFFICES ASSUME NEW o \in Ops PROVE Fits(o, op'[o], S, X, bucket, l2, c)
    OBVIOUS
  <2>1. CASE op'[o] = op[o]
    <3>1. Fits(o, op[o], R, Excused, bucket, l2, Current) /\ Excused \subseteq X
      BY Zenon DEF Whole, X
    <3>. QED  BY <1>2, <2>1, <3>1, FitsMore, Zenon
  <2>2. CASE Fits(o, op'[o], S, X, bucket, l2, Current)
    BY <1>2, <2>2, FitsMore
  <2>. QED  BY <2>1, <2>2, Zenon DEF X
<1>5. Shapes'
  BY Zenon DEF Whole, Shapes
<1>6. (l2.rev <= bucket.seq /\ \A p \in Pods : known[p] <= bucket.epoch)'
  BY Zenon DEF Whole
<1>7. RowOf(l3)' \in S
  BY Zenon DEF RowOf, RowAt
<1>8. (\A p \in Pods : RowOf(buf[p]) \in S)' /\ (\A f \in Flushers : RowOf(flusher[f].w) \in S)'
  BY DEF RowOf, RowAt
<1>9. Whole(S)'
  <2>1. Line(S, Current, Excused, bucket)'
    BY <1>3 DEF Line, Older, c, X
  <2>2. (\A o \in Ops : Fits(o, op[o], S, Excused, bucket, l2, Current))'
    BY <1>4, Zenon DEF Fits, RowOf, RowAt, c, X
  <2>. QED  BY <1>5, <1>6, <1>7, <1>8, <2>1, <2>2, Zenon DEF Whole
<1>. QED  BY <1>9, Zenon DEF DurableInv

\* The records of an operation: one field or two change, the others stay.
LEMMA OpFields ==
    ASSUME NEW r \in OpRec, NEW pc \in OpPcs, NEW m \in Nat, NEW n \in Nat, NEW val \in SUBSET Ops
    PROVE  /\ [r EXCEPT !.pc = pc, !.epoch = m] \in OpRec
           /\ [r EXCEPT !.pc = pc, !.rev = m, !.val = val, !.read = n] \in OpRec
           /\ [r EXCEPT !.pc = pc, !.val = val] \in OpRec
           /\ [r EXCEPT !.pc = pc, !.won = m] \in OpRec
           /\ [r EXCEPT !.pc = pc, !.now = m] \in OpRec
BY Zenon DEF OpRec

\* An operation that has ended carries nothing.
LEMMA EndedFits ==
    ASSUME NEW o, NEW R, NEW X, NEW b, NEW e, NEW cur, NEW pc \in Ended
    PROVE  [NewOp EXCEPT !.pc = pc] \in OpRec /\ Fits(o, [NewOp EXCEPT !.pc = pc], R, X, b, e, cur)
<1>. DEFINE r == [NewOp EXCEPT !.pc = pc]
<1>1. "new" \in OpPcs /\ pc \in OpPcs /\ 0 \in Nat /\ {} \in SUBSET Ops
  BY DEF Ended, OpPcs
<1>2. NewOp \in OpRec
  BY <1>1, OpRecord, Zenon DEF NewOp
<1>3. r \in OpRec /\ r.pc = pc
  BY <1>1, <1>2, OpMoves, Zenon
<1>. HIDE DEF r
<1>4. Fits(o, r, R, X, b, e, cur)
  BY <1>3 DEF Fits, Ended
<1>. QED  BY <1>3, <1>4 DEF r

\* One that reads again, withdraws or has buffered its row carries none of its own.
LEMMA PlainFits ==
    ASSUME NEW o, NEW r \in OpRec, NEW R, NEW X, NEW b, NEW e, NEW cur, Fits(o, r, R, X, b, e, cur), r.pc \notin Ended,
           NEW pc \in {"read", "withdraw", "arm"}
    PROVE  [r EXCEPT !.pc = pc] \in OpRec /\ Fits(o, [r EXCEPT !.pc = pc], R, X, b, e, cur)
<1>. DEFINE s == [r EXCEPT !.pc = pc]
<1>1. pc \in OpPcs
  BY DEF OpPcs
<1>2. s \in OpRec /\ s.pc = pc /\ s.epoch = r.epoch
  BY <1>1, OpMoves, Zenon
<1>. HIDE DEF s
<1>3. Fits(o, s, R, X, b, e, cur)
  BY <1>2 DEF Fits
<1>. QED  BY <1>2, <1>3 DEF s

\* A step of one operation: among the rows it may land its own in L3, or put it in the buffer.
LEMMA OpWhole ==
    ASSUME NEW R, Whole(R), NEW o \in Ops, NEW r, Step(o, r), Fits(o, r, R, Excused', bucket, l2, Current),
           UNCHANGED <<bucket, l2>>, lost' \in [Kinds -> SUBSET Ops], Excused \subseteq Excused',
           l3' \in RowRec, RowOf(l3') \in R, l3.val \subseteq l3'.val \cup Excused',
           known' \in [Pods -> Nat], \A p \in Pods : known'[p] <= bucket.epoch,
           buf' \in [Pods -> WriteRec], \A p \in Pods : RowOf(buf'[p]) \in R,
           flusher' \in [Flushers -> FlushRec], \A f \in Flushers : RowOf(flusher'[f].w) \in R
    PROVE  DurableInv' /\ l3.val \subseteq l3'.val \cup Excused'
<1>1. r \in OpRec
  BY DEF Fits
<1>2. op' \in [Ops -> OpRec] /\ \A q \in Ops : op'[q] = op[q] \/ (q = o /\ op'[q] = r)
  BY <1>1, Zenon DEF Step, Whole, Shapes
<1>3. \A q \in Ops : op'[q] = op[q] \/ Fits(q, op'[q], R, Excused', bucket, l2, Current)
  BY <1>2, Zenon
<1>4. Line(R, Current, Excused', bucket)
  BY LineMore, Zenon DEF Whole
<1>. QED  BY <1>2, <1>3, <1>4, QuietWhole, Zenon

\* ... and one that writes nothing.
LEMMA OpReads ==
    ASSUME NEW R, Whole(R), NEW o \in Ops, NEW r, Step(o, r), Fits(o, r, R, Excused, bucket, l2, Current),
           UNCHANGED <<bucket, l2, l3, buf, flusher, lost>>,
           known' \in [Pods -> Nat], \A p \in Pods : known'[p] <= bucket.epoch
    PROVE  DurableInv' /\ l3.val \subseteq l3'.val \cup Excused'
<1>1. lost' \in [Kinds -> SUBSET Ops] /\ Excused' = Excused
  BY LostSame, Zenon DEF Whole, Shapes
<1>2. l3' \in RowRec /\ RowOf(l3') \in R
  BY Zenon DEF Whole, Shapes
<1>3. /\ buf' \in [Pods -> WriteRec] /\ \A p \in Pods : RowOf(buf'[p]) \in R
      /\ flusher' \in [Flushers -> FlushRec] /\ \A f \in Flushers : RowOf(flusher'[f].w) \in R
  BY DEF Whole, Shapes
<1>4. Fits(o, r, R, Excused', bucket, l2, Current)
  BY <1>1, Zenon
<1>. QED  BY <1>1, <1>2, <1>3, <1>4, OpWhole, Zenon

\* Reading the bucket, L2 or L3 keeps the rows in line.
LEMMA ReadsWhole ==
    ASSUME NEW R, Whole(R), NEW o \in Ops,
           Begin(o) \/ Read(o) \/ Seed(o) \/ ReadEpoch(o) \/ WonOrder(o)
    PROVE  DurableInv' /\ l3.val \subseteq l3'.val \cup Excused'
<1>0. /\ op[o] \in OpRec /\ Fits(o, op[o], R, Excused, bucket, l2, Current) /\ Home[o] \in Pods
      /\ bucket.epoch \in Nat /\ bucket.seq \in Nat /\ bucket.gone \in Nat /\ l2.rev \in Nat /\ l2.rev <= bucket.seq
      /\ known \in [Pods -> Nat] /\ \A p \in Pods : known[p] <= bucket.epoch
  BY SwapAssumption DEF Whole, Shapes, BucketRec, EntryRec
<1>v. l2.val \in SUBSET Ops /\ l3.val \in SUBSET Ops /\ l3.epoch \in Nat
  BY Zenon DEF Whole, Shapes, EntryRec, RowRec
<1>o. op[o].epoch \in Nat /\ op[o].rev \in Nat /\ op[o].read \in Nat /\ op[o].won \in Nat
  BY <1>0, Zenon DEF OpRec
<1>g. bucket.epoch \in Nat /\ known[Home[o]] \in Nat /\ known[Home[o]] <= bucket.epoch
  BY <1>0, Zenon
<1>k. ASSUME NEW e \in Nat, e <= bucket.epoch, known' = [known EXCEPT ![Home[o]] = e]
      PROVE  known' \in [Pods -> Nat] /\ \A p \in Pods : known'[p] <= bucket.epoch
  BY <1>0, <1>k, Zenon
<1>1. CASE Begin(o)
  <2>. DEFINE e == IF known[Home[o]] # 0 THEN known[Home[o]] ELSE bucket.epoch
              r == [op[o] EXCEPT !.pc = "read", !.epoch = e]
  <2>1. e \in Nat /\ e <= bucket.epoch
    BY <1>g
  <2>2. Step(o, r) /\ known' = [known EXCEPT ![Home[o]] = e] /\ UNCHANGED <<bucket, l2, l3, buf, flusher, lost>>
    BY <1>1 DEF Begin
  <2>. HIDE DEF e
  <2>3. "read" \in OpPcs
    BY DEF OpPcs
  <2>4. r \in OpRec /\ r.pc = "read" /\ r.epoch = e
    BY <1>0, <2>1, <2>3, OpFields, Zenon DEF OpRec
  <2>. HIDE DEF r
  <2>5. Fits(o, r, R, Excused, bucket, l2, Current)
    BY <2>1, <2>4 DEF Fits
  <2>. QED  BY <1>k, <2>1, <2>2, <2>5, OpReads, Zenon
<1>2. CASE Read(o)
  <2>. DEFINE pc == IF l2.rev = 0 THEN "seed" ELSE "swap"
              r == [op[o] EXCEPT !.pc = pc, !.rev = l2.rev, !.val = l2.val, !.read = bucket.gone]
  <2>1. Step(o, r) /\ UNCHANGED <<bucket, l2, l3, buf, flusher, lost, known>>
    BY <1>2 DEF Read
  <2>2. op[o].epoch <= bucket.epoch
    BY <1>0, <1>2 DEF Read, Fits, Ended
  <2>3. pc \in OpPcs /\ pc \in {"seed", "swap"} /\ (pc = "seed" <=> l2.rev = 0)
    BY Zenon DEF OpPcs
  <2>6. pc = "swap" => Current = l2.val
    BY Zenon DEF Current
  <2>7. bucket.gone <= bucket.gone /\ l2.rev <= bucket.seq
    BY <1>0
  <2>. HIDE DEF pc
  <2>4. r \in OpRec /\ r.pc = pc /\ r.rev = l2.rev /\ r.val = l2.val /\ r.read = bucket.gone /\ r.epoch = op[o].epoch
    BY <1>0, <1>v, <2>3, OpFields, Zenon DEF OpRec
  <2>. HIDE DEF r
  <2>5. Fits(o, r, R, Excused, bucket, l2, Current)
    BY <2>2, <2>3, <2>4, <2>6, <2>7 DEF Fits
  <2>. QED  BY <1>0, <2>1, <2>5, OpReads, Zenon
<1>3. CASE Seed(o)
  <2>. DEFINE pc == IF l3.epoch > op[o].epoch THEN "epoch" ELSE "swap"
              r == [op[o] EXCEPT !.pc = pc, !.val = l3.val]
  <2>1. Step(o, r) /\ UNCHANGED <<bucket, l2, l3, buf, flusher, lost, known>>
    BY <1>3 DEF Seed
  <2>2. /\ op[o].epoch <= bucket.epoch /\ op[o].rev = 0 /\ op[o].read <= bucket.gone
    BY <1>0, <1>3, Zenon DEF Seed, Fits, Ended
  <2>3. pc \in OpPcs /\ pc \in {"epoch", "swap"}
    BY DEF OpPcs
  <2>. HIDE DEF pc
  <2>4. r \in OpRec /\ r.pc = pc /\ r.rev = op[o].rev /\ r.val = l3.val /\ r.read = op[o].read /\ r.epoch = op[o].epoch
    BY <1>0, <1>v, <2>3, OpFields, Zenon DEF OpRec
  <2>. HIDE DEF r
  <2>5. Fits(o, r, R, Excused, bucket, l2, Current)
    BY <1>0, <2>2, <2>3, <2>4 DEF Fits, Current
  <2>. QED  BY <1>0, <2>1, <2>5, OpReads, Zenon
<1>4. CASE ReadEpoch(o)
  <2>. DEFINE e == bucket.epoch
              r == [op[o] EXCEPT !.pc = "swap", !.epoch = e]
  <2>1. Step(o, r) /\ known' = [known EXCEPT ![Home[o]] = e] /\ UNCHANGED <<bucket, l2, l3, buf, flusher, lost>>
    BY <1>4 DEF ReadEpoch
  <2>2. e \in Nat /\ e <= bucket.epoch /\ op[o].pc = "epoch"
    BY <1>0, <1>4 DEF ReadEpoch
  <2>. HIDE DEF e
  <2>3. "swap" \in OpPcs
    BY DEF OpPcs
  <2>4. r \in OpRec /\ r.pc = "swap" /\ r.rev = op[o].rev /\ r.val = op[o].val /\ r.read = op[o].read /\ r.epoch = e
    BY <1>0, <2>2, <2>3, OpFields, Zenon DEF OpRec
  <2>. HIDE DEF r
  <2>5. Fits(o, r, R, Excused, bucket, l2, Current)
    BY <1>0, <2>2, <2>4, Zenon DEF Fits
  <2>. QED  BY <1>k, <2>1, <2>2, <2>5, OpReads, Zenon
<1>5. CASE WonOrder(o)
  <2>0. /\ op[o].pc = "won" /\ op[o].epoch <= op[o].won /\ op[o].won <= bucket.epoch /\ RowAt(op[o], op[o].won) \in R
        /\ (l2.by = o => op[o].won = bucket.epoch)
        /\ known' = [known EXCEPT ![Home[o]] = bucket.epoch] /\ UNCHANGED <<bucket, l2, l3, buf, flusher, lost>>
    BY <1>0, <1>5 DEF WonOrder, Fits
  <2>1. CASE bucket.epoch = op[o].epoch
    <3>. DEFINE z == 0
                r == [op[o] EXCEPT !.pc = "persist", !.won = z]
    <3>1. Step(o, r) /\ z \in Nat /\ "persist" \in OpPcs
      BY <1>5, <2>1 DEF WonOrder, OpPcs
    <3>. HIDE DEF z
    <3>2. r \in OpRec /\ r.pc = "persist" /\ r.epoch = op[o].epoch /\ r.rev = op[o].rev /\ r.val = op[o].val
      BY <1>0, <3>1, OpFields, Zenon DEF OpRec
    <3>. HIDE DEF r
    <3>3. op[o].won = op[o].epoch
      BY <1>g, <1>o, <2>0, <2>1
    <3>4. RowOf(r) = RowAt(op[o], op[o].won)
      BY <3>2, <3>3, Zenon DEF RowOf, RowAt
    <3>5. r.epoch <= bucket.epoch
      BY <1>g, <2>1, <3>2
    <3>6. Fits(o, r, R, Excused, bucket, l2, Current)
      BY <2>0, <3>2, <3>4, <3>5, Zenon DEF Fits
    <3>7. bucket.epoch <= bucket.epoch
      BY <1>g
    <3>. QED  BY <1>g, <1>k, <2>0, <3>1, <3>6, <3>7, OpReads, Zenon
  <2>2. CASE bucket.epoch # op[o].epoch
    <3>. DEFINE r == [op[o] EXCEPT !.pc = "readback", !.now = bucket.epoch]
    <3>1. Step(o, r) /\ "readback" \in OpPcs
      BY <1>5, <2>2 DEF WonOrder, OpPcs
    <3>2. /\ r \in OpRec /\ r.pc = "readback" /\ r.epoch = op[o].epoch /\ r.rev = op[o].rev /\ r.val = op[o].val
          /\ r.won = op[o].won /\ r.now = bucket.epoch
      BY <1>0, <3>1, OpFields, Zenon DEF OpRec
    <3>. HIDE DEF r
    <3>3. RowAt(r, r.won) = RowAt(op[o], op[o].won)
      BY <3>2, Zenon DEF RowAt
    <3>4. r.epoch <= bucket.epoch
      BY <1>g, <1>o, <2>0, <3>2
    <3>5. Fits(o, r, R, Excused, bucket, l2, Current)
      BY <1>0, <2>0, <3>2, <3>3, <3>4, Zenon DEF Fits
    <3>6. bucket.epoch <= bucket.epoch
      BY <1>g
    <3>. QED  BY <1>g, <1>k, <2>0, <3>1, <3>5, <3>6, OpReads, Zenon
  <2>. QED  BY <2>1, <2>2
<1>. QED  BY <1>1, <1>2, <1>3, <1>4, <1>5, Zenon

\* A swap that wins puts a row on top of the line: it read the current row, or what that row had
\* and it has not is accounted for.
LEMMA SwapWhole ==
    ASSUME NEW R, Whole(R), NEW o \in Ops, Swap(o)
    PROVE  DurableInv' /\ l3.val \subseteq l3'.val \cup Excused'
<1>0. /\ op[o] \in OpRec /\ Fits(o, op[o], R, Excused, bucket, l2, Current) /\ op[o].pc = "swap"
      /\ bucket.epoch \in Nat /\ bucket.seq \in Nat /\ bucket.gone \in Nat /\ l2.rev \in Nat /\ l2.rev <= bucket.seq
      /\ known \in [Pods -> Nat] /\ \A p \in Pods : known[p] <= bucket.epoch
  BY DEF Swap, Whole, Shapes, BucketRec, EntryRec
<1>1. CASE l2.rev # op[o].rev
  <2>1. Step(o, [op[o] EXCEPT !.pc = "read"]) /\ UNCHANGED <<bucket, l2, l3, buf, flusher, lost, known>>
    BY <1>1 DEF Swap, Goto
  <2>2. Fits(o, [op[o] EXCEPT !.pc = "read"], R, Excused, bucket, l2, Current)
    BY <1>0, PlainFits, Zenon DEF Ended
  <2>. QED  BY <1>0, <2>1, <2>2, OpReads
<1>2. CASE l2.rev = op[o].rev
  <2>. DEFINE row == op[o].val \cup {o}
              won == bucket.seq + 1
              e == bucket.epoch
              z == 0
              n == [epoch |-> e, rev |-> won, val |-> row]
              S == R \cup {n}
              r == [op[o] EXCEPT !.pc = "won", !.rev = won, !.val = row, !.won = e, !.read = z]
              A == (l2.val \cup l3.val) \ row
  <2>1. /\ l2' = [rev |-> won, val |-> row, by |-> o] /\ bucket' = [bucket EXCEPT !.seq = won] /\ Step(o, r)
        /\ UNCHANGED <<l3, known, buf, flusher>>
        /\ (lost' = lost /\ op[o].read = bucket.gone) \/ lost' = [lost EXCEPT !.spanned = @ \cup A]
    BY <1>2, Zenon DEF Swap
  <2>2. row \in SUBSET Ops /\ A \in SUBSET Ops /\ won \in Nat /\ won > bucket.seq /\ e \in Nat /\ z \in Nat /\ won # 0
    BY <1>0 DEF OpRec, Whole, Shapes, EntryRec, RowRec
  <2>3. lost' \in [Kinds -> SUBSET Ops] /\ Excused \subseteq Excused' /\ Current \subseteq row \cup Excused'
    <3>0. lost \in [Kinds -> SUBSET Ops] /\ "spanned" \in Kinds /\ "spanned" \in Excusing
      BY DEF Whole, Shapes, Kinds, Excusing, KeyLosses
    <3>1. CASE lost' = lost /\ op[o].read = bucket.gone
      <4>1. Current \subseteq op[o].val \cup Excused
        BY <1>0, <1>2, <3>1, Zenon DEF Fits
      <4>. QED  BY <3>0, <3>1, <4>1, LostSame, Zenon
    <3>2. CASE lost' = [lost EXCEPT !.spanned = @ \cup A]
      <4>1. Excused \subseteq Excused' /\ A \subseteq Excused' /\ lost' \in [Kinds -> SUBSET Ops]
        <5>. HIDE DEF A
        <5>. QED  BY <2>2, <3>0, <3>2, LostGrows
      <4>2. Current \subseteq l2.val \cup l3.val
        BY DEF Current
      <4>. QED  BY <4>1, <4>2
    <3>. QED  BY <2>1, <3>1, <3>2, Zenon
  <2>4. bucket' \in BucketRec /\ bucket'.epoch = e /\ bucket'.seq = won /\ bucket'.gone = bucket.gone
    BY <2>1, <2>2 DEF Whole, Shapes, BucketRec
  <2>5. l2' \in EntryRec /\ l2'.rev = won /\ l2'.val = row /\ l2'.by = o
    BY <2>1, <2>2 DEF EntryRec
  <2>6. "won" \in OpPcs
    BY DEF OpPcs
  <2>. HIDE DEF row, won, z, A
  <2>7. r \in OpRec /\ r.pc = "won" /\ r.rev = won /\ r.val = row /\ r.won = e /\ r.epoch = op[o].epoch
    BY <1>0, <2>2, <2>6, Zenon DEF OpRec
  <2>8. n \in RowRec /\ n.epoch = e /\ n.rev = won /\ n.val = row
    BY <2>2 DEF RowRec
  <2>9. RowAt(r, r.won) = n
    BY <2>7 DEF RowAt
  <2>. HIDE DEF r, n, e
  <2>10. Current' = row
    BY <2>2, <2>5, Zenon DEF Current
  <2>11. Line(S, row, Excused', bucket')
    <3>1. R \subseteq RowRec /\ RowOf(NoWrite) \in R
      BY Zenon DEF Whole, Line
    <3>2. \A s \in R : s.val \subseteq row \cup Excused'
      BY <2>3, Zenon DEF Whole, Line
    <3>3. \A s \in R : s.epoch < e \/ (s.epoch = e /\ s.rev <= bucket.seq)
      BY Zenon DEF Whole, Line, e
    <3>4. \A s \in R : ~Older(n, s)
      BY <1>0, <2>2, <2>8, <3>1, <3>3 DEF Older, RowRec
    <3>5. \A s, t \in R : Older(s, t) => s.val \subseteq t.val \cup Excused'
      BY <2>3, Zenon DEF Whole, Line
    <3>6. ~Older(n, n)
      BY <2>2, <2>8 DEF Older
    <3>7. \A s, t \in S : Older(s, t) => s.val \subseteq t.val \cup Excused'
      BY <2>8, <3>2, <3>4, <3>5, <3>6, Zenon
    <3>8. \A s \in S : s.val \subseteq row \cup Excused'
      BY <2>8, <3>2, Zenon
    <3>9. \A s \in S : s.epoch < bucket'.epoch \/ (s.epoch = bucket'.epoch /\ s.rev <= bucket'.seq)
      BY <1>0, <2>2, <2>4, <2>8, <3>1, <3>3 DEF RowRec
    <3>10. S \subseteq RowRec /\ RowOf(NoWrite) \in S
      BY <2>8, <3>1
    <3>. QED  BY <3>7, <3>8, <3>9, <3>10, Zenon DEF Line
  <2>12. Fits(o, r, S, Excused', bucket', l2', row)
    <3>1. op[o].epoch <= e /\ n \in S
      BY <1>0, Zenon DEF Fits, Ended, e
    <3>2. r.epoch <= bucket'.epoch /\ r.epoch <= r.won /\ r.won <= bucket'.epoch /\ r.won = bucket'.epoch
      BY <2>2, <2>4, <2>7, <3>1
    <3>. QED  BY <2>7, <2>9, <3>1, <3>2, Zenon DEF Fits
  <2>13. ASSUME NEW q \in Ops, q # o PROVE Fits(q, op[q], S, Excused', bucket', l2', row)
    <3>1. Fits(q, op[q], R, Excused, bucket, l2, Current) /\ R \subseteq S /\ op[q].rev \in Nat
      BY Zenon DEF Whole, Fits, OpRec
    <3>2. l2'.by # q
      BY <2>5, <2>13, Zenon
    <3>3. op[q].pc \in {"seed", "epoch", "swap"} /\ op[q].read = bucket.gone => op[q].rev <= bucket.seq
      BY <3>1, Zenon DEF Fits
    <3>4. op[q].pc \in {"seed", "epoch", "swap"} /\ op[q].read = bucket.gone => op[q].rev <= won /\ op[q].rev # won
      BY <1>0, <2>2, <3>1, <3>3
    <3>. QED  BY <2>4, <2>5, <3>1, <3>2, <3>4, Zenon DEF Fits, e
  <2>g. PICK K : K = S
    BY Zenon
  <2>h. /\ R \subseteq K /\ Line(K, row, Excused', bucket') /\ Fits(o, r, K, Excused', bucket', l2', row)
        /\ \A q \in Ops : q # o => Fits(q, op[q], K, Excused', bucket', l2', row)
    BY <2>11, <2>12, <2>13, <2>g
  <2>. HIDE DEF S
  <2>14. op' \in [Ops -> OpRec] /\ \A q \in Ops : Fits(q, op'[q], K, Excused', bucket', l2', row)
    BY <2>1, <2>7, <2>h, Zenon DEF Step, Whole, Shapes
  <2>15. Whole(K)'
    <3>1. Shapes'
      BY <2>1, <2>3, <2>4, <2>5, <2>14 DEF Whole, Shapes
    <3>2. (l2.rev <= bucket.seq /\ \A p \in Pods : known[p] <= bucket.epoch)'
      BY <1>0, <2>1, <2>2, <2>4, <2>5 DEF e
    <3>3. Line(K, Current, Excused, bucket)'
      BY <2>10, <2>h DEF Line, Older
    <3>4. RowOf(l3)' \in K /\ (\A p \in Pods : RowOf(buf[p]) \in K)' /\ (\A f \in Flushers : RowOf(flusher[f].w) \in K)'
      BY <2>1, <2>h DEF Whole, RowOf, RowAt
    <3>5. (\A q \in Ops : Fits(q, op[q], K, Excused, bucket, l2, Current))'
      BY <2>10, <2>14, Zenon DEF Fits, RowOf, RowAt
    <3>. QED  BY <3>1, <3>2, <3>3, <3>4, <3>5, Zenon DEF Whole
  <2>. QED  BY <2>1, <2>15 DEF DurableInv
<1>. QED  BY <1>1, <1>2

\* A row dated in the bucket it won in is in line already; one dated too early carries what its
\* date puts before it, and is accounted for as a whole.
LEMMA ReadBackWhole ==
    ASSUME NEW R, Whole(R), NEW o \in Ops, ReadBack(o)
    PROVE  DurableInv' /\ l3.val \subseteq l3'.val \cup Excused'
<1>. DEFINE e == IF l2.rev = op[o].rev /\ l2.by = o THEN op[o].now ELSE op[o].epoch
            z == 0
            r == [op[o] EXCEPT !.pc = "persist", !.epoch = e, !.now = z, !.won = z]
            n == RowAt(op[o], e)
            S == R \cup {n}
<1>0. /\ op[o] \in OpRec /\ Fits(o, op[o], R, Excused, bucket, l2, Current) /\ op[o].pc = "readback"
      /\ bucket.epoch \in Nat
  BY DEF ReadBack, Whole, Shapes, BucketRec
<1>1. /\ op[o].epoch \in Nat /\ op[o].won \in Nat /\ op[o].now \in Nat /\ op[o].rev \in Nat /\ op[o].val \in SUBSET Ops
  BY <1>0, Zenon DEF OpRec
<1>2. /\ op[o].epoch <= op[o].won /\ op[o].won <= bucket.epoch /\ RowAt(op[o], op[o].won) \in R
      /\ (l2.by = o => op[o].now = op[o].won)
  BY <1>0, Zenon DEF Fits
<1>3. e \in Nat /\ e <= op[o].won /\ e <= bucket.epoch /\ z \in Nat
  <2>1. bucket.epoch \in Nat
    BY <1>0
  <2>. HIDE DEF r, n, S
  <2>. QED  BY <1>1, <1>2, <2>1
<1>4. /\ Step(o, r) /\ UNCHANGED <<bucket, l2, l3, known, buf, flusher>>
      /\ lost' = IF e < op[o].won THEN [lost EXCEPT !.undated = @ \cup op[o].val] ELSE lost
  BY DEF ReadBack
<1>. HIDE DEF e, z
<1>5. "persist" \in OpPcs
  BY DEF OpPcs
<1>6. r \in OpRec /\ r.pc = "persist" /\ r.epoch = e /\ r.rev = op[o].rev /\ r.val = op[o].val
  BY <1>0, <1>3, <1>5, Zenon DEF OpRec
<1>7. n.epoch = e /\ n.rev = op[o].rev /\ n.val = op[o].val /\ n \in RowRec
  BY <1>1, <1>3 DEF RowAt, RowRec
<1>8. RowOf(r) = n
  BY <1>6, Zenon DEF RowOf, RowAt
<1>. HIDE DEF r, n
<1>9. /\ lost' \in [Kinds -> SUBSET Ops] /\ Excused \subseteq Excused'
      /\ (e < op[o].won => op[o].val \subseteq Excused')
  <2>0. lost \in [Kinds -> SUBSET Ops] /\ "undated" \in Kinds /\ "undated" \in Excusing
    BY DEF Whole, Shapes, Kinds, Excusing, RowNotes
  <2>1. CASE e < op[o].won
    <3>1. lost' = [lost EXCEPT !["undated"] = @ \cup op[o].val]
      BY <1>4, <2>1, Zenon
    <3>. QED  BY <1>1, <2>0, <3>1, LostGrows, Zenon
  <2>2. CASE ~(e < op[o].won)
    BY <1>4, <2>0, <2>2, LostSame
  <2>. QED  BY <2>1, <2>2, Zenon
<1>10. Line(R, Current, Excused', bucket)
  BY <1>9, LineMore, Zenon DEF Whole
<1>11. Line(S, Current, Excused', bucket)
  <2>1. CASE e = op[o].won
    <3>1. n = RowAt(op[o], op[o].won)
      BY <2>1, Zenon DEF n
    <3>2. S = R
      BY <1>2, <3>1, Zenon
    <3>. QED  BY <1>10, <3>2
  <2>2. CASE e < op[o].won
    <3>. DEFINE t == RowAt(op[o], op[o].won)
    <3>1. t \in R /\ t.epoch = op[o].won /\ t.rev = op[o].rev /\ t.val = op[o].val
      BY <1>2, Zenon DEF RowAt
    <3>. HIDE DEF t
    <3>2. R \subseteq RowRec /\ RowOf(NoWrite) \in R
      BY <1>10, Zenon DEF Line
    <3>3. \A s \in R : Older(s, n) => Older(s, t)
      BY <1>1, <1>3, <1>7, <2>2, <3>1, <3>2 DEF Older, RowRec
    <3>4. \A s \in R : Older(s, n) => s.val \subseteq n.val \cup Excused'
      BY <1>7, <1>10, <3>1, <3>3, Zenon DEF Line
    <3>5. n.val \subseteq Excused'
      BY <1>7, <1>9, <2>2, Zenon
    <3>6. \A s, u \in S : Older(s, u) => s.val \subseteq u.val \cup Excused'
      BY <1>10, <3>4, <3>5, Zenon DEF Line
    <3>7. \A s \in S : s.val \subseteq Current \cup Excused'
      BY <1>10, <3>5, Zenon DEF Line
    <3>8. n.epoch < bucket.epoch
      BY <1>0, <1>1, <1>2, <1>3, <1>7, <2>2
    <3>9. \A s \in S : s.epoch < bucket.epoch \/ (s.epoch = bucket.epoch /\ s.rev <= bucket.seq)
      BY <1>10, <3>8, Zenon DEF Line
    <3>10. S \subseteq RowRec /\ RowOf(NoWrite) \in S
      BY <1>7, <3>2, Zenon
    <3>. QED  BY <3>6, <3>7, <3>9, <3>10, Zenon DEF Line
  <2>. QED  BY <1>1, <1>3, <2>1, <2>2
<1>12. Fits(o, r, S, Excused', bucket, l2, Current)
  BY <1>3, <1>6, <1>8 DEF Fits
<1>13. op' \in [Ops -> OpRec] /\ \A q \in Ops : op'[q] = op[q] \/ Fits(q, op'[q], S, Excused', bucket, l2, Current)
  BY <1>4, <1>6, <1>12 DEF Step, Whole, Shapes
<1>14. /\ l3' \in RowRec /\ RowOf(l3') \in R
       /\ known' \in [Pods -> Nat] /\ (\A p \in Pods : known'[p] <= bucket.epoch)
       /\ buf' \in [Pods -> WriteRec] /\ (\A p \in Pods : RowOf(buf'[p]) \in S)
       /\ flusher' \in [Flushers -> FlushRec] /\ (\A f \in Flushers : RowOf(flusher'[f].w) \in S)
  BY <1>4 DEF Whole, Shapes
<1>. HIDE DEF S
<1>15. R \subseteq S
  BY Zenon DEF S
<1>. QED  BY <1>4, <1>9, <1>11, <1>13, <1>14, <1>15, QuietWhole

\* A persist that lands, is refused, fails or is buffered, and every other end of an operation.
LEMMA EndsWhole ==
    ASSUME NEW R, Whole(R), NEW o \in Ops,
           CallFails(o) \/ Persist(o) \/ PersistFails(o) \/ Add(o) \/ Arm(o)
    PROVE  DurableInv' /\ l3.val \subseteq l3'.val \cup Excused'
<1>0. /\ op[o] \in OpRec /\ Fits(o, op[o], R, Excused, bucket, l2, Current) /\ Home[o] \in Pods
      /\ l3 \in RowRec /\ RowOf(l3) \in R /\ lost \in [Kinds -> SUBSET Ops]
      /\ known \in [Pods -> Nat] /\ (\A p \in Pods : known[p] <= bucket.epoch)
      /\ buf \in [Pods -> WriteRec] /\ (\A p \in Pods : RowOf(buf[p]) \in R)
      /\ flusher \in [Flushers -> FlushRec] /\ (\A f \in Flushers : RowOf(flusher[f].w) \in R)
      /\ Line(R, Current, Excused, bucket)
  BY SwapAssumption DEF Whole, Shapes
<1>l. op[o].pc = "persist" => /\ Landed(op[o]) \in RowRec /\ RowOf(Landed(op[o])) \in R
                              /\ l3.val \subseteq Landed(op[o]).val \cup Excused
  BY <1>0, LandedInLine, Zenon DEF Fits
<1>1. CASE CallFails(o)
  <2>1. /\ Step(o, [NewOp EXCEPT !.pc = "failed"]) /\ UNCHANGED <<bucket, l2, l3, known, buf, flusher>>
        /\ lost' = lost \/ lost' = [lost EXCEPT !["halted"] = @ \cup op[o].val]
    BY <1>1 DEF CallFails, End
  <2>2. "halted" \in Kinds /\ op[o].val \in SUBSET Ops /\ "failed" \in Ended
    BY <1>0, Zenon DEF Kinds, RowNotes, OpRec, Ended
  <2>3. lost' \in [Kinds -> SUBSET Ops] /\ Excused \subseteq Excused'
    BY <1>0, <2>1, <2>2, LostGrows, LostSame, Zenon
  <2>4. Fits(o, [NewOp EXCEPT !.pc = "failed"], R, Excused', bucket, l2, Current)
    BY <2>2, EndedFits
  <2>. QED  BY <1>0, <2>1, <2>3, <2>4, OpWhole
<1>e. lost' = lost => Excused' = Excused
  BY <1>0, LostSame, Zenon
<1>2. CASE Persist(o)
  <2>1. /\ Step(o, [NewOp EXCEPT !.pc = "done"]) /\ l3' = Landed(op[o]) /\ op[o].pc = "persist"
        /\ UNCHANGED <<bucket, l2, known, buf, flusher, lost>>
    BY <1>2 DEF Persist, End
  <2>2. Fits(o, [NewOp EXCEPT !.pc = "done"], R, Excused', bucket, l2, Current)
    BY EndedFits DEF Ended
  <2>. QED  BY <1>0, <1>e, <1>l, <2>1, <2>2, OpWhole
<1>3. CASE PersistFails(o)
  <2>1. /\ Step(o, [op[o] EXCEPT !.pc = "withdraw"]) /\ l3' \in {l3, Landed(op[o])} /\ op[o].pc = "persist"
        /\ UNCHANGED <<bucket, l2, known, buf, flusher, lost>>
    BY <1>3 DEF PersistFails, Goto
  <2>2. op[o].pc \notin Ended
    BY <2>1 DEF Ended
  <2>3. Fits(o, [op[o] EXCEPT !.pc = "withdraw"], R, Excused', bucket, l2, Current)
    BY <1>0, <1>e, <2>1, <2>2, PlainFits, Zenon
  <2>. QED  BY <1>0, <1>e, <1>l, <2>1, <2>3, OpWhole
<1>4. CASE Add(o)
  <2>1. /\ Step(o, [op[o] EXCEPT !.pc = "arm"]) /\ op[o].pc = "persist"
        /\ UNCHANGED <<bucket, l2, l3, known, flusher, lost>>
    BY <1>4 DEF Add, Goto
  <2>2. op[o].pc \notin Ended
    BY <2>1 DEF Ended
  <2>3. Fits(o, [op[o] EXCEPT !.pc = "arm"], R, Excused', bucket, l2, Current)
    BY <1>0, <1>e, <2>1, <2>2, PlainFits, Zenon
  <2>4. Pending(o) \in WriteRec /\ RowOf(Pending(o)) = RowOf(op[o]) /\ RowOf(op[o]) \in R
    BY <1>0, <2>1 DEF Pending, WriteRec, OpRec, RowOf, RowAt, Fits
  <2>5. buf' = buf \/ buf' = [buf EXCEPT ![Home[o]] = Pending(o)]
    BY <1>4 DEF Add
  <2>6. buf' \in [Pods -> WriteRec] /\ \A p \in Pods : RowOf(buf'[p]) \in R
    BY <1>0, <2>4, <2>5, Zenon
  <2>. QED  BY <1>0, <1>e, <2>1, <2>3, <2>6, OpWhole
<1>5. CASE Arm(o)
  <2>1. Step(o, [NewOp EXCEPT !.pc = "done"]) /\ UNCHANGED <<bucket, l2, l3, known, buf, lost>>
    BY <1>5 DEF Arm, End
  <2>2. Fits(o, [NewOp EXCEPT !.pc = "done"], R, Excused', bucket, l2, Current)
    BY EndedFits DEF Ended
  <2>3. <<Home[o], "loop">> \in Flushers
    BY <1>0, Zenon DEF Flushers, Parts
  <2>4. PICK f \in Flushers : flusher' = flusher \/ flusher' = [flusher EXCEPT ![f].pc = "idle"]
    BY <1>5, <2>3, Zenon DEF Arm
  <2>p. "idle" \in FlushPcs
    BY DEF FlushPcs
  <2>5. flusher' \in [Flushers -> FlushRec] /\ \A g \in Flushers : flusher'[g].w = flusher[g].w
    BY <1>0, <2>4, <2>p DEF FlushRec
  <2>6. \A g \in Flushers : RowOf(flusher'[g].w) \in R
    BY <1>0, <2>5, Zenon
  <2>. QED  BY <1>0, <1>e, <2>1, <2>2, <2>5, <2>6, OpWhole
<1>. QED  BY <1>1, <1>2, <1>3, <1>4, <1>5

\* The key goes, by a delete or a wipe: what its row alone had is accounted for, and L3's is the
\* row to build on.
LEMMA GoneWhole ==
    ASSUME NEW R, Whole(R), l2' = NoEntry, NEW kind \in KeyLosses, Missing(kind, l2.val),
           bucket' \in BucketRec, bucket'.gone = bucket.gone + 1,
           \/ bucket'.epoch = bucket.epoch /\ bucket'.seq = bucket.seq + 1
           \/ bucket'.epoch = bucket.epoch + 1,
           UNCHANGED <<l3, known, buf, flusher>>,
           op' \in [Ops -> OpRec],
           \A o \in Ops : op'[o] = op[o] \/ \E pc \in Ended : op'[o] = [NewOp EXCEPT !.pc = pc]
    PROVE  DurableInv' /\ l3.val \subseteq l3'.val \cup Excused'
<1>0. /\ bucket.epoch \in Nat /\ bucket.seq \in Nat /\ bucket.gone \in Nat /\ bucket'.seq \in Nat
      /\ l2.val \in SUBSET Ops /\ lost \in [Kinds -> SUBSET Ops]
      /\ Line(R, Current, Excused, bucket) /\ known \in [Pods -> Nat] /\ \A p \in Pods : known[p] <= bucket.epoch
  BY DEF Whole, Shapes, BucketRec, EntryRec
<1>k. kind \in Kinds /\ kind \in Excusing
  BY Zenon DEF Kinds, Excusing
<1>1. lost' \in [Kinds -> SUBSET Ops] /\ Excused \subseteq Excused' /\ l2.val \subseteq l3.val \cup Excused'
  BY <1>0, <1>k, MissingGrows
<1>2. l2'.rev = 0 /\ l2'.by = Nobody /\ l2' \in EntryRec
  BY DEF NoEntry, EntryRec
<1>3. Current' = l3.val /\ Current \subseteq l3.val \cup Excused'
  BY <1>1, <1>2 DEF Current
<1>4. Line(R, l3.val, Excused', bucket')
  <2>1. Line(R, l3.val, Excused', bucket)
    BY <1>0, <1>1, <1>3, LineMore
  <2>2. \A s \in R : s.epoch \in Nat /\ s.rev \in Nat
    BY <1>0 DEF Line, RowRec
  <2>3. \A s \in R : s.epoch < bucket'.epoch \/ (s.epoch = bucket'.epoch /\ s.rev <= bucket'.seq)
    BY <1>0, <2>1, <2>2 DEF Line
  <2>. QED  BY <2>1, <2>3 DEF Line
<1>5. ASSUME NEW o \in Ops PROVE Fits(o, op'[o], R, Excused', bucket', l2', l3.val)
  <2>1. CASE op'[o] = op[o]
    <3>1. Fits(o, op[o], R, Excused, bucket, l2, Current) /\ o # Nobody
      BY SwapAssumption DEF Whole
    <3>2. /\ op[o].epoch \in Nat /\ op[o].read \in Nat /\ op[o].won \in Nat
      BY <3>1 DEF Fits, OpRec
    <3>3. op[o].pc \in {"seed", "epoch", "swap"} => op[o].read <= bucket'.gone /\ op[o].read # bucket'.gone
      BY <1>0, <3>1, <3>2 DEF Fits
    <3>4. /\ op[o].epoch <= bucket.epoch => op[o].epoch <= bucket'.epoch
          /\ op[o].won <= bucket.epoch => op[o].won <= bucket'.epoch
      BY <1>0, <3>2
    <3>. QED  BY <1>2, <2>1, <3>1, <3>3, <3>4 DEF Fits
  <2>2. ASSUME NEW pc \in Ended, op'[o] = [NewOp EXCEPT !.pc = pc]
        PROVE  Fits(o, op'[o], R, Excused', bucket', l2', l3.val)
    BY <2>2, EndedFits
  <2>. QED  BY <2>1, <2>2
<1>6. Whole(R)'
  <2>1. Shapes'
    BY <1>1, <1>2 DEF Whole, Shapes
  <2>2. (l2.rev <= bucket.seq /\ \A p \in Pods : known[p] <= bucket.epoch)'
    BY <1>0, <1>2
  <2>3. Line(R, Current, Excused, bucket)'
    BY <1>3, <1>4 DEF Line, Older
  <2>4. RowOf(l3)' \in R /\ (\A p \in Pods : RowOf(buf[p]) \in R)' /\ (\A f \in Flushers : RowOf(flusher[f].w) \in R)'
    BY DEF Whole, RowOf, RowAt
  <2>5. (\A o \in Ops : Fits(o, op[o], R, Excused, bucket, l2, Current))'
    BY <1>3, <1>5, Zenon DEF Fits, RowOf, RowAt
  <2>. QED  BY <2>1, <2>2, <2>3, <2>4, <2>5 DEF Whole
<1>. QED  BY <1>6 DEF DurableInv

\* A delete is one more operation of the bucket, and one more key gone.
LEMMA BucketMoves ==
    ASSUME NEW b \in BucketRec
    PROVE  LET d == [b EXCEPT !.seq = @ + 1, !.gone = @ + 1]
           IN  d \in BucketRec /\ d.epoch = b.epoch /\ d.seq = b.seq + 1 /\ d.gone = b.gone + 1
<1>. DEFINE c == [b EXCEPT !.seq = b.seq + 1]
            d == [c EXCEPT !.gone = c.gone + 1]
<1>1. c \in BucketRec /\ c.epoch = b.epoch /\ c.seq = b.seq + 1 /\ c.gone = b.gone
  BY DEF BucketRec
<1>2. c.gone + 1 \in Nat
  BY <1>1 DEF BucketRec
<1>3. d \in BucketRec /\ d.epoch = c.epoch /\ d.seq = c.seq /\ d.gone = c.gone + 1
  <2>. HIDE DEF c
  <2>. QED  BY <1>1, <1>2, Zenon DEF BucketRec
<1>. QED  BY <1>1, <1>3, Zenon

\* A wipe and a withdrawal keep the rows in line.
LEMMA LosesWhole ==
    ASSUME NEW R, Whole(R), Wipe \/ \E o \in Ops : Withdraw(o)
    PROVE  DurableInv' /\ l3.val \subseteq l3'.val \cup Excused'
<1>0. /\ bucket \in BucketRec /\ bucket.epoch \in Nat /\ bucket.seq \in Nat /\ bucket.gone \in Nat
      /\ op \in [Ops -> OpRec] /\ lost \in [Kinds -> SUBSET Ops]
      /\ l3 \in RowRec /\ RowOf(l3) \in R
      /\ known \in [Pods -> Nat] /\ (\A p \in Pods : known[p] <= bucket.epoch)
      /\ buf \in [Pods -> WriteRec] /\ (\A p \in Pods : RowOf(buf[p]) \in R)
      /\ flusher \in [Flushers -> FlushRec] /\ (\A f \in Flushers : RowOf(flusher[f].w) \in R)
  BY DEF Whole, Shapes, BucketRec
<1>k. "wiped" \in KeyLosses /\ "withdrawn" \in KeyLosses /\ "halted" \in Kinds /\ "failed" \in Ended
  BY DEF Kinds, KeyLosses, RowNotes, Ended
<1>1. CASE Wipe
  <2>1. /\ bucket' = [epoch |-> bucket.epoch + 1, seq |-> 0, gone |-> bucket.gone + 1]
        /\ l2' = NoEntry /\ Missing("wiped", l2.val) /\ UNCHANGED <<l3, known, buf, flusher, op>>
    BY <1>1, Zenon DEF Wipe
  <2>2. bucket' \in BucketRec /\ bucket'.epoch = bucket.epoch + 1 /\ bucket'.gone = bucket.gone + 1
    BY <1>0, <2>1 DEF BucketRec
  <2>. QED  BY <1>0, <1>k, <2>1, <2>2, GoneWhole, Zenon
<1>2. ASSUME NEW o \in Ops, Withdraw(o) PROVE DurableInv' /\ l3.val \subseteq l3'.val \cup Excused'
  <2>. DEFINE s == [NewOp EXCEPT !.pc = "failed"]
  <2>1. s \in OpRec
    BY <1>k, EndedFits
  <2>2. CASE l2' = NoEntry /\ bucket' = [bucket EXCEPT !.seq = @ + 1, !.gone = @ + 1]
             /\ Missing("withdrawn", l2.val) /\ Step(o, s)
    <3>0. bucket' = [bucket EXCEPT !.seq = @ + 1, !.gone = @ + 1]
      BY <2>2
    <3>1. /\ bucket' \in BucketRec /\ bucket'.epoch = bucket.epoch /\ bucket'.seq = bucket.seq + 1
          /\ bucket'.gone = bucket.gone + 1
      BY <1>0, <3>0, BucketMoves, Zenon
    <3>2. op' \in [Ops -> OpRec] /\ \A q \in Ops : op'[q] = op[q] \/ op'[q] = s
      BY <1>0, <2>1, <2>2 DEF Step
    <3>3. UNCHANGED <<l3, known, buf, flusher>>
      BY <1>2 DEF Withdraw
    <3>. QED  BY <1>k, <2>2, <3>1, <3>2, <3>3, GoneWhole
  <2>3. CASE Step(o, s) /\ UNCHANGED <<l2, bucket, lost>>
    <3>1. Fits(o, s, R, Excused, bucket, l2, Current) /\ UNCHANGED <<l3, known, buf, flusher>>
      BY <1>2, <1>k, EndedFits DEF Withdraw
    <3>. QED  BY <1>0, <2>3, <3>1, OpReads
  <2>4. CASE Step(o, s) /\ lost' = [lost EXCEPT !["halted"] = @ \cup op[o].val] /\ UNCHANGED <<l2, bucket>>
    <3>1. Fits(o, s, R, Excused', bucket, l2, Current) /\ UNCHANGED <<l3, known, buf, flusher>>
      BY <1>2, <1>k, EndedFits, Zenon DEF Withdraw
    <3>2. op[o].val \in SUBSET Ops
      BY <1>0 DEF OpRec
    <3>3. lost' \in [Kinds -> SUBSET Ops] /\ Excused \subseteq Excused'
      BY <1>0, <1>k, <2>4, <3>2, LostGrows, Zenon
    <3>. HIDE DEF s
    <3>. QED  BY <1>0, <2>4, <3>1, <3>3, OpWhole, Zenon
  <2>. QED  BY <1>2, <2>2, <2>3, <2>4 DEF Withdraw, End
<1>. QED  BY <1>1, <1>2, Zenon

\* What a flush, a close or a crash does keeps to the rows there are.
LEMMA FlushWhole ==
    ASSUME NEW R, Whole(R), UNCHANGED <<bucket, l2>>, lost' \in [Kinds -> SUBSET Ops], Excused \subseteq Excused',
           l3' \in RowRec, RowOf(l3') \in R, l3.val \subseteq l3'.val \cup Excused',
           known' \in [Pods -> Nat], \A p \in Pods : known'[p] <= bucket.epoch,
           buf' \in [Pods -> WriteRec], \A p \in Pods : RowOf(buf'[p]) \in R,
           flusher' \in [Flushers -> FlushRec], \A f \in Flushers : RowOf(flusher'[f].w) \in R,
           op' \in [Ops -> OpRec],
           \A o \in Ops : op'[o] = op[o] \/ op'[o] = [NewOp EXCEPT !.pc = "dead"]
    PROVE  DurableInv' /\ l3.val \subseteq l3'.val \cup Excused'
<1>1. Line(R, Current, Excused', bucket)
  BY LineMore DEF Whole
<1>2. \A o \in Ops : op'[o] = op[o] \/ Fits(o, op'[o], R, Excused', bucket, l2, Current)
  BY EndedFits DEF Ended
<1>. QED  BY <1>1, <1>2, QuietWhole

\* A flush writes a row that was under way, and what it gives up or evicts is accounted for.
LEMMA FlushesWhole ==
    ASSUME NEW R, Whole(R), NEW f \in Flushers, Drain(f) \/ FlushWrite(f) \/ Ack(f) \/ FlushFails(f)
    PROVE  DurableInv' /\ l3.val \subseteq l3'.val \cup Excused'
<1>0. /\ l3 \in RowRec /\ RowOf(l3) \in R /\ lost \in [Kinds -> SUBSET Ops] /\ op \in [Ops -> OpRec]
      /\ known \in [Pods -> Nat] /\ (\A p \in Pods : known[p] <= bucket.epoch)
      /\ buf \in [Pods -> WriteRec] /\ (\A p \in Pods : RowOf(buf[p]) \in R)
      /\ flusher \in [Flushers -> FlushRec] /\ (\A g \in Flushers : RowOf(flusher[g].w) \in R)
      /\ f[1] \in Pods /\ Line(R, Current, Excused, bucket)
  BY Zenon DEF Whole, Shapes, Flushers
<1>w. flusher[f].w \in WriteRec /\ RowOf(flusher[f].w) \in R /\ flusher[f].w.val \in SUBSET Ops
  BY <1>0 DEF FlushRec, WriteRec
<1>b. /\ Landed(flusher[f].w) \in RowRec /\ RowOf(Landed(flusher[f].w)) \in R
      /\ l3.val \subseteq Landed(flusher[f].w).val \cup Excused
  BY <1>0, <1>w, LandedInLine, Zenon
<1>n. NoWrite \in WriteRec /\ RowOf(NoWrite) \in R
  BY <1>0, Zenon DEF NoWrite, WriteRec, Line
<1>r. ASSUME Rest(f)
      PROVE  flusher' \in [Flushers -> FlushRec] /\ \A g \in Flushers : RowOf(flusher'[g].w) \in R
  <2>1. \E pc \in FlushPcs : flusher' = [flusher EXCEPT ![f] = [pc |-> pc, w |-> NoWrite]]
    BY <1>r, Zenon DEF Rest, FlushPcs
  <2>. QED  BY <1>0, <1>n, <2>1 DEF FlushRec
<1>p. ASSUME NEW pc \in FlushPcs, Flush(f, pc)
      PROVE  flusher' \in [Flushers -> FlushRec] /\ \A g \in Flushers : RowOf(flusher'[g].w) \in R
  <2>1. flusher' \in [Flushers -> FlushRec] /\ \A g \in Flushers : flusher'[g].w = flusher[g].w
    BY <1>0, <1>p, Zenon DEF Flush, FlushRec
  <2>. QED  BY <1>0, <2>1
<1>e. lost' = lost => lost' \in [Kinds -> SUBSET Ops] /\ Excused' = Excused
  BY <1>0, LostSame
<1>m. ASSUME NEW kind \in {"evicted", "dropped"}, NEW val \in SUBSET Ops, Missing(kind, val)
      PROVE  lost' \in [Kinds -> SUBSET Ops] /\ Excused \subseteq Excused'
  <2>1. kind \in Kinds
    BY DEF Kinds, BufferLosses
  <2>. QED  BY <1>0, <1>m, <2>1, MissingGrows, Zenon
<1>1. CASE Drain(f)
  <2>1. \E pc \in FlushPcs : flusher' = [flusher EXCEPT ![f] = [pc |-> pc, w |-> buf[f[1]]]]
    BY <1>1, Zenon DEF Drain, FlushPcs
  <2>2. flusher' \in [Flushers -> FlushRec] /\ \A g \in Flushers : RowOf(flusher'[g].w) \in R
    BY <1>0, <2>1 DEF FlushRec
  <2>3. UNCHANGED <<bucket, l2, l3, known, op, buf, lost>>
    BY <1>1, Zenon DEF Drain
  <2>. QED  BY <1>0, <1>e, <2>2, <2>3, FlushWhole
<1>2. CASE FlushWrite(f)
  <2>1. Flush(f, "ack") /\ "ack" \in FlushPcs /\ l3' = Landed(flusher[f].w)
    BY <1>2 DEF FlushWrite, FlushPcs
  <2>2. UNCHANGED <<bucket, l2, known, op, buf, lost>>
    BY <1>2, Zenon DEF FlushWrite
  <2>. QED  BY <1>0, <1>b, <1>e, <1>p, <2>1, <2>2, FlushWhole, Zenon
<1>3. CASE Ack(f)
  <2>1. Rest(f) /\ UNCHANGED <<bucket, l2, l3, known, op>>
    BY <1>3, Zenon DEF Ack
  <2>2. buf' = buf \/ buf' = [buf EXCEPT ![f[1]] = NoWrite]
    BY <1>3, Zenon DEF Ack
  <2>3. buf' \in [Pods -> WriteRec] /\ \A p \in Pods : RowOf(buf'[p]) \in R
    BY <1>0, <1>n, <2>2, Zenon
  <2>4. lost' = lost \/ Missing("evicted", buf[f[1]].val)
    BY <1>3, Zenon DEF Ack
  <2>5. buf[f[1]].val \in SUBSET Ops
    BY <1>0, Zenon DEF WriteRec
  <2>6. lost' \in [Kinds -> SUBSET Ops] /\ Excused \subseteq Excused'
    BY <1>e, <1>m, <2>4, <2>5, Zenon
  <2>. QED  BY <1>0, <1>r, <2>1, <2>3, <2>6, FlushWhole
<1>4. CASE FlushFails(f)
  <2>1. UNCHANGED <<bucket, l2, known, op>> /\ l3' \in {l3, Landed(flusher[f].w)}
    BY <1>4, Zenon DEF FlushFails
  <2>2. Rest(f) \/ Flush(f, "entity") \/ Flush(f, "ack")
    BY <1>4 DEF FlushFails
  <2>3. flusher' \in [Flushers -> FlushRec] /\ \A g \in Flushers : RowOf(flusher'[g].w) \in R
    BY <1>p, <1>r, <2>2 DEF FlushPcs
  <2>4. buf' \in [Pods -> WriteRec] /\ \A p \in Pods : RowOf(buf'[p]) \in R
    <3>. DEFINE w == [flusher[f].w EXCEPT !.retries = @ + 1]
    <3>1. w \in WriteRec /\ RowOf(w) = RowOf(flusher[f].w)
      BY <1>w DEF WriteRec, RowOf, RowAt
    <3>2. buf' = buf \/ buf' = [buf EXCEPT ![f[1]] = w]
      BY <1>4 DEF FlushFails, ReEnqueue
    <3>. HIDE DEF w
    <3>. QED  BY <1>0, <1>w, <3>1, <3>2, Zenon
  <2>5. lost' = lost \/ Missing("dropped", flusher[f].w.val)
    BY <1>4, Zenon DEF FlushFails
  <2>6. lost' \in [Kinds -> SUBSET Ops] /\ Excused \subseteq Excused'
    BY <1>e, <1>m, <1>w, <2>5
  <2>7. l3' \in RowRec /\ RowOf(l3') \in R /\ l3.val \subseteq l3'.val \cup Excused'
    BY <1>0, <1>b, <2>1, <2>6, Zenon
  <2>. QED  BY <1>0, <2>1, <2>3, <2>4, <2>6, <2>7, FlushWhole
<1>. QED  BY <1>1, <1>2, <1>3, <1>4, Zenon

\* A close lands a row that was under way, or none; a crash only forgets.
LEMMA PodsWhole ==
    ASSUME NEW R, Whole(R), NEW p \in Pods, Close(p) \/ Closed(p) \/ Crash(p)
    PROVE  DurableInv' /\ l3.val \subseteq l3'.val \cup Excused'
<1>0. /\ l3 \in RowRec /\ RowOf(l3) \in R /\ lost \in [Kinds -> SUBSET Ops] /\ op \in [Ops -> OpRec]
      /\ known \in [Pods -> Nat] /\ (\A q \in Pods : known[q] <= bucket.epoch) /\ bucket.epoch \in Nat
      /\ buf \in [Pods -> WriteRec] /\ (\A q \in Pods : RowOf(buf[q]) \in R)
      /\ flusher \in [Flushers -> FlushRec] /\ (\A g \in Flushers : RowOf(flusher[g].w) \in R)
      /\ <<p, "loop">> \in Flushers /\ <<p, "close">> \in Flushers /\ Line(R, Current, Excused, bucket)
  BY DEF Whole, Shapes, Flushers, Parts, BucketRec
<1>n. NoWrite \in WriteRec /\ RowOf(NoWrite) \in R /\ NoFlush \in FlushRec /\ NoFlush.w = NoWrite
  BY <1>0, Zenon DEF NoWrite, WriteRec, Line, NoFlush, FlushRec, FlushPcs
<1>v. buf[p].val \in SUBSET Ops
  BY <1>0, Zenon DEF WriteRec
<1>k. "unflushed" \in Kinds /\ "crashed" \in Kinds /\ "halted" \in Kinds
  BY DEF Kinds, BufferLosses, RowNotes
<1>1. CASE Close(p)
  <2>. DEFINE w == flusher[<<p, "loop">>].w
  <2>1. Landed(w) \in RowRec /\ RowOf(Landed(w)) \in R /\ l3.val \subseteq Landed(w).val \cup Excused
    BY <1>0, LandedInLine, Zenon
  <2>2. l3' \in {l3, Landed(w)} /\ UNCHANGED <<bucket, l2, known, op, buf, lost>>
    BY <1>1 DEF Close
  <2>3. flusher' = [flusher EXCEPT ![<<p, "loop">>] = NoFlush, ![<<p, "close">>].pc = "idle"]
    BY <1>1 DEF Close
  <2>4. "idle" \in FlushPcs
    BY DEF FlushPcs
  <2>5. flusher' \in [Flushers -> FlushRec] /\ \A g \in Flushers : flusher'[g].w \in {flusher[g].w, NoWrite}
    BY <1>0, <1>n, <2>3, <2>4, Zenon DEF FlushRec
  <2>6. \A g \in Flushers : RowOf(flusher'[g].w) \in R
    BY <1>0, <1>n, <2>5, Zenon
  <2>7. lost' \in [Kinds -> SUBSET Ops] /\ Excused' = Excused
    BY <1>0, <2>2, LostSame
  <2>. HIDE DEF w
  <2>8. l3' \in RowRec /\ RowOf(l3') \in R /\ l3.val \subseteq l3'.val \cup Excused'
    BY <1>0, <2>1, <2>2, <2>7, Zenon
  <2>. QED  BY <1>0, <2>2, <2>5, <2>6, <2>7, <2>8, FlushWhole
<1>2. CASE Closed(p)
  <2>1. UNCHANGED <<bucket, l2, l3, known, op, buf>> /\ Flush(<<p, "close">>, "off")
    BY <1>2, Zenon DEF Closed
  <2>2. "off" \in FlushPcs
    BY DEF FlushPcs
  <2>3. flusher' \in [Flushers -> FlushRec] /\ \A g \in Flushers : flusher'[g].w = flusher[g].w
    BY <1>0, <2>1, <2>2, Zenon DEF Flush, FlushRec
  <2>4. \E val \in SUBSET Ops : Missing("unflushed", val)
    BY <1>2, <1>v, Zenon DEF Closed
  <2>5. lost' \in [Kinds -> SUBSET Ops] /\ Excused \subseteq Excused'
    BY <1>0, <1>k, <2>4, MissingGrows, Zenon
  <2>6. \A g \in Flushers : RowOf(flusher'[g].w) \in R
    BY <1>0, <2>3
  <2>. QED  BY <1>0, <2>1, <2>3, <2>5, <2>6, FlushWhole
<1>3. CASE Crash(p)
  <2>. DEFINE r == [NewOp EXCEPT !.pc = "dead"]
              ending == {o \in Ops : Home[o] = p /\ Running(o)}
              A == buf[p].val \ (l3.val \ lost.undated)
              B == UNION {op[o].val : o \in {o \in ending : op[o].pc \in {"won", "readback", "persist", "withdraw"}}}
  <2>1. /\ UNCHANGED <<bucket, l2, l3>> /\ known' = [known EXCEPT ![p] = 0]
        /\ lost' = [lost EXCEPT !["crashed"] = @ \cup A, !["halted"] = @ \cup B]
    BY <1>3, Zenon DEF Crash
  <2>2. buf' \in [Pods -> WriteRec] /\ \A q \in Pods : RowOf(buf'[q]) \in R
    BY <1>0, <1>3, <1>n DEF Crash
  <2>3. flusher' \in [Flushers -> FlushRec] /\ \A g \in Flushers : RowOf(flusher'[g].w) \in R
    BY <1>0, <1>3, <1>n DEF Crash
  <2>k. /\ known \in [Pods -> Nat] /\ (\A q \in Pods : known[q] <= bucket.epoch) /\ bucket.epoch \in Nat
        /\ known' = [known EXCEPT ![p] = 0]
    BY <1>0, <2>1, Zenon
  <2>4. known' \in [Pods -> Nat] /\ \A q \in Pods : known'[q] <= bucket.epoch
    <3>. HIDE DEF r, A, B, ending
    <3>. QED  BY <2>k
  <2>5. r \in OpRec
    BY EndedFits, Zenon DEF Ended
  <2>6. op' = [o \in Ops |-> IF o \in ending THEN r ELSE op[o]]
    BY <1>3 DEF Crash
  <2>7. op' \in [Ops -> OpRec] /\ \A o \in Ops : op'[o] = op[o] \/ op'[o] = r
    <3>. HIDE DEF r, ending
    <3>. QED  BY <1>0, <2>5, <2>6, Zenon
  <2>8. A \in SUBSET Ops /\ B \in SUBSET Ops
    <3>1. \A o \in Ops : op[o].val \in SUBSET Ops
      BY <1>0 DEF OpRec
    <3>. QED  BY <1>v, <3>1, Zenon
  <2>. HIDE DEF A, B
  <2>9. lost' \in [Kinds -> SUBSET Ops] /\ Excused \subseteq Excused'
    <3>1. lost' \in [Kinds -> SUBSET Ops] /\ \A kind \in Kinds : lost[kind] \subseteq lost'[kind]
      BY <1>0, <1>k, <2>1, <2>8
    <3>2. Excusing \subseteq Kinds
      BY Zenon DEF Kinds, Excusing, RowNotes
    <3>. QED  BY <3>1, <3>2, Zenon DEF Excused
  <2>. QED  BY <1>0, <2>1, <2>2, <2>3, <2>4, <2>7, <2>9, FlushWhole, Zenon
<1>. QED  BY <1>1, <1>2, <1>3, Zenon

\* No row is under way at first, and L3 has none.
LEMMA InitWhole == ASSUME Init PROVE DurableInv
<1>. DEFINE R == {RowOf(NoWrite)}
<1>1. RowOf(NoWrite) = [epoch |-> 0, rev |-> 0, val |-> {}]
  BY Zenon DEF RowOf, RowAt, NoWrite
<1>2. /\ bucket = [epoch |-> 1, seq |-> 0, gone |-> 0] /\ l2 = NoEntry /\ l3 = RowOf(NoWrite)
      /\ known = [p \in Pods |-> 0] /\ op = [o \in Ops |-> NewOp] /\ buf = [p \in Pods |-> NoWrite]
      /\ flusher = [f \in Flushers |-> NoFlush] /\ lost = [kind \in Kinds |-> {}]
  BY <1>1, Zenon DEF Init, Kinds
<1>3. NewOp \in OpRec /\ NewOp.pc = "new"
  <2>1. "new" \in OpPcs /\ 0 \in Nat /\ {} \in SUBSET Ops
    BY DEF OpPcs, Ended
  <2>2. NewOp \in OpRec
    BY <2>1, OpRecord, Zenon DEF NewOp
  <2>. QED  BY <2>2, Zenon DEF NewOp
<1>4. NoWrite \in WriteRec /\ NoFlush \in FlushRec /\ NoFlush.w = NoWrite
  BY Zenon DEF NoWrite, WriteRec, NoFlush, FlushRec, FlushPcs
<1>5. Shapes
  <2>1. bucket \in BucketRec /\ l2 \in EntryRec /\ l3 \in RowRec
    <3>1. bucket \in BucketRec
      BY <1>2, Zenon DEF BucketRec
    <3>2. l2 \in EntryRec
      BY <1>2, Zenon DEF EntryRec, NoEntry
    <3>3. l3 \in RowRec
      BY <1>1, <1>2 DEF RowRec
    <3>. QED  BY <3>1, <3>2, <3>3, Zenon
  <2>2. lost \in [Kinds -> SUBSET Ops] /\ known \in [Pods -> Nat]
    BY <1>2, Zenon
  <2>3. op \in [Ops -> OpRec] /\ buf \in [Pods -> WriteRec] /\ flusher \in [Flushers -> FlushRec]
    BY <1>2, <1>3, <1>4, Zenon
  <2>. QED  BY <2>1, <2>2, <2>3 DEF Shapes
<1>6. l2.rev = 0 /\ bucket.seq = 0 /\ bucket.epoch = 1 /\ \A p \in Pods : known[p] = 0
  BY <1>2, Zenon DEF NoEntry
<1>7. Line(R, Current, Excused, bucket)
  <2>1. RowOf(NoWrite) \in RowRec
    BY <1>1 DEF RowRec
  <2>2. RowOf(NoWrite).epoch = 0 /\ RowOf(NoWrite).rev = 0 /\ RowOf(NoWrite).val = {}
    BY <1>1
  <2>. QED  BY <1>6, <2>1, <2>2 DEF Line
<1>8. RowOf(l3) = RowOf(NoWrite)
  BY <1>1, <1>2, Zenon DEF RowOf, RowAt
<1>9. (\A p \in Pods : RowOf(buf[p]) \in R) /\ \A f \in Flushers : RowOf(flusher[f].w) \in R
  BY <1>2, <1>4, Zenon
<1>10. \A o \in Ops : Fits(o, op[o], R, Excused, bucket, l2, Current)
  <2>1. \A o \in Ops : op[o] = NewOp
    BY <1>2
  <2>. QED  BY <1>3, <2>1, Zenon DEF Fits, Ended
<1>11. Whole(R)
  <2>1. l2.rev <= bucket.seq /\ \A p \in Pods : known[p] <= bucket.epoch
    BY <1>6
  <2>2. RowOf(l3) \in R
    BY <1>8
  <2>. QED  BY <1>5, <1>7, <1>9, <1>10, <2>1, <2>2, Zenon DEF Whole
<1>. QED  BY <1>11, Zenon DEF DurableInv

\* Every step keeps the rows in line, and takes nothing from L3 that is not accounted for.
LEMMA StepWhole ==
    ASSUME DurableInv, [Next]_vars
    PROVE  DurableInv' /\ l3.val \subseteq l3'.val \cup Excused'
<1>0. PICK R : Whole(R)
  BY DEF DurableInv
<1>1. ASSUME NEW o \in Ops, Begin(o) \/ OpStep(o) \/ CallFails(o) \/ PersistFails(o)
      PROVE  DurableInv' /\ l3.val \subseteq l3'.val \cup Excused'
  BY <1>0, <1>1, ReadsWhole, SwapWhole, ReadBackWhole, EndsWhole, LosesWhole, Zenon DEF OpStep
<1>2. ASSUME NEW f \in Flushers, Drain(f) \/ FlushWrite(f) \/ Ack(f) \/ FlushFails(f)
      PROVE  DurableInv' /\ l3.val \subseteq l3'.val \cup Excused'
  BY <1>0, <1>2, FlushesWhole, Zenon
<1>3. ASSUME NEW p \in Pods, Close(p) \/ Closed(p) \/ Crash(p)
      PROVE  DurableInv' /\ l3.val \subseteq l3'.val \cup Excused'
  BY <1>0, <1>3, PodsWhole
<1>4. ASSUME NEW p \in Pods, FlushStep(p)
      PROVE  DurableInv' /\ l3.val \subseteq l3'.val \cup Excused'
  <2>1. \A k \in Parts : <<p, k>> \in Flushers
    BY Zenon DEF Flushers
  <2>. QED  BY <1>2, <1>3, <1>4, <2>1, Zenon DEF FlushStep
<1>5. CASE Wipe
  BY <1>0, <1>5, LosesWhole, Zenon
<1>6. CASE UNCHANGED vars
  <2>1. UNCHANGED <<bucket, l2, l3, known, op, buf, flusher, lost>>
    BY <1>6, Zenon DEF vars
  <2>2. Excused' = Excused /\ Current' = Current
    BY <2>1 DEF Excused, Current
  <2>3. Whole(R)'
    BY <1>0, <2>1, <2>2, Zenon DEF Whole, Shapes, Line, Fits, Older, RowOf, RowAt
  <2>. QED  BY <2>1, <2>3, Zenon DEF DurableInv
<1>7. \A p \in Mortal : p \in Pods
  BY SwapAssumption
<1>. QED  BY <1>1, <1>2, <1>3, <1>4, <1>5, <1>6, <1>7, Zenon DEF Next

\* the step DurableStays allows
KeepsDurable == l3.val \subseteq l3'.val \cup UNION {lost'[kind] : kind \in KeyLosses \cup {"undated"}}

\* What has reached L3 stays there at every step, but for what is accounted for as lost, for every
\* setting of the constants: whatever wipes, failed persists, withdrawals, closes and crashes there
\* are, the fence on (epoch, revision) of upsert_ordered never lets an earlier row over a later one.
THEOREM DurableKept == Spec => DurableStays
<1>1. Init => DurableInv
  BY InitWhole
<1>2. DurableInv /\ [Next]_vars => DurableInv'
  BY StepWhole, Zenon
<1>3. DurableInv /\ [Next]_vars => [KeepsDurable]_vars
  <2>. SUFFICES ASSUME DurableInv, [Next]_vars PROVE KeepsDurable
    OBVIOUS
  <2>1. l3.val \subseteq l3'.val \cup Excused'
    BY StepWhole
  <2>. QED  BY <2>1 DEF KeepsDurable, Excused, Excusing
<1>4. Spec => [][KeepsDurable]_vars
  BY <1>1, <1>2, <1>3, PTL DEF Spec
<1>. QED  BY <1>4, PTL DEF KeepsDurable, DurableStays

----------------------------------------------------------------------------
(* FailedIsWithdrawn: a change that was never shown (Private) is only in   *)
(* the entry its own swap wrote and in what others read from there. They   *)
(* lose their swap to whatever takes it back: as long as the key has not   *)
(* gone since, a swap at the entry's revision read that very entry         *)
(* (SameEntry).                                                            *)

Won == {"won", "readback", "persist", "withdraw"}
Unswapped == {"new", "read", "seed", "epoch", "swap"}
PrivatePcs == Unswapped \cup {"failed"} \cup Won

Private(x) == op[x].pc \in PrivatePcs /\ x \notin shown

\* L3 has the change, or may be given it by a flush
Stored(x) ==
    \/ x \in l3.val
    \/ \E p \in Pods : x \in buf[p].val
    \/ \E f \in Flushers : x \in flusher[f].w.val

\* only its own swap brings it to L2
OwnEntry(x) == x \in l2.val => op[x].pc \in Won /\ op[x].rev = l2.rev

\* who read it did so from an entry, and has not won with it
Reader(x, q) ==
    x \in op[q].val =>
        /\ op[x].pc \in Won \cup {"failed"}
        /\ op[q].pc \in Won => q = x
        /\ op[q].pc \in {"epoch", "swap"} => op[q].rev # 0

Unseen(x) == ~Stored(x) /\ OwnEntry(x) /\ \A q \in Ops : Reader(x, q)

ReadEntry(q) ==
    op[q].pc = "swap" /\ op[q].rev # 0 /\ op[q].read = bucket.gone /\ op[q].rev = l2.rev => op[q].val = l2.val

SameEntry == \A q \in Ops : ReadEntry(q)

HiddenInv == SameEntry /\ \A x \in Ops : Private(x) => Unseen(x)

\* what of DurableInv the steps rest on
Steady ==
    /\ bucket \in BucketRec
    /\ op \in [Ops -> OpRec] /\ buf \in [Pods -> WriteRec] /\ flusher \in [Flushers -> FlushRec]
    /\ \A o \in Ops : /\ op[o].pc \in {"seed", "epoch"} => op[o].rev = 0
                      /\ op[o].pc = "swap" /\ op[o].read = bucket.gone => op[o].rev <= bucket.seq

LEMMA DurableSteady == DurableInv => Steady
<1>. SUFFICES ASSUME NEW R, Whole(R) PROVE Steady
  BY Zenon DEF DurableInv
<1>1. \A o \in Ops : Fits(o, op[o], R, Excused, bucket, l2, Current)
  BY Zenon DEF Whole
<1>2. ASSUME NEW o \in Ops
      PROVE  /\ op[o].pc \in {"seed", "epoch"} => op[o].rev = 0
             /\ op[o].pc = "swap" /\ op[o].read = bucket.gone => op[o].rev <= bucket.seq
  BY <1>1, Zenon DEF Fits
<1>. QED  BY <1>2, Zenon DEF Whole, Shapes, Steady

\* An operation's step keeps its own change and those it carries out of sight.
LEMMA OpHides ==
    ASSUME HiddenInv, Steady, NEW o \in Ops, NEW r, Step(o, r), shown \subseteq shown',
           Private(o)' => Private(o),
           \A x \in Ops : Private(x)' => ~Stored(x)' /\ OwnEntry(x)',
           \A x \in Ops : Private(x)' => Reader(x, o)',
           Private(o)' => r.pc \in Won \cup {"failed"} \/ \A q \in Ops : o \notin op[q].val,
           \A q \in Ops : ReadEntry(q)'
    PROVE  HiddenInv'
<1>0. op'[o] = r /\ \A q \in Ops : q # o => op'[q] = op[q]
  BY Zenon DEF Step, Steady
<1>1. ASSUME NEW x \in Ops, Private(x)' PROVE Private(x)
  BY <1>0, <1>1, Zenon DEF Private
<1>2. ASSUME NEW x \in Ops, Private(x)', NEW q \in Ops PROVE Reader(x, q)'
  <2>1. CASE q = o
    BY <1>2, <2>1, Zenon
  <2>2. CASE q # o
    <3>1. Reader(x, q) /\ op'[q] = op[q]
      BY <1>0, <1>1, <1>2, <2>2, Zenon DEF HiddenInv, Unseen
    <3>2. CASE x = o
      BY <1>0, <1>2, <2>2, <3>1, <3>2, Zenon DEF Reader
    <3>3. CASE x # o
      BY <1>0, <3>1, <3>3, Zenon DEF Reader
    <3>. QED  BY <3>2, <3>3, Zenon
  <2>. QED  BY <2>1, <2>2, Zenon
<1>3. \A x \in Ops : Private(x)' => Unseen(x)'
  BY <1>2, Zenon DEF Unseen
<1>. QED  BY <1>3, Zenon DEF HiddenInv, SameEntry

\* A step of an operation that leaves the entry, L3 and the buffers alone.
LEMMA ReadHides ==
    ASSUME HiddenInv, Steady, NEW o \in Ops, NEW r, Step(o, r), shown \subseteq shown',
           UNCHANGED <<bucket, l2, l3, buf, flusher>>,
           Private(o)' => /\ Private(o)
                          /\ o \in l2.val => r.pc \in Won /\ r.rev = l2.rev
                          /\ r.pc \in Won \cup {"failed"} \/ \A q \in Ops : o \notin op[q].val,
           \A x \in Ops : Private(x)' => Reader(x, o)',
           ReadEntry(o)'
    PROVE  HiddenInv'
<1>0. op'[o] = r /\ \A q \in Ops : q # o => op'[q] = op[q]
  BY Zenon DEF Step, Steady
<1>1. ASSUME NEW x \in Ops, Private(x)' PROVE ~Stored(x)' /\ OwnEntry(x)'
  <2>1. Private(x)
    BY <1>0, <1>1, Zenon DEF Private
  <2>2. ~Stored(x) /\ OwnEntry(x)
    BY <2>1, Zenon DEF HiddenInv, Unseen
  <2>3. ~Stored(x)'
    BY <2>2, Zenon DEF Stored
  <2>4. CASE x = o
    BY <1>0, <1>1, <2>3, <2>4, Zenon DEF OwnEntry
  <2>5. CASE x # o
    BY <1>0, <2>2, <2>3, <2>5, Zenon DEF OwnEntry
  <2>. QED  BY <2>4, <2>5, Zenon
<1>2. ASSUME NEW q \in Ops PROVE ReadEntry(q)'
  <2>1. CASE q # o
    BY <1>0, <2>1, Zenon DEF HiddenInv, SameEntry, ReadEntry
  <2>. QED  BY <2>1, Zenon
<1>. QED  BY <1>1, <1>2, OpHides, Zenon

\* The steps up to the swap: what is read is an entry, whose own swap is there, or L3's row.
LEMMA ReadsHide ==
    ASSUME HiddenInv, Steady, NEW o \in Ops, Begin(o) \/ Read(o) \/ Seed(o) \/ ReadEpoch(o) \/ (Swap(o) /\ l2.rev # op[o].rev)
    PROVE  HiddenInv'
<1>0. op[o] \in OpRec /\ op \in [Ops -> OpRec]
  BY Zenon DEF Steady
<1>h. ASSUME NEW x \in Ops, Private(x) PROVE ~Stored(x) /\ OwnEntry(x) /\ \A q \in Ops : Reader(x, q)
  BY <1>h, Zenon DEF HiddenInv, Unseen
<1>n. ASSUME op[o].pc \in Unswapped, Private(o)
      PROVE  o \notin l2.val /\ \A q \in Ops : o \notin op[q].val
  <2>1. op[o].pc \notin Won \cup {"failed"}
    BY <1>n DEF Won, Unswapped
  <2>. QED  BY <1>h, <1>n, <2>1, Zenon DEF OwnEntry, Reader
<1>p. ASSUME NEW r, Step(o, r), UNCHANGED shown, op[o].pc \in Unswapped
      PROVE  op'[o] = r /\ \A x \in Ops : Private(x)' => Private(x) /\ (x # o => op'[x] = op[x])
  <2>1. op'[o] = r /\ \A x \in Ops : x # o => op'[x] = op[x]
    BY <1>0, <1>p, Zenon DEF Step
  <2>2. op[o].pc \in PrivatePcs
    BY <1>p DEF PrivatePcs, Unswapped
  <2>. QED  BY <1>p, <2>1, <2>2, Zenon DEF Private
<1>w. ASSUME NEW r, Step(o, r), UNCHANGED <<shown, bucket, l2, l3, buf, flusher>>,
             op[o].pc \in Unswapped, r.pc \notin Won,
             \A x \in Ops : Private(x) /\ x \in r.val => /\ x # o /\ op[x].pc \in Won \cup {"failed"}
                                                         /\ r.pc \in {"epoch", "swap"} => r.rev # 0,
             r.pc = "swap" /\ r.rev # 0 /\ r.read = bucket.gone /\ r.rev = l2.rev => r.val = l2.val
      PROVE  HiddenInv'
  <2>1. op'[o] = r /\ \A x \in Ops : Private(x)' => Private(x) /\ (x # o => op'[x] = op[x])
    BY <1>p, <1>w, Zenon
  <2>2. \A x \in Ops : Private(x)' => Reader(x, o)'
    BY <1>w, <2>1, Zenon DEF Reader
  <2>3. ReadEntry(o)'
    BY <1>w, <2>1, Zenon DEF ReadEntry
  <2>. QED  BY <1>n, <1>w, <2>1, <2>2, <2>3, ReadHides, Zenon
<1>r. ASSUME NEW x \in Ops, Private(x), x \in op[o].val, op[o].pc \in Unswapped
      PROVE  x # o /\ op[x].pc \in Won \cup {"failed"} /\ op[o].pc # "epoch"
  <2>1. op[o].pc = "epoch" => op[o].rev = 0
    BY Zenon DEF Steady
  <2>2. Reader(x, o)
    BY <1>h, <1>r, Zenon
  <2>3. op[o].pc # "epoch" /\ op[x].pc \in Won \cup {"failed"}
    BY <1>r, <2>1, <2>2, Zenon DEF Reader
  <2>. QED  BY <1>n, <1>r, <2>3, Zenon
<1>1. CASE Begin(o)
  <2>. DEFINE r == [op[o] EXCEPT !.pc = "read", !.epoch = IF known[Home[o]] # 0 THEN known[Home[o]] ELSE bucket.epoch]
  <2>1. Step(o, r) /\ op[o].pc = "new" /\ UNCHANGED <<shown, bucket, l2, l3, buf, flusher>>
    BY <1>1 DEF Begin
  <2>2. r.pc = "read" /\ r.val = op[o].val
    BY <1>0 DEF OpRec
  <2>. HIDE DEF r
  <2>3. r.pc \notin Won /\ r.pc \notin {"epoch", "swap"} /\ op[o].pc \in Unswapped
    BY <2>1, <2>2 DEF Won, Unswapped
  <2>. QED  BY <1>r, <1>w, <2>1, <2>2, <2>3, Zenon
<1>2. CASE Read(o)
  <2>. DEFINE r == [op[o] EXCEPT !.pc = IF l2.rev = 0 THEN "seed" ELSE "swap", !.rev = l2.rev, !.val = l2.val,
                                 !.read = bucket.gone]
  <2>1. Step(o, r) /\ op[o].pc = "read" /\ UNCHANGED <<shown, bucket, l2, l3, buf, flusher>>
    BY <1>2, Zenon DEF Read
  <2>2. r.pc = (IF l2.rev = 0 THEN "seed" ELSE "swap") /\ r.rev = l2.rev /\ r.val = l2.val
    BY <1>0 DEF OpRec
  <2>. HIDE DEF r
  <2>3. r.pc \notin Won /\ (r.pc \in {"epoch", "swap"} => r.rev # 0) /\ op[o].pc \in Unswapped
    BY <2>1, <2>2 DEF Won, Unswapped
  <2>4. ASSUME NEW x \in Ops, Private(x), x \in r.val PROVE x # o /\ op[x].pc \in Won \cup {"failed"}
    BY <1>h, <1>n, <2>2, <2>3, <2>4, Zenon DEF OwnEntry
  <2>. QED  BY <1>w, <2>1, <2>2, <2>3, <2>4, Zenon
<1>3. CASE Seed(o)
  <2>. DEFINE r == [op[o] EXCEPT !.pc = IF l3.epoch > op[o].epoch THEN "epoch" ELSE "swap", !.val = l3.val]
  <2>1. Step(o, r) /\ op[o].pc = "seed" /\ UNCHANGED <<shown, bucket, l2, l3, buf, flusher>>
    BY <1>3, Zenon DEF Seed
  <2>2. r.pc \in {"epoch", "swap"} /\ r.rev = op[o].rev /\ r.val = l3.val
    BY <1>0 DEF OpRec
  <2>. HIDE DEF r
  <2>3. r.pc \notin Won /\ op[o].pc \in Unswapped /\ op[o].rev = 0
    BY <2>1, <2>2 DEF Won, Unswapped, Steady
  <2>4. ASSUME NEW x \in Ops, Private(x) PROVE x \notin r.val
    BY <1>h, <2>2, <2>4, Zenon DEF Stored
  <2>. QED  BY <1>w, <2>1, <2>2, <2>3, <2>4, Zenon
<1>4. CASE ReadEpoch(o)
  <2>. DEFINE r == [op[o] EXCEPT !.pc = "swap", !.epoch = bucket.epoch]
  <2>1. Step(o, r) /\ op[o].pc = "epoch" /\ UNCHANGED <<shown, bucket, l2, l3, buf, flusher>>
    BY <1>4 DEF ReadEpoch
  <2>2. r.pc = "swap" /\ r.rev = op[o].rev /\ r.val = op[o].val
    BY <1>0 DEF OpRec
  <2>. HIDE DEF r
  <2>3. r.pc \notin Won /\ op[o].pc \in Unswapped /\ op[o].rev = 0
    BY <2>1, <2>2 DEF Won, Unswapped, Steady
  <2>. QED  BY <1>r, <1>w, <2>1, <2>2, <2>3, Zenon
<1>5. CASE Swap(o) /\ l2.rev # op[o].rev
  <2>. DEFINE r == [op[o] EXCEPT !.pc = "read"]
  <2>1. Step(o, r) /\ op[o].pc = "swap" /\ UNCHANGED <<shown, bucket, l2, l3, buf, flusher>>
    BY <1>5, Zenon DEF Swap, Goto
  <2>2. r.pc = "read" /\ r.val = op[o].val
    BY <1>0 DEF OpRec
  <2>. HIDE DEF r
  <2>3. r.pc \notin Won /\ r.pc \notin {"epoch", "swap"} /\ op[o].pc \in Unswapped
    BY <2>1, <2>2 DEF Won, Unswapped
  <2>. QED  BY <1>r, <1>w, <2>1, <2>2, <2>3, Zenon
<1>. QED  BY <1>1, <1>2, <1>3, <1>4, <1>5, Zenon

\* A swap that wins shows what it read of others', which was in the entry it replaces.
LEMMA SwapHides ==
    ASSUME HiddenInv, Steady, NEW o \in Ops, Swap(o), l2.rev = op[o].rev
    PROVE  HiddenInv'
<1>. DEFINE won == bucket.seq + 1
            r == [op[o] EXCEPT !.pc = "won", !.rev = won, !.val = op[o].val \cup {o}, !.won = bucket.epoch, !.read = 0]
            new == {x \in op[o].val : op[x].pc # "failed" \/ op[o].read # bucket.gone}
<1>0. op[o] \in OpRec /\ op \in [Ops -> OpRec] /\ bucket \in BucketRec /\ op[o].val \subseteq Ops
  BY DEF Steady, OpRec
<1>1. /\ op[o].pc = "swap" /\ Step(o, r) /\ shown' = shown \cup new /\ UNCHANGED <<l3, buf, flusher>>
      /\ l2' = [rev |-> won, val |-> op[o].val \cup {o}, by |-> o] /\ bucket' = [bucket EXCEPT !.seq = won]
  BY Zenon DEF Swap
<1>2. r.pc = "won" /\ r.rev = won /\ r.val = op[o].val \cup {o}
  BY <1>0 DEF OpRec
<1>3. l2'.rev = won /\ l2'.val = op[o].val \cup {o} /\ bucket'.gone = bucket.gone
  BY <1>0, <1>1 DEF BucketRec
<1>4. op'[o] = r /\ \A q \in Ops : q # o => op'[q] = op[q]
  BY <1>0, <1>1, Zenon DEF Step
<1>5. "won" \in Won /\ "swap" \in PrivatePcs
  BY DEF Won, PrivatePcs, Unswapped
<1>. HIDE DEF r, won
<1>6. ASSUME NEW x \in Ops, Private(x)' PROVE Private(x) /\ ~Stored(x)
  <2>1. Private(x)
    BY <1>1, <1>4, <1>5, <1>6, Zenon DEF Private
  <2>. QED  BY <2>1, Zenon DEF HiddenInv, Unseen
<1>7. ASSUME NEW x \in Ops, Private(x)', x \in op[o].val PROVE x = o
  <2>1. SUFFICES ASSUME x # o PROVE FALSE
    OBVIOUS
  <2>2. op[x].pc = "failed" /\ op[o].read = bucket.gone
    BY <1>1, <1>7, Zenon DEF Private
  <2>3. Reader(x, o) /\ OwnEntry(x) /\ ReadEntry(o)
    BY <1>6, <1>7, Zenon DEF HiddenInv, Unseen, SameEntry
  <2>4. op[o].rev # 0
    BY <1>1, <1>7, <2>3, Zenon DEF Reader
  <2>5. op[x].pc \in Won
    BY <1>1, <1>7, <2>2, <2>3, <2>4, Zenon DEF ReadEntry, OwnEntry
  <2>. QED  BY <2>2, <2>5 DEF Won
<1>8. ASSUME NEW x \in Ops, Private(x)' PROVE ~Stored(x)' /\ OwnEntry(x)' /\ Reader(x, o)'
  <2>1. ~Stored(x)'
    BY <1>1, <1>6, <1>8, Zenon DEF Stored
  <2>2. CASE x = o
    <3>1. op'[x].pc = "won" /\ op'[o].pc = "won" /\ op'[x].rev = l2'.rev
      BY <1>2, <1>3, <1>4, <2>2, Zenon
    <3>2. op'[o].pc \notin {"epoch", "swap"}
      BY <3>1
    <3>. QED  BY <1>5, <2>1, <2>2, <3>1, <3>2, Zenon DEF OwnEntry, Reader
  <2>3. CASE x # o
    <3>0. x \notin op[o].val \cup {o}
      BY <1>7, <1>8, <2>3, Zenon
    <3>1. x \notin l2'.val /\ x \notin op'[o].val
      BY <1>2, <1>3, <1>4, <3>0, Zenon
    <3>. QED  BY <2>1, <3>1, Zenon DEF OwnEntry, Reader
  <2>. QED  BY <2>2, <2>3, Zenon
<1>9. ASSUME NEW q \in Ops PROVE ReadEntry(q)'
  <2>1. CASE q = o
    <3>1. op'[q].pc # "swap"
      BY <1>2, <1>4, <2>1
    <3>. QED  BY <3>1, Zenon DEF ReadEntry
  <2>2. CASE q # o
    <3>1. op[q].pc = "swap" /\ op[q].read = bucket.gone => op[q].rev # won
      <4>1. op[q].pc = "swap" /\ op[q].read = bucket.gone => op[q].rev <= bucket.seq
        BY Zenon DEF Steady
      <4>2. op[q].rev \in Nat /\ bucket.seq \in Nat
        BY <1>0 DEF OpRec, BucketRec
      <4>. QED  BY <4>1, <4>2 DEF won
    <3>. QED  BY <1>3, <1>4, <2>2, <3>1, Zenon DEF ReadEntry
  <2>. QED  BY <2>1, <2>2, Zenon
<1>10. Private(o)' => r.pc \in Won \cup {"failed"}
  BY <1>2, <1>5, Zenon
<1>11. shown \subseteq shown'
  BY <1>1, Zenon
<1>. QED  BY <1>1, <1>6, <1>8, <1>9, <1>10, <1>11, OpHides, Zenon

\* Dating the swap moves nothing.
LEMMA DatesHide ==
    ASSUME HiddenInv, Steady, NEW o \in Ops, WonOrder(o) \/ ReadBack(o)
    PROVE  HiddenInv'
<1>0. op[o] \in OpRec /\ op \in [Ops -> OpRec]
  BY Zenon DEF Steady
<1>1. UNCHANGED <<bucket, l2, l3, buf, flusher, shown>> /\ op[o].pc \in {"won", "readback"}
  BY Zenon DEF WonOrder, ReadBack
<1>2. PICK r : Step(o, r) /\ r.pc \in {"readback", "persist"} /\ r.rev = op[o].rev /\ r.val = op[o].val
  <2>1. CASE WonOrder(o)
    <3>. DEFINE r == [op[o] EXCEPT !.pc = "persist", !.won = 0]
                s == [op[o] EXCEPT !.pc = "readback", !.now = bucket.epoch]
    <3>1. Step(o, r) \/ Step(o, s)
      BY <2>1, Zenon DEF WonOrder
    <3>2. r.pc = "persist" /\ r.rev = op[o].rev /\ r.val = op[o].val
      BY <1>0 DEF OpRec
    <3>3. s.pc = "readback" /\ s.rev = op[o].rev /\ s.val = op[o].val
      BY <1>0 DEF OpRec
    <3>. HIDE DEF r, s
    <3>. QED  BY <3>1, <3>2, <3>3, Zenon
  <2>2. CASE ReadBack(o)
    <3>1. PICK epoch : Step(o, [op[o] EXCEPT !.pc = "persist", !.epoch = epoch, !.now = 0, !.won = 0])
      BY <2>2, Zenon DEF ReadBack
    <3>. DEFINE r == [op[o] EXCEPT !.pc = "persist", !.epoch = epoch, !.now = 0, !.won = 0]
    <3>2. r.pc = "persist" /\ r.rev = op[o].rev /\ r.val = op[o].val
      BY <1>0 DEF OpRec
    <3>. HIDE DEF r
    <3>3. Step(o, r)
      BY <3>1 DEF r
    <3>. QED  BY <3>2, <3>3, Zenon
  <2>. QED  BY <2>1, <2>2, Zenon
<1>3. op'[o] = r /\ \A q \in Ops : q # o => op'[q] = op[q]
  BY <1>0, <1>2, Zenon DEF Step
<1>4. op[o].pc \in Won /\ r.pc \in Won /\ r.pc \notin {"epoch", "swap"} /\ op[o].pc \in PrivatePcs
  BY <1>1, <1>2 DEF Won, PrivatePcs
<1>5. \A x \in Ops : Private(x)' => Private(x)
  BY <1>1, <1>3, <1>4, Zenon DEF Private
<1>6. ASSUME NEW x \in Ops, Private(x)' PROVE Reader(x, o)'
  <2>1. Reader(x, o)
    BY <1>5, <1>6, Zenon DEF HiddenInv, Unseen
  <2>2. op'[x] = op[x] \/ (x = o /\ op'[x].pc \in Won)
    BY <1>3, <1>4, Zenon
  <2>. QED  BY <1>2, <1>3, <1>4, <2>1, <2>2, Zenon DEF Reader
<1>7. o \in l2.val /\ Private(o) => r.rev = l2.rev
  BY <1>2, Zenon DEF HiddenInv, Unseen, OwnEntry
<1>8. ReadEntry(o)'
  BY <1>3, <1>4, Zenon DEF ReadEntry
<1>9. r.pc \in Won \cup {"failed"} /\ shown \subseteq shown'
  BY <1>1, <1>4, Zenon
<1>. QED  BY <1>1, <1>2, <1>4, <1>5, <1>6, <1>7, <1>8, <1>9, ReadHides, Zenon

\* An operation that ends carries nothing; one that fails out of sight is not in the entry.
LEMMA EndHides ==
    ASSUME HiddenInv, Steady, NEW o \in Ops, NEW pc \in {"done", "failed"}, End(o, pc), shown \subseteq shown',
           UNCHANGED <<bucket, l2>> \/ l2' = NoEntry,
           \A x \in Ops : Private(x)' => ~Stored(x)',
           pc = "failed" /\ o \notin shown' => op[o].pc \in PrivatePcs /\ o \notin l2'.val
    PROVE  HiddenInv'
<1>. DEFINE r == [NewOp EXCEPT !.pc = pc]
<1>1. Step(o, r)
  BY Zenon DEF End
<1>2. r.pc = pc /\ r.val = {} /\ pc \notin {"epoch", "swap"} \cup Won /\ "done" \notin PrivatePcs
  BY DEF NewOp, Won, PrivatePcs, Unswapped
<1>. HIDE DEF r
<1>3. op'[o] = r /\ \A q \in Ops : q # o => op'[q] = op[q]
  BY <1>1, Zenon DEF Step, Steady
<1>4. Private(o)' => pc = "failed" /\ o \notin shown' /\ Private(o)
  <2>1. Private(o)' => pc = "failed" /\ o \notin shown'
    BY <1>2, <1>3 DEF Private
  <2>. QED  BY <2>1, Zenon DEF Private
<1>5. l2' # l2 => l2'.rev = 0 /\ l2'.val = {}
  BY DEF NoEntry
<1>6. ASSUME NEW x \in Ops, Private(x)' PROVE OwnEntry(x)' /\ Reader(x, o)'
  <2>1. Reader(x, o)'
    BY <1>2, <1>3, Zenon DEF Reader
  <2>2. CASE x = o
    BY <1>4, <1>6, <2>1, <2>2, Zenon DEF OwnEntry
  <2>3. CASE x # o
    <3>1. OwnEntry(x)
      BY <1>3, <1>6, <2>3, Zenon DEF Private, HiddenInv, Unseen
    <3>. QED  BY <1>3, <1>5, <2>1, <2>3, <3>1, Zenon DEF OwnEntry
  <2>. QED  BY <2>2, <2>3, Zenon
<1>7. ASSUME NEW q \in Ops PROVE ReadEntry(q)'
  <2>1. CASE q = o
    BY <1>2, <1>3, <2>1, Zenon DEF ReadEntry
  <2>2. CASE l2' = NoEntry
    BY <2>2, Zenon DEF ReadEntry, NoEntry
  <2>3. CASE q # o /\ UNCHANGED <<bucket, l2>>
    BY <1>3, <2>3, Zenon DEF ReadEntry, HiddenInv, SameEntry
  <2>. QED  BY <2>1, <2>2, <2>3, Zenon
<1>8. Private(o)' => r.pc \in Won \cup {"failed"}
  BY <1>2, <1>4, Zenon
<1>. QED  BY <1>1, <1>4, <1>6, <1>7, <1>8, OpHides, Zenon

\* A persist that goes on carries its own change only.
LEMMA GoesOnHides ==
    ASSUME HiddenInv, Steady, NEW o \in Ops, NEW pc \in {"withdraw", "arm"}, op[o].pc = "persist", Goto(o, pc),
           shown \subseteq shown', UNCHANGED <<bucket, l2>>, \A x \in Ops : Private(x)' => ~Stored(x)'
    PROVE  HiddenInv'
<1>. DEFINE r == [op[o] EXCEPT !.pc = pc]
<1>0. op[o] \in OpRec /\ op \in [Ops -> OpRec]
  BY Zenon DEF Steady
<1>1. Step(o, r)
  BY Zenon DEF Goto
<1>2. r.pc = pc /\ r.val = op[o].val /\ r.rev = op[o].rev
  BY <1>0 DEF OpRec
<1>3. /\ op[o].pc \in PrivatePcs /\ op[o].pc \in Won /\ pc \notin {"epoch", "swap"} /\ (pc \in PrivatePcs => pc \in Won)
  BY DEF Won, PrivatePcs, Unswapped
<1>. HIDE DEF r
<1>4. op'[o] = r /\ \A q \in Ops : q # o => op'[q] = op[q]
  BY <1>0, <1>1, Zenon DEF Step
<1>5. \A x \in Ops : Private(x)' => Private(x) /\ op'[x].pc \in PrivatePcs
  BY <1>3, <1>4, Zenon DEF Private
<1>6. ASSUME NEW x \in Ops, Private(x)' PROVE OwnEntry(x)' /\ Reader(x, o)'
  <2>1. OwnEntry(x) /\ Reader(x, o)
    BY <1>5, <1>6, Zenon DEF HiddenInv, Unseen
  <2>2. CASE x = o
    <3>1. op'[x].pc \in Won /\ op'[x].rev = op[x].rev
      BY <1>2, <1>3, <1>4, <1>5, <1>6, <2>2, Zenon
    <3>. QED  BY <1>2, <1>3, <1>4, <2>1, <2>2, <3>1, Zenon DEF OwnEntry, Reader
  <2>3. CASE x # o
    <3>1. x \notin op'[o].val
      BY <1>2, <1>3, <1>4, <2>1, <2>3, Zenon DEF Reader
    <3>. QED  BY <1>4, <2>1, <2>3, <3>1, Zenon DEF OwnEntry, Reader
  <2>. QED  BY <2>2, <2>3, Zenon
<1>7. ASSUME NEW q \in Ops PROVE ReadEntry(q)'
  <2>1. CASE q = o
    BY <1>2, <1>3, <1>4, <2>1, Zenon DEF ReadEntry
  <2>2. CASE q # o
    BY <1>4, <2>2, Zenon DEF ReadEntry, HiddenInv, SameEntry
  <2>. QED  BY <2>1, <2>2, Zenon
<1>8. Private(o)' => r.pc \in Won \cup {"failed"}
  BY <1>2, <1>3, <1>4, <1>5, Zenon
<1>. QED  BY <1>1, <1>5, <1>6, <1>7, <1>8, OpHides, Zenon

\* The persist of an operation gives L3 or the buffer no change but its own, which is reported done
\* or shown; what it takes back is its own entry.
LEMMA PersistsHide ==
    ASSUME HiddenInv, Steady, NEW o \in Ops,
           CallFails(o) \/ Persist(o) \/ PersistFails(o) \/ Withdraw(o) \/ Add(o) \/ Arm(o)
    PROVE  HiddenInv'
<1>0. /\ op[o] \in OpRec /\ op \in [Ops -> OpRec] /\ buf \in [Pods -> WriteRec] /\ Home[o] \in Pods
      /\ flusher \in [Flushers -> FlushRec]
  BY SwapAssumption, Zenon DEF Steady
<1>h. ASSUME NEW x \in Ops, Private(x) PROVE ~Stored(x) /\ OwnEntry(x) /\ \A q \in Ops : Reader(x, q)
  BY <1>h, Zenon DEF HiddenInv, Unseen
<1>s. ASSUME NEW pc, End(o, pc) \/ Goto(o, pc), op[o].pc \in PrivatePcs, shown \subseteq shown'
      PROVE  op'[o].pc = pc /\ \A x \in Ops : Private(x)' => Private(x)
  <2>1. [NewOp EXCEPT !.pc = pc].pc = pc /\ [op[o] EXCEPT !.pc = pc].pc = pc
    BY <1>0 DEF NewOp, OpRec
  <2>2. op'[o].pc = pc /\ \A q \in Ops : q # o => op'[q] = op[q]
    BY <1>0, <1>s, <2>1, Zenon DEF Step, End, Goto
  <2>. QED  BY <1>s, <2>2, Zenon DEF Private
<1>o. ASSUME op[o].pc = "persist", NEW x \in Ops, Private(x), x # o PROVE x \notin op[o].val
  <2>1. op[o].pc \in Won
    BY <1>o DEF Won
  <2>. QED  BY <1>h, <1>o, <2>1, Zenon DEF Reader
<1>l. ASSUME op[o].pc = "persist", NEW x \in Ops, Private(x), x # o PROVE x \notin Landed(op[o]).val
  <2>1. Landed(op[o]).val \in {l3.val, op[o].val}
    BY DEF Landed
  <2>2. x \notin l3.val
    BY <1>h, <1>l, Zenon DEF Stored
  <2>. QED  BY <1>l, <1>o, <2>1, <2>2, Zenon
<1>c. /\ "persist" \in PrivatePcs /\ "withdraw" \in PrivatePcs /\ "done" \notin PrivatePcs /\ "arm" \notin PrivatePcs
  BY DEF PrivatePcs, Unswapped, Won
<1>1. CASE CallFails(o)
  <2>1. /\ End(o, "failed") /\ UNCHANGED <<bucket, l2, l3, buf, flusher>> /\ shown \subseteq shown'
        /\ op[o].pc \in {"read", "seed", "epoch", "swap", "won", "readback"}
    BY <1>1, Zenon DEF CallFails
  <2>2. op[o].pc \in PrivatePcs
    BY <2>1 DEF PrivatePcs, Unswapped, Won
  <2>3. o \notin shown' => op[o].pc \notin Won
    BY <1>1 DEF CallFails, Won
  <2>4. o \notin shown' => o \notin l2'.val
    BY <1>h, <2>1, <2>2, <2>3, Zenon DEF Private, OwnEntry
  <2>5. ASSUME NEW x \in Ops, Private(x)' PROVE ~Stored(x)'
    <3>1. ~Stored(x)
      BY <1>h, <1>s, <2>1, <2>2, <2>5, Zenon
    <3>. QED  BY <2>1, <3>1, Zenon DEF Stored
  <2>. QED  BY <2>1, <2>2, <2>4, <2>5, EndHides, Zenon
<1>2. CASE Persist(o)
  <2>1. End(o, "done") /\ UNCHANGED <<bucket, l2, buf, flusher, shown>> /\ op[o].pc = "persist" /\ l3' = Landed(op[o])
    BY <1>2, Zenon DEF Persist
  <2>2. op'[o].pc = "done" /\ \A x \in Ops : Private(x)' => Private(x)
    BY <1>c, <1>s, <2>1, Zenon
  <2>3. ASSUME NEW x \in Ops, Private(x)' PROVE ~Stored(x)'
    <3>1. ~Stored(x) /\ x # o
      BY <1>c, <1>h, <2>2, <2>3, Zenon DEF Private
    <3>2. x \notin l3'.val
      BY <1>l, <2>1, <2>2, <2>3, <3>1, Zenon
    <3>. QED  BY <2>1, <3>1, <3>2, Zenon DEF Stored
  <2>4. "done" # "failed"
    OBVIOUS
  <2>. QED  BY <2>1, <2>3, <2>4, EndHides, Zenon
<1>3. CASE PersistFails(o)
  <2>1. /\ Goto(o, "withdraw") /\ UNCHANGED <<bucket, l2, buf, flusher>> /\ op[o].pc = "persist"
        /\ l3' \in {l3, Landed(op[o])} /\ shown' = shown \cup ({o} \cap l3'.val)
    BY <1>3, Zenon DEF PersistFails
  <2>0. shown \subseteq shown'
    BY <2>1, Zenon
  <2>2. \A x \in Ops : Private(x)' => Private(x)
    BY <1>c, <1>s, <2>0, <2>1, Zenon
  <2>3. ASSUME NEW x \in Ops, Private(x)' PROVE ~Stored(x)'
    <3>1. ~Stored(x)
      BY <1>h, <2>2, <2>3, Zenon
    <3>2. CASE x = o
      <4>1. x \notin l3'.val
        BY <2>1, <2>3, <3>2, Zenon DEF Private
      <4>. QED  BY <2>1, <3>1, <4>1, Zenon DEF Stored
    <3>3. CASE x # o
      <4>1. x \notin l3'.val
        BY <1>l, <2>1, <2>2, <2>3, <3>1, <3>3, Zenon DEF Stored
      <4>. QED  BY <2>1, <3>1, <4>1, Zenon DEF Stored
    <3>. QED  BY <3>2, <3>3, Zenon
  <2>. QED  BY <2>0, <2>1, <2>3, GoesOnHides, Zenon
<1>4. CASE Withdraw(o)
  <2>1. /\ End(o, "failed") /\ UNCHANGED <<l3, buf, flusher>> /\ op[o].pc = "withdraw" /\ shown \subseteq shown'
        /\ UNCHANGED <<bucket, l2>> \/ l2' = NoEntry
    BY <1>4, Zenon DEF Withdraw
  <2>2. \A x \in Ops : Private(x)' => Private(x)
    BY <1>c, <1>s, <2>1, Zenon
  <2>3. ASSUME NEW x \in Ops, Private(x)' PROVE ~Stored(x)'
    <3>1. ~Stored(x)
      BY <1>h, <2>2, <2>3, Zenon
    <3>. QED  BY <2>1, <3>1, Zenon DEF Stored
  <2>4. o \notin shown' => o \notin l2'.val
    <3>1. CASE l2' = NoEntry
      BY <3>1, Zenon DEF NoEntry
    <3>2. CASE l2.rev # op[o].rev /\ l2' = l2
      BY <1>c, <1>h, <2>1, <3>2, Zenon DEF Private, OwnEntry
    <3>3. CASE o \in shown'
      BY <3>3
    <3>. QED  BY <1>4, <3>1, <3>2, <3>3, Zenon DEF Withdraw
  <2>. QED  BY <1>c, <2>1, <2>3, <2>4, EndHides, Zenon
<1>5. CASE Add(o)
  <2>1. /\ Goto(o, "arm") /\ UNCHANGED <<bucket, l2, l3, flusher, shown>> /\ op[o].pc = "persist"
        /\ buf' = buf \/ buf' = [buf EXCEPT ![Home[o]] = Pending(o)]
    BY <1>5, Zenon DEF Add
  <2>2. op'[o].pc = "arm" /\ \A x \in Ops : Private(x)' => Private(x)
    BY <1>c, <1>s, <2>1, Zenon
  <2>3. \A p \in Pods : buf'[p] = buf[p] \/ buf'[p].val = op[o].val
    <3>1. Pending(o).val = op[o].val
      BY DEF Pending
    <3>. QED  BY <1>0, <2>1, <3>1, Zenon
  <2>4. ASSUME NEW x \in Ops, Private(x)' PROVE ~Stored(x)'
    <3>1. ~Stored(x) /\ x # o
      BY <1>c, <1>h, <2>2, <2>4, Zenon DEF Private
    <3>2. x \notin op[o].val
      BY <1>o, <2>1, <2>2, <2>4, <3>1, Zenon
    <3>3. \A p \in Pods : x \notin buf'[p].val
      BY <2>3, <3>1, <3>2, Zenon DEF Stored
    <3>. QED  BY <2>1, <3>1, <3>3, Zenon DEF Stored
  <2>. QED  BY <2>1, <2>4, GoesOnHides, Zenon
<1>6. CASE Arm(o)
  <2>1. /\ End(o, "done") /\ UNCHANGED <<bucket, l2, l3, buf, shown>> /\ op[o].pc = "arm"
        /\ flusher' = flusher \/ flusher' = [flusher EXCEPT ![<<Home[o], "loop">>].pc = "idle"]
    BY <1>6, Zenon DEF Arm
  <2>2. \A f \in Flushers : flusher'[f].w = flusher[f].w
    BY <1>0, <2>1, ZenonT(30) DEF FlushRec
  <2>3. [NewOp EXCEPT !.pc = "done"].pc = "done"
    BY DEF NewOp
  <2>4. op'[o].pc = "done" /\ \A x \in Ops : x # o => op'[x] = op[x]
    BY <1>0, <2>1, <2>3, Zenon DEF End, Step
  <2>5. ASSUME NEW x \in Ops, Private(x)' PROVE ~Stored(x)'
    <3>1. ~Stored(x)
      BY <1>c, <1>h, <2>1, <2>4, <2>5, Zenon DEF Private
    <3>. QED  BY <2>1, <2>2, <3>1, Zenon DEF Stored
  <2>6. "done" # "failed"
    OBVIOUS
  <2>. QED  BY <2>1, <2>5, <2>6, EndHides, Zenon
<1>. QED  BY <1>1, <1>2, <1>3, <1>4, <1>5, <1>6, Zenon

\* What moves rows from where they are, and no operation.
LEMMA MovesHide ==
    ASSUME HiddenInv, UNCHANGED <<op, l2, bucket, shown>>, \A x \in Ops : Stored(x)' => Stored(x)
    PROVE  HiddenInv'
<1>1. ASSUME NEW x \in Ops, Private(x)' PROVE Unseen(x)'
  <2>1. Private(x)
    BY <1>1, Zenon DEF Private
  <2>2. ~Stored(x) /\ OwnEntry(x) /\ \A q \in Ops : Reader(x, q)
    BY <2>1, Zenon DEF HiddenInv, Unseen
  <2>3. ~Stored(x)'
    BY <2>2, Zenon
  <2>. QED  BY <2>2, <2>3, Zenon DEF Unseen, OwnEntry, Reader
<1>2. SameEntry'
  BY Zenon DEF HiddenInv, SameEntry, ReadEntry
<1>. QED  BY <1>1, <1>2, Zenon DEF HiddenInv

\* A flush, and a close, write what the buffer has.
LEMMA FlushesHide ==
    ASSUME HiddenInv, Steady, NEW f \in Flushers,
           Drain(f) \/ FlushWrite(f) \/ Ack(f) \/ FlushFails(f) \/ (f[2] = "loop" /\ Close(f[1])) \/ Closed(f[1])
    PROVE  HiddenInv'
<1>0. /\ buf \in [Pods -> WriteRec] /\ flusher \in [Flushers -> FlushRec] /\ f[1] \in Pods
      /\ f = <<f[1], f[2]>> /\ <<f[1], "close">> \in Flushers
  BY DEF Steady, Flushers, Parts
<1>l. Landed(flusher[f].w).val \in {l3.val, flusher[f].w.val}
  BY DEF Landed
<1>n. NoWrite.val = {} /\ NoFlush.w = NoWrite
  BY DEF NoWrite, NoFlush
<1>s. ASSUME l3'.val \in {l3.val, flusher[f].w.val},
             \A p \in Pods : buf'[p].val \in {{}, buf[p].val, flusher[f].w.val},
             \A g \in Flushers : flusher'[g].w.val \in {{}, flusher[g].w.val, buf[f[1]].val},
             UNCHANGED <<op, l2, bucket, shown>>
      PROVE  HiddenInv'
  <2>. SUFFICES ASSUME NEW x \in Ops, Stored(x)' PROVE Stored(x)
    BY <1>s, MovesHide, Zenon
  <2>1. CASE x \in l3'.val
    BY <1>s, <2>1, Zenon DEF Stored
  <2>2. CASE \E p \in Pods : x \in buf'[p].val
    BY <1>s, <2>2, Zenon DEF Stored
  <2>3. CASE \E g \in Flushers : x \in flusher'[g].w.val
    BY <1>0, <1>s, <2>3, Zenon DEF Stored
  <2>. QED  BY <2>1, <2>2, <2>3, Zenon DEF Stored
<1>r. ASSUME Rest(f) PROVE \A g \in Flushers : flusher'[g].w.val \in {{}, flusher[g].w.val}
  <2>1. \A g \in Flushers : flusher'[g].w = flusher[g].w \/ flusher'[g].w = NoWrite
    BY <1>0, <1>r, Zenon DEF Rest
  <2>. QED  BY <1>n, <2>1, Zenon
<1>p. ASSUME NEW g \in Flushers, NEW pc, Flush(g, pc) PROVE \A h \in Flushers : flusher'[h].w = flusher[h].w
  BY <1>0, <1>p, Zenon DEF Flush, FlushRec
<1>1. CASE Drain(f)
  <2>1. UNCHANGED <<op, l2, bucket, shown, l3, buf>>
    BY <1>1, Zenon DEF Drain
  <2>2. \A g \in Flushers : flusher'[g].w = flusher[g].w \/ flusher'[g].w = buf[f[1]]
    BY <1>0, <1>1, Zenon DEF Drain
  <2>. QED  BY <1>s, <2>1, <2>2, Zenon
<1>2. CASE FlushWrite(f)
  <2>1. UNCHANGED <<op, l2, bucket, shown, buf>> /\ l3' = Landed(flusher[f].w) /\ Flush(f, "ack")
    BY <1>2, Zenon DEF FlushWrite
  <2>. QED  BY <1>l, <1>p, <1>s, <2>1, Zenon
<1>3. CASE Ack(f)
  <2>1. /\ UNCHANGED <<op, l2, bucket, shown, l3>> /\ Rest(f)
        /\ buf' = buf \/ buf' = [buf EXCEPT ![f[1]] = NoWrite]
    BY <1>3, Zenon DEF Ack
  <2>2. \A p \in Pods : buf'[p] = buf[p] \/ buf'[p] = NoWrite
    BY <1>0, <2>1, Zenon
  <2>3. \A p \in Pods : buf'[p].val \in {{}, buf[p].val}
    BY <1>n, <2>2, Zenon
  <2>. QED  BY <1>r, <1>s, <2>1, <2>3, Zenon
<1>4. CASE FlushFails(f)
  <2>. DEFINE w == [flusher[f].w EXCEPT !.retries = @ + 1]
  <2>1. UNCHANGED <<op, l2, bucket, shown>> /\ l3' \in {l3, Landed(flusher[f].w)}
    BY <1>4, Zenon DEF FlushFails
  <2>2. Rest(f) \/ Flush(f, "entity") \/ Flush(f, "ack")
    BY <1>4, Zenon DEF FlushFails
  <2>3. w.val = flusher[f].w.val
    BY <1>0 DEF FlushRec, WriteRec
  <2>4. buf' = buf \/ buf' = [buf EXCEPT ![f[1]] = w]
    BY <1>4, Zenon DEF FlushFails, ReEnqueue
  <2>. HIDE DEF w
  <2>5. \A p \in Pods : buf'[p].val \in {buf[p].val, flusher[f].w.val}
    BY <1>0, <2>3, <2>4, Zenon
  <2>6. \A g \in Flushers : flusher'[g].w.val \in {{}, flusher[g].w.val}
    BY <1>p, <1>r, <2>2, Zenon
  <2>7. l3'.val \in {l3.val, flusher[f].w.val}
    BY <1>l, <2>1, Zenon
  <2>. QED  BY <1>s, <2>1, <2>5, <2>6, <2>7, Zenon
<1>5. CASE f[2] = "loop" /\ Close(f[1])
  <2>1. /\ UNCHANGED <<op, l2, bucket, shown, buf>> /\ l3' \in {l3, Landed(flusher[f].w)}
        /\ flusher' = [flusher EXCEPT ![f] = NoFlush, ![<<f[1], "close">>].pc = "idle"]
    <3>1. f = <<f[1], "loop">>
      BY <1>0, <1>5, Zenon
    <3>2. UNCHANGED <<op, l2, bucket, shown, buf>>
      BY <1>5, Zenon DEF Close
    <3>3. flusher' = [flusher EXCEPT ![<<f[1], "loop">>] = NoFlush, ![<<f[1], "close">>].pc = "idle"]
      BY <1>5, Zenon DEF Close
    <3>4. l3' \in {l3, Landed(flusher[<<f[1], "loop">>].w)}
      BY <1>5 DEF Close
    <3>. QED  BY <3>1, <3>2, <3>3, <3>4, Zenon
  <2>2. \A g \in Flushers : flusher'[g].w = flusher[g].w \/ flusher'[g].w = NoWrite
    <3>. DEFINE c == <<f[1], "close">>
    <3>1. c # f /\ c \in Flushers
      BY <1>0, <1>5
    <3>2. flusher'[f] = NoFlush /\ flusher'[c].w = flusher[c].w
      BY <1>0, <2>1, <3>1 DEF FlushRec
    <3>3. \A g \in Flushers : g # f /\ g # c => flusher'[g] = flusher[g]
      BY <1>0, <2>1, Zenon
    <3>. HIDE DEF c
    <3>. QED  BY <1>n, <3>2, <3>3, Zenon
  <2>3. \A g \in Flushers : flusher'[g].w.val \in {{}, flusher[g].w.val}
    BY <1>n, <2>2, Zenon
  <2>4. l3'.val \in {l3.val, flusher[f].w.val}
    BY <1>l, <2>1, Zenon
  <2>. QED  BY <1>s, <2>1, <2>3, <2>4, Zenon
<1>6. CASE Closed(f[1])
  <2>1. UNCHANGED <<op, l2, bucket, shown, l3, buf>> /\ Flush(<<f[1], "close">>, "off")
    BY <1>6, Zenon DEF Closed
  <2>2. \A g \in Flushers : flusher'[g].w = flusher[g].w
    BY <1>0, <1>p, <2>1, Zenon
  <2>. QED  BY <1>s, <2>1, <2>2, Zenon
<1>. QED  BY <1>1, <1>2, <1>3, <1>4, <1>5, <1>6, Zenon

\* A crash and a wipe only forget.
LEMMA ForgetsHide ==
    ASSUME HiddenInv, Steady, (\E p \in Pods : Crash(p)) \/ Wipe
    PROVE  HiddenInv'
<1>0. buf \in [Pods -> WriteRec] /\ flusher \in [Flushers -> FlushRec] /\ op \in [Ops -> OpRec]
  BY Zenon DEF Steady
<1>h. ASSUME NEW x \in Ops, Private(x) PROVE ~Stored(x) /\ OwnEntry(x) /\ \A q \in Ops : Reader(x, q)
  BY <1>h, Zenon DEF HiddenInv, Unseen
<1>1. CASE Wipe
  <2>1. UNCHANGED <<op, shown, l3, buf, flusher>> /\ l2' = NoEntry
    BY <1>1, Zenon DEF Wipe
  <2>2. ASSUME NEW x \in Ops, Private(x)' PROVE Unseen(x)'
    <3>1. ~Stored(x) /\ \A q \in Ops : Reader(x, q)
      BY <1>h, <2>1, <2>2, Zenon DEF Private
    <3>2. ~Stored(x)' /\ (\A q \in Ops : Reader(x, q)') /\ l2'.val = {}
      BY <2>1, <3>1, Zenon DEF Stored, Reader, NoEntry
    <3>. QED  BY <3>2, Zenon DEF Unseen, OwnEntry
  <2>3. SameEntry'
    BY <2>1, Zenon DEF SameEntry, ReadEntry, NoEntry
  <2>. QED  BY <2>2, <2>3, Zenon DEF HiddenInv
<1>2. CASE \E p \in Pods : Crash(p)
  <2>0. PICK p \in Pods : Crash(p)
    BY <1>2
  <2>. DEFINE r == [NewOp EXCEPT !.pc = "dead"]
              ending == {o \in Ops : Home[o] = p /\ Running(o)}
  <2>1. /\ UNCHANGED <<bucket, l2, l3, shown>> /\ buf' = [buf EXCEPT ![p] = NoWrite]
        /\ flusher' = [f \in Flushers |-> IF f[1] = p THEN NoFlush ELSE flusher[f]]
        /\ op' = [o \in Ops |-> IF o \in ending THEN r ELSE op[o]]
    BY <2>0, Zenon DEF Crash
  <2>2. /\ r.pc = "dead" /\ r.val = {} /\ "dead" \notin PrivatePcs /\ "dead" # "swap"
        /\ NoWrite.val = {} /\ NoFlush.w = NoWrite
    BY DEF NewOp, NoWrite, NoFlush, PrivatePcs, Unswapped, Won
  <2>. HIDE DEF r, ending
  <2>3. \A o \in Ops : op'[o] = op[o] \/ op'[o] = r
    BY <2>1, Zenon
  <2>4. (\A q \in Pods : buf'[q] = buf[q] \/ buf'[q] = NoWrite) /\ \A f \in Flushers : flusher'[f] = flusher[f] \/ flusher'[f] = NoFlush
    BY <1>0, <2>1, Zenon
  <2>5. ASSUME NEW x \in Ops, Private(x)' PROVE Unseen(x)'
    <3>1. op'[x] = op[x] /\ Private(x)
      BY <2>1, <2>2, <2>3, <2>5, Zenon DEF Private
    <3>2. ~Stored(x) /\ OwnEntry(x) /\ \A q \in Ops : Reader(x, q)
      BY <1>h, <3>1, Zenon
    <3>3. ~Stored(x)'
      BY <2>1, <2>2, <2>4, <3>2, Zenon DEF Stored
    <3>4. OwnEntry(x)'
      BY <2>1, <3>1, <3>2, Zenon DEF OwnEntry
    <3>5. ASSUME NEW q \in Ops PROVE Reader(x, q)'
      BY <2>2, <2>3, <3>1, <3>2, Zenon DEF Reader
    <3>. QED  BY <3>3, <3>4, <3>5, Zenon DEF Unseen
  <2>6. ASSUME NEW q \in Ops PROVE ReadEntry(q)'
    <3>1. ReadEntry(q)
      BY Zenon DEF HiddenInv, SameEntry
    <3>. QED  BY <2>1, <2>2, <2>3, <3>1, Zenon DEF ReadEntry
  <2>. QED  BY <2>5, <2>6, Zenon DEF HiddenInv, SameEntry
<1>. QED  BY <1>1, <1>2, Zenon

LEMMA StepHides ==
    ASSUME HiddenInv, Steady, [Next]_vars
    PROVE  HiddenInv'
<1>1. ASSUME NEW o \in Ops, Begin(o) \/ OpStep(o) \/ CallFails(o) \/ PersistFails(o)
      PROVE  HiddenInv'
  BY <1>1, ReadsHide, SwapHides, DatesHide, PersistsHide, Zenon DEF OpStep
<1>2. ASSUME NEW p \in Pods
      PROVE  <<p, "loop">> \in Flushers /\ <<p, "close">> \in Flushers /\ <<p, "loop">>[1] = p /\ <<p, "loop">>[2] = "loop"
  BY DEF Flushers, Parts
<1>3. ASSUME NEW p \in Pods, FlushStep(p) \/ Close(p) PROVE HiddenInv'
  <2>1. ASSUME NEW k \in Parts, Drain(<<p, k>>) \/ FlushWrite(<<p, k>>) \/ Ack(<<p, k>>) PROVE HiddenInv'
    <3>1. <<p, k>> \in Flushers
      BY Zenon DEF Flushers
    <3>. QED  BY <2>1, <3>1, FlushesHide, Zenon
  <2>2. CASE Close(p) \/ Closed(p)
    <3>. DEFINE f == <<p, "loop">>
    <3>1. f \in Flushers /\ f[1] = p /\ f[2] = "loop"
      BY <1>2, Zenon
    <3>. HIDE DEF f
    <3>2. Close(f[1]) \/ Closed(f[1])
      BY <2>2, <3>1, Zenon
    <3>. QED  BY <3>1, <3>2, FlushesHide, Zenon
  <2>. QED  BY <1>3, <2>1, <2>2, Zenon DEF FlushStep
<1>4. ASSUME NEW f \in Flushers, FlushFails(f) PROVE HiddenInv'
  BY <1>4, FlushesHide, Zenon
<1>5. CASE UNCHANGED vars
  <2>1. UNCHANGED <<op, l2, bucket, shown, l3, buf, flusher>>
    BY <1>5, Zenon DEF vars
  <2>2. \A x \in Ops : Stored(x)' => Stored(x)
    BY <2>1, Zenon DEF Stored
  <2>. QED  BY <2>1, <2>2, MovesHide, Zenon
<1>6. \A p \in Mortal : p \in Pods
  BY SwapAssumption
<1>. QED  BY <1>1, <1>3, <1>4, <1>5, <1>6, ForgetsHide, Zenon DEF Next

\* A mutation reported failed is not in the row a retry starts from, for every setting of the
\* constants, unless another swap built on it first, its persist had landed, a call other than the
\* persist raised once the swap had won, the delete raised, or a swap that had read it won at a
\* revision given again: _withdraw_unpersisted_cas takes back every other swap, and no stale read
\* and no flush brings it back.
THEOREM FailedTakenBack == Spec => []FailedIsWithdrawn
<1>1. Init => DurableInv
  BY InitWhole
<1>2. DurableInv /\ [Next]_vars => DurableInv'
  BY StepWhole, Zenon
<1>3. Init => HiddenInv
  <2>. SUFFICES ASSUME Init PROVE HiddenInv
    OBVIOUS
  <2>1. /\ l2.val = {} /\ l3.val = {} /\ \A o \in Ops : op[o].pc = "new" /\ op[o].val = {}
        /\ NoWrite.val = {} /\ NoFlush.w = NoWrite
    BY DEF Init, NoEntry, NoWrite, NoFlush, NewOp
  <2>2. (\A p \in Pods : buf[p].val = {}) /\ \A f \in Flushers : flusher[f].w.val = {}
    BY <2>1, Zenon DEF Init
  <2>3. \A x \in Ops : ~Stored(x)
    BY <2>1, <2>2, Zenon DEF Stored
  <2>4. \A x \in Ops : OwnEntry(x) /\ \A q \in Ops : Reader(x, q)
    BY <2>1, Zenon DEF OwnEntry, Reader
  <2>5. "new" # "swap"
    OBVIOUS
  <2>6. SameEntry
    BY <2>1, <2>5, Zenon DEF SameEntry, ReadEntry
  <2>. QED  BY <2>3, <2>4, <2>6, Zenon DEF HiddenInv, Unseen
<1>4. DurableInv /\ HiddenInv /\ [Next]_vars => HiddenInv'
  BY DurableSteady, StepHides, Zenon
<1>5. HiddenInv => FailedIsWithdrawn
  <2>. SUFFICES ASSUME HiddenInv, NEW o \in Ops, op[o].pc = "failed", o \notin shown PROVE o \notin Current
    BY Zenon DEF FailedIsWithdrawn
  <2>1. "failed" \in PrivatePcs /\ "failed" \notin Won
    BY DEF PrivatePcs, Unswapped, Won
  <2>2. ~Stored(o) /\ OwnEntry(o)
    BY <2>1, Zenon DEF HiddenInv, Private, Unseen
  <2>3. o \notin l3.val /\ o \notin l2.val
    BY <2>1, <2>2, Zenon DEF Stored, OwnEntry
  <2>. QED  BY <2>3, Zenon DEF Current
<1>. QED  BY <1>1, <1>2, <1>3, <1>4, <1>5, PTL DEF Spec
=============================================================================

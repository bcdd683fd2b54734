----------------------------- MODULE KVLeaseProof -----------------------------
(***************************************************************************)
(* Proofs about KVLease, for any pods, TTL and bounds, whatever is lost,   *)
(* late or sent twice: while a holder may act, the entry is its own and    *)
(* outlasts its timer; so no two pods act at once.  And that KVLease       *)
(* implements Lease: each step changes where one pod stands, if any, and   *)
(* the change is one that Lease allows.                                    *)
(*                                                                         *)
(* Where no request is late or sent twice, a pod that has its answer knows *)
(* what became of the entry it wrote: a lease reported taken or lost is,   *)
(* and a refused release leaves nothing of the pod's behind (TraceInv).    *)
(***************************************************************************)
EXTENDS KVLeaseInvariant

----------------------------------------------------------------------------
(* renew, retake, lose, release                                            *)

\* A step of a holder that writes nothing, and believes no more than before, preserves
\* the invariant.
LEMMA QuietStep ==
    ASSUME IInv, NEW p \in Pods, NEW h \in HoldType, Become(p, h),
           UNCHANGED <<now, entry, last, marker, sent>>, wire' \subseteq wire,
           hold[p].pc \in Renewing, h.pc \notin AttemptPcs,
           h.exp = hold[p].exp, h.start <= now, h.rev <= last, h.reply <= last, h.id <= sent,
           h.fate = "none" => hold[p].fate = "none",
           h.pc \in Extending =>
               hold[p].pc \in Extending /\ h.id = hold[p].id /\ h.start = hold[p].start /\ h.reply = hold[p].reply
    PROVE  IInv'
<1>t. last \in Nat /\ sent \in Nat /\ now \in Nat /\ marker \in BOOLEAN BY Types DEF IInv, TypeOK
<1>i. Founded(p, hold[p]) BY DEF IInv, HoldInv
<1>1. hold' = [hold EXCEPT ![p] = h] BY DEF Become
<1>2. Timely(h) BY DEF Timely
<1>3. Believes(h) => Believes(hold[p]) BY DEF Believes
<1>4. Founded(p, h) BY <1>3, <1>i DEF Founded
<1>5. \A m \in wire : m.from = p => PledgedTo(m, h)
  <2> SUFFICES ASSUME NEW m \in wire, m.from = p, h.pc \in Extending PROVE PledgedTo(m, h)
    BY DEF PledgedTo
  <2> QED BY KeptPledge
<1>6. h.id <= sent' /\ sent' \in Nat /\ sent <= sent' /\ marker' \in BOOLEAN BY <1>t
<1>7. \A m \in wire' : m \in wire OBVIOUS
<1> QED BY <1>1, <1>2, <1>3, <1>4, <1>5, <1>6, <1>7, HoldStep, Zenon

\* Losing the entry, or creating it again first, preserves the invariant.
LEMMA LoseInv ==
    ASSUME IInv, NEW p \in Pods, NEW h \in HoldType, NEW why \in Fates,
           Lose(p, h, why), UNCHANGED <<now, entry, last, marker>>,
           hold[p].pc \in Renewing,
           h.exp = hold[p].exp, h.start = hold[p].start, h.rev = hold[p].rev, h.reply = hold[p].reply,
           h.id = hold[p].id, h.fate = hold[p].fate
    PROVE  IInv'
<1> USE LeaseAssumption
<1>t. last \in Nat /\ sent \in Nat /\ now \in Nat BY Types DEF IInv
<1>i. Timely(hold[p]) /\ Founded(p, hold[p]) /\ hold[p].id <= sent BY DEF IInv, HoldInv
<1>1. CASE p \in Retaking /\ hold[p].pc # "retake"
  <2>s. sent' = sent + 1 /\ sent' \in Nat BY <1>1, <1>t DEF Lose, Fresh
  <2> DEFINE g == [h EXCEPT !.pc = "retake", !.id = sent', !.since = sent', !.flight = sent', !.why = why]
  <2>1. Send(p, g, 0) BY <1>1 DEF Lose
  <2>2. g \in HoldType BY <2>s, Zenon DEF HoldType, Waiting, Creating
  <2>3. /\ g.pc = "retake" /\ g.id = sent + 1 /\ g.rev = h.rev /\ g.exp = h.exp /\ g.start = h.start /\ g.fate = h.fate
        /\ g.reply = h.reply
    BY <2>s DEF HoldType
  <2> HIDE DEF g
  <2>4. Timely(g) BY <1>i, <2>3 DEF Timely, AttemptPcs
  <2>5. g.pc \in Waiting BY <2>3 DEF Waiting, Creating
  <2>6. g.fate = "none" => Believes(hold[p]) BY <2>3 DEF Believes
  <2>7. g.fate = "none" => Until(p, g.exp) BY <1>i, <2>3, <2>6 DEF Founded
  <2>8. \A m \in wire : m.from = p => PledgedTo(m, g) BY <2>3, FreshPledge
  <2>9. g.id <= sent' /\ sent <= sent' /\ 0 \in Nat /\ 0 <= last BY <1>t, <2>s, <2>3
  <2> QED BY <2>s, <2>1, <2>2, <2>3, <2>4, <2>5, <2>6, <2>7, <2>8, <2>9, SendStep
<1>2. CASE ~(p \in Retaking /\ hold[p].pc # "retake")
  <2> DEFINE f == IF h.fate = "none" THEN why ELSE h.fate
             g == [h EXCEPT !.pc = "paused", !.fate = f]
  <2>0. f \in Fates BY DEF HoldType
  <2>1. Become(p, g) /\ UNCHANGED <<wire, sent>> BY <1>2 DEF Lose
  <2>f. f = "none" => h.fate = "none" OBVIOUS
  <2> HIDE DEF f
  <2>2. g \in HoldType BY <2>0, Zenon DEF HoldType, Renewing
  <2>3. /\ g.pc = "paused" /\ g.id = h.id /\ g.rev = h.rev /\ g.exp = h.exp /\ g.start = h.start /\ g.fate = f
        /\ g.reply = h.reply
    BY DEF HoldType
  <2> HIDE DEF g
  <2>4. g.pc \notin AttemptPcs /\ g.pc \notin Extending BY <2>3 DEF AttemptPcs, Extending
  <2>5. g.start <= now /\ g.rev <= last /\ g.reply <= last /\ g.id <= sent BY <1>i, <2>3 DEF Timely
  <2>6. wire' \subseteq wire BY <2>1
  <2> QED BY <2>1, <2>2, <2>3, <2>4, <2>5, <2>6, <2>f, QuietStep
<1> QED BY <1>1, <1>2

\* Steps that only move a holder on, or record why its lease is over, preserve the invariant.
LEMMA QuietInv ==
    ASSUME IInv, NEW p \in Pods,
           StartRenewal(p) \/ HeldTooLong(p) \/ Expire(p) \/ Release(p) \/ EndRenewal(p)
    PROVE  IInv'
<1>t. hold[p] \in HoldType /\ last \in Nat /\ sent \in Nat /\ now \in Nat BY Types DEF IInv
<1>i. Timely(hold[p]) /\ hold[p].id <= sent BY DEF IInv, HoldInv
<1>u. UNCHANGED <<now, entry, last, marker, sent>> /\ wire' \subseteq wire
  BY DEF StartRenewal, HeldTooLong, Expire, Release, EndRenewal
<1>r. hold[p].pc \in Renewing
  BY DEF StartRenewal, HeldTooLong, Expire, Release, EndRenewal, Renewing
<1>a. \A pc \in Renewing : pc \notin AttemptPcs BY DEF Renewing, AttemptPcs
<1>1. CASE StartRenewal(p)
  <2> DEFINE h == [hold[p] EXCEPT !.pc = "read", !.start = now]
  <2>1. Become(p, h) BY <1>1 DEF StartRenewal
  <2>2. h \in HoldType BY <1>t, Zenon DEF HoldType, Renewing
  <2>3. /\ h.pc = "read" /\ h.start = now /\ h.rev = hold[p].rev /\ h.reply = hold[p].reply /\ h.id = hold[p].id
        /\ h.fate = hold[p].fate /\ h.exp = hold[p].exp
    BY <1>t DEF HoldType
  <2> HIDE DEF h
  <2>4. h.pc \notin AttemptPcs /\ h.pc \notin Extending BY <2>3 DEF AttemptPcs, Extending
  <2>5. h.start <= now /\ h.rev <= last /\ h.reply <= last /\ h.id <= sent BY <1>t, <1>i, <2>3 DEF Timely
  <2> QED BY <1>u, <1>r, <2>1, <2>2, <2>3, <2>4, <2>5, QuietStep
<1>2. ASSUME NEW f \in Fates \ {"none"}, Become(p, [hold[p] EXCEPT !.fate = f])
      PROVE  IInv'
  <2> DEFINE h == [hold[p] EXCEPT !.fate = f]
  <2>1. Become(p, h) BY <1>2
  <2>2. h \in HoldType BY <1>t DEF HoldType
  <2>3. /\ h.pc = hold[p].pc /\ h.start = hold[p].start /\ h.rev = hold[p].rev /\ h.reply = hold[p].reply
        /\ h.id = hold[p].id /\ h.fate = f /\ h.exp = hold[p].exp
    BY <1>t DEF HoldType
  <2> HIDE DEF h
  <2>4. h.pc \notin AttemptPcs BY <1>r, <1>a, <2>3
  <2>5. h.start <= now /\ h.rev <= last /\ h.reply <= last /\ h.id <= sent BY <1>t, <1>i, <2>3 DEF Timely
  <2>6. h.fate # "none" BY <1>2, <2>3
  <2> QED BY <1>u, <1>r, <2>1, <2>2, <2>3, <2>4, <2>5, <2>6, QuietStep
<1>3. CASE HeldTooLong(p) \/ Expire(p) \/ Release(p)
  <2>1. \E f \in Fates \ {"none"} : Become(p, [hold[p] EXCEPT !.fate = f])
    BY <1>3 DEF HeldTooLong, Expire, Release, Fates
  <2> QED BY <1>2, <2>1
<1>4. CASE EndRenewal(p)
  <2> DEFINE h == [hold[p] EXCEPT !.pc = "check"]
  <2>1. Become(p, h) BY <1>4 DEF EndRenewal, Goto
  <2>2. h \in HoldType BY <1>t DEF HoldType
  <2>3. /\ h.pc = "check" /\ h.start = hold[p].start /\ h.rev = hold[p].rev /\ h.reply = hold[p].reply
        /\ h.id = hold[p].id /\ h.fate = hold[p].fate /\ h.exp = hold[p].exp
    BY <1>t DEF HoldType
  <2> HIDE DEF h
  <2>4. h.pc \notin AttemptPcs /\ h.pc \notin Extending BY <2>3 DEF AttemptPcs, Extending
  <2>5. h.start <= now /\ h.rev <= last /\ h.reply <= last /\ h.id <= sent BY <1>t, <1>i, <2>3 DEF Timely
  <2> QED BY <1>u, <1>r, <2>1, <2>2, <2>3, <2>4, <2>5, QuietStep
<1> QED BY <1>1, <1>3, <1>4

\* A renewal that reads its own entry sends a swap that only that entry can take.
LEMMA ReadInv ==
    ASSUME IInv, NEW p \in Pods, Read(p)
    PROVE  IInv'
<1> USE LeaseAssumption
<1>t. /\ hold[p] \in HoldType /\ last \in Nat /\ sent \in Nat /\ now \in Nat
      /\ entry.rev \in Nat /\ hold[p].rev \in Nat /\ hold[p].flight \in Nat
  BY Types DEF IInv, HoldType
<1>i. Timely(hold[p]) /\ Founded(p, hold[p]) /\ hold[p].id <= sent BY DEF IInv, HoldInv
<1>u. UNCHANGED <<now, entry, last, marker>> /\ hold[p].pc = "read" BY DEF Read
<1>r. hold[p].pc \in Renewing BY <1>u DEF Renewing
<1>1. ASSUME NEW why \in {"expired", "taken"}, Lose(p, hold[p], why) PROVE IInv'
  BY <1>1, <1>t, <1>u, <1>r, LoseInv DEF Fates
<1>2. ASSUME NEW rev \in Nat, NEW old \in Nat, entry.holder = p, rev = entry.rev \/ rev = hold[p].rev, Fresh,
             Send(p, [hold[p] EXCEPT !.pc = "swap", !.rev = rev, !.old = old, !.id = sent', !.flight = sent'], rev)
      PROVE  IInv'
  <2>s. sent' = sent + 1 /\ sent' \in Nat BY <1>2, <1>t DEF Fresh
  <2> DEFINE h == [hold[p] EXCEPT !.pc = "swap", !.rev = rev, !.old = old, !.id = sent', !.flight = sent']
  <2>1. Send(p, h, rev) BY <1>2
  <2>2. h \in HoldType BY <1>t, <2>s, <1>2, Zenon DEF HoldType, Waiting, Putting
  <2>3. /\ h.pc = "swap" /\ h.id = sent + 1 /\ h.rev = rev /\ h.exp = hold[p].exp /\ h.start = hold[p].start
        /\ h.fate = hold[p].fate /\ h.reply = hold[p].reply
    BY <1>t, <2>s DEF HoldType
  <2> HIDE DEF h
  <2>r. rev <= last BY <1>2, <1>i DEF IInv, EntryInv, Timely
  <2>4. Timely(h) BY <1>i, <2>r, <2>3 DEF Timely, AttemptPcs
  <2>5. h.pc \in Waiting BY <2>3 DEF Waiting, Putting
  <2>6. h.fate = "none" => Believes(hold[p]) BY <1>r, <2>3 DEF Believes
  <2>7. h.fate = "none" => Until(p, h.exp) BY <1>i, <2>3, <2>6 DEF Founded
  <2>8. \A m \in wire : m.from = p => PledgedTo(m, h) BY <2>3, FreshPledge
  <2>9. h.id <= sent' /\ sent <= sent' BY <1>t, <2>s, <2>3
  <2> QED BY <1>2, <1>u, <2>s, <2>1, <2>2, <2>3, <2>r, <2>4, <2>5, <2>6, <2>7, <2>8, <2>9, SendStep
<1>3. CASE \E why \in {"expired", "taken"} : Lose(p, hold[p], why)
  BY <1>3, <1>1
<1>4. CASE \E rev \in Nat, old \in Nat :
               /\ entry.holder = p /\ (rev = entry.rev \/ rev = hold[p].rev) /\ Fresh
               /\ Send(p, [hold[p] EXCEPT !.pc = "swap", !.rev = rev, !.old = old, !.id = sent', !.flight = sent'], rev)
  BY <1>4, <1>2, Zenon
<1>5. (\E why \in {"expired", "taken"} : Lose(p, hold[p], why))
      \/ \E own \in BOOLEAN :
            /\ entry.holder = p /\ Fresh
            /\ Send(p, [hold[p] EXCEPT !.pc = "swap", !.rev = IF own THEN entry.rev ELSE hold[p].rev,
                                       !.old = IF own THEN 0 ELSE hold[p].flight, !.id = sent', !.flight = sent'],
                    IF own THEN entry.rev ELSE hold[p].rev)
  <2> DEFINE own == entry.rev # hold[p].rev /\ (p \in Retaking \/ entry.id = hold[p].flight)
  <2>1. own \in BOOLEAN OBVIOUS
  <2>2. \/ Lose(p, hold[p], "expired")
        \/ Lose(p, hold[p], "taken")
        \/ /\ entry.holder = p /\ Fresh
           /\ Send(p, [hold[p] EXCEPT !.pc = "swap", !.rev = IF own THEN entry.rev ELSE hold[p].rev,
                                      !.old = IF own THEN 0 ELSE hold[p].flight, !.id = sent', !.flight = sent'],
                   IF own THEN entry.rev ELSE hold[p].rev)
    BY Zenon DEF Read
  <2> HIDE DEF own
  <2> QED BY <2>1, <2>2, Zenon
<1>6. ASSUME NEW own \in BOOLEAN, entry.holder = p, Fresh,
             Send(p, [hold[p] EXCEPT !.pc = "swap", !.rev = IF own THEN entry.rev ELSE hold[p].rev,
                                     !.old = IF own THEN 0 ELSE hold[p].flight, !.id = sent', !.flight = sent'],
                  IF own THEN entry.rev ELSE hold[p].rev)
      PROVE  IInv'
  <2> DEFINE rev == IF own THEN entry.rev ELSE hold[p].rev
             old == IF own THEN 0 ELSE hold[p].flight
  <2>1. rev \in Nat /\ old \in Nat /\ (rev = entry.rev \/ rev = hold[p].rev) BY <1>t
  <2>2. Send(p, [hold[p] EXCEPT !.pc = "swap", !.rev = rev, !.old = old, !.id = sent', !.flight = sent'], rev)
    BY <1>6
  <2> HIDE DEF rev, old
  <2> QED BY <1>4, <1>6, <2>1, <2>2, Zenon
<1> QED BY <1>3, <1>5, <1>6, Zenon

\* A renewal's answer moves the deadline to where the entry is known to reach.
LEMMA RenewedInv ==
    ASSUME IInv, NEW p \in Pods, Renewed(p)
    PROVE  IInv'
<1> USE LeaseAssumption
<1>t. hold[p] \in HoldType /\ last \in Nat /\ sent \in Nat /\ marker \in BOOLEAN BY Types DEF IInv, TypeOK
<1>g. hold[p].pc \in {"swap", "reswap", "retake"} /\ hold[p].reply > 0 BY DEF Renewed
<1>i. Timely(hold[p]) /\ Founded(p, hold[p]) BY DEF IInv, HoldInv
<1> DEFINE h == [hold[p] EXCEPT !.pc = "paused", !.rev = hold[p].reply, !.flight = 0, !.id = 0, !.reply = 0,
                                !.exp = hold[p].start + TTL]
<1>1. hold' = [hold EXCEPT ![p] = h] /\ UNCHANGED <<now, entry, last, marker, wire, sent>> BY DEF Renewed, Become
<1>2. h \in HoldType
  <2>1. "paused" \in Pcs /\ 0 \in Nat /\ 0 \in Int BY DEF Pcs, Renewing
  <2>2. hold[p].reply \in Nat /\ hold[p].start + TTL \in Nat BY <1>t, <1>g DEF HoldType
  <2> QED BY <2>1, <2>2, <1>t, HoldTypes, Zenon
<1>3. /\ h.pc = "paused" /\ h.rev = hold[p].reply /\ h.id = 0 /\ h.reply = 0
      /\ h.start = hold[p].start /\ h.exp = hold[p].start + TTL /\ h.fate = hold[p].fate
  BY <1>t DEF HoldType
<1> HIDE DEF h
<1>4. Timely(h) BY <1>t, <1>i, <1>3 DEF Timely, AttemptPcs
<1>5. Believes(h) => hold[p].fate = "none" BY <1>3 DEF Believes, AttemptPcs
<1>6. Believes(h) => Believes(hold[p]) BY <1>5, <1>g DEF Believes, Renewing
<1>7. Founded(p, h) BY <1>3, <1>5, <1>g, <1>i DEF Founded, Extending
<1>8. \A m \in wire : m.from = p => PledgedTo(m, h) BY <1>3 DEF PledgedTo, AttemptPcs, Extending
<1>9. h.id <= sent' /\ sent' \in Nat /\ sent <= sent' /\ marker' \in BOOLEAN BY <1>1, <1>3, <1>t
<1> QED BY <1>1, <1>2, <1>4, <1>6, <1>7, <1>8, <1>9, HoldStep, Zenon

\* A renewal that was refused, wherever it stands, preserves the invariant.
LEMMA RefusedInv ==
    ASSUME IInv, NEW p \in Pods, SwapLost(p) \/ Reread(p) \/ ReswapLost(p) \/ RetakeLost(p)
    PROVE  IInv'
<1> USE LeaseAssumption
<1>t. /\ hold[p] \in HoldType /\ last \in Nat /\ sent \in Nat /\ now \in Nat /\ entry.rev \in Nat
      /\ hold[p].old \in Nat /\ hold[p].id \in Nat /\ hold[p].why \in Fates
  BY Types DEF IInv, HoldType
<1>i. Timely(hold[p]) /\ Founded(p, hold[p]) /\ hold[p].id <= sent BY DEF IInv, HoldInv
<1>u. UNCHANGED <<now, entry, last, marker>> BY DEF SwapLost, Reread, ReswapLost, RetakeLost
<1>r. hold[p].pc \in Renewing /\ hold[p].pc \in Extending
  BY DEF SwapLost, Reread, ReswapLost, RetakeLost, Renewing, Extending
<1>1. ASSUME NEW why \in Fates, Lose(p, [hold[p] EXCEPT !.flight = 0], why) PROVE IInv'
  <2> DEFINE h == [hold[p] EXCEPT !.flight = 0]
  <2>1. h \in HoldType BY <1>t DEF HoldType
  <2>2. /\ h.exp = hold[p].exp /\ h.start = hold[p].start /\ h.rev = hold[p].rev /\ h.reply = hold[p].reply
        /\ h.id = hold[p].id /\ h.fate = hold[p].fate
    BY <1>t DEF HoldType
  <2>3. Lose(p, h, why) BY <1>1
  <2> HIDE DEF h
  <2> QED BY <1>u, <1>r, <2>1, <2>2, <2>3, LoseInv
<1>f. "taken" \in Fates BY DEF Fates
<1>2. CASE SwapLost(p) /\ hold[p].old # 0
  <2> DEFINE h == [hold[p] EXCEPT !.pc = "reread", !.flight = hold[p].old]
  <2>1. Become(p, h) /\ UNCHANGED <<wire, sent>> BY <1>2 DEF SwapLost
  <2>2. h \in HoldType BY <1>t, Zenon DEF HoldType, Renewing
  <2>3. /\ h.pc = "reread" /\ h.start = hold[p].start /\ h.rev = hold[p].rev /\ h.reply = hold[p].reply
        /\ h.id = hold[p].id /\ h.fate = hold[p].fate /\ h.exp = hold[p].exp
    BY <1>t DEF HoldType
  <2> HIDE DEF h
  <2>4. h.pc \notin AttemptPcs BY <2>3 DEF AttemptPcs
  <2>5. h.start <= now /\ h.rev <= last /\ h.reply <= last /\ h.id <= sent BY <1>t, <1>i, <2>3 DEF Timely
  <2>6. wire' \subseteq wire BY <2>1
  <2> QED BY <1>u, <1>r, <2>1, <2>2, <2>3, <2>4, <2>5, <2>6, QuietStep
<1>3. CASE SwapLost(p) /\ hold[p].old = 0
  <2>1. Lose(p, [hold[p] EXCEPT !.flight = 0], "taken") BY <1>3 DEF SwapLost
  <2> QED BY <2>1, <1>1, <1>f
<1>4. CASE Reread(p) /\ ~(entry.holder = p /\ entry.id = hold[p].old)
  <2>1. Lose(p, hold[p], "taken") BY <1>4, Zenon DEF Reread
  <2> QED BY <2>1, <1>f, <1>t, <1>u, <1>r, LoseInv
<1>5. CASE Reread(p) /\ entry.holder = p /\ entry.id = hold[p].old
  <2> DEFINE h == [hold[p] EXCEPT !.pc = "reswap", !.rev = entry.rev, !.flight = hold[p].id]
  <2>1. Send(p, h, entry.rev) /\ UNCHANGED sent BY <1>5 DEF Reread
  <2>2. h \in HoldType BY <1>t, Zenon DEF HoldType, Waiting, Putting
  <2>3. /\ h.pc = "reswap" /\ h.id = hold[p].id /\ h.rev = entry.rev /\ h.exp = hold[p].exp /\ h.start = hold[p].start
        /\ h.fate = hold[p].fate /\ h.reply = hold[p].reply
    BY <1>t DEF HoldType
  <2> HIDE DEF h
  <2>r. entry.rev <= last BY Zenon DEF IInv, EntryInv
  <2>4. Timely(h) BY <1>i, <2>r, <2>3, Zenon DEF Timely, AttemptPcs
  <2>5. h.pc \in Waiting /\ h.pc \notin AttemptPcs BY <2>3 DEF Waiting, Putting, AttemptPcs
  <2>6. h.fate = "none" => Believes(hold[p]) BY <1>r, <2>3 DEF Believes
  <2>7. h.fate = "none" => Until(p, h.exp) BY <1>i, <2>3, <2>6 DEF Founded
  <2>8. \A m \in wire : m.from = p => PledgedTo(m, h) BY <1>r, <2>3, <2>5, KeptPledge, Zenon
  <2>9. h.id <= sent' /\ sent' \in Nat /\ sent <= sent' BY <1>t, <1>i, <2>1, <2>3
  <2> QED BY <1>t, <1>5, <1>u, <2>1, <2>2, <2>3, <2>r, <2>4, <2>5, <2>6, <2>7, <2>8, <2>9, SendStep
<1>6. CASE ReswapLost(p)
  <2>1. Lose(p, [hold[p] EXCEPT !.flight = 0], "taken") BY <1>6 DEF ReswapLost
  <2> QED BY <2>1, <1>1, <1>f
<1>7. CASE RetakeLost(p)
  <2>1. Lose(p, [hold[p] EXCEPT !.flight = 0], hold[p].why) BY <1>7 DEF RetakeLost
  <2> QED BY <2>1, <1>1, <1>t
<1> QED BY <1>2, <1>3, <1>4, <1>5, <1>6, <1>7

\* A release sends its delete only at a revision of its own entry, which it has stopped
\* believing in.
LEMMA CheckInv ==
    ASSUME IInv, NEW p \in Pods, Check(p)
    PROVE  IInv'
<1> USE LeaseAssumption
<1>t. /\ hold[p] \in HoldType /\ last \in Nat /\ sent \in Nat /\ now \in Nat
      /\ entry.rev \in Nat /\ hold[p].rev \in Nat
  BY Types DEF IInv, HoldType
<1>i. Timely(hold[p]) BY DEF IInv, HoldInv
<1>u. UNCHANGED <<now, entry, last, marker, sent>> BY DEF Check
<1>1. CASE entry.holder # p
  <2>1. Abandon(p) /\ UNCHANGED wire BY <1>1, Zenon DEF Check
  <2> QED BY <1>u, <2>1, AbandonInv
<1>2. CASE entry.holder = p
  <2> DEFINE h == [hold[p] EXCEPT !.pc = "delete", !.id = 0]
  <2>1. \E rev \in {entry.rev, hold[p].rev} : Send(p, h, rev) BY <1>2 DEF Check
  <2>2. h \in HoldType BY <1>t, Zenon DEF HoldType, Waiting
  <2>3. /\ h.pc = "delete" /\ h.id = 0 /\ h.rev = hold[p].rev /\ h.start = hold[p].start /\ h.reply = hold[p].reply
    BY <1>t DEF HoldType
  <2> HIDE DEF h
  <2>4. Timely(h) BY <1>i, <2>3 DEF Timely, AttemptPcs
  <2>5. h.pc \in Waiting /\ h.pc \notin Renewing BY <2>3 DEF Waiting, Renewing
  <2>6. \A m \in wire : m.from = p => PledgedTo(m, h) BY <2>3 DEF PledgedTo, AttemptPcs, Extending
  <2>7. h.id <= sent' /\ sent' \in Nat /\ sent <= sent' BY <1>t, <1>u, <2>3
  <2>8. PICK rev \in {entry.rev, hold[p].rev} : Send(p, h, rev) BY <2>1
  <2>9. rev \in Nat /\ rev <= last BY <1>t, <1>i DEF IInv, EntryInv, Timely
  <2> QED BY <1>2, <1>u, <2>2, <2>3, <2>4, <2>5, <2>6, <2>7, <2>8, <2>9, SendStep
<1> QED BY <1>1, <1>2

\* A call that fails, and a process that dies, preserve the invariant.
LEMMA FailInv ==
    ASSUME IInv, NEW p \in Pods, CallFails(p) \/ Crash(p)
    PROVE  IInv'
<1>t. hold[p] \in HoldType /\ last \in Nat /\ sent \in Nat BY Types DEF IInv
<1>i. Timely(hold[p]) BY DEF IInv, HoldInv
<1>u. UNCHANGED <<now, entry, last, marker, sent>> BY DEF CallFails, Crash
<1>w. wire' \subseteq wire BY DEF CallFails, Crash, Leave
<1>1. CASE Abandon(p)
  BY <1>1, <1>u, <1>w, AbandonInv
<1>2. CASE CallFails(p) /\ hold[p].pc \in Renewing
  <2> DEFINE h == [hold[p] EXCEPT !.pc = "paused", !.id = 0, !.reply = 0]
  <2>1. Become(p, h) BY <1>2 DEF CallFails
  <2>2. h \in HoldType
    <3>1. "paused" \in Pcs /\ 0 \in Nat /\ 0 \in Int BY DEF Pcs, Renewing
    <3> QED BY <3>1, <1>t, HoldTypes, Zenon
  <2>3. /\ h.pc = "paused" /\ h.start = hold[p].start /\ h.rev = hold[p].rev /\ h.reply = 0
        /\ h.id = 0 /\ h.fate = hold[p].fate /\ h.exp = hold[p].exp
    BY <1>t DEF HoldType
  <2> HIDE DEF h
  <2>4. h.pc \notin AttemptPcs /\ h.pc \notin Extending BY <2>3 DEF AttemptPcs, Extending
  <2>5. h.start <= now /\ h.rev <= last /\ h.reply <= last /\ h.id <= sent BY <1>t, <1>i, <2>3 DEF Timely
  <2> QED BY <1>u, <1>w, <1>2, <2>1, <2>2, <2>3, <2>4, <2>5, QuietStep
<1>3. Abandon(p) \/ (CallFails(p) /\ hold[p].pc \in Renewing) BY DEF CallFails, Crash
<1> QED BY <1>1, <1>2, <1>3

----------------------------------------------------------------------------
(* The bucket and the clock                                                *)

\* What an answer does to the hold of the write's sender.
LEMMA Answered ==
    ASSUME TypeOK, NEW m \in wire, NEW reply \in Int, Answer(m, reply)
    PROVE  /\ wire' \subseteq wire /\ m.from \in Pods
           /\ hold' \in [Pods -> HoldType]
           /\ \A q \in Pods :
                 /\ hold'[q].pc = hold[q].pc /\ hold'[q].start = hold[q].start /\ hold'[q].exp = hold[q].exp
                 /\ hold'[q].rev = hold[q].rev /\ hold'[q].id = hold[q].id /\ hold'[q].fate = hold[q].fate
           /\ \A q \in Pods : hold'[q].reply = hold[q].reply \/ (q = m.from /\ Awaits(m) /\ hold'[q].reply = reply)
<1>t. hold \in [Pods -> HoldType] /\ hold[m.from] \in HoldType /\ m.from \in Pods
  BY DEF TypeOK, WriteType
<1>1. CASE UNCHANGED hold
  BY <1>1, <1>t DEF Answer
<1>2. CASE Awaits(m) /\ hold' = [hold EXCEPT ![m.from] = [hold[m.from] EXCEPT !.reply = reply]]
  <2>1. [hold[m.from] EXCEPT !.reply = reply] \in HoldType BY <1>t DEF HoldType
  <2>2. hold' \in [Pods -> HoldType] BY <1>2, <1>t, <2>1
  <2>3. \A q \in Pods : q # m.from => hold'[q] = hold[q] BY <1>2, <1>t
  <2>4. hold'[m.from] = [hold[m.from] EXCEPT !.reply = reply] BY <1>2, <1>t
  <2>5. /\ hold'[m.from].pc = hold[m.from].pc /\ hold'[m.from].start = hold[m.from].start
        /\ hold'[m.from].exp = hold[m.from].exp /\ hold'[m.from].rev = hold[m.from].rev
        /\ hold'[m.from].id = hold[m.from].id /\ hold'[m.from].fate = hold[m.from].fate
        /\ hold'[m.from].reply = reply
    BY <2>4, <1>t DEF HoldType
  <2>6. wire' \subseteq wire BY DEF Answer
  <2> QED BY <1>t, <1>2, <2>2, <2>3, <2>5, <2>6
<1>3. CASE hold' = [hold EXCEPT ![m.from] = [hold[m.from] EXCEPT !.tries = 2]]
  <2>1. [hold[m.from] EXCEPT !.tries = 2] \in HoldType BY <1>t DEF HoldType
  <2>2. hold' \in [Pods -> HoldType] BY <1>3, <1>t, <2>1
  <2>3. \A q \in Pods : q # m.from => hold'[q] = hold[q] BY <1>3, <1>t
  <2>4. hold'[m.from] = [hold[m.from] EXCEPT !.tries = 2] BY <1>3, <1>t
  <2>5. /\ hold'[m.from].pc = hold[m.from].pc /\ hold'[m.from].start = hold[m.from].start
        /\ hold'[m.from].exp = hold[m.from].exp /\ hold'[m.from].rev = hold[m.from].rev
        /\ hold'[m.from].id = hold[m.from].id /\ hold'[m.from].fate = hold[m.from].fate
        /\ hold'[m.from].reply = hold[m.from].reply
    BY <2>4, <1>t DEF HoldType
  <2>6. wire' \subseteq wire BY DEF Answer
  <2> QED BY <1>t, <2>2, <2>3, <2>5, <2>6
<1> QED BY <1>1, <1>2, <1>3 DEF Answer, Become

\* A write that is refused preserves the invariant.
LEMMA BouncesInv ==
    ASSUME IInv, NEW m \in wire, Bounces(m)
    PROVE  IInv'
<1>t. TypeOK /\ last \in Nat /\ sent \in Nat /\ marker \in BOOLEAN BY Types DEF IInv, TypeOK
<1>r. Refused \in Int /\ Refused <= last /\ ~(Refused > 0) BY <1>t DEF Refused
<1>u. UNCHANGED <<now, entry, last, sent>> /\ marker' \in BOOLEAN BY <1>t, Zenon DEF Bounces
<1>a. /\ wire' \subseteq wire /\ m.from \in Pods
      /\ hold' \in [Pods -> HoldType]
      /\ \A q \in Pods :
            /\ hold'[q].pc = hold[q].pc /\ hold'[q].start = hold[q].start /\ hold'[q].exp = hold[q].exp
            /\ hold'[q].rev = hold[q].rev /\ hold'[q].id = hold[q].id /\ hold'[q].fate = hold[q].fate
      /\ \A q \in Pods : hold'[q].reply = hold[q].reply \/ hold'[q].reply = Refused
  BY <1>t, <1>r, Answered DEF Bounces
<1>1. TypeOK' BY <1>t, <1>u, <1>a DEF TypeOK
<1>2. EntryInv' BY <1>u DEF IInv, EntryInv
<1>b. \A q \in Pods : Believes(hold'[q]) => Believes(hold[q]) BY <1>a, <1>r DEF Believes
<1>3. WireInv'
  <2> SUFFICES ASSUME NEW x \in wire' PROVE Stamped(x)' /\ PledgedTo(x, hold[x.from])' /\ FencedFor(x, hold[x.from])'
    BY DEF WireInv
  <2>1. x \in wire /\ x.from \in Pods BY <1>t, <1>a DEF TypeOK, WriteType
  <2>2. Stamped(x) /\ PledgedTo(x, hold[x.from]) /\ FencedFor(x, hold[x.from]) BY <2>1 DEF IInv, WireInv
  <2>3. Stamped(x)' BY <1>u, <2>2 DEF Stamped
  <2>4. PledgedTo(x, hold[x.from])' BY <1>a, <2>1, <2>2, Zenon DEF PledgedTo
  <2>5. FencedFor(x, hold[x.from])'
    <3>1. Believes(hold'[x.from]) => Believes(hold[x.from]) BY <1>b, <2>1, Zenon
    <3>2. FencedFor(x, hold'[x.from]) BY <2>2, <3>1 DEF FencedFor
    <3> QED BY <1>u, <3>2 DEF FencedFor, Believes
  <2> QED BY <2>3, <2>4, <2>5
<1>4. HoldInv'
  <2> SUFFICES ASSUME NEW q \in Pods PROVE Timely(hold[q])' /\ hold'[q].id <= sent' /\ Founded(q, hold[q])'
    BY DEF HoldInv
  <2>1. Timely(hold[q]) /\ hold[q].id <= sent /\ Founded(q, hold[q]) BY DEF IInv, HoldInv
  <2>2. Timely(hold[q])' BY <1>u, <1>a, <1>r, <2>1, Zenon DEF Timely
  <2>3. Founded(q, hold'[q]) BY <1>a, <1>b, <1>r, <2>1 DEF Founded
  <2>4. Founded(q, hold[q])' BY <1>u, <2>3 DEF Founded, Believes, Until
  <2> QED BY <1>u, <1>a, <2>1, <2>2, <2>4
<1> QED BY <1>1, <1>2, <1>3, <1>4 DEF IInv

\* A write that lands preserves the invariant: it finds the key free, or expired, or held
\* by its own sender.
LEMMA LandsInv ==
    ASSUME IInv, NEW m \in wire, Lands(m)
    PROVE  IInv'
<1> USE LeaseAssumption
<1>t. /\ TypeOK /\ last \in Nat /\ sent \in Nat /\ now \in Nat /\ marker \in BOOLEAN /\ TTL \in Nat
      /\ entry.exp \in Nat /\ entry.rev \in Nat
  BY Types DEF IInv, TypeOK
<1>m. /\ m.from \in Pods /\ m.exp \in Nat /\ m.rev \in Nat /\ m.id \in Nat /\ m.since \in Nat
      /\ m.kind \in {"create", "put", "delete"}
  BY <1>t DEF TypeOK, WriteType
<1>u. now' = now /\ sent' = sent /\ last' = last + 1 /\ marker' \in BOOLEAN BY Zenon DEF Lands
<1>a. /\ wire' \subseteq wire
      /\ hold' \in [Pods -> HoldType]
      /\ \A q \in Pods :
            /\ hold'[q].pc = hold[q].pc /\ hold'[q].start = hold[q].start /\ hold'[q].exp = hold[q].exp
            /\ hold'[q].rev = hold[q].rev /\ hold'[q].id = hold[q].id /\ hold'[q].fate = hold[q].fate
      /\ \A q \in Pods : hold'[q].reply = hold[q].reply \/ (q = m.from /\ Awaits(m) /\ hold'[q].reply = last + 1)
  BY <1>t, Answered DEF Lands
<1>i. Stamped(m) /\ PledgedTo(m, hold[m.from]) /\ FencedFor(m, hold[m.from]) BY DEF IInv, WireInv
<1>d. m.kind = "delete" => entry' = Free BY DEF Lands
<1>e. m.kind # "delete" =>
        /\ entry' \in [holder : Pods \cup {Nobody}, since : Nat, id : Nat, exp : Nat, lapse : Nat, rev : Nat]
        /\ entry'.holder = m.from /\ entry'.exp = m.exp /\ entry'.lapse = now + TTL /\ entry'.rev = last + 1
  BY <1>t, <1>m DEF Lands, Stored
<1>f. /\ Free \in [holder : Pods \cup {Nobody}, since : Nat, id : Nat, exp : Nat, lapse : Nat, rev : Nat]
      /\ Free.holder = Nobody /\ Free.exp = 0 /\ Free.lapse = 0 /\ Free.rev = 0
  BY DEF Free
<1>1. TypeOK'
  <2>1. entry' \in [holder : Pods \cup {Nobody}, since : Nat, id : Nat, exp : Nat, lapse : Nat, rev : Nat]
    BY <1>d, <1>e, <1>f, Zenon
  <2> QED BY <1>t, <1>u, <1>a, <2>1 DEF TypeOK
<1>2. EntryInv' BY <1>t, <1>m, <1>u, <1>i, <1>d, <1>e, <1>f DEF EntryInv, Stamped
<1>3. WireInv'
  <2> SUFFICES ASSUME NEW x \in wire' PROVE Stamped(x)' /\ PledgedTo(x, hold[x.from])' /\ FencedFor(x, hold[x.from])'
    BY DEF WireInv
  <2>1. x \in wire /\ x.from \in Pods /\ x.rev \in Nat BY <1>t, <1>a DEF TypeOK, WriteType
  <2>2. Stamped(x) /\ PledgedTo(x, hold[x.from]) BY <2>1 DEF IInv, WireInv
  <2>3. Stamped(x)' BY <1>t, <1>u, <2>1, <2>2 DEF Stamped
  <2>4. PledgedTo(x, hold[x.from])' BY <1>a, <2>1, <2>2 DEF PledgedTo
  <2>5. entry' = Free \/ entry'.rev # x.rev BY <1>t, <1>d, <1>e, <2>1, <2>2 DEF Stamped
  <2>6. FencedFor(x, hold[x.from])' BY <2>5, Zenon DEF FencedFor, Free
  <2> QED BY <2>3, <2>4, <2>6
<1>4. HoldInv'
  <2> SUFFICES ASSUME NEW q \in Pods PROVE Timely(hold[q])' /\ hold'[q].id <= sent' /\ Founded(q, hold[q])'
    BY DEF HoldInv
  <2>1. Timely(hold[q]) /\ hold[q].id <= sent /\ Founded(q, hold[q]) BY DEF IInv, HoldInv
  <2>y. /\ hold[q].exp \in Nat /\ hold[q].start \in Nat /\ hold[q].rev \in Nat /\ hold[q].reply \in Int
        /\ hold'[q].reply \in Int
    BY <1>t, <1>a, Zenon DEF TypeOK, HoldType
  <2>2. Timely(hold[q])' BY <1>t, <1>u, <1>a, <2>1, <2>y DEF Timely
  <2>k. ASSUME NEW d \in Nat, Until(q, d), Believes(hold[q]) PROVE Until(q, d)'
    <3> SUFFICES ASSUME now < d PROVE entry'.holder = q /\ entry'.exp >= d
      BY <1>u DEF Until
    <3>1. entry.holder = q /\ entry.exp >= d /\ entry.exp > now BY <2>k, <1>t DEF Until
    <3>2. entry # Free BY <3>1, <1>f
    <3>3. m.kind # "create" /\ entry.rev = m.rev BY <3>2, Zenon DEF Lands, Matches
    <3>4. m.kind # "delete" BY <3>1, <3>2, <3>3, <2>k, <1>i, Zenon DEF FencedFor
    <3>5. m.exp >= entry.exp /\ entry.holder = m.from BY <1>m, <1>t, <1>i, <3>1, <3>2, <3>3, <3>4 DEF FencedFor
    <3> QED BY <1>e, <1>m, <1>t, <3>1, <3>4, <3>5
  <2>n. ASSUME q = m.from, Awaits(m)
        PROVE  /\ hold[q].pc \in AttemptPcs => Until(q, hold[q].exp)'
               /\ hold[q].pc \in Extending => Until(q, hold[q].start + TTL)'
    <3>1. hold[q].id = m.id /\ (hold[q].pc \in AttemptPcs \cup Extending => m.kind # "delete")
      BY <2>n DEF Awaits, Kind, Waiting, Creating, Putting, AttemptPcs, Extending
    <3>2. hold[q].pc \in AttemptPcs => m.exp = hold[q].exp BY <3>1, <2>n, <1>i DEF PledgedTo
    <3>3. hold[q].pc \in Extending => m.exp >= hold[q].start + TTL BY <3>1, <2>n, <1>i DEF PledgedTo
    <3>4. hold[q].pc \in AttemptPcs \cup Extending => entry'.holder = q /\ entry'.exp = m.exp BY <3>1, <2>n, <1>e, Zenon
    <3>5. hold[q].pc \in AttemptPcs => Until(q, hold[q].exp)'
      BY <1>u, <1>a, <3>2, <3>4, <1>m, <2>y DEF Until
    <3>6. hold[q].pc \in Extending => Until(q, hold[q].start + TTL)'
      BY <1>u, <1>a, <3>3, <3>4 DEF Until
    <3> QED BY <3>5, <3>6
  <2>x. \A pc \in Extending : pc \in Renewing /\ pc \notin AttemptPcs BY DEF Extending, Renewing, AttemptPcs
  <2>3. Believes(hold'[q]) => Until(q, hold[q].exp)'
    <3> SUFFICES ASSUME Believes(hold'[q]) PROVE Until(q, hold[q].exp)'
      OBVIOUS
    <3>1. CASE Believes(hold[q])
      <4>1. Until(q, hold[q].exp) BY <2>1, <3>1 DEF Founded
      <4>2. hold'[q].exp = hold[q].exp BY <1>a
      <4> QED BY <4>1, <4>2, <2>k, <2>y, <3>1 DEF Until
    <3>2. CASE ~Believes(hold[q])
      <4>1. hold[q].pc \in AttemptPcs /\ q = m.from /\ Awaits(m) BY <3>2, <1>a DEF Believes
      <4> QED BY <4>1, <2>n, Zenon
    <3> QED BY <3>1, <3>2
  <2>4. hold'[q].pc \in Extending /\ hold'[q].fate = "none" /\ hold'[q].reply > 0 => Until(q, hold[q].start + TTL)'
    <3> SUFFICES ASSUME hold'[q].pc \in Extending, hold'[q].fate = "none", hold'[q].reply > 0
                 PROVE  Until(q, hold[q].start + TTL)'
      OBVIOUS
    <3>0. hold[q].pc \in Extending /\ hold[q].fate = "none" /\ Believes(hold[q]) BY <1>a, <2>x DEF Believes
    <3>1. CASE hold[q].reply > 0
      <4>1. Until(q, hold[q].start + TTL) BY <2>1, <3>0, <3>1 DEF Founded
      <4>2. hold'[q].start = hold[q].start /\ hold[q].start + TTL \in Nat BY <1>a, <1>t, <2>y
      <4> QED BY <4>1, <4>2, <2>k, <3>0 DEF Until
    <3>2. CASE ~(hold[q].reply > 0)
      <4>1. q = m.from /\ Awaits(m) BY <3>2, <1>a
      <4> QED BY <4>1, <2>n, <3>0
    <3> QED BY <3>1, <3>2
  <2>5. Founded(q, hold[q])' BY <2>3, <2>4 DEF Founded, Believes
  <2> QED BY <1>u, <1>a, <2>1, <2>2, <2>5
<1> QED BY <1>1, <1>2, <1>3, <1>4 DEF IInv

\* An entry the server removes had expired, so nobody believed in it.
LEMMA LapsesInv ==
    ASSUME IInv, Lapses
    PROVE  IInv'
<1> USE LeaseAssumption
<1>t. TypeOK /\ last \in Nat /\ now \in Nat /\ TTL \in Nat /\ entry.exp \in Nat /\ entry.lapse \in Nat
  BY Types DEF IInv
<1>u. entry' = Free /\ UNCHANGED <<now, last, marker, wire, hold, sent>> BY DEF Lapses
<1>f. /\ Free \in [holder : Pods \cup {Nobody}, since : Nat, id : Nat, exp : Nat, lapse : Nat, rev : Nat]
      /\ Free.exp = 0 /\ Free.lapse = 0 /\ Free.rev = 0
  BY DEF Free
<1>x. entry.exp <= now BY <1>t DEF Lapses, IInv, EntryInv
<1>1. TypeOK' BY <1>t, <1>u, <1>f DEF TypeOK
<1>2. EntryInv' BY <1>t, <1>u, <1>f DEF EntryInv
<1>3. WireInv'
  <2> SUFFICES ASSUME NEW m \in wire PROVE Stamped(m)' /\ PledgedTo(m, hold[m.from])' /\ FencedFor(m, hold[m.from])'
    BY <1>u, Zenon DEF WireInv
  <2>1. Stamped(m) /\ PledgedTo(m, hold[m.from]) BY DEF IInv, WireInv
  <2> QED BY <1>u, <2>1, Zenon DEF Stamped, PledgedTo, FencedFor, Free
<1>4. HoldInv'
  <2> SUFFICES ASSUME NEW q \in Pods PROVE Timely(hold[q])' /\ hold'[q].id <= sent' /\ Founded(q, hold[q])'
    BY DEF HoldInv
  <2>1. Timely(hold[q]) /\ hold[q].id <= sent /\ Founded(q, hold[q]) BY DEF IInv, HoldInv
  <2>2. hold[q].exp \in Nat /\ hold[q].start + TTL \in Nat BY <1>t DEF TypeOK, HoldType
  <2>3. ASSUME NEW d \in Nat, Until(q, d) PROVE ~(now < d) BY <2>3, <1>t, <1>x DEF Until
  <2>4. Founded(q, hold[q])' BY <1>u, <2>1, <2>2, <2>3 DEF Founded, Believes, Until
  <2> QED BY <1>u, <2>1, <2>4 DEF Timely
<1> QED BY <1>1, <1>2, <1>3, <1>4 DEF IInv

\* Time only makes pods believe less.
LEMMA TickInv ==
    ASSUME IInv, Tick
    PROVE  IInv'
<1> USE LeaseAssumption
<1>t. TypeOK /\ now \in Nat /\ TTL \in Nat /\ entry.exp \in Nat BY Types DEF IInv
<1>u. now' = now + 1 /\ UNCHANGED <<entry, last, marker, wire, hold, sent>> BY DEF Tick
<1>1. TypeOK' BY <1>t, <1>u DEF TypeOK
<1>2. EntryInv' BY <1>t, <1>u DEF IInv, EntryInv
<1>3. WireInv'
  <2> SUFFICES ASSUME NEW m \in wire PROVE Stamped(m)' /\ PledgedTo(m, hold[m.from])' /\ FencedFor(m, hold[m.from])'
    BY <1>u DEF WireInv
  <2>1. Stamped(m) /\ PledgedTo(m, hold[m.from]) /\ FencedFor(m, hold[m.from]) BY DEF IInv, WireInv
  <2>2. m.exp \in Nat BY <1>t DEF TypeOK, WriteType
  <2>3. Stamped(m)' BY <1>t, <1>u, <2>1, <2>2 DEF Stamped
  <2>4. PledgedTo(m, hold[m.from])' BY <1>u, <2>1, Zenon DEF PledgedTo
  <2>5. FencedFor(m, hold[m.from])' BY <1>t, <1>u, <2>1 DEF FencedFor, Believes, Free
  <2> QED BY <2>3, <2>4, <2>5, Zenon
<1>4. HoldInv'
  <2> SUFFICES ASSUME NEW q \in Pods PROVE Timely(hold[q])' /\ hold'[q].id <= sent' /\ Founded(q, hold[q])'
    BY DEF HoldInv
  <2>1. Timely(hold[q]) /\ hold[q].id <= sent /\ Founded(q, hold[q]) BY DEF IInv, HoldInv
  <2>2. hold[q].exp \in Nat /\ hold[q].start \in Nat BY <1>t, Zenon DEF TypeOK, HoldType
  <2>3. Timely(hold[q])' BY <1>t, <1>u, <2>1, <2>2 DEF Timely
  <2>4. Founded(q, hold[q])' BY <1>t, <1>u, <2>1, <2>2 DEF Founded, Believes, Until
  <2> QED BY <1>u, <2>1, <2>3, <2>4
<1> QED BY <1>1, <1>2, <1>3, <1>4 DEF IInv

----------------------------------------------------------------------------
(* The theorems                                                            *)

\* The invariant holds at the start.
LEMMA InitInv == Init => IInv
<1> SUFFICES ASSUME Init PROVE IInv
  OBVIOUS
<1> USE LeaseAssumption
<1>1. now = 0 /\ entry = Free /\ last = 0 /\ marker = FALSE /\ wire = {} /\ hold = [p \in Pods |-> NoHold] /\ sent = 0
  BY DEF Init
<1>2. TypeOK BY <1>1, NoHoldType, Zenon DEF TypeOK, Free
<1>3. EntryInv BY <1>1 DEF EntryInv, Free
<1>4. WireInv BY <1>1 DEF WireInv
<1>5. HoldInv
  <2> SUFFICES ASSUME NEW p \in Pods PROVE Timely(hold[p]) /\ hold[p].id <= sent /\ Founded(p, hold[p])
    BY DEF HoldInv
  <2>1. hold[p] = NoHold BY <1>1
  <2>2. NoHold.pc = "idle" /\ NoHold.rev = 0 /\ NoHold.id = 0 /\ NoHold.reply = 0 /\ NoHold.start = 0 BY DEF NoHold
  <2> QED BY <1>1, <2>1, <2>2 DEF Timely, Founded, Believes, AttemptPcs, Renewing, Extending
<1> QED BY <1>2, <1>3, <1>4, <1>5 DEF IInv

\* Every step preserves the invariant.
LEMMA NextInv == IInv /\ [Next]_vars => IInv'
<1> SUFFICES ASSUME IInv, [Next]_vars PROVE IInv'
  OBVIOUS
<1>1. ASSUME NEW p \in Pods, AttemptStep(p) PROVE IInv'
  <2>1. CASE ReclaimLost(p)
    <3>1. Abandon(p) /\ UNCHANGED <<now, entry, last, marker, wire, sent>> BY <2>1 DEF ReclaimLost
    <3> QED BY <3>1, AbandonInv
  <2> QED BY <1>1, <2>1, AttemptInv, AcquiredInv, LookInv, JudgeInv DEF AttemptStep
<1>2. ASSUME NEW p \in Pods, RenewStep(p) PROVE IInv'
  BY <1>2, QuietInv, ReadInv, RenewedInv, RefusedInv DEF RenewStep
<1>3. ASSUME NEW p \in Pods, ReleaseStep(p) PROVE IInv'
  <2>1. CASE Deleted(p)
    <3>1. Abandon(p) /\ UNCHANGED <<now, entry, last, marker, wire, sent>> BY <2>1 DEF Deleted
    <3> QED BY <3>1, AbandonInv
  <2> QED BY <1>3, <2>1, QuietInv, CheckInv DEF ReleaseStep
<1>4. ASSUME NEW p \in Pods, CallFails(p) \/ Crash(p) PROVE IInv'
  BY <1>4, FailInv
<1>5. ASSUME NEW m \in wire, Lands(m) \/ Bounces(m) PROVE IInv'
  BY <1>5, LandsInv, BouncesInv
<1>6. CASE Lapses BY <1>6, LapsesInv
<1>7. CASE Tick BY <1>7, TickInv, Zenon
<1>8. CASE UNCHANGED vars
  BY <1>8 DEF vars, IInv, TypeOK, EntryInv, WireInv, HoldInv, Stamped, PledgedTo, FencedFor, Timely, Founded,
              Believes, Until, Free
<1> QED BY <1>1, <1>2, <1>3, <1>4, <1>5, <1>6, <1>7, <1>8 DEF Next

\* The inductive invariant holds throughout.
THEOREM Invariance == Spec => []IInv
BY InitInv, NextInv, PTL DEF Spec

\* As long as a holder may act, the entry in the bucket is its own and outlasts its timer:
\* acquire and renewals count the deadline from no later than the expiry they write, a
\* reclaim and a release's delete are fenced on the revision they judged (HeldLease).
THEOREM HoldersHaveTheEntry == Spec => []EntryOutlivesHold
<1>1. IInv => EntryOutlivesHold
  <2> SUFFICES ASSUME IInv, NEW p \in Pods, Acts(p) PROVE entry.holder = p /\ entry.exp >= hold[p].exp
    BY DEF EntryOutlivesHold
  <2>1. Believes(hold[p]) BY DEF Acts, Believes
  <2>2. Founded(p, hold[p]) BY DEF IInv, HoldInv
  <2> QED BY <2>1, <2>2, Zenon DEF Acts, Founded, Until
<1> QED BY <1>1, Invariance, PTL

\* Two pods never both act as the holder of the key (KVLease as a mutex).
THEOREM OneHolderActs == Spec => []MutualExclusion
<1>1. EntryOutlivesHold => MutualExclusion
  BY DEF EntryOutlivesHold, MutualExclusion
<1> QED BY <1>1, HoldersHaveTheEntry, PTL

----------------------------------------------------------------------------
(* KVLease implements Lease                                                *)

Outside(h) == h.pc \notin Renewing \cup {"check", "delete"}
Over(h) == h.pc \in {"check", "delete"} \/ (h.pc \in Renewing /\ h.fate # "none")

\* a hold that is not taken yet has no fate
Fateless == \A p \in Pods : Outside(hold[p]) => hold[p].fate = "none"

\* an attempt that succeeds is not over, and what is over is not taken back
Allowed(g, h) ==
    /\ Outside(h) => h.fate = "none"
    /\ Outside(g) => ~Over(h)
    /\ Over(g) => Over(h) \/ Outside(h)

\* the step of one pod
Moves(p) ==
    /\ now' = now
    /\ \A q \in Pods \ {p} : hold'[q] = hold[q]
    /\ Allowed(hold[p], hold'[p])

Holds == [p \in Pods |-> Standing(p)]

\* Every variable keeps its type (KVLease).
THEOREM TypesKept == Spec => []TypeOK
<1>1. IInv => TypeOK BY DEF IInv
<1> QED BY <1>1, Invariance, PTL

----------------------------------------------------------------------------
(* What an action does to the hold of its pod                              *)

\* A step that gives a pod the hold h gives it the steps and fate of h.
LEMMA BecomeMoves ==
    ASSUME TypeOK, NEW p \in Pods, NEW h, Become(p, h), now' = now, Allowed(hold[p], h)
    PROVE  Moves(p)
BY DEF Become, Moves, TypeOK

\* The hold that waits for a write differs by its reply and its count.
LEMMA SendMoves ==
    ASSUME TypeOK, NEW p \in Pods, NEW h, DOMAIN h = DOMAIN NoHold, NEW rev, Send(p, h, rev), now' = now,
           Allowed(hold[p], h)
    PROVE  Moves(p)
<1> DEFINE k == [h EXCEPT !.reply = 0, !.tries = 1]
<1>1. k.pc = h.pc /\ k.fate = h.fate BY DEF NoHold
<1>2. Allowed(hold[p], k) BY <1>1 DEF Allowed, Outside, Over
<1> QED BY <1>2, BecomeMoves DEF Send

\* A pod that gives up, or is done, stands outside.
LEMMA AbandonMoves ==
    ASSUME TypeOK, NEW p \in Pods, Abandon(p), now' = now
    PROVE  Moves(p)
<1>1. NoHold.pc = "idle" /\ NoHold.fate = "none" BY Zenon DEF NoHold
<1>2. Allowed(hold[p], NoHold) BY <1>1 DEF Allowed, Outside, Over, Renewing
<1> QED BY <1>2, BecomeMoves DEF Abandon

\* A renewal that fails reports the loss once, or creates its entry again.
LEMMA LoseMoves ==
    ASSUME TypeOK, NEW p \in Pods, NEW h, NEW why, DOMAIN h = DOMAIN NoHold, Lose(p, h, why), now' = now,
           hold[p].pc \in Renewing, h.fate = hold[p].fate
    PROVE  Moves(p)
<1>1. CASE p \in Retaking /\ hold[p].pc # "retake"
  <2> DEFINE k == [h EXCEPT !.pc = "retake", !.id = sent', !.since = sent', !.flight = sent', !.why = why]
  <2>1. DOMAIN k = DOMAIN NoHold OBVIOUS
  <2>2. k.pc = "retake" /\ k.fate = hold[p].fate BY DEF NoHold
  <2>3. Allowed(hold[p], k) BY <2>2 DEF Allowed, Outside, Over, Renewing
  <2>4. Send(p, k, 0) BY <1>1, Zenon DEF Lose
  <2> HIDE DEF k
  <2> QED BY <2>1, <2>3, <2>4, SendMoves
<1>2. CASE ~(p \in Retaking /\ hold[p].pc # "retake")
  <2> DEFINE k == [h EXCEPT !.pc = "paused", !.fate = IF h.fate = "none" THEN why ELSE h.fate]
  <2>1. k.pc = "paused" /\ (hold[p].fate # "none" => k.fate = hold[p].fate) BY DEF NoHold
  <2>2. Allowed(hold[p], k) BY <2>1 DEF Allowed, Outside, Over, Renewing
  <2>3. Become(p, k) BY <1>2 DEF Lose
  <2> HIDE DEF k
  <2> QED BY <2>2, <2>3, BecomeMoves
<1> QED BY <1>1, <1>2, Zenon

\* The steps of an attempt leave a pod outside, or give it a lease that is not over.
LEMMA AttemptMoves ==
    ASSUME TypeOK, Fateless, NEW p \in Pods, AttemptStep(p)
    PROVE  Moves(p)
<1> USE DEF Allowed, Outside, Over, Renewing
<1>t. hold[p] \in HoldType BY DEF TypeOK
<1>f. Outside(hold[p]) => hold[p].fate = "none" BY Zenon DEF Fateless
<1>1. CASE Attempt(p)
  <2> DEFINE h == [NoHold EXCEPT !.pc = "create", !.since = sent', !.id = sent', !.start = now, !.exp = now + TTL]
  <2>1. DOMAIN h = DOMAIN NoHold OBVIOUS
  <2>2. h.pc = "create" /\ h.fate = "none" BY DEF NoHold
  <2>3. Allowed(hold[p], h) BY <1>1, <2>2 DEF Attempt
  <2>4. Send(p, h, 0) /\ now' = now BY <1>1 DEF Attempt
  <2> HIDE DEF h
  <2> QED BY <2>1, <2>3, <2>4, SendMoves
<1>2. CASE Acquired(p)
  BY <1>t, <1>f, <1>2, BecomeMoves, Zenon DEF Acquired, HoldType
<1>3. CASE CreateLost(p)
  BY <1>t, <1>f, <1>3, BecomeMoves DEF CreateLost, Goto, HoldType
<1>4. CASE Look(p)
  <2>1. CASE entry = Free
    <3> DEFINE h == [hold[p] EXCEPT !.pc = "create2"]
    <3>1. DOMAIN h = DOMAIN NoHold BY <1>t DEF HoldType, NoHold
    <3>2. h.pc = "create2" /\ h.fate = hold[p].fate BY <1>t DEF HoldType
    <3>3. Allowed(hold[p], h) BY <1>f, <1>4, <3>2 DEF Look
    <3>4. Send(p, h, 0) /\ now' = now BY <1>4, <2>1 DEF Look
    <3> HIDE DEF h
    <3> QED BY <3>1, <3>3, <3>4, SendMoves
  <2>2. CASE entry # Free
    BY <1>t, <1>f, <1>4, <2>2, BecomeMoves, Zenon DEF Look, Goto, HoldType
  <2> QED BY <2>1, <2>2
<1>5. CASE Judge(p)
  <2> DEFINE h == [hold[p] EXCEPT !.pc = "reclaim"]
  <2>1. DOMAIN h = DOMAIN NoHold BY <1>t DEF HoldType, NoHold
  <2>2. h.pc = "reclaim" /\ h.fate = hold[p].fate BY <1>t DEF HoldType
  <2>3. Allowed(hold[p], h) BY <1>f, <1>5, <2>2 DEF Judge
  <2>4. now' = now /\ (Abandon(p) \/ Send(p, h, entry.rev)) BY <1>5 DEF Judge
  <2> HIDE DEF h
  <2> QED BY <2>1, <2>3, <2>4, SendMoves, AbandonMoves
<1>6. CASE ReclaimLost(p) BY <1>6, AbandonMoves DEF ReclaimLost
<1> QED BY <1>1, <1>2, <1>3, <1>4, <1>5, <1>6 DEF AttemptStep

\* The steps of a renewal keep a lease, or report it lost, once.
LEMMA RenewMoves ==
    ASSUME TypeOK, NEW p \in Pods, RenewStep(p)
    PROVE  Moves(p)
<1> USE DEF Allowed, Outside, Over, Renewing
<1>t. hold[p] \in HoldType BY Zenon DEF TypeOK
<1>d. DOMAIN hold[p] = DOMAIN NoHold BY <1>t DEF HoldType, NoHold
<1>1. CASE StartRenewal(p) \/ HeldTooLong(p) \/ Expire(p)
  BY <1>t, <1>1, BecomeMoves, Zenon DEF StartRenewal, HeldTooLong, Expire, HoldType
<1>2. CASE Renewed(p)
  BY <1>t, <1>2, BecomeMoves, Zenon DEF Renewed, HoldType
<1>3. CASE Read(p)
  <2>1. PICK r, o : \/ Lose(p, hold[p], "expired")
                   \/ Lose(p, hold[p], "taken")
                   \/ Send(p, [hold[p] EXCEPT !.pc = "swap", !.rev = r, !.old = o, !.id = sent', !.flight = sent'], r)
    BY <1>3, Zenon DEF Read
  <2> DEFINE h == [hold[p] EXCEPT !.pc = "swap", !.rev = r, !.old = o, !.id = sent', !.flight = sent']
  <2>2. DOMAIN h = DOMAIN NoHold BY <1>d
  <2>3. h.pc = "swap" /\ h.fate = hold[p].fate BY <1>t DEF HoldType
  <2>4. now' = now /\ hold[p].pc = "read" BY <1>3 DEF Read
  <2>5. Allowed(hold[p], h) BY <2>3, <2>4
  <2>6. Lose(p, hold[p], "expired") \/ Lose(p, hold[p], "taken") \/ Send(p, h, r) BY <2>1
  <2> HIDE DEF h
  <2> QED BY <1>d, <2>2, <2>4, <2>5, <2>6, SendMoves, LoseMoves, Zenon
<1>4. CASE SwapLost(p) \/ ReswapLost(p) \/ RetakeLost(p)
  <2> DEFINE h == [hold[p] EXCEPT !.flight = 0]
  <2>1. DOMAIN h = DOMAIN NoHold BY <1>d
  <2>2. h.fate = hold[p].fate BY <1>t DEF HoldType
  <2>3. now' = now /\ hold[p].pc \in Renewing BY <1>4 DEF SwapLost, ReswapLost, RetakeLost
  <2>4. CASE SwapLost(p) /\ hold[p].old # 0
    BY <1>t, <2>4, BecomeMoves, Zenon DEF SwapLost, HoldType
  <2>5. CASE ~(SwapLost(p) /\ hold[p].old # 0)
    <3>1. PICK why : Lose(p, h, why) BY <1>4, <2>5, Zenon DEF SwapLost, ReswapLost, RetakeLost
    <3> HIDE DEF h
    <3> QED BY <2>1, <2>2, <2>3, <3>1, LoseMoves
  <2> QED BY <2>4, <2>5
<1>5. CASE Reread(p)
  <2> DEFINE h == [hold[p] EXCEPT !.pc = "reswap", !.rev = entry.rev, !.flight = hold[p].id]
  <2>1. DOMAIN h = DOMAIN NoHold BY <1>d
  <2>2. h.pc = "reswap" /\ h.fate = hold[p].fate BY <1>t DEF HoldType
  <2>3. now' = now /\ hold[p].pc = "reread" BY <1>5 DEF Reread
  <2>4. Allowed(hold[p], h) BY <2>2, <2>3
  <2>5. Send(p, h, entry.rev) \/ Lose(p, hold[p], "taken") BY <1>5 DEF Reread
  <2> HIDE DEF h
  <2> QED BY <1>d, <2>1, <2>3, <2>4, <2>5, SendMoves, LoseMoves
<1> QED BY <1>1, <1>2, <1>3, <1>4, <1>5 DEF RenewStep

\* A release, a failed call and a crash take nothing back.
LEMMA ReleaseMoves ==
    ASSUME TypeOK, NEW p \in Pods, ReleaseStep(p) \/ CallFails(p) \/ Crash(p)
    PROVE  Moves(p)
<1> USE DEF Allowed, Outside, Over, Renewing
<1>t. hold[p] \in HoldType BY DEF TypeOK
<1>1. CASE Release(p) \/ EndRenewal(p)
  BY <1>t, <1>1, BecomeMoves, Zenon DEF Release, EndRenewal, Goto, HoldType
<1>2. CASE Check(p)
  <2> DEFINE h == [hold[p] EXCEPT !.pc = "delete", !.id = 0]
  <2>1. DOMAIN h = DOMAIN NoHold BY <1>t DEF HoldType, NoHold
  <2>2. h.pc = "delete" BY <1>t DEF HoldType
  <2>3. now' = now /\ hold[p].pc = "check" BY <1>2 DEF Check
  <2>4. Allowed(hold[p], h) BY <2>2, <2>3
  <2>5. Abandon(p) \/ \E r : Send(p, h, r) BY <1>2, Zenon DEF Check
  <2> HIDE DEF h
  <2> QED BY <2>1, <2>3, <2>4, <2>5, SendMoves, AbandonMoves
<1>3. CASE Deleted(p) \/ Crash(p) BY <1>3, AbandonMoves DEF Deleted, Crash
<1>4. CASE CallFails(p)
  <2>1. CASE hold[p].pc \in Renewing
    BY <1>t, <1>4, <2>1, BecomeMoves, Zenon DEF CallFails, HoldType
  <2>2. CASE hold[p].pc \notin Renewing
    <3>1. Abandon(p) /\ now' = now BY <1>4, <2>2 DEF CallFails
    <3> QED BY <3>1, AbandonMoves
  <2> QED BY <2>1, <2>2
<1> QED BY <1>1, <1>2, <1>3, <1>4 DEF ReleaseStep

\* An answer changes neither where a pod is nor the fate of its lease.
LEMMA AnswerMoves ==
    ASSUME TypeOK, Fateless, NEW m \in wire, Lands(m) \/ Bounces(m)
    PROVE  m.from \in Pods /\ Moves(m.from)
<1> DEFINE p == m.from
<1>1. p \in Pods BY DEF TypeOK, WriteType
<1>t. hold[p] \in HoldType BY <1>1 DEF TypeOK
<1>f. Outside(hold[p]) => hold[p].fate = "none" BY <1>1 DEF Fateless
<1>2. PICK reply : Answer(m, reply) /\ now' = now BY Zenon DEF Lands, Bounces
<1>3. CASE UNCHANGED hold
  BY <1>1, <1>2, <1>3, <1>f DEF Moves, Allowed, Outside, Over
<1>4. CASE Become(p, [hold[p] EXCEPT !.reply = reply])
  BY <1>1, <1>t, <1>f, <1>2, <1>4, BecomeMoves DEF Allowed, Outside, Over, HoldType
<1>5. CASE Become(p, [hold[p] EXCEPT !.tries = 2])
  BY <1>1, <1>t, <1>f, <1>2, <1>5, BecomeMoves DEF Allowed, Outside, Over, HoldType
<1> QED BY <1>1, <1>2, <1>3, <1>4, <1>5 DEF Answer

----------------------------------------------------------------------------
(* What that does to where the pods stand                                  *)

\* A pod's move is a step of Lease, or none, and leaves no fate outside.
LEMMA MoveRefines ==
    ASSUME Fateless, MutualExclusion', NEW p \in Pods, Moves(p)
    PROVE  Fateless' /\ [L!Next]_Holds
<1>1. \A q \in Pods \ {p} : Standing(q)' = Standing(q) /\ (Acts(q) <=> Acts(q)')
  BY Zenon DEF Moves, Standing, Acts
<1>2. Fateless' BY DEF Moves, Fateless, Allowed
<1>3. Holds' = [Holds EXCEPT ![p] = Standing(p)'] BY <1>1, Zenon DEF Holds
<1>4. Acts(p)' => \A q \in Pods \ {p} : Standing(q) # "held" BY <1>1, Zenon DEF MutualExclusion, Standing
<1>a. (Standing(p) = "out" <=> Outside(hold[p])) /\ (Standing(p) = "lost" <=> Over(hold[p]))
  BY Zenon DEF Standing, Acts, Outside, Over, Renewing
<1>b. (Standing(p) = "out" <=> Outside(hold[p]))' /\ (Standing(p) = "lost" <=> Over(hold[p]))'
  BY Zenon DEF Standing, Acts, Outside, Over, Renewing
<1>5. Standing(p) = "out" => Standing(p)' # "lost" BY <1>a, <1>b, Zenon DEF Moves, Allowed, Outside, Over
<1>6. Standing(p) = "lost" => Standing(p)' \in {"lost", "out"} BY <1>a, <1>b, Zenon DEF Moves, Allowed, Outside, Over
<1>7. Standing(p) \in {"held", "lapsed", "lost", "out"} /\ Standing(p)' \in {"held", "lapsed", "lost", "out"}
  BY DEF Standing
<1>8. Holds[p] = Standing(p) /\ \A q \in Pods : Holds[q] = Standing(q) BY DEF Holds
<1>9. Standing(p)' = "held" => Acts(p)' BY DEF Standing
<1>10. CASE Standing(p)' = Standing(p)
  <2>1. Holds' = Holds BY <1>3, <1>8, <1>10, Zenon DEF Holds
  <2> QED BY <1>2, <2>1
<1>11. CASE Standing(p)' # Standing(p)
  <2> HIDE DEF Holds
  <2>1. L!Take(p) \/ L!TakeLate(p) \/ L!Lapse(p) \/ L!Resume(p) \/ L!Report(p) \/ L!Leave(p)
    BY <1>3, <1>4, <1>5, <1>6, <1>7, <1>8, <1>9, <1>11, Zenon
       DEF L!Take, L!TakeLate, L!Lapse, L!Resume, L!Report, L!Leave, L!Become, L!NobodyHolds, Holds
  <2> QED BY <1>2, <2>1 DEF L!Next
<1> QED BY <1>10, <1>11, Zenon

\* Time takes the lease from the one pod that holds it, or from none.
LEMMA TickRefines ==
    ASSUME Fateless, MutualExclusion, TypeOK, Tick
    PROVE  Fateless' /\ [L!Next]_Holds
<1>1. hold' = hold /\ now' = now + 1 /\ now \in Nat BY DEF Tick, TypeOK
<1>2. Fateless' BY <1>1 DEF Fateless
<1>3. \A q \in Pods : hold[q].exp \in Nat BY DEF TypeOK, HoldType
<1>4. \A q \in Pods : Acts(q)' => Acts(q) BY <1>1, <1>3 DEF Acts
<1>5. CASE \A q \in Pods : Acts(q) => Acts(q)'
  <2>1. \A q \in Pods : Standing(q)' = Standing(q) BY <1>1, <1>4, <1>5 DEF Standing
  <2>2. Holds' = Holds BY <2>1 DEF Holds
  <2> QED BY <1>2, <2>2, Zenon
<1>6. CASE \E p \in Pods : Acts(p) /\ ~Acts(p)'
  <2>1. PICK p \in Pods : Acts(p) /\ ~Acts(p)' BY <1>6
  <2>2. \A q \in Pods \ {p} : ~Acts(q) BY <2>1, Zenon DEF MutualExclusion
  <2>3. \A q \in Pods \ {p} : Standing(q)' = Standing(q) BY <1>1, <1>4, <2>2, Zenon DEF Standing
  <2>4. Standing(p) = "held" /\ Standing(p)' = "lapsed" BY <1>1, <2>1 DEF Standing, Acts
  <2>5. Holds' = [Holds EXCEPT ![p] = "lapsed"] /\ Holds[p] = "held" BY <2>3, <2>4, Zenon DEF Holds
  <2>6. L!Lapse(p) BY <2>5 DEF L!Lapse, L!Become, Holds
  <2> QED BY <1>2, <2>6 DEF L!Next
<1> QED BY <1>5, <1>6

\* Every step of the protocol is a step of Lease, or none.
LEMMA NextRefines ==
    ASSUME TypeOK, Fateless, MutualExclusion, MutualExclusion', [Next]_vars
    PROVE  Fateless' /\ [L!Next]_Holds
<1>1. ASSUME NEW p \in Pods, AttemptStep(p) \/ RenewStep(p) \/ ReleaseStep(p) \/ CallFails(p) \/ Crash(p)
      PROVE  Fateless' /\ [L!Next]_Holds
  <2>1. Moves(p) BY <1>1, AttemptMoves, RenewMoves, ReleaseMoves
  <2> QED BY <2>1, MoveRefines
<1>2. ASSUME NEW m \in wire, Lands(m) \/ Bounces(m)
      PROVE  Fateless' /\ [L!Next]_Holds
  BY <1>2, AnswerMoves, MoveRefines
<1>3. CASE Lapses \/ UNCHANGED vars
  <2>1. hold' = hold /\ now' = now BY <1>3, Zenon DEF Lapses, vars
  <2>2. \A q \in Pods : Standing(q)' = Standing(q) BY <2>1 DEF Standing, Acts
  <2>3. Holds' = Holds BY <2>2 DEF Holds
  <2>4. Fateless' BY <2>1 DEF Fateless
  <2> QED BY <2>3, <2>4
<1>4. CASE Tick BY <1>4, TickRefines
<1> QED BY <1>1, <1>2, <1>3, <1>4 DEF Next

\* The lease as it is made of an entry, its revisions, timers and answers that come late or never,
\* implements the lease its users count on (KVLease, HeldLease).
THEOREM Refinement == Spec => ImplementsLease
<1>1. Init => Fateless /\ L!Init
  <2> SUFFICES ASSUME Init PROVE Fateless /\ L!Init
    OBVIOUS
  <2>1. NoHold.pc = "idle" /\ NoHold.fate = "none" BY DEF NoHold
  <2>2. \A p \in Pods : hold[p].pc = "idle" /\ hold[p].fate = "none" BY <2>1, Zenon DEF Init
  <2>3. \A p \in Pods : Standing(p) = "out" BY <2>2 DEF Standing, Acts, Renewing
  <2> QED BY <2>2, <2>3 DEF Fateless, L!Init
<1>2. TypeOK /\ Fateless /\ MutualExclusion /\ MutualExclusion' /\ [Next]_vars
      => Fateless' /\ [L!Next]_([p \in Pods |-> Standing(p)])
  BY NextRefines, Zenon DEF Holds
<1> QED BY <1>1, <1>2, TypesKept, OneHolderActs, PTL DEF Spec, ImplementsLease, L!Spec

----------------------------------------------------------------------------
(* Whose the entry is, where no write outlives the wait for it and none is *)
(* sent twice: a holding can tell its own entry from every other, by the   *)
(* revision it knows or by the value it has not heard of.                  *)

Engaged(h) == h.pc # "idle"

\* the entry was written by the holding in hand
Mine(h) == Engaged(h) /\ entry.since = h.since

\* holdings are numbered apart, and an entry's number names its holder
Apart ==
    /\ entry.since <= sent /\ (entry # Free => entry.since > 0)
    /\ \A p \in Pods : Engaged(hold[p]) => hold[p].since > 0 /\ hold[p].since <= sent
    /\ \A p, q \in Pods : p # q /\ Engaged(hold[p]) /\ Engaged(hold[q]) => hold[p].since # hold[q].since
    /\ \A p \in Pods : Mine(hold[p]) => entry.holder = p

\* h waits for the answer to m
Expects(m, h) == h.pc \in Waiting /\ h.reply = 0 /\ Kind(h.pc) = m.kind /\ h.id = m.id /\ h.since = m.since

\* a write of the entry's own holding is not refused: it names the entry's revision
Aimed(m, h) == Mine(h) => m.kind # "create" /\ m.rev = entry.rev

\* a refused hold knows it, and one that waits for a renewal has it on record
Marked(h) ==
    /\ h.pc # "retake"
    /\ h.pc \in {"swap", "reread", "reswap"} => h.id # 0
    /\ h.pc \in {"swap", "reswap"} => h.flight = h.id
    /\ h.pc \in {"look", "reread"} => h.reply = Refused

\* the entry's own holding was not refused, and knows the entry's revision or its value
Known(h) ==
    Mine(h) =>
        /\ h.reply # Refused
        /\ h.reply > 0 => entry.rev = h.reply
        /\ h.pc \in {"paused", "read", "swap", "reswap", "check"} =>
              entry.rev = h.rev \/ (h.flight # 0 /\ entry.id = h.flight)

WiredInv ==
    /\ \A m, n \in wire : m.from = n.from => m = n
    /\ \A m \in wire : Expects(m, hold[m.from]) /\ (m.from \notin Retaking => Aimed(m, hold[m.from]))

KnownInv == \A p \in Pods \ Retaking : Marked(hold[p]) /\ Known(hold[p])

TraceInv == Apart /\ WiredInv /\ KnownInv

\* A pod that waits for no answer has nothing on the wire.
LEMMA NothingSent ==
    ASSUME TraceInv, NEW p \in Pods, hold[p].pc \notin Waiting \/ hold[p].reply # 0
    PROVE  \A m \in wire : m.from # p
BY Zenon DEF TraceInv, WiredInv, Expects

\* A step of one pod that changes its hold, and perhaps what it has on the wire.
LEMMA TraceHold ==
    ASSUME TypeOK, TraceInv, NEW p \in Pods, NEW h \in HoldType, Become(p, h), entry' = entry,
           sent' \in Nat, sent <= sent',
           Engaged(h) => \/ Engaged(hold[p]) /\ h.since = hold[p].since
                         \/ h.since = sent + 1 /\ sent' = sent + 1,
           \A m, n \in wire' : m.from = p /\ n.from = p => m = n,
           \A m \in wire' : \/ m \in wire /\ m.from # p
                            \/ m.from = p /\ Expects(m, h) /\ (p \notin Retaking => Aimed(m, h)),
           p \notin Retaking => Marked(h) /\ Known(h)
    PROVE  TraceInv'
<1>p. hold'[p] = h /\ \A q \in Pods : q # p => hold'[q] = hold[q]
  BY Zenon DEF TypeOK, Become
<1>t. sent \in Nat /\ entry.since \in Nat /\ h.since \in Nat /\ \A q \in Pods : hold[q].since \in Nat
  BY Zenon DEF TypeOK, HoldType
<1>w. \A m \in wire : m.from \in Pods
  BY Zenon DEF TypeOK, WriteType
<1>a. Apart
  BY DEF TraceInv
<1>1. Apart'
  <2>1. \A q \in Pods : Engaged(hold'[q]) => hold'[q].since > 0 /\ hold'[q].since <= sent'
    BY <1>p, <1>t, <1>a DEF Apart
  <2>2. \A q \in Pods \ {p} : Engaged(hold'[q]) /\ Engaged(h) => hold'[q].since # h.since
    <3> SUFFICES ASSUME NEW q \in Pods \ {p}, Engaged(hold'[q]), Engaged(h) PROVE hold'[q].since # h.since
      OBVIOUS
    <3>1. hold'[q] = hold[q] /\ Engaged(hold[q]) /\ hold[q].since <= sent
      BY <1>p, <1>a, Zenon DEF Apart
    <3> QED BY <1>t, <1>a, <3>1 DEF Apart
  <2>3. \A q, r \in Pods : q # r /\ Engaged(hold'[q]) /\ Engaged(hold'[r]) => hold'[q].since # hold'[r].since
    BY <1>p, <1>a, <2>2, Zenon DEF Apart
  <2>4. \A q \in Pods : Engaged(hold'[q]) /\ entry.since = hold'[q].since => entry.holder = q
    BY <1>p, <1>t, <1>a DEF Apart, Mine
  <2>5. entry.since <= sent'
    BY <1>t, <1>a DEF Apart
  <2> QED BY <1>a, <2>1, <2>3, <2>4, <2>5, Zenon DEF Apart, Engaged, Mine, Free
<1>2. WiredInv'
  <2>1. \A m, n \in wire' : m.from = n.from => m = n
    BY Zenon DEF TraceInv, WiredInv
  <2>2. ASSUME NEW m \in wire' PROVE Expects(m, hold'[m.from]) /\ (m.from \notin Retaking => Aimed(m, hold'[m.from]))
    <3>1. CASE m.from = p
      BY <1>p, <3>1, Zenon
    <3>2. CASE m.from # p
      <4>1. m \in wire /\ m.from \in Pods BY <1>w, <3>2
      <4> QED BY <1>p, <3>2, <4>1, Zenon DEF TraceInv, WiredInv
    <3> QED BY <3>1, <3>2, Zenon
  <2> QED BY <2>1, <2>2, Zenon DEF WiredInv, Expects, Aimed, Mine, Engaged
<1>3. KnownInv'
  <2>1. \A q \in Pods \ Retaking : Marked(hold'[q]) /\ Known(hold'[q])
    BY <1>p DEF TraceInv, KnownInv
  <2> QED BY <2>1, Zenon DEF KnownInv, Marked, Known, Mine, Engaged
<1> QED BY <1>1, <1>2, <1>3, Zenon DEF TraceInv

\* The same for a step that sends the write its hold waits for.
LEMMA TraceSend ==
    ASSUME TypeOK, TraceInv, NEW p \in Pods, NEW h \in HoldType, NEW rev, Send(p, h, rev), entry' = entry,
           h.pc \in Waiting, hold[p].pc \notin Waiting \/ hold[p].reply # 0,
           sent' \in Nat, sent <= sent',
           \/ Engaged(hold[p]) /\ h.since = hold[p].since
           \/ h.since = sent + 1 /\ sent' = sent + 1,
           p \notin Retaking =>
               /\ h.pc # "retake"
               /\ h.pc \in {"swap", "reswap"} => h.id # 0 /\ h.flight = h.id
               /\ Mine(h) => Kind(h.pc) # "create" /\ rev = entry.rev /\ (h.pc \in {"swap", "reswap"} => h.rev = rev)
    PROVE  TraceInv'
<1> DEFINE g == [h EXCEPT !.reply = 0, !.tries = 1]
           x == [from |-> p, kind |-> Kind(h.pc), rev |-> rev, id |-> h.id, since |-> h.since,
                 exp |-> IF h.pc \in {"create", "create2", "reclaim"} THEN h.exp ELSE now + TTL]
<1>1. Become(p, g) /\ wire' = wire \cup {x}
  BY DEF Send
<1>2. g \in HoldType
  <2>1. 0 \in Int /\ 1 \in Nat OBVIOUS
  <2> QED BY <2>1, SentType, Zenon
<1>3. /\ g.pc = h.pc /\ g.since = h.since /\ g.rev = h.rev /\ g.id = h.id /\ g.flight = h.flight /\ g.reply = 0
  BY Zenon DEF HoldType
<1>4. x.from = p /\ x.kind = Kind(h.pc) /\ x.rev = rev /\ x.id = h.id /\ x.since = h.since
  OBVIOUS
<1> HIDE DEF g, x
<1>5. \A m \in wire : m.from # p
  BY NothingSent, Zenon
<1>6. \A m, n \in wire' : m.from = p /\ n.from = p => m = n
  BY <1>1, <1>5, Zenon
<1>7. Expects(x, g)
  BY <1>3, <1>4, Zenon DEF Expects
<1>8. p \notin Retaking => Aimed(x, g) /\ Known(g) /\ Marked(g)
  <2> SUFFICES ASSUME p \notin Retaking PROVE Aimed(x, g) /\ Known(g) /\ Marked(g)
    OBVIOUS
  <2>1. Mine(g) <=> Mine(h) BY <1>3, Zenon DEF Mine, Engaged
  <2>2. h.pc \notin {"look", "reread", "paused", "read", "check"} BY Zenon DEF Waiting, Creating, Putting
  <2>3. 0 # Refused BY DEF Refused
  <2>4. Aimed(x, g) BY <1>4, <2>1, Zenon DEF Aimed
  <2>5. Marked(g) BY <1>3, <2>2, Zenon DEF Marked
  <2>6. Known(g) BY <1>3, <2>1, <2>2, <2>3 DEF Known
  <2> QED BY <2>4, <2>5, <2>6, Zenon
<1>9. \A m \in wire' : \/ m \in wire /\ m.from # p
                       \/ m.from = p /\ Expects(m, g) /\ (p \notin Retaking => Aimed(m, g))
  BY <1>1, <1>4, <1>5, <1>7, <1>8, Zenon
<1>10. Engaged(g) => \/ Engaged(hold[p]) /\ g.since = hold[p].since
                     \/ g.since = sent + 1 /\ sent' = sent + 1
  BY <1>3
<1> QED BY <1>1, <1>2, <1>6, <1>8, <1>9, <1>10, TraceHold, Zenon

\* The same for one that has nothing on the wire and sends nothing.
LEMMA TraceLocal ==
    ASSUME TypeOK, TraceInv, NEW p \in Pods, NEW h \in HoldType, Become(p, h), entry' = entry, sent' = sent,
           wire' \subseteq wire, \A m \in wire' : m.from # p,
           Engaged(h) => Engaged(hold[p]) /\ h.since = hold[p].since,
           p \notin Retaking => Marked(h) /\ Known(h)
    PROVE  TraceInv'
<1>1. sent \in Nat /\ sent <= sent BY DEF TypeOK
<1>2. \A m \in wire' : m \in wire /\ m.from # p OBVIOUS
<1> QED BY <1>1, <1>2, TraceHold, Zenon

\* The same for one that ends with nothing in hand.
LEMMA TraceAbandon ==
    ASSUME TypeOK, TraceInv, NEW p \in Pods, Abandon(p), entry' = entry, sent' = sent,
           wire' \subseteq wire, \A m \in wire' : m.from # p
    PROVE  TraceInv'
<1>1. NoHold.pc = "idle" BY Zenon DEF NoHold
<1>2. ~Engaged(NoHold) /\ Marked(NoHold) /\ Known(NoHold)
  BY <1>1 DEF Engaged, Marked, Known, Mine
<1> QED BY <1>2, NoHoldType, TraceLocal, Zenon DEF Abandon

\* The same for one that only decides the fate of the lease.
LEMMA TraceFate ==
    ASSUME TypeOK, TraceInv, NEW p \in Pods, NEW f \in Fates, Become(p, [hold[p] EXCEPT !.fate = f]),
           Engaged(hold[p]), entry' = entry, sent' = sent, wire' = wire
    PROVE  TraceInv'
<1> DEFINE h == [hold[p] EXCEPT !.fate = f]
<1>t. hold[p] \in HoldType /\ sent \in Nat BY DEF TypeOK
<1>1. h \in HoldType BY <1>t DEF HoldType
<1>2. /\ h.pc = hold[p].pc /\ h.since = hold[p].since /\ h.rev = hold[p].rev /\ h.id = hold[p].id
      /\ h.flight = hold[p].flight /\ h.reply = hold[p].reply
  BY <1>t DEF HoldType
<1> HIDE DEF h
<1>3. Mine(h) <=> Mine(hold[p]) BY <1>2 DEF Mine, Engaged
<1>4. p \notin Retaking => Marked(h) /\ Known(h)
  BY <1>2, <1>3 DEF TraceInv, KnownInv, Marked, Known
<1>5. \A m, n \in wire' : m.from = p /\ n.from = p => m = n
  BY DEF TraceInv, WiredInv
<1>6. \A m \in wire' : \/ m \in wire /\ m.from # p
                       \/ m.from = p /\ Expects(m, h) /\ (p \notin Retaking => Aimed(m, h))
  BY <1>2, <1>3 DEF TraceInv, WiredInv, Expects, Aimed
<1>7. Engaged(h) => Engaged(hold[p]) /\ h.since = hold[p].since BY <1>2
<1>8. Become(p, h) BY Zenon DEF h
<1> QED BY <1>t, <1>1, <1>4, <1>5, <1>6, <1>7, <1>8, TraceHold

\* Acquiring: an attempt's number is new, so no entry is its own until its write lands.
LEMMA AttemptTrace ==
    ASSUME TypeOK, TraceInv, NEW p \in Pods, AttemptStep(p)
    PROVE  TraceInv'
<1> USE LeaseAssumption
<1>t. /\ hold[p] \in HoldType /\ sent \in Nat /\ now \in Nat /\ entry.since \in Nat /\ entry.rev \in Nat
      /\ entry.since <= sent
  BY Zenon DEF TypeOK, TraceInv, Apart
<1>r. Known(hold[p]) /\ hold[p].reply = Refused => ~Mine(hold[p]) BY DEF Known
<1>k. p \notin Retaking => Marked(hold[p]) /\ Known(hold[p]) BY Zenon DEF TraceInv, KnownInv
<1>1. CASE Attempt(p)
  <2>s. sent' = sent + 1 BY <1>1 DEF Attempt, Fresh
  <2> DEFINE h == [NoHold EXCEPT !.pc = "create", !.since = sent', !.id = sent', !.start = now, !.exp = now + TTL]
  <2>1. Send(p, h, 0) /\ entry' = entry /\ hold[p].pc = "idle" BY <1>1 DEF Attempt
  <2>2. h \in HoldType
    <3>1. "create" \in Pcs /\ sent' \in Nat /\ now + TTL \in Nat /\ 0 \in Nat /\ 0 \in Int
      BY <1>t, <2>s DEF Pcs, Waiting, Creating
    <3> QED BY <3>1, <1>t, NoHoldType, HoldTypes, Zenon
  <2>3. h.pc = "create" /\ h.since = sent + 1 BY <2>s DEF NoHold
  <2> HIDE DEF h
  <2>4. ~Mine(h) BY <1>t, <2>3 DEF Mine
  <2>5. h.pc \in Waiting /\ hold[p].pc \notin Waiting BY <2>1, <2>3, Zenon DEF Waiting, Creating, Putting
  <2> QED BY <1>t, <2>s, <2>1, <2>2, <2>3, <2>4, <2>5, TraceSend
<1>2. CASE Acquired(p)
  <2> DEFINE h == [hold[p] EXCEPT !.pc = "paused", !.rev = hold[p].reply, !.id = 0, !.reply = 0]
  <2>1. /\ Become(p, h) /\ entry' = entry /\ wire' = wire /\ sent' = sent
        /\ hold[p].pc \in {"create", "create2", "reclaim"} /\ hold[p].reply > 0
    BY <1>2 DEF Acquired
  <2>2. h \in HoldType
    <3>1. "paused" \in Pcs /\ 0 \in Nat /\ 0 \in Int BY DEF Pcs, Renewing
    <3>2. hold[p].reply \in Nat BY <1>t, <2>1 DEF HoldType
    <3> QED BY <3>1, <3>2, <1>t, HoldTypes, Zenon
  <2>3. h.pc = "paused" /\ h.rev = hold[p].reply /\ h.reply = 0 /\ h.since = hold[p].since
    BY <1>t, Zenon DEF HoldType
  <2> HIDE DEF h
  <2>4. \A m \in wire : m.from # p BY <1>t, <2>1, NothingSent DEF HoldType
  <2>5. Engaged(hold[p]) BY <2>1, Zenon DEF Engaged
  <2>6. Mine(h) => Mine(hold[p]) BY <2>3, <2>5, Zenon DEF Mine
  <2>7. p \notin Retaking => Marked(h) /\ Known(h)
    BY <1>k, <2>1, <2>3, <2>6 DEF Marked, Known, Refused
  <2> QED BY <2>1, <2>2, <2>3, <2>4, <2>5, <2>7, TraceLocal, Zenon
<1>3. ASSUME NEW pc \in {"look", "judge"}, Goto(p, pc), Engaged(hold[p]), hold[p].pc \notin Waiting \/ hold[p].reply # 0,
             entry' = entry, wire' = wire, sent' = sent, p \notin Retaking => hold[p].reply = Refused
      PROVE  TraceInv'
  <2> DEFINE h == [hold[p] EXCEPT !.pc = pc]
  <2>1. h \in HoldType BY <1>t DEF HoldType
  <2>2. h.pc = pc /\ h.reply = hold[p].reply /\ h.since = hold[p].since BY <1>t DEF HoldType
  <2>3. Become(p, h) BY <1>3, Zenon DEF Goto
  <2> HIDE DEF h
  <2>4. \A m \in wire : m.from # p BY <1>3, NothingSent, Zenon
  <2>5. Mine(h) => Mine(hold[p]) BY <1>3, <2>2, Zenon DEF Mine
  <2>6. p \notin Retaking => Marked(h) /\ Known(h)
    BY <1>3, <1>k, <1>r, <2>2, <2>5 DEF Marked, Known
  <2> QED BY <1>3, <2>1, <2>2, <2>3, <2>4, <2>6, TraceLocal, Zenon
<1>4. CASE CreateLost(p)
  <2>1. \E pc \in {"look", "judge"} : Goto(p, pc) BY <1>4, Zenon DEF CreateLost
  <2>2. Engaged(hold[p]) /\ hold[p].reply = Refused /\ Refused # 0 BY <1>4 DEF CreateLost, Engaged, Refused
  <2> QED BY <1>3, <1>4, <2>1, <2>2, Zenon DEF CreateLost
<1>5. CASE Look(p)
  <2>1. hold[p].pc = "look" /\ Engaged(hold[p]) /\ hold[p].pc \notin Waiting /\ entry' = entry /\ sent' = sent
    BY <1>5, Zenon DEF Look, Engaged, Waiting, Creating, Putting
  <2>2. p \notin Retaking => hold[p].reply = Refused BY <1>k, <2>1 DEF Marked
  <2>3. CASE entry # Free
    BY <1>3, <1>5, <2>1, <2>2, <2>3, Zenon DEF Look
  <2>4. CASE entry = Free
    <3> DEFINE h == [hold[p] EXCEPT !.pc = "create2"]
    <3>1. h \in HoldType BY <1>t DEF HoldType, Waiting, Creating
    <3>2. h.pc = "create2" /\ h.since = hold[p].since BY <1>t DEF HoldType
    <3>3. Send(p, h, 0) BY <1>5, <2>4, Zenon DEF Look
    <3> HIDE DEF h
    <3>4. h.pc \in Waiting BY <3>2, Zenon DEF Waiting, Creating
    <3>5. Mine(h) => Mine(hold[p]) BY <2>1, <3>2 DEF Mine
    <3> QED BY <1>t, <1>k, <1>r, <2>1, <2>2, <3>1, <3>2, <3>3, <3>4, <3>5, TraceSend
  <2> QED BY <2>3, <2>4
<1>6. CASE Judge(p)
  <2>1. hold[p].pc = "judge" /\ Engaged(hold[p]) /\ hold[p].pc \notin Waiting /\ entry' = entry /\ sent' = sent
    BY <1>6, Zenon DEF Judge, Engaged, Waiting, Creating, Putting
  <2>2. CASE Abandon(p) /\ wire' = wire
    BY <2>1, <2>2, NothingSent, TraceAbandon, Zenon
  <2>3. CASE ~(Abandon(p) /\ wire' = wire)
    <3> DEFINE h == [hold[p] EXCEPT !.pc = "reclaim"]
    <3>1. h \in HoldType BY <1>t DEF HoldType, Waiting, Putting
    <3>2. h.pc = "reclaim" /\ h.since = hold[p].since BY <1>t DEF HoldType
    <3>3. Send(p, h, entry.rev) BY <1>6, <2>3, Zenon DEF Judge
    <3> HIDE DEF h
    <3>4. h.pc \in Waiting /\ Kind(h.pc) # "create" BY <3>2, Zenon DEF Waiting, Creating, Putting, Kind
    <3> QED BY <1>t, <2>1, <3>1, <3>2, <3>3, <3>4, TraceSend
  <2> QED BY <2>2, <2>3
<1>7. CASE ReclaimLost(p)
  <2>1. hold[p].reply # 0 BY <1>7 DEF ReclaimLost, Refused
  <2> QED BY <1>7, <2>1, NothingSent, TraceAbandon, Zenon DEF ReclaimLost
<1> QED BY <1>1, <1>2, <1>4, <1>5, <1>6, <1>7, Zenon DEF AttemptStep

\* Reporting a loss: the entry is not this holding's, or is created again under a new number.
LEMMA LoseTrace ==
    ASSUME TypeOK, TraceInv, NEW p \in Pods, NEW h \in HoldType, NEW why \in Fates, Lose(p, h, why), entry' = entry,
           hold[p].pc \in Renewing, hold[p].pc \notin Waiting \/ hold[p].reply # 0, h.since = hold[p].since,
           p \notin Retaking => ~Mine(hold[p])
    PROVE  TraceInv'
<1>t. sent \in Nat BY Zenon DEF TypeOK
<1>e. Engaged(hold[p]) BY Zenon DEF Engaged, Renewing
<1>1. CASE p \in Retaking /\ hold[p].pc # "retake"
  <2> DEFINE k == [h EXCEPT !.pc = "retake", !.id = sent', !.since = sent', !.flight = sent', !.why = why]
  <2>1. Send(p, k, 0) /\ sent' = sent + 1 BY <1>1 DEF Lose, Fresh
  <2>2. k \in HoldType
    <3>1. sent' \in Nat /\ "retake" \in Renewing BY <1>t, <2>1 DEF Renewing
    <3> QED BY <3>1, Zenon DEF HoldType
  <2>3. k.pc = "retake" /\ k.since = sent' BY Zenon DEF HoldType
  <2> HIDE DEF k
  <2>4. k.pc \in Waiting BY <2>3, Zenon DEF Waiting, Creating
  <2> QED BY <1>t, <1>1, <2>1, <2>2, <2>3, <2>4, TraceSend
<1>2. CASE ~(p \in Retaking /\ hold[p].pc # "retake")
  <2> DEFINE k == [h EXCEPT !.pc = "paused", !.fate = IF h.fate = "none" THEN why ELSE h.fate]
  <2>1. Become(p, k) /\ wire' = wire /\ sent' = sent BY <1>2 DEF Lose
  <2>2. k \in HoldType
    <3>1. "paused" \in Renewing /\ h.fate \in Fates BY DEF HoldType, Renewing
    <3> QED BY <3>1, Zenon DEF HoldType
  <2>3. k.pc = "paused" /\ k.since = h.since BY Zenon DEF HoldType
  <2> HIDE DEF k
  <2>4. \A m \in wire : m.from # p BY NothingSent, Zenon
  <2>5. Mine(k) => Mine(hold[p]) BY <1>e, <2>3, Zenon DEF Mine
  <2>6. p \notin Retaking => Marked(k) /\ Known(k) BY <2>3, <2>5, Zenon DEF Marked, Known
  <2> QED BY <1>e, <2>1, <2>2, <2>3, <2>4, <2>6, TraceLocal, Zenon
<1> QED BY <1>1, <1>2, Zenon

\* The entry of a holding is held by its pod, and is there.
LEMMA MineHere ==
    ASSUME TypeOK, TraceInv, NEW p \in Pods, Mine(hold[p])
    PROVE  entry # Free /\ entry.holder = p
<1>1. Free.since = 0 BY Zenon DEF Free
<1>2. hold[p].since > 0 /\ entry.holder = p BY DEF TraceInv, Apart, Mine
<1> QED BY <1>1, <1>2 DEF Mine

\* A renewal's swap names the revision of the holding's entry, if it still has one.
LEMMA ReadTrace ==
    ASSUME TypeOK, TraceInv, NEW p \in Pods, Read(p)
    PROVE  TraceInv'
<1>t. /\ hold[p] \in HoldType /\ sent \in Nat /\ entry.rev \in Nat /\ hold[p].rev \in Nat /\ hold[p].flight \in Nat
  BY DEF TypeOK, HoldType
<1>g. /\ hold[p].pc = "read" /\ Engaged(hold[p]) /\ hold[p].pc \notin Waiting /\ hold[p].pc \in Renewing
      /\ entry' = entry
  BY DEF Read, Engaged, Waiting, Creating, Putting, Renewing
<1> DEFINE own == entry.rev # hold[p].rev /\ (p \in Retaking \/ entry.id = hold[p].flight)
           h == [hold[p] EXCEPT !.pc = "swap", !.rev = IF own THEN entry.rev ELSE hold[p].rev,
                                !.old = IF own THEN 0 ELSE hold[p].flight, !.id = sent', !.flight = sent']
<1>1. \/ entry = Free /\ Lose(p, hold[p], "expired")
      \/ entry # Free /\ entry.holder # p /\ Lose(p, hold[p], "taken")
      \/ Fresh /\ Send(p, h, IF own THEN entry.rev ELSE hold[p].rev)
  BY Zenon DEF Read
<1>2. CASE entry = Free /\ Lose(p, hold[p], "expired")
  <2>1. ~Mine(hold[p]) /\ "expired" \in Fates BY <1>2, MineHere, Zenon DEF Fates
  <2> QED BY <1>t, <1>g, <1>2, <2>1, LoseTrace, Zenon
<1>3. CASE entry # Free /\ entry.holder # p /\ Lose(p, hold[p], "taken")
  <2>1. ~Mine(hold[p]) /\ "taken" \in Fates BY <1>3, MineHere, Zenon DEF Fates
  <2> QED BY <1>t, <1>g, <1>3, <2>1, LoseTrace, Zenon
<1>4. CASE Fresh /\ Send(p, h, IF own THEN entry.rev ELSE hold[p].rev)
  <2>s. sent' = sent + 1 /\ sent' \in Nat /\ sent <= sent' /\ sent' # 0 BY <1>t, <1>4 DEF Fresh
  <2> DEFINE rev == IF own THEN entry.rev ELSE hold[p].rev
             old == IF own THEN 0 ELSE hold[p].flight
  <2>r. rev \in Nat /\ old \in Nat BY <1>t, Zenon
  <2>m. p \notin Retaking /\ Mine(hold[p]) => rev = entry.rev
    BY <1>g DEF TraceInv, KnownInv, Known
  <2>1. Send(p, h, rev) BY <1>4
  <2> HIDE DEF own, rev, old
  <2>2. h \in HoldType
    <3>1. "swap" \in Waiting BY DEF Waiting, Putting
    <3> QED BY <1>t, <2>s, <2>r, <3>1, Zenon DEF HoldType, rev, old
  <2>3. /\ h.pc = "swap" /\ h.since = hold[p].since /\ h.rev = rev /\ h.id = sent' /\ h.flight = sent'
    BY <1>t DEF HoldType, rev
  <2> HIDE DEF h
  <2>4. h.pc \in Waiting /\ Kind(h.pc) # "create" BY <2>3, Zenon DEF Waiting, Creating, Putting, Kind
  <2>5. Mine(h) => Mine(hold[p]) BY <1>g, <2>3, Zenon DEF Mine
  <2> QED BY <1>t, <1>g, <2>s, <2>m, <2>1, <2>2, <2>3, <2>4, <2>5, TraceSend, Zenon
<1> QED BY <1>1, <1>2, <1>3, <1>4, Zenon

\* A refused renewal has lost the entry; the other renewal steps keep track of it.
LEMMA RenewTrace ==
    ASSUME TypeOK, TraceInv, NEW p \in Pods, RenewStep(p)
    PROVE  TraceInv'
<1>t. /\ hold[p] \in HoldType /\ sent \in Nat /\ now \in Nat /\ entry.rev \in Nat
      /\ hold[p].old \in Nat /\ hold[p].id \in Nat /\ hold[p].why \in Fates
  BY DEF TypeOK, HoldType
<1>k. p \notin Retaking => Marked(hold[p]) /\ Known(hold[p]) BY Zenon DEF TraceInv, KnownInv
<1>r. p \notin Retaking /\ hold[p].reply = Refused => ~Mine(hold[p]) BY <1>k DEF Known
<1>f. Refused # 0 /\ "taken" \in Fates /\ "max_hold" \in Fates /\ "unrenewed" \in Fates BY DEF Refused, Fates
<1>1. CASE StartRenewal(p)
  <2> DEFINE h == [hold[p] EXCEPT !.pc = "read", !.start = now]
  <2>1. /\ Become(p, h) /\ entry' = entry /\ wire' = wire /\ sent' = sent /\ hold[p].pc = "paused"
    BY <1>1 DEF StartRenewal
  <2>2. h \in HoldType BY <1>t, Zenon DEF HoldType, Renewing
  <2>3. /\ h.pc = "read" /\ h.since = hold[p].since /\ h.rev = hold[p].rev /\ h.flight = hold[p].flight
        /\ h.reply = hold[p].reply
    BY <1>t, Zenon DEF HoldType
  <2> HIDE DEF h
  <2>4. hold[p].pc \notin Waiting /\ Engaged(hold[p]) BY <2>1, Zenon DEF Waiting, Creating, Putting, Engaged
  <2>5. Mine(h) => Mine(hold[p]) BY <2>3, <2>4, Zenon DEF Mine
  <2>6. p \notin Retaking => Marked(h) /\ Known(h) BY <1>k, <2>1, <2>3, <2>5 DEF Marked, Known
  <2> QED BY <2>1, <2>2, <2>3, <2>4, <2>6, NothingSent, TraceLocal
<1>2. CASE HeldTooLong(p) \/ Expire(p)
  <2>1. Engaged(hold[p]) BY <1>2 DEF HeldTooLong, Expire, Engaged, Renewing
  <2> QED BY <1>2, <1>f, <2>1, TraceFate DEF HeldTooLong, Expire
<1>3. CASE Renewed(p)
  <2> DEFINE h == [hold[p] EXCEPT !.pc = "paused", !.rev = hold[p].reply, !.flight = 0, !.id = 0, !.reply = 0,
                                  !.exp = hold[p].start + TTL]
  <2>1. /\ Become(p, h) /\ entry' = entry /\ wire' = wire /\ sent' = sent
        /\ hold[p].pc \in {"swap", "reswap", "retake"} /\ hold[p].reply > 0
    BY <1>3 DEF Renewed
  <2>2. h \in HoldType
    <3>1. "paused" \in Pcs /\ 0 \in Nat /\ 0 \in Int BY DEF Pcs, Renewing
    <3>2. hold[p].reply \in Nat /\ hold[p].start + TTL \in Nat BY <1>t, <2>1, LeaseAssumption DEF HoldType
    <3> QED BY <3>1, <3>2, <1>t, HoldTypes, Zenon
  <2>3. h.pc = "paused" /\ h.rev = hold[p].reply /\ h.reply = 0 /\ h.since = hold[p].since
    BY <1>t DEF HoldType
  <2> HIDE DEF h
  <2>4. hold[p].reply # 0 /\ Engaged(hold[p]) BY <1>t, <2>1 DEF HoldType, Engaged
  <2>5. Mine(h) => Mine(hold[p]) BY <2>3, <2>4, Zenon DEF Mine
  <2>6. p \notin Retaking => Marked(h) /\ Known(h)
    BY <1>k, <2>1, <2>3, <2>5 DEF Marked, Known, Refused
  <2> QED BY <2>1, <2>2, <2>3, <2>4, <2>6, NothingSent, TraceLocal, Zenon
<1>4. ASSUME hold[p].reply = Refused, hold[p].pc \in Renewing, entry' = entry, NEW why \in Fates,
             Lose(p, [hold[p] EXCEPT !.flight = 0], why)
      PROVE  TraceInv'
  <2> DEFINE h == [hold[p] EXCEPT !.flight = 0]
  <2>1. h \in HoldType BY <1>t DEF HoldType
  <2>2. h.since = hold[p].since BY <1>t DEF HoldType
  <2> HIDE DEF h
  <2>3. Lose(p, h, why) BY <1>4, Zenon DEF h
  <2> QED BY <1>4, <1>r, <1>f, <2>1, <2>2, <2>3, LoseTrace
<1>5. CASE SwapLost(p)
  <2>1. hold[p].pc = "swap" /\ hold[p].reply = Refused /\ entry' = entry /\ hold[p].pc \in Renewing /\ Engaged(hold[p])
    BY <1>5 DEF SwapLost, Renewing, Engaged
  <2>2. CASE hold[p].old = 0
    BY <1>4, <1>5, <1>f, <2>1, <2>2, Zenon DEF SwapLost
  <2>3. CASE hold[p].old # 0
    <3> DEFINE h == [hold[p] EXCEPT !.pc = "reread", !.flight = hold[p].old]
    <3>1. Become(p, h) /\ wire' = wire /\ sent' = sent BY <1>5, <2>3 DEF SwapLost
    <3>2. h \in HoldType BY <1>t, Zenon DEF HoldType, Renewing
    <3>3. h.pc = "reread" /\ h.since = hold[p].since /\ h.id = hold[p].id /\ h.reply = hold[p].reply
      BY <1>t, Zenon DEF HoldType
    <3> HIDE DEF h
    <3>4. Mine(h) => Mine(hold[p]) BY <2>1, <3>3, Zenon DEF Mine
    <3>5. p \notin Retaking => Marked(h) /\ Known(h)
      BY <1>k, <1>r, <2>1, <3>3, <3>4, Zenon DEF Marked, Known
    <3> QED BY <1>f, <2>1, <3>1, <3>2, <3>3, <3>5, NothingSent, TraceLocal, Zenon
  <2> QED BY <2>2, <2>3
<1>6. CASE Reread(p)
  <2>1. /\ hold[p].pc = "reread" /\ entry' = entry /\ hold[p].pc \in Renewing /\ Engaged(hold[p])
        /\ hold[p].pc \notin Waiting
    BY <1>6, Zenon DEF Reread, Renewing, Engaged, Waiting, Creating, Putting
  <2>2. CASE entry.holder = p /\ entry.id = hold[p].old
    <3> DEFINE h == [hold[p] EXCEPT !.pc = "reswap", !.rev = entry.rev, !.flight = hold[p].id]
    <3>1. Send(p, h, entry.rev) /\ sent' = sent BY <1>6, <2>2 DEF Reread
    <3>2. h \in HoldType
      <4>1. "reswap" \in Waiting BY DEF Waiting, Putting
      <4> QED BY <1>t, <4>1, Zenon DEF HoldType
    <3>3. /\ h.pc = "reswap" /\ h.since = hold[p].since /\ h.id = hold[p].id /\ h.flight = hold[p].id
          /\ h.rev = entry.rev
      BY <1>t, Zenon DEF HoldType
    <3> HIDE DEF h
    <3>4. h.pc \in Waiting /\ Kind(h.pc) # "create" BY <3>3, Zenon DEF Waiting, Creating, Putting, Kind
    <3>5. p \notin Retaking => h.id # 0 BY <1>k, <2>1, <3>3, Zenon DEF Marked
    <3> QED BY <1>t, <2>1, <3>1, <3>2, <3>3, <3>4, <3>5, TraceSend
  <2>3. CASE ~(entry.holder = p /\ entry.id = hold[p].old)
    <3>1. Lose(p, hold[p], "taken") BY <1>6, <2>3, Zenon DEF Reread
    <3>2. p \notin Retaking => ~Mine(hold[p]) BY <1>k, <1>r, <2>1 DEF Marked
    <3> QED BY <1>t, <1>f, <2>1, <3>1, <3>2, LoseTrace, Zenon
  <2> QED BY <2>2, <2>3
<1>7. CASE ReswapLost(p) \/ RetakeLost(p)
  <2>1. hold[p].reply = Refused /\ hold[p].pc \in Renewing /\ entry' = entry
    BY <1>7 DEF ReswapLost, RetakeLost, Renewing
  <2>2. \E why \in Fates : Lose(p, [hold[p] EXCEPT !.flight = 0], why)
    BY <1>t, <1>f, <1>7, Zenon DEF ReswapLost, RetakeLost
  <2> QED BY <1>4, <2>1, <2>2
<1> QED BY <1>1, <1>2, <1>3, <1>5, <1>6, <1>7, ReadTrace, Zenon DEF RenewStep

\* A release's delete names the revision of the holding's entry, if it still has one.
LEMMA ReleaseTrace ==
    ASSUME TypeOK, TraceInv, NEW p \in Pods, ReleaseStep(p)
    PROVE  TraceInv'
<1>t. hold[p] \in HoldType /\ sent \in Nat /\ entry.rev \in Nat /\ hold[p].rev \in Nat BY DEF TypeOK, HoldType
<1>k. p \notin Retaking => Marked(hold[p]) /\ Known(hold[p]) BY DEF TraceInv, KnownInv
<1>1. CASE Release(p)
  <2>1. Engaged(hold[p]) /\ "released" \in Fates BY <1>1, Zenon DEF Release, Engaged, Renewing, Fates
  <2> QED BY <1>1, <2>1, TraceFate DEF Release
<1>2. CASE EndRenewal(p)
  <2> DEFINE h == [hold[p] EXCEPT !.pc = "check"]
  <2>1. Become(p, h) /\ entry' = entry /\ wire' = wire /\ sent' = sent /\ hold[p].pc = "paused"
    BY <1>2 DEF EndRenewal, Goto
  <2>2. h \in HoldType BY <1>t DEF HoldType
  <2>3. /\ h.pc = "check" /\ h.since = hold[p].since /\ h.rev = hold[p].rev /\ h.flight = hold[p].flight
        /\ h.reply = hold[p].reply
    BY <1>t, Zenon DEF HoldType
  <2> HIDE DEF h
  <2>4. hold[p].pc \notin Waiting /\ Engaged(hold[p]) BY <2>1, Zenon DEF Waiting, Creating, Putting, Engaged
  <2>5. Mine(h) => Mine(hold[p]) BY <2>3, <2>4, Zenon DEF Mine
  <2>6. p \notin Retaking => Marked(h) /\ Known(h) BY <1>k, <2>1, <2>3, <2>5, Zenon DEF Marked, Known
  <2> QED BY <2>1, <2>2, <2>3, <2>4, <2>6, NothingSent, TraceLocal, Zenon
<1>3. CASE Check(p)
  <2>1. /\ hold[p].pc = "check" /\ entry' = entry /\ sent' = sent /\ Engaged(hold[p]) /\ hold[p].pc \notin Waiting
    BY <1>3 DEF Check, Engaged, Waiting, Creating, Putting
  <2>2. CASE entry.holder # p
    BY <1>3, <2>1, <2>2, NothingSent, TraceAbandon DEF Check
  <2>3. CASE entry.holder = p
    <3> DEFINE own == entry.rev # hold[p].rev /\ hold[p].flight # 0 /\ entry.id = hold[p].flight
               rev == IF own THEN entry.rev ELSE hold[p].rev
               h == [hold[p] EXCEPT !.pc = "delete", !.id = 0]
    <3>1. Send(p, h, rev) BY <1>3, <2>3, Zenon DEF Check
    <3>2. h \in HoldType BY <1>t, Zenon DEF HoldType, Waiting
    <3>3. h.pc = "delete" /\ h.since = hold[p].since BY <1>t, Zenon DEF HoldType
    <3>4. p \notin Retaking /\ Mine(hold[p]) => rev = entry.rev BY <1>k, <2>1, Zenon DEF Known
    <3> HIDE DEF h, own, rev
    <3>5. h.pc \in Waiting /\ Kind(h.pc) # "create" BY <3>3, Zenon DEF Waiting, Creating, Putting, Kind
    <3>6. Mine(h) => Mine(hold[p]) BY <2>1, <3>3, Zenon DEF Mine
    <3>7. sent' \in Nat /\ sent <= sent' BY <1>t, <2>1
    <3>8. h.pc # "retake" /\ h.pc \notin {"swap", "reswap"} BY <3>3, Zenon
    <3> QED BY <2>1, <3>1, <3>2, <3>3, <3>4, <3>5, <3>6, <3>7, <3>8, TraceSend, Zenon
  <2> QED BY <2>2, <2>3
<1>4. CASE Deleted(p)
  BY <1>4, NothingSent, TraceAbandon DEF Deleted
<1> QED BY <1>1, <1>2, <1>3, <1>4, Zenon DEF ReleaseStep

\* A call that fails takes its write with it, and keeps the record of it.
LEMMA FailTrace ==
    ASSUME ~Late, TypeOK, TraceInv, NEW p \in Pods, CallFails(p) \/ Crash(p)
    PROVE  TraceInv'
<1>t. hold[p] \in HoldType BY DEF TypeOK
<1>k. p \notin Retaking => Marked(hold[p]) /\ Known(hold[p]) BY DEF TraceInv, KnownInv
<1>u. entry' = entry /\ sent' = sent /\ wire' \subseteq wire /\ \A m \in wire' : m.from # p
  BY DEF CallFails, Crash, Leave
<1>1. CASE Abandon(p)
  BY <1>1, <1>u, TraceAbandon, Zenon
<1>2. CASE CallFails(p) /\ hold[p].pc \in Renewing
  <2> DEFINE h == [hold[p] EXCEPT !.pc = "paused", !.id = 0, !.reply = 0]
  <2>1. Become(p, h) /\ hold[p].pc # "paused" BY <1>2 DEF CallFails
  <2>2. h \in HoldType
    <3>1. "paused" \in Pcs /\ 0 \in Nat /\ 0 \in Int BY DEF Pcs, Renewing
    <3> QED BY <3>1, <1>t, HoldTypes, Zenon
  <2>3. /\ h.pc = "paused" /\ h.since = hold[p].since /\ h.rev = hold[p].rev /\ h.flight = hold[p].flight
        /\ h.reply = 0
    BY <1>t, Zenon DEF HoldType
  <2> HIDE DEF h
  <2>4. Engaged(hold[p]) BY <1>2, Zenon DEF Engaged, Renewing
  <2>5. Mine(h) => Mine(hold[p]) BY <2>3, <2>4, Zenon DEF Mine
  <2>6. p \notin Retaking => Marked(h) /\ Known(h)
    <3> SUFFICES ASSUME p \notin Retaking PROVE Marked(h) /\ Known(h)
      OBVIOUS
    <3>1. Marked(h) BY <2>3, Zenon DEF Marked
    <3>2. hold[p].pc \in {"read", "swap", "reswap", "reread"} BY <1>2, <1>k, <2>1, Zenon DEF Renewing, Marked
    <3>3. Mine(hold[p]) => hold[p].pc # "reread" BY <1>k, Zenon DEF Marked, Known
    <3>4. Mine(hold[p]) => entry.rev = hold[p].rev \/ (hold[p].flight # 0 /\ entry.id = hold[p].flight)
      BY <1>k, <3>2, <3>3, Zenon DEF Known
    <3>5. Known(h) BY <2>3, <2>5, <3>4 DEF Known, Refused
    <3> QED BY <3>1, <3>5
  <2> QED BY <1>u, <2>1, <2>2, <2>3, <2>4, <2>6, TraceLocal, Zenon
<1> QED BY <1>1, <1>2, Zenon DEF CallFails, Crash

\* An answer, or its loss, ends the sender's wait for the one write it has on the wire.
LEMMA AnswerTrace ==
    ASSUME ~Retries, TypeOK, TraceInv, NEW m \in wire, NEW reply \in Int, Answer(m, reply)
    PROVE  /\ m.from \in Pods /\ wire' = wire \ {m} /\ \A n \in wire' : n.from # m.from
           /\ \A q \in Pods : q # m.from => hold'[q] = hold[q]
           /\ hold'[m.from].pc = hold[m.from].pc /\ hold'[m.from].since = hold[m.from].since
           /\ hold'[m.from].rev = hold[m.from].rev /\ hold'[m.from].id = hold[m.from].id
           /\ hold'[m.from].flight = hold[m.from].flight
           /\ hold'[m.from].reply \in {hold[m.from].reply, reply}
<1>t. hold \in [Pods -> HoldType] /\ hold[m.from] \in HoldType /\ m.from \in Pods
  BY DEF TypeOK, WriteType
<1>1. wire' = wire \ {m} BY Zenon DEF Answer
<1>2. \A n \in wire' : n.from # m.from BY <1>1, Zenon DEF TraceInv, WiredInv
<1>3. CASE UNCHANGED hold
  BY <1>t, <1>1, <1>2, <1>3, Zenon
<1>4. CASE Become(m.from, [hold[m.from] EXCEPT !.reply = reply])
  <2>1. hold'[m.from] = [hold[m.from] EXCEPT !.reply = reply] /\ \A q \in Pods : q # m.from => hold'[q] = hold[q]
    BY <1>4, <1>t DEF Become
  <2>2. /\ hold'[m.from].pc = hold[m.from].pc /\ hold'[m.from].since = hold[m.from].since
        /\ hold'[m.from].rev = hold[m.from].rev /\ hold'[m.from].id = hold[m.from].id
        /\ hold'[m.from].flight = hold[m.from].flight /\ hold'[m.from].reply = reply
    BY <1>t, <2>1, Zenon DEF HoldType
  <2> QED BY <1>t, <1>1, <1>2, <2>1, <2>2, Zenon
<1> QED BY <1>3, <1>4, Zenon DEF Answer

\* A write that lands makes the entry its sender's, and nobody else's.
LEMMA LandsTrace ==
    ASSUME ~Retries, TypeOK, TraceInv, NEW m \in wire, Lands(m)
    PROVE  TraceInv'
<1> DEFINE p == m.from
<1>t. /\ sent \in Nat /\ last \in Nat /\ last + 1 \in Int /\ m.since \in Nat /\ hold[p].reply \in Int
  BY DEF TypeOK, WriteType, HoldType
<1>1. Answer(m, last + 1) /\ sent' = sent /\ entry' = (IF m.kind = "delete" THEN Free ELSE Stored(m))
  BY Zenon DEF Lands
<1>2. /\ p \in Pods /\ wire' = wire \ {m} /\ (\A n \in wire' : n.from # p)
      /\ \A q \in Pods : q # p => hold'[q] = hold[q]
      /\ hold'[p].pc = hold[p].pc /\ hold'[p].since = hold[p].since
      /\ hold'[p].id = hold[p].id /\ hold'[p].flight = hold[p].flight
      /\ hold'[p].reply \in {hold[p].reply, last + 1}
  BY <1>t, <1>1, AnswerTrace, Zenon
<1>3. Expects(m, hold[p]) BY Zenon DEF TraceInv, WiredInv
<1>4. Engaged(hold[p]) /\ hold[p].since = m.since /\ hold[p].id = m.id /\ hold[p].reply = 0 /\ hold[p].pc \in Waiting
  BY <1>3, Zenon DEF Expects, Engaged, Waiting, Creating, Putting
<1>5. m.since > 0 /\ m.since <= sent BY <1>2, <1>4, Zenon DEF TraceInv, Apart
<1>6. /\ Free.since = 0 /\ Stored(m).since = m.since /\ Stored(m).holder = p /\ Stored(m).id = m.id
      /\ Stored(m).rev = last + 1
  BY Zenon DEF Free, Stored
<1> HIDE DEF p
<1>7. \A q \in Pods : Engaged(hold[q]) => hold[q].since > 0 BY Zenon DEF TraceInv, Apart
<1>8. \A q \in Pods : q # p /\ Engaged(hold[q]) => hold[q].since # m.since
  BY <1>2, <1>4, Zenon DEF TraceInv, Apart
<1>9. \A q \in Pods : q # p => ~Mine(hold[q])'
  BY <1>1, <1>2, <1>6, <1>7, <1>8 DEF Mine, Engaged
<1>10. Mine(hold[p])' => entry' = Stored(m)
  BY <1>1, <1>2, <1>4, <1>5, <1>6 DEF Mine
<1>11. Apart'
  <2>1. (entry.since <= sent /\ (entry # Free => entry.since > 0))' BY <1>t, <1>1, <1>5, <1>6
  <2>2. \A q \in Pods : (Engaged(hold[q]) <=> Engaged(hold[q])') /\ hold'[q].since = hold[q].since
    BY <1>2, Zenon DEF Engaged
  <2>3. \A q \in Pods : Mine(hold[q])' => entry'.holder = q BY <1>6, <1>9, <1>10, Zenon
  <2>4. \A q \in Pods : Engaged(hold[q])' => hold'[q].since > 0 /\ hold'[q].since <= sent'
    BY <1>1, <2>2, Zenon DEF TraceInv, Apart
  <2>5. \A q, r \in Pods : q # r /\ Engaged(hold[q])' /\ Engaged(hold[r])' => hold'[q].since # hold'[r].since
    BY <2>2, Zenon DEF TraceInv, Apart
  <2> QED BY <2>1, <2>3, <2>4, <2>5, Zenon DEF Apart
<1>12. WiredInv'
  <2> SUFFICES ASSUME NEW n \in wire'
               PROVE  /\ n \in wire /\ n.from # p
                      /\ Expects(n, hold'[n.from]) /\ (n.from \notin Retaking => Aimed(n, hold[n.from])')
    BY Zenon DEF TraceInv, WiredInv, Expects
  <2>1. n \in wire /\ n.from # p /\ n.from \in Pods BY <1>2, Zenon DEF TypeOK, WriteType
  <2>2. hold'[n.from] = hold[n.from] /\ Expects(n, hold[n.from]) BY <1>2, <2>1, Zenon DEF TraceInv, WiredInv
  <2>3. Aimed(n, hold[n.from])' BY <1>9, <2>1, Zenon DEF Aimed
  <2> QED BY <2>1, <2>2, <2>3, Zenon
<1>13. KnownInv'
  <2> SUFFICES ASSUME NEW q \in Pods \ Retaking PROVE Marked(hold'[q]) /\ Known(hold[q])'
    BY Zenon DEF KnownInv, Marked
  <2>0. Marked(hold[q]) BY Zenon DEF TraceInv, KnownInv
  <2>1. CASE q # p
    BY <1>2, <1>9, <2>0, <2>1, Zenon DEF Known
  <2>2. CASE q = p
    <3>1. Marked(hold'[p])
      BY <1>2, <1>4, <2>0, <2>2, Zenon DEF Marked, Waiting, Creating, Putting
    <3>2. hold'[p].reply # Refused /\ (hold'[p].reply > 0 => hold'[p].reply = last + 1)
      BY <1>t, <1>2, <1>4 DEF Refused
    <3>3. hold'[p].pc \in {"paused", "read", "swap", "reswap", "check"} => hold'[p].flight # 0 /\ m.id = hold'[p].flight
      BY <1>2, <1>4, <2>0, <2>2, Zenon DEF Marked, Waiting, Creating, Putting
    <3>4. Known(hold[p])' BY <1>6, <1>10, <3>2, <3>3, Zenon DEF Known
    <3> QED BY <2>2, <3>1, <3>4, Zenon
  <2> QED BY <2>1, <2>2, Zenon
<1> QED BY <1>11, <1>12, <1>13, Zenon DEF TraceInv

\* Only a write of a holding that has not the entry is refused.
LEMMA BouncesTrace ==
    ASSUME ~Retries, TypeOK, TraceInv, NEW m \in wire, Bounces(m)
    PROVE  TraceInv'
<1> DEFINE p == m.from
<1>1. Answer(m, Refused) /\ sent' = sent /\ entry' = entry /\ Refused \in Int BY DEF Bounces, Refused
<1>2. /\ p \in Pods /\ wire' = wire \ {m} /\ (\A n \in wire' : n.from # p)
      /\ \A q \in Pods : q # p => hold'[q] = hold[q]
      /\ hold'[p].pc = hold[p].pc /\ hold'[p].since = hold[p].since
      /\ hold'[p].id = hold[p].id /\ hold'[p].flight = hold[p].flight /\ hold'[p].rev = hold[p].rev
      /\ hold'[p].reply \in {hold[p].reply, Refused}
  BY <1>1, AnswerTrace, Zenon
<1>3. Expects(m, hold[p]) /\ (p \notin Retaking => Aimed(m, hold[p])) BY Zenon DEF TraceInv, WiredInv
<1>4. hold[p].pc \in Waiting /\ hold[p].reply = 0 BY <1>3, Zenon DEF Expects
<1>5. p \notin Retaking => ~Mine(hold[p])
  <2> SUFFICES ASSUME p \notin Retaking, Mine(hold[p]) PROVE FALSE
    OBVIOUS
  <2>1. m.kind # "create" /\ m.rev = entry.rev BY <1>3, Zenon DEF Aimed
  <2>2. entry # Free BY <1>2, MineHere, Zenon
  <2> QED BY <2>1, <2>2, Zenon DEF Bounces, Matches
<1> HIDE DEF p
<1>6. \A q \in Pods : (Engaged(hold[q]) <=> Engaged(hold[q])') /\ hold'[q].since = hold[q].since
  BY <1>2, Zenon DEF Engaged
<1>7. \A q \in Pods : Mine(hold[q])' <=> Mine(hold[q]) BY <1>1, <1>6, Zenon DEF Mine
<1>8. Apart'
  <2>1. (entry.since <= sent /\ (entry # Free => entry.since > 0))' BY <1>1, Zenon DEF TraceInv, Apart, Free
  <2>2. \A q \in Pods : Mine(hold[q])' => entry'.holder = q BY <1>1, <1>7, Zenon DEF TraceInv, Apart
  <2>3. \A q \in Pods : Engaged(hold[q])' => hold'[q].since > 0 /\ hold'[q].since <= sent'
    BY <1>1, <1>6, Zenon DEF TraceInv, Apart
  <2>4. \A q, r \in Pods : q # r /\ Engaged(hold[q])' /\ Engaged(hold[r])' => hold'[q].since # hold'[r].since
    BY <1>6 DEF TraceInv, Apart
  <2> QED BY <2>1, <2>2, <2>3, <2>4 DEF Apart
<1>9. WiredInv'
  <2> SUFFICES ASSUME NEW n \in wire'
               PROVE  /\ n \in wire
                      /\ Expects(n, hold'[n.from]) /\ (n.from \notin Retaking => Aimed(n, hold[n.from])')
    BY Zenon DEF TraceInv, WiredInv, Expects
  <2>1. n \in wire /\ n.from # p /\ n.from \in Pods BY <1>2, Zenon DEF TypeOK, WriteType
  <2>2. hold'[n.from] = hold[n.from] /\ Expects(n, hold[n.from]) /\ (n.from \notin Retaking => Aimed(n, hold[n.from]))
    BY <1>2, <2>1, Zenon DEF TraceInv, WiredInv
  <2>3. n.from \notin Retaking => Aimed(n, hold[n.from])' BY <1>1, <1>7, <2>1, <2>2, Zenon DEF Aimed
  <2> QED BY <2>1, <2>2, <2>3, Zenon
<1>10. KnownInv'
  <2> SUFFICES ASSUME NEW q \in Pods \ Retaking PROVE Marked(hold'[q]) /\ Known(hold[q])'
    BY DEF KnownInv, Marked
  <2>0. Marked(hold[q]) /\ Known(hold[q]) BY Zenon DEF TraceInv, KnownInv
  <2>1. CASE q # p
    BY <1>1, <1>2, <1>7, <2>0, <2>1, Zenon DEF Known
  <2>2. CASE q = p
    <3>1. Marked(hold'[p])
      BY <1>2, <1>4, <2>0, <2>2, Zenon DEF Marked, Waiting, Creating, Putting
    <3>2. Known(hold[p])' BY <1>2, <1>5, <1>7, <2>2, Zenon DEF Known
    <3> QED BY <2>2, <3>1, <3>2
  <2> QED BY <2>1, <2>2
<1> QED BY <1>8, <1>9, <1>10 DEF TraceInv

\* An entry the server removes is nobody's.
LEMMA LapsesTrace ==
    ASSUME TypeOK, TraceInv, Lapses
    PROVE  TraceInv'
<1>1. entry' = Free /\ wire' = wire /\ hold' = hold /\ sent' = sent /\ Free.since = 0 /\ sent \in Nat
  BY Zenon DEF Lapses, Free, TypeOK
<1>2. \A q \in Pods : ~Mine(hold[q])' BY <1>1 DEF TraceInv, Apart, Mine, Engaged
<1>3. Apart'
  <2>1. (entry.since <= sent /\ (entry # Free => entry.since > 0))' BY <1>1
  <2>2. \A q \in Pods : Mine(hold[q])' => entry'.holder = q BY <1>2, Zenon
  <2>3. \A q \in Pods : Engaged(hold[q])' => hold'[q].since > 0 /\ hold'[q].since <= sent'
    BY <1>1, Zenon DEF TraceInv, Apart, Engaged
  <2>4. \A q, r \in Pods : q # r /\ Engaged(hold[q])' /\ Engaged(hold[r])' => hold'[q].since # hold'[r].since
    BY <1>1, Zenon DEF TraceInv, Apart, Engaged
  <2> QED BY <2>1, <2>2, <2>3, <2>4, Zenon DEF Apart
<1>4. WiredInv'
  <2>1. \A m \in wire : m.from \in Pods /\ Expects(m, hold[m.from]) BY Zenon DEF TypeOK, WriteType, TraceInv, WiredInv
  <2>2. \A m \in wire' : Expects(m, hold'[m.from]) /\ (m.from \notin Retaking => Aimed(m, hold[m.from])')
    BY <1>1, <1>2, <2>1, Zenon DEF Aimed
  <2>3. \A m, n \in wire' : m.from = n.from => m = n BY <1>1, Zenon DEF TraceInv, WiredInv
  <2> QED BY <2>2, <2>3, Zenon DEF WiredInv, Expects
<1>5. KnownInv'
  <2> SUFFICES ASSUME NEW q \in Pods \ Retaking PROVE Marked(hold'[q]) /\ Known(hold[q])'
    BY Zenon DEF KnownInv, Marked
  <2>1. Marked(hold'[q]) BY <1>1, Zenon DEF TraceInv, KnownInv
  <2>2. Known(hold[q])' BY <1>2 DEF Known
  <2> QED BY <2>1, <2>2, Zenon
<1> QED BY <1>3, <1>4, <1>5, Zenon DEF TraceInv

\* Nothing is held, sent or known at first.
LEMMA InitTrace == Init => TraceInv
<1> SUFFICES ASSUME Init PROVE TraceInv
  OBVIOUS
<1>1. entry = Free /\ wire = {} /\ sent = 0 /\ Free.since = 0 /\ \A p \in Pods : hold[p] = NoHold
  BY Zenon DEF Init, Free
<1>2. NoHold.pc = "idle" BY Zenon DEF NoHold
<1>3. \A p \in Pods : ~Engaged(hold[p]) BY <1>1, <1>2, Zenon DEF Engaged
<1>4. Apart BY <1>1, <1>3 DEF Apart, Mine
<1>5. WiredInv BY <1>1, Zenon DEF WiredInv
<1>6. KnownInv BY <1>1, <1>2, <1>3, Zenon DEF KnownInv, Marked, Known, Mine
<1> QED BY <1>4, <1>5, <1>6, Zenon DEF TraceInv

\* Every step keeps track of whose the entry is.
LEMMA NextTrace ==
    ASSUME ~Late, ~Retries, TypeOK, TraceInv, [Next]_vars
    PROVE  TraceInv'
<1>1. CASE UNCHANGED <<entry, wire, hold, sent>>
  BY <1>1, Zenon DEF TraceInv, Apart, WiredInv, KnownInv, Expects, Aimed, Marked, Known, Mine, Engaged, Free
<1>2. CASE Tick \/ UNCHANGED vars
  BY <1>1, <1>2, Zenon DEF Tick, vars
<1>3. ASSUME NEW p \in Pods, AttemptStep(p) \/ RenewStep(p) \/ ReleaseStep(p) \/ CallFails(p) \/ Crash(p)
      PROVE  TraceInv'
  BY <1>3, AttemptTrace, RenewTrace, ReleaseTrace, FailTrace, Zenon
<1>4. ASSUME NEW m \in wire, Lands(m) \/ Bounces(m) PROVE TraceInv'
  BY <1>4, LandsTrace, BouncesTrace
<1> QED BY <1>2, <1>3, <1>4, LapsesTrace, Zenon DEF Next

\* Where no write outlives the wait for its answer and none is sent twice, a holding can tell at
\* every moment whether the entry is its own (LeaseHandle.revision and in_flight_value).
THEOREM EntryTraced ==
    ASSUME ~Late, ~Retries
    PROVE  Spec => [](TypeOK /\ TraceInv)
<1>1. Init => TypeOK /\ TraceInv BY InitInv, InitTrace DEF IInv
<1>2. TraceInv /\ IInv /\ [Next]_vars => TraceInv' BY NextTrace DEF IInv
<1>3. IInv => TypeOK BY DEF IInv
<1> QED BY <1>1, <1>2, <1>3, Invariance, PTL DEF Spec

\* A release whose delete is refused leaves no entry of its own behind (KVLease.release: the handle
\* knew the revision of its last write, or recognised the value it had in flight).
THEOREM RefusedReleases ==
    ASSUME ~Late, ~Retries
    PROVE  Spec => []RefusedReleaseOwnsNothing
<1>1. TraceInv => RefusedReleaseOwnsNothing
  BY DEF TraceInv, KnownInv, Known, Mine, Engaged, RefusedReleaseOwnsNothing
<1> QED BY <1>1, EntryTraced, PTL

\* A hold that is sent keeps its fate.
LEMMA SendFate ==
    ASSUME TypeOK, NEW p \in Pods, NEW h, DOMAIN h = DOMAIN NoHold, NEW rev, Send(p, h, rev)
    PROVE  hold'[p].fate = h.fate
<1> DEFINE k == [h EXCEPT !.reply = 0, !.tries = 1]
<1>1. k.fate = h.fate BY DEF NoHold
<1> QED BY <1>1 DEF Send, Become, TypeOK

\* A renewal that reports a takeover found the entry with another holder, or was refused.
LEMMA RenewTaken ==
    ASSUME TypeOK, TraceInv, NEW p \in Pods \ Retaking, RenewStep(p), hold[p].fate = "none", hold'[p].fate = "taken"
    PROVE  Engaged(hold[p]) /\ ~Mine(hold[p])
<1>t. hold[p] \in HoldType BY Zenon DEF TypeOK
<1>d. DOMAIN hold[p] = DOMAIN NoHold BY <1>t, Zenon DEF HoldType, NoHold
<1>k. Marked(hold[p]) /\ Known(hold[p]) BY Zenon DEF TraceInv, KnownInv
<1>r. hold[p].reply = Refused => ~Mine(hold[p]) BY <1>k, Zenon DEF Known
<1>p. \A h : Become(p, h) => h.fate = "taken" BY DEF Become, TypeOK
<1>1. CASE StartRenewal(p) \/ HeldTooLong(p) \/ Expire(p) \/ Renewed(p)
  <2>1. [hold[p] EXCEPT !.pc = "read", !.start = now].fate = hold[p].fate
    BY <1>t DEF HoldType
  <2>2. \A f : [hold[p] EXCEPT !.fate = f].fate = f BY <1>t DEF HoldType
  <2>3. [hold[p] EXCEPT !.pc = "paused", !.rev = hold[p].reply, !.flight = 0, !.id = 0, !.reply = 0,
                        !.exp = hold[p].start + TTL].fate = hold[p].fate
    BY <1>t, Zenon DEF HoldType
  <2> QED BY <1>1, <1>p, <2>1, <2>2, <2>3, Zenon DEF StartRenewal, HeldTooLong, Expire, Renewed
<1>2. CASE Read(p)
  <2>1. PICK r, o : \/ entry = Free
                   \/ entry.holder # p
                   \/ Send(p, [hold[p] EXCEPT !.pc = "swap", !.rev = r, !.old = o, !.id = sent', !.flight = sent'], r)
    BY <1>2, Zenon DEF Read
  <2> DEFINE h == [hold[p] EXCEPT !.pc = "swap", !.rev = r, !.old = o, !.id = sent', !.flight = sent']
  <2>2. DOMAIN h = DOMAIN NoHold BY <1>d
  <2>3. h.fate = hold[p].fate BY <1>t DEF HoldType
  <2>4. Engaged(hold[p]) BY <1>2 DEF Read, Engaged
  <2>5. entry = Free \/ entry.holder # p \/ Send(p, h, r) BY <2>1
  <2> HIDE DEF h
  <2> QED BY <2>2, <2>3, <2>4, <2>5, SendFate, MineHere, Zenon
<1>3. CASE SwapLost(p) \/ ReswapLost(p) \/ RetakeLost(p)
  BY <1>3, <1>r DEF SwapLost, ReswapLost, RetakeLost, Engaged
<1>4. CASE Reread(p)
  BY <1>4, <1>k, <1>r, Zenon DEF Reread, Engaged, Marked
<1> QED BY <1>1, <1>2, <1>3, <1>4, Zenon DEF RenewStep

\* No other step of a pod reports a takeover.
LEMMA OthersTakeNone ==
    ASSUME TypeOK, NEW p \in Pods, ReleaseStep(p) \/ CallFails(p) \/ Crash(p), hold[p].fate = "none"
    PROVE  hold'[p].fate # "taken"
<1>t. hold[p] \in HoldType BY Zenon DEF TypeOK
<1>p. \A h : Become(p, h) => hold'[p] = h BY Zenon DEF Become, TypeOK
<1>a. Abandon(p) => hold'[p].fate # "taken" BY <1>p DEF Abandon, NoHold
<1>1. CASE Release(p)
  <2>1. [hold[p] EXCEPT !.fate = "released"].fate = "released" BY <1>t DEF HoldType
  <2> QED BY <1>1, <1>p, <2>1, Zenon DEF Release
<1>2. CASE EndRenewal(p)
  <2>1. [hold[p] EXCEPT !.pc = "check"].fate = hold[p].fate BY <1>t DEF HoldType
  <2> QED BY <1>2, <1>p, <2>1, Zenon DEF EndRenewal, Goto
<1>3. CASE Check(p)
  <2> DEFINE h == [hold[p] EXCEPT !.pc = "delete", !.id = 0]
  <2>1. DOMAIN h = DOMAIN NoHold BY <1>t DEF HoldType, NoHold
  <2>2. h.fate = hold[p].fate BY <1>t DEF HoldType
  <2>3. Abandon(p) \/ \E r : Send(p, h, r) BY <1>3, Zenon DEF Check
  <2> HIDE DEF h
  <2> QED BY <1>a, <2>1, <2>2, <2>3, SendFate, Zenon
<1>4. CASE Deleted(p) \/ Crash(p) BY <1>4, <1>a DEF Deleted, Crash
<1>5. CASE CallFails(p)
  <2>1. [hold[p] EXCEPT !.pc = "paused", !.id = 0, !.reply = 0].fate = hold[p].fate BY <1>t DEF HoldType
  <2> QED BY <1>5, <1>a, <1>p, <2>1, Zenon DEF CallFails
<1> QED BY <1>1, <1>2, <1>3, <1>4, <1>5, Zenon DEF ReleaseStep

\* A hold that is not taken yet never has a fate.
LEMMA NeverFated == Spec => []Fateless
<1>1. Init => Fateless
  <2>1. NoHold.fate = "none" BY DEF NoHold
  <2> QED BY <2>1, Zenon DEF Init, Fateless
<1>2. TypeOK /\ Fateless /\ MutualExclusion /\ MutualExclusion' /\ [Next]_vars => Fateless'
  BY NextRefines, Zenon
<1> QED BY <1>1, <1>2, TypesKept, OneHolderActs, PTL DEF Spec

\* the step TakenMeansTaken allows
TakenTruly ==
    \A p \in Pods \ Retaking : hold[p].fate = "none" /\ hold'[p].fate = "taken" => entry.since # hold[p].since

\* A step that reports a takeover finds the entry another's.
LEMMA StepTaken ==
    ASSUME TypeOK, TraceInv, Fateless, [Next]_vars,
           NEW q \in Pods \ Retaking, hold[q].fate = "none", hold'[q].fate = "taken"
    PROVE  entry.since # hold[q].since
<1>1. ASSUME NEW p \in Pods, Moves(p) PROVE q = p BY <1>1, Zenon DEF Moves
<1>2. ASSUME NEW p \in Pods, AttemptStep(p) PROVE FALSE
  <2>1. Moves(p) BY <1>2, AttemptMoves
  <2>2. Outside(hold[p])
    BY <1>2, Zenon DEF AttemptStep, Attempt, Acquired, CreateLost, Look, Judge, ReclaimLost, Outside, Renewing
  <2> QED BY <1>1, <2>1, <2>2, Zenon DEF Moves, Allowed, Outside, Over
<1>3. ASSUME NEW p \in Pods, RenewStep(p) PROVE entry.since # hold[q].since
  <2>1. q = p BY <1>1, <1>3, RenewMoves, Zenon
  <2> QED BY <1>3, <2>1, RenewTaken, Zenon DEF Mine
<1>4. ASSUME NEW p \in Pods, ReleaseStep(p) \/ CallFails(p) \/ Crash(p) PROVE FALSE
  <2>1. q = p BY <1>1, <1>4, ReleaseMoves, Zenon
  <2> QED BY <1>4, <2>1, OthersTakeNone, Zenon
<1>5. ASSUME NEW m \in wire, Lands(m) \/ Bounces(m) PROVE FALSE
  <2>1. last \in Nat /\ last + 1 \in Int /\ Refused \in Int BY DEF TypeOK, Refused
  <2>2. \E r \in Int : Answer(m, r) BY <1>5, <2>1, Zenon DEF Lands, Bounces
  <2> QED BY <2>2, Answered, Zenon
<1>6. CASE Lapses \/ Tick \/ UNCHANGED vars BY <1>6, Zenon DEF Lapses, Tick, vars
<1> QED BY <1>2, <1>3, <1>4, <1>5, <1>6, Zenon DEF Next

\* A lease is reported taken only when the entry is no longer this holding's (HeldLease.lost,
\* LeaseNotHeldError): no unanswered write of its own is taken for another holder's.
THEOREM TakenIsTaken ==
    ASSUME ~Late, ~Retries
    PROVE  Spec => TakenMeansTaken
<1>1. TypeOK /\ TraceInv /\ Fateless /\ [Next]_vars => [TakenTruly]_vars
  BY StepTaken DEF TakenTruly
<1>2. Spec => [][TakenTruly]_vars BY <1>1, EntryTraced, NeverFated, PTL DEF Spec
<1> QED BY <1>2, Zenon DEF TakenTruly, TakenMeansTaken
=============================================================================

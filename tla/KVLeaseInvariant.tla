--------------------------- MODULE KVLeaseInvariant ---------------------------
(***************************************************************************)
(* An inductive invariant of KVLease, and the proofs that an attempt to    *)
(* acquire preserves it. KVLeaseProof has the rest of the steps and the    *)
(* theorems.                                                               *)
(***************************************************************************)
EXTENDS KVLease, TLAPS

AttemptPcs == {"create", "look", "create2", "judge", "reclaim"}
Extending == {"swap", "reread", "reswap", "retake"}

\* a pod believes in its entry: it holds the lease, or the answer that gives it one is in
Believes(h) ==
    \/ h.pc \in Renewing /\ h.fate = "none"
    \/ h.pc \in AttemptPcs /\ h.reply > 0

\* until d, the entry is p's
Until(p, d) == now < d => entry.holder = p /\ entry.exp >= d

Timely(h) ==
    /\ h.start <= now
    /\ h.pc \in AttemptPcs => h.exp = h.start + TTL
    /\ h.rev <= last /\ h.reply <= last

\* the write a pod waits for carries the expiry the pod will count on
PledgedTo(m, h) ==
    m.kind # "delete" /\ m.id = h.id =>
        /\ h.pc \in AttemptPcs => m.exp = h.exp
        /\ h.pc \in Extending => m.exp >= h.start + TTL

\* a swap that can still land is a renewal by the entry's holder or a reclaim of an expired
\* entry; a delete that can still land is its holder's, who no longer believes in it
FencedFor(m, h) ==
    entry # Free /\ entry.rev = m.rev =>
        /\ m.kind = "put" => m.exp >= entry.exp /\ (entry.holder = m.from \/ entry.exp <= now)
        /\ m.kind = "delete" => entry.holder = m.from /\ ~Believes(h)

\* what a pod believes, and what it will believe once it takes in its answer, is so
Founded(p, h) ==
    /\ Believes(h) => Until(p, h.exp)
    /\ h.pc \in Extending /\ h.fate = "none" /\ h.reply > 0 => Until(p, h.start + TTL)

\* no instant is further off than one TTL, no revision or value ahead of its counter
Stamped(m) == m.exp <= now + TTL /\ m.rev <= last /\ m.id <= sent

EntryInv == entry.exp <= now + TTL /\ entry.exp <= entry.lapse /\ entry.rev <= last
WireInv == \A m \in wire : Stamped(m) /\ PledgedTo(m, hold[m.from]) /\ FencedFor(m, hold[m.from])
HoldInv == \A p \in Pods : Timely(hold[p]) /\ hold[p].id <= sent /\ Founded(p, hold[p])

IInv == TypeOK /\ EntryInv /\ WireInv /\ HoldInv

\* what a pod may send as its hold becomes h
Sendable(m, p, h) ==
    /\ m \in WriteType
    /\ m.from = p
    /\ m.exp <= now + TTL /\ m.rev <= last /\ m.id = h.id
    /\ PledgedTo(m, h) /\ FencedFor(m, h)

----------------------------------------------------------------------------
(* Steps of one pod that leave the bucket and the clock alone              *)

\* The fields of a hold and of a write have their types.
LEMMA Types ==
    ASSUME TypeOK
    PROVE  /\ \A p \in Pods : hold[p] \in HoldType
           /\ \A m \in wire : m \in WriteType
           /\ entry.holder \in Pods \cup {Nobody} /\ entry.exp \in Nat /\ entry.lapse \in Nat /\ entry.rev \in Nat
           /\ entry.id \in Nat /\ now \in Nat /\ last \in Nat /\ sent \in Nat
BY DEF TypeOK

\* A step of one pod that changes its hold, and perhaps sends or gives up writes,
\* preserves the invariant when its new hold and its new writes are in order.
LEMMA HoldStep ==
    ASSUME IInv, NEW p \in Pods, NEW h \in HoldType,
           hold' = [hold EXCEPT ![p] = h],
           now' = now, entry' = entry, last' = last,
           sent' \in Nat, sent <= sent', marker' \in BOOLEAN,
           Timely(h), h.id <= sent', Founded(p, h),
           Believes(h) => Believes(hold[p]),
           \A m \in wire : m.from = p => PledgedTo(m, h),
           \A m \in wire' : m \in wire \/ Sendable(m, p, h)
    PROVE  IInv'
<1> USE LeaseAssumption
<1>t. TypeOK BY DEF IInv
<1>p. hold'[p] = h /\ \A q \in Pods : q # p => hold'[q] = hold[q]
  BY <1>t DEF TypeOK
<1>w. \A m \in wire : m \in WriteType /\ m.from \in Pods
  BY <1>t DEF TypeOK, WriteType
<1>s. \A m \in wire' : m \in WriteType /\ m.from \in Pods
  BY <1>w DEF Sendable
<1>1. TypeOK'
  <2>1. hold' \in [Pods -> HoldType] BY <1>t DEF TypeOK
  <2>2. wire' \subseteq WriteType BY <1>s
  <2> QED BY <1>t, <2>1, <2>2 DEF TypeOK, WriteType, HoldType
<1>2. EntryInv' BY DEF IInv, EntryInv
<1>3. WireInv'
  <2> SUFFICES ASSUME NEW m \in wire' PROVE Stamped(m)' /\ PledgedTo(m, hold[m.from])' /\ FencedFor(m, hold[m.from])'
    BY DEF WireInv
  <2>1. m \in wire => Stamped(m) /\ PledgedTo(m, hold[m.from]) /\ FencedFor(m, hold[m.from])
    BY DEF IInv, WireInv
  <2>2. m.id \in Nat /\ h.id \in Nat BY <1>s DEF WriteType, HoldType
  <2>3. Stamped(m)'
    BY <1>t, <2>1, <2>2 DEF Stamped, Sendable, TypeOK
  <2>4. CASE m.from = p
    <3>1. hold'[m.from] = h BY <1>p, <2>4
    <3>2. PledgedTo(m, h) BY <2>4 DEF Sendable
    <3>3. FencedFor(m, h) BY <2>1, <2>4 DEF Sendable, FencedFor
    <3> QED BY <2>3, <3>1, <3>2, <3>3 DEF PledgedTo, FencedFor, Believes
  <2>5. CASE m.from # p
    <3>1. m \in wire /\ hold'[m.from] = hold[m.from] BY <1>p, <1>s, <2>5 DEF Sendable
    <3> QED BY <2>1, <2>3, <3>1 DEF PledgedTo, FencedFor, Believes
  <2> QED BY <2>4, <2>5
<1>4. HoldInv'
  <2> SUFFICES ASSUME NEW q \in Pods PROVE Timely(hold[q])' /\ hold'[q].id <= sent' /\ Founded(q, hold[q])'
    BY DEF HoldInv
  <2>1. CASE q = p
    BY <1>p, <2>1 DEF Timely, Founded, Believes, Until
  <2>2. CASE q # p
    <3>1. hold'[q] = hold[q] /\ Timely(hold[q]) /\ hold[q].id <= sent /\ Founded(q, hold[q])
      BY <1>p, <2>2 DEF IInv, HoldInv
    <3>2. hold[q].id \in Nat BY <1>t DEF TypeOK, HoldType
    <3>3. hold'[q].id <= sent' BY <1>t, <3>1, <3>2 DEF TypeOK
    <3> QED BY <3>1, <3>3 DEF Timely, Founded, Believes, Until
  <2> QED BY <2>1, <2>2
<1> QED BY <1>1, <1>2, <1>3, <1>4 DEF IInv

Pcs == Renewing \cup Waiting \cup {"idle", "look", "judge", "check"}

\* An empty hold is a hold.
LEMMA NoHoldType == NoHold \in HoldType
<1>1. 0 \in Nat /\ 0 \in Int OBVIOUS
<1>2. "idle" \in Pcs /\ "none" \in Fates BY DEF Pcs, Fates
<1>3. ASSUME NEW pc \in Pcs, NEW w \in Fates, NEW n \in Nat, NEW r \in Int
      PROVE  [pc |-> pc, since |-> n, rev |-> n, exp |-> n, start |-> n, id |-> n, flight |-> n, old |-> n,
              reply |-> r, tries |-> n, why |-> w, fate |-> w] \in HoldType
  BY DEF HoldType, Pcs
<1> QED BY <1>1, <1>2, <1>3, Zenon DEF NoHold

\* Starting, taking in an answer and giving up a call keep a hold's type.
LEMMA HoldTypes ==
    ASSUME NEW h \in HoldType, NEW pc \in Pcs, NEW m \in Nat, NEW n \in Nat, NEW r \in Int, NEW f \in Nat, NEW e \in Nat
    PROVE  /\ [h EXCEPT !.pc = pc, !.since = n, !.id = n, !.start = m, !.exp = e] \in HoldType
           /\ [h EXCEPT !.pc = pc, !.rev = m, !.id = n, !.reply = r] \in HoldType
           /\ [h EXCEPT !.pc = pc, !.rev = m, !.flight = f, !.id = n, !.reply = r, !.exp = e] \in HoldType
           /\ [h EXCEPT !.pc = pc, !.id = n, !.reply = r] \in HoldType
BY DEF HoldType, Pcs

\* Sending keeps a hold's type.
LEMMA SentType ==
    ASSUME NEW h \in HoldType, NEW r \in Int, NEW t \in Nat
    PROVE  [h EXCEPT !.reply = r, !.tries = t] \in HoldType
BY DEF HoldType

\* The same for a step that sends the write its hold waits for.
LEMMA SendStep ==
    ASSUME IInv, NEW p \in Pods, NEW h \in HoldType, NEW rev \in Nat,
           Send(p, h, rev), h.pc \in Waiting,
           now' = now, entry' = entry, last' = last, marker' = marker,
           sent' \in Nat, sent <= sent',
           Timely(h), h.id <= sent', rev <= last,
           h.pc \in Renewing /\ h.fate = "none" => Believes(hold[p]) /\ Until(p, h.exp),
           \A m \in wire : m.from = p => PledgedTo(m, h),
           entry # Free /\ entry.rev = rev =>
               /\ h.pc \in {"swap", "reswap", "delete"} => entry.holder = p
               /\ h.pc = "reclaim" => entry.exp <= h.start
    PROVE  IInv'
<1> USE LeaseAssumption
<1>t. TypeOK BY DEF IInv
<1>n. now \in Nat /\ last \in Nat /\ TTL \in Nat /\ entry.exp \in Nat BY <1>t, Types
<1> DEFINE g == [h EXCEPT !.reply = 0, !.tries = 1]
           x == [from |-> p, kind |-> Kind(h.pc), rev |-> rev, id |-> h.id, since |-> h.since,
                 exp |-> IF h.pc \in {"create", "create2", "reclaim"} THEN h.exp ELSE now + TTL]
<1>1. hold' = [hold EXCEPT ![p] = g] /\ wire' = wire \cup {x}
  BY DEF Send, Become
<1>2. /\ g \in HoldType
      /\ g.pc = h.pc /\ g.start = h.start /\ g.exp = h.exp /\ g.rev = h.rev /\ g.id = h.id /\ g.fate = h.fate
      /\ g.reply = 0
  <2>0. 0 \in Int /\ 1 \in Nat OBVIOUS
  <2>1. g \in HoldType BY <2>0, SentType, Zenon
  <2>2. g.pc = h.pc /\ g.start = h.start /\ g.exp = h.exp /\ g.rev = h.rev /\ g.id = h.id /\ g.fate = h.fate
    BY DEF HoldType
  <2>3. g.reply = 0 BY DEF HoldType
  <2> QED BY <2>1, <2>2, <2>3
<1>k. /\ h.pc \in {"create", "create2", "retake"} <=> Kind(h.pc) = "create"
      /\ h.pc \in {"reclaim", "swap", "reswap"} <=> Kind(h.pc) = "put"
      /\ h.pc = "delete" <=> Kind(h.pc) = "delete"
      /\ h.pc \in {"create", "create2", "retake", "reclaim", "swap", "reswap", "delete"}
  BY DEF Kind, Waiting, Creating, Putting
<1>h. h.exp \in Nat /\ h.start \in Nat /\ h.id \in Nat /\ h.since \in Nat BY DEF HoldType
<1>x. /\ x \in WriteType
      /\ x.from = p /\ x.kind = Kind(h.pc) /\ x.rev = rev /\ x.id = h.id
      /\ x.exp = IF h.pc \in {"create", "create2", "reclaim"} THEN h.exp ELSE now + TTL
  BY <1>k, <1>n, <1>h DEF WriteType
<1> HIDE DEF g, x
<1>3. Timely(g) BY <1>2, <1>n DEF Timely
<1>4. Believes(g) => h.pc \in Renewing /\ h.fate = "none" BY <1>2 DEF Believes
<1>5. Founded(p, g) BY <1>2, <1>4 DEF Founded
<1>6. \A m \in wire : m.from = p => PledgedTo(m, g) BY <1>2 DEF PledgedTo
<1>7. Sendable(x, p, g)
  <2>1. x.exp <= now + TTL BY <1>x, <1>n, <1>h DEF Timely, AttemptPcs
  <2>2. PledgedTo(x, g)
    <3>1. h.pc \in AttemptPcs /\ x.kind # "delete" => x.exp = h.exp
      BY <1>x, <1>k DEF AttemptPcs
    <3>2. h.pc \in Extending => x.exp = now + TTL BY <1>x DEF Extending
    <3> QED BY <1>2, <1>n, <1>h, <3>1, <3>2 DEF PledgedTo, Timely
  <2>3. FencedFor(x, g)
    <3> SUFFICES ASSUME entry # Free, entry.rev = rev
                 PROVE  /\ x.kind = "put" => x.exp >= entry.exp /\ (entry.holder = p \/ entry.exp <= now)
                        /\ x.kind = "delete" => entry.holder = p /\ ~Believes(g)
      BY <1>x DEF FencedFor
    <3>1. CASE h.pc \in {"swap", "reswap"}
      BY <3>1, <1>x, <1>k, <1>n DEF IInv, EntryInv
    <3>2. CASE h.pc = "reclaim"
      BY <3>2, <1>x, <1>k, <1>n, <1>h DEF Timely, AttemptPcs
    <3>3. CASE h.pc = "delete"
      BY <3>3, <1>x, <1>k, <1>4 DEF Renewing
    <3>4. CASE h.pc \in {"create", "create2", "retake"}
      BY <3>4, <1>x, <1>k
    <3> QED BY <1>k, <3>1, <3>2, <3>3, <3>4
  <2> QED BY <1>x, <1>2, <2>1, <2>2, <2>3 DEF Sendable
<1>8. Believes(g) => Believes(hold[p]) BY <1>4
<1>9. g.id <= sent' BY <1>2
<1> QED BY <1>t, <1>1, <1>2, <1>3, <1>5, <1>6, <1>7, <1>8, <1>9, HoldStep DEF TypeOK

\* A write made before a value is fresh does not carry it.
LEMMA FreshPledge ==
    ASSUME IInv, NEW p \in Pods, NEW h, h.id = sent + 1
    PROVE  \A m \in wire : m.from = p => PledgedTo(m, h)
<1> SUFFICES ASSUME NEW m \in wire PROVE PledgedTo(m, h)
  OBVIOUS
<1>1. m.id <= sent /\ m.id \in Nat /\ sent \in Nat
  BY Types DEF IInv, WireInv, Stamped, WriteType
<1> QED BY <1>1 DEF PledgedTo

\* A hold that differs only where no pledge looks keeps its pledges.
LEMMA KeptPledge ==
    ASSUME IInv, NEW p \in Pods, NEW h, h.id = hold[p].id, h.exp = hold[p].exp, h.start = hold[p].start,
           h.pc \in AttemptPcs => hold[p].pc \in AttemptPcs,
           h.pc \in Extending => hold[p].pc \in Extending
    PROVE  \A m \in wire : m.from = p => PledgedTo(m, h)
BY DEF IInv, WireInv, PledgedTo

----------------------------------------------------------------------------
(* acquire                                                                 *)

\* Starting an attempt preserves the invariant.
LEMMA AttemptInv ==
    ASSUME IInv, NEW p \in Pods, Attempt(p)
    PROVE  IInv'
<1> USE LeaseAssumption
<1>t. now \in Nat /\ last \in Nat /\ sent \in Nat /\ TTL \in Nat BY Types DEF IInv
<1>s. sent' = sent + 1 BY DEF Attempt, Fresh
<1> DEFINE h == [NoHold EXCEPT !.pc = "create", !.since = sent', !.id = sent', !.start = now, !.exp = now + TTL]
<1>1. Send(p, h, 0) /\ UNCHANGED <<now, entry, last, marker>> BY DEF Attempt
<1>y. h \in HoldType
  <2>1. "create" \in Pcs /\ sent' \in Nat /\ now + TTL \in Nat /\ 0 \in Nat /\ 0 \in Int
    BY <1>t, <1>s DEF Pcs, Waiting, Creating
  <2> QED BY <2>1, <1>t, NoHoldType, HoldTypes, Zenon
<1>2. /\ h.pc = "create" /\ h.id = sent + 1 /\ h.start = now /\ h.exp = now + TTL /\ h.rev = 0 /\ h.reply = 0
  BY <1>t, <1>s DEF NoHold
<1> HIDE DEF h
<1>3. Timely(h) BY <1>t, <1>2 DEF Timely
<1>4. h.pc \in Waiting /\ h.pc \notin Renewing BY <1>2 DEF Waiting, Creating, Renewing
<1>5. \A m \in wire : m.from = p => PledgedTo(m, h) BY <1>2, FreshPledge
<1> QED BY <1>y, <1>1, <1>2, <1>3, <1>4, <1>5, <1>t, <1>s, SendStep

\* Taking in the answer that gives the lease preserves the invariant.
LEMMA AcquiredInv ==
    ASSUME IInv, NEW p \in Pods, Acquired(p)
    PROVE  IInv'
<1>t. TypeOK /\ hold[p] \in HoldType /\ last \in Nat /\ sent \in Nat /\ marker \in BOOLEAN
  BY Types DEF IInv, TypeOK
<1>g. hold[p].pc \in {"create", "create2", "reclaim"} /\ hold[p].reply > 0 BY DEF Acquired
<1>i. Timely(hold[p]) /\ Founded(p, hold[p]) BY DEF IInv, HoldInv
<1> DEFINE h == [hold[p] EXCEPT !.pc = "paused", !.rev = hold[p].reply, !.id = 0, !.reply = 0]
<1>1. hold' = [hold EXCEPT ![p] = h] /\ UNCHANGED <<now, entry, last, marker, wire, sent>> BY DEF Acquired, Become
<1>2. h \in HoldType
  <2>1. "paused" \in Pcs /\ 0 \in Nat /\ 0 \in Int BY DEF Pcs, Renewing
  <2>2. hold[p].reply \in Nat BY <1>t, <1>g DEF HoldType
  <2> QED BY <2>1, <2>2, <1>t, HoldTypes, Zenon
<1>3. /\ h.pc = "paused" /\ h.rev = hold[p].reply /\ h.id = 0 /\ h.reply = 0
      /\ h.start = hold[p].start /\ h.exp = hold[p].exp
  BY <1>t DEF HoldType
<1> HIDE DEF h
<1>4. Timely(h) BY <1>t, <1>i, <1>3 DEF Timely, AttemptPcs
<1>5. Believes(hold[p]) BY <1>g DEF Believes, AttemptPcs
<1>6. Founded(p, h) BY <1>3, <1>5, <1>i DEF Founded, Extending
<1>7. \A m \in wire : m.from = p => PledgedTo(m, h) BY <1>3 DEF PledgedTo, AttemptPcs, Extending
<1>8. h.id <= sent' /\ sent' \in Nat /\ sent <= sent' /\ marker' \in BOOLEAN BY <1>1, <1>3, <1>t
<1> QED BY <1>1, <1>2, <1>4, <1>5, <1>6, <1>7, <1>8, HoldStep

\* A refused create, and the look at the key it leads to, preserve the invariant.
LEMMA LookInv ==
    ASSUME IInv, NEW p \in Pods, CreateLost(p) \/ Look(p)
    PROVE  IInv'
<1> USE LeaseAssumption
<1>t. hold[p] \in HoldType /\ last \in Nat /\ sent \in Nat /\ marker \in BOOLEAN BY Types DEF IInv, TypeOK
<1>i. Timely(hold[p]) /\ Founded(p, hold[p]) /\ hold[p].id <= sent BY DEF IInv, HoldInv
<1>1. ASSUME NEW pc \in {"look", "judge"}, hold[p].pc \in AttemptPcs, Goto(p, pc),
             UNCHANGED <<now, entry, last, marker, wire, sent>>
      PROVE  IInv'
  <2> DEFINE h == [hold[p] EXCEPT !.pc = pc]
  <2>1. h \in HoldType BY <1>t DEF HoldType
  <2>2. /\ h.pc = pc /\ h.rev = hold[p].rev /\ h.id = hold[p].id /\ h.reply = hold[p].reply
        /\ h.start = hold[p].start /\ h.exp = hold[p].exp
    BY <1>t DEF HoldType
  <2>3. hold' = [hold EXCEPT ![p] = h] BY <1>1 DEF Goto, Become
  <2> HIDE DEF h
  <2>4. h.pc \in AttemptPcs /\ h.pc \notin Renewing /\ h.pc \notin Extending
    BY <2>2 DEF AttemptPcs, Renewing, Extending
  <2>5. Timely(h) BY <1>1, <1>i, <2>2 DEF Timely
  <2>6. Believes(h) => Believes(hold[p]) BY <1>1, <2>2, <2>4 DEF Believes
  <2>7. Founded(p, h) BY <1>i, <2>2, <2>4, <2>6 DEF Founded
  <2>8. \A m \in wire : m.from = p => PledgedTo(m, h) BY <1>1, <2>2, <2>4, KeptPledge
  <2>9. h.id <= sent' /\ sent' \in Nat /\ sent <= sent' /\ marker' \in BOOLEAN BY <1>1, <1>t, <1>i, <2>2
  <2> QED BY <1>1, <2>1, <2>3, <2>5, <2>6, <2>7, <2>8, <2>9, HoldStep
<1>2. CASE CreateLost(p)
  <2>1. hold[p].pc \in AttemptPcs BY <1>2 DEF CreateLost, AttemptPcs
  <2>2. \E pc \in {"look", "judge"} : Goto(p, pc) BY <1>2 DEF CreateLost
  <2>3. UNCHANGED <<now, entry, last, marker, wire, sent>> BY <1>2 DEF CreateLost
  <2> QED BY <1>1, <2>1, <2>2, <2>3
<1>3. CASE Look(p) /\ entry # Free
  <2>1. hold[p].pc \in AttemptPcs BY <1>3 DEF Look, AttemptPcs
  <2>2. Goto(p, "judge") /\ UNCHANGED <<now, entry, last, marker, wire, sent>> BY <1>3 DEF Look
  <2> QED BY <1>1, <2>1, <2>2
<1>4. CASE Look(p) /\ entry = Free
  <2> DEFINE h == [hold[p] EXCEPT !.pc = "create2"]
  <2>1. h \in HoldType BY <1>t DEF HoldType, Waiting, Creating
  <2>2. /\ h.pc = "create2" /\ h.rev = hold[p].rev /\ h.id = hold[p].id /\ h.reply = hold[p].reply
        /\ h.start = hold[p].start /\ h.exp = hold[p].exp
    BY <1>t DEF HoldType
  <2>3. Send(p, h, 0) /\ UNCHANGED <<now, entry, last, marker, sent>> BY <1>4 DEF Look
  <2> HIDE DEF h
  <2>4. h.pc \in AttemptPcs /\ h.pc \notin Renewing /\ h.pc \notin Extending /\ h.pc \in Waiting
    BY <2>2 DEF AttemptPcs, Renewing, Extending, Waiting, Creating
  <2>a. hold[p].pc \in AttemptPcs BY <1>4 DEF Look, AttemptPcs
  <2>5. Timely(h) BY <1>i, <2>2, <2>a DEF Timely
  <2>8. \A m \in wire : m.from = p => PledgedTo(m, h) BY <2>2, <2>4, <2>a, KeptPledge
  <2> QED BY <1>4, <1>t, <1>i, <2>1, <2>2, <2>3, <2>4, <2>5, <2>8, SendStep
<1> QED BY <1>2, <1>3, <1>4

\* A step that ends with nothing in hand preserves the invariant.
LEMMA AbandonInv ==
    ASSUME IInv, NEW p \in Pods, Abandon(p), UNCHANGED <<now, entry, last, marker, sent>>, wire' \subseteq wire
    PROVE  IInv'
<1>t. last \in Nat /\ sent \in Nat /\ now \in Nat /\ marker \in BOOLEAN BY Types DEF IInv, TypeOK
<1>1. hold' = [hold EXCEPT ![p] = NoHold] BY DEF Abandon, Become
<1>2. NoHold.pc = "idle" /\ NoHold.rev = 0 /\ NoHold.id = 0 /\ NoHold.reply = 0 /\ NoHold.start = 0 BY DEF NoHold
<1>3. Timely(NoHold) BY <1>t, <1>2 DEF Timely, AttemptPcs
<1>4. ~Believes(NoHold) BY <1>2 DEF Believes, AttemptPcs, Renewing
<1>5. Founded(p, NoHold) BY <1>2, <1>4 DEF Founded, Extending
<1>6. \A m \in wire : m.from = p => PledgedTo(m, NoHold) BY <1>2 DEF PledgedTo, AttemptPcs, Extending
<1>7. NoHold.id <= sent' /\ sent' \in Nat /\ sent <= sent' /\ marker' \in BOOLEAN BY <1>t, <1>2
<1>8. \A m \in wire' : m \in wire OBVIOUS
<1> QED BY <1>1, <1>3, <1>4, <1>5, <1>6, <1>7, <1>8, NoHoldType, HoldStep

\* Judging the entry preserves the invariant: what is swapped for had expired.
LEMMA JudgeInv ==
    ASSUME IInv, NEW p \in Pods, Judge(p)
    PROVE  IInv'
<1> USE LeaseAssumption
<1>t. hold[p] \in HoldType /\ entry.rev \in Nat /\ entry.exp \in Nat /\ last \in Nat /\ sent \in Nat BY Types DEF IInv
<1>i. Timely(hold[p]) /\ hold[p].id <= sent BY DEF IInv, HoldInv
<1>a. hold[p].pc \in AttemptPcs BY DEF Judge, AttemptPcs
<1>1. CASE entry = Free \/ entry.exp > hold[p].start
  <2>1. Abandon(p) /\ UNCHANGED <<now, entry, last, marker, wire, sent>> BY <1>1 DEF Judge
  <2> QED BY <2>1, AbandonInv
<1>2. CASE ~(entry = Free \/ entry.exp > hold[p].start)
  <2> DEFINE h == [hold[p] EXCEPT !.pc = "reclaim"]
  <2>1. h \in HoldType BY <1>t DEF HoldType, Waiting, Putting
  <2>2. /\ h.pc = "reclaim" /\ h.rev = hold[p].rev /\ h.id = hold[p].id /\ h.reply = hold[p].reply
        /\ h.start = hold[p].start /\ h.exp = hold[p].exp /\ h.start \in Nat
    BY <1>t DEF HoldType
  <2>3. Send(p, h, entry.rev) /\ UNCHANGED <<now, entry, last, marker, sent>> BY <1>2 DEF Judge
  <2> HIDE DEF h
  <2>4. h.pc \in AttemptPcs /\ h.pc \notin Renewing /\ h.pc \notin Extending /\ h.pc \in Waiting
    BY <2>2 DEF AttemptPcs, Renewing, Extending, Waiting, Putting
  <2>5. Timely(h) BY <1>i, <2>2, <1>a DEF Timely
  <2>6. entry.exp <= h.start BY <1>2, <1>t, <2>2
  <2>7. entry.rev <= last BY DEF IInv, EntryInv
  <2>8. \A m \in wire : m.from = p => PledgedTo(m, h) BY <2>2, <2>4, <1>a, KeptPledge
  <2> QED BY <1>t, <1>i, <2>1, <2>2, <2>3, <2>4, <2>5, <2>6, <2>7, <2>8, SendStep
<1> QED BY <1>1, <1>2
=============================================================================

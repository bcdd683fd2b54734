------------------------------- MODULE KVLease -------------------------------
(***************************************************************************)
(* KVLease and HeldLease (coordination/lease.py): a mutex with a time to   *)
(* live, kept as one entry of a NATS KV bucket. An acquire creates the     *)
(* entry, or swaps in its own over one that has expired; a background task *)
(* renews it by compare-and-swap; a timer in the holder says the lease is  *)
(* lost when the entry could have expired; a release deletes it by         *)
(* compare-and-swap.                                                       *)
(*                                                                         *)
(* A write travels: it is sent, it lands at the server or is lost, and its *)
(* answer arrives or does not. A sender that stops waiting (a timeout, a   *)
(* cancellation) may leave its write on the wire, to land later. A read is *)
(* one step with the local code that follows its answer, up to the next    *)
(* write sent: a compare-and-swap cannot tell when its revision was read.  *)
(*                                                                         *)
(* Time is a clock all pods share, in ticks; timers fire when due.         *)
(***************************************************************************)
EXTENDS Integers, FiniteSets

CONSTANTS
    Pods,     \* the factories that contend for the key, each a holder id
    Nobody,   \* no pod
    TTL,      \* ttl_seconds, in ticks
    Expiring, \* expire_entries: the server removes an entry after its TTL
    Retaking, \* the pods that hold with retake=True
    Losses,   \* whether writes and answers may be lost
    Late,     \* whether a write may land after its sender stopped waiting
    Retries,  \* whether the bucket sends a failed write once more (_run_with_reopen)
    MaxTime,  \* bound: the last tick
    MaxSent   \* bound: how many values are written

ASSUME LeaseAssumption ==
    /\ Nobody \notin Pods
    /\ TTL \in Nat \ {0}
    /\ Expiring \in BOOLEAN
    /\ Retaking \subseteq Pods
    /\ Losses \in BOOLEAN /\ Late \in BOOLEAN /\ Retries \in BOOLEAN
    /\ MaxTime \in Nat /\ MaxSent \in Nat

VARIABLES
    now,   \* the clock
    entry, \* the key: whose, which holding, which write, until when, at which revision
    last,  \* the stream's last sequence
    marker,\* whether the free key holds the marker of a delete, which lapses by itself
    wire,  \* writes sent that have not landed
    hold,  \* per pod: the attempt or the hold it has in hand
    sent   \* how many values have been made; no two writes make the same one

vars == <<now, entry, last, marker, wire, hold, sent>>

Free == [holder |-> Nobody, since |-> 0, id |-> 0, exp |-> 0, lapse |-> 0, rev |-> 0]

NoHold ==
    [pc |-> "idle",    \* where its task is
     since |-> 0,      \* which holding this is (acquired_at)
     rev |-> 0,        \* LeaseHandle.revision
     exp |-> 0,        \* its deadline; in an attempt, the expires_at of its envelope
     start |-> 0,      \* when the attempt or the renewal in hand started
     id |-> 0,         \* the value it is writing
     flight |-> 0,     \* LeaseHandle.in_flight_value
     old |-> 0,        \* the unanswered value a renewal found recorded
     reply |-> 0,      \* the answer to its write: a revision, or Refused
     tries |-> 0,      \* how often the bucket has sent the write in hand
     why |-> "none",   \* what the refresh raised, while an entry is taken again
     fate |-> "none"]  \* why the lease is over

Refused == -1

Renewing == {"paused", "read", "swap", "reread", "reswap", "retake"}

\* the steps that wait for the answer to a write, by its kind
Creating == {"create", "create2", "retake"}
Putting == {"reclaim", "swap", "reswap"}
Waiting == Creating \cup Putting \cup {"delete"}
Kind(pc) == IF pc \in Creating THEN "create" ELSE IF pc \in Putting THEN "put" ELSE "delete"

Become(p, h) == hold' = [hold EXCEPT ![p] = h]
Goto(p, pc) == Become(p, [hold[p] EXCEPT !.pc = pc])
Abandon(p) == Become(p, NoHold)

\* HeldLease.held, ahead of the deadline
Acts(p) == hold[p].pc \in Renewing /\ hold[p].fate = "none" /\ now < hold[p].exp

----------------------------------------------------------------------------
(* The bucket                                                              *)

\* the holder sends the write its next step waits for
Send(p, h, rev) ==
    /\ Become(p, [h EXCEPT !.reply = 0, !.tries = 1])
    /\ wire' = wire \cup {[from |-> p, kind |-> Kind(h.pc), rev |-> rev, id |-> h.id, since |-> h.since,
                           exp |-> IF h.pc \in {"create", "create2", "reclaim"} THEN h.exp ELSE now + TTL]}

\* the sender of a write still waits for its answer
Awaits(m) ==
    LET h == hold[m.from]
    IN  h.pc \in Waiting /\ h.reply = 0 /\ Kind(h.pc) = m.kind /\ h.id = m.id /\ h.since = m.since

\* a create needs a free key, everything else the revision it names
Matches(m) == IF m.kind = "create" THEN entry = Free ELSE entry # Free /\ entry.rev = m.rev

Stored(m) == [holder |-> m.from, since |-> m.since, id |-> m.id, exp |-> m.exp, lapse |-> now + TTL, rev |-> last + 1]

\* the answer reaches a sender that still waits; or it is lost, and the bucket may
\* send the write once more (_run_with_reopen)
Answer(m, reply) ==
    \/ /\ Awaits(m)
       /\ Become(m.from, [hold[m.from] EXCEPT !.reply = reply])
       /\ wire' = wire \ {m}
    \/ /\ ~Awaits(m) \/ Losses
       /\ wire' = wire \ {m}
       /\ UNCHANGED hold
    \/ /\ Awaits(m) /\ Losses /\ Retries /\ hold[m.from].tries = 1
       /\ Become(m.from, [hold[m.from] EXCEPT !.tries = 2])
       /\ UNCHANGED wire

Lands(m) ==
    /\ Matches(m)
    /\ entry' = IF m.kind = "delete" THEN Free ELSE Stored(m)
    /\ last' = last + 1
    /\ marker' = (m.kind = "delete")
    /\ Answer(m, last + 1)
    /\ UNCHANGED <<now, sent>>

\* refused; a create also where a released key's marker lapses under it
Bounces(m) ==
    /\ \/ ~Matches(m) /\ UNCHANGED marker
       \/ m.kind = "create" /\ marker /\ marker' = FALSE
    /\ Answer(m, Refused)
    /\ UNCHANGED <<now, entry, last, sent>>

\* the server removes an entry written with a TTL of its own
Lapses ==
    /\ Expiring /\ entry # Free /\ now >= entry.lapse
    /\ entry' = Free
    /\ UNCHANGED <<now, last, marker, wire, hold, sent>>

----------------------------------------------------------------------------
(* acquire -> _try_once -> _maybe_reclaim_stale                            *)

\* a value nobody else writes
Fresh == sent < MaxSent /\ sent' = sent + 1

Attempt(p) ==
    /\ hold[p].pc = "idle"
    /\ Fresh
    /\ Send(p, [NoHold EXCEPT !.pc = "create", !.since = sent', !.id = sent', !.start = now, !.exp = now + TTL], 0)
    /\ UNCHANGED <<now, entry, last, marker>>

\* slip: a create that lost counts as a revision
AcquiredAnyhow(p) ==
    /\ hold[p].pc \in {"create", "create2", "reclaim"} /\ hold[p].reply # 0
    /\ Become(p, [hold[p] EXCEPT !.pc = "paused", !.rev = hold[p].reply, !.id = 0, !.reply = 0])
    /\ UNCHANGED <<now, entry, last, marker, wire, sent>>

\* the lease is held, from the envelope's own instants; HeldLease starts renewing
Acquired(p) ==
    /\ hold[p].pc \in {"create", "create2", "reclaim"} /\ hold[p].reply > 0
    /\ Become(p, [hold[p] EXCEPT !.pc = "paused", !.rev = hold[p].reply, !.id = 0, !.reply = 0])
    /\ UNCHANGED <<now, entry, last, marker, wire, sent>>

CreateLost(p) ==
    /\ hold[p].pc \in {"create", "create2"} /\ hold[p].reply = Refused
    /\ Goto(p, IF hold[p].pc = "create" THEN "look" ELSE "judge")
    /\ UNCHANGED <<now, entry, last, marker, wire, sent>>

\* the create lost and yet the key is free: it is created again, once
Look(p) ==
    /\ hold[p].pc = "look"
    /\ IF entry = Free THEN Send(p, [hold[p] EXCEPT !.pc = "create2"], 0) ELSE Goto(p, "judge") /\ UNCHANGED wire
    /\ UNCHANGED <<now, entry, last, marker, sent>>

\* slip: an entry is reclaimed without a look at its expiry
JudgeBlindly(p) ==
    /\ hold[p].pc = "judge"
    /\ IF entry = Free
       THEN Abandon(p) /\ UNCHANGED wire
       ELSE Send(p, [hold[p] EXCEPT !.pc = "reclaim"], entry.rev)
    /\ UNCHANGED <<now, entry, last, marker, sent>>

\* an entry that had expired when the attempt started is swapped for its own
Judge(p) ==
    /\ hold[p].pc = "judge"
    /\ IF entry = Free \/ entry.exp > hold[p].start
       THEN Abandon(p) /\ UNCHANGED wire
       ELSE Send(p, [hold[p] EXCEPT !.pc = "reclaim"], entry.rev)
    /\ UNCHANGED <<now, entry, last, marker, sent>>

ReclaimLost(p) ==
    /\ hold[p].pc = "reclaim" /\ hold[p].reply = Refused
    /\ Abandon(p)
    /\ UNCHANGED <<now, entry, last, marker, wire, sent>>

----------------------------------------------------------------------------
(* HeldLease._renew -> refresh_handle, and retake_handle                   *)

\* _mark_lost, unless the lease is over already; a lease that retakes creates its
\* entry again first
Lose(p, h, why) ==
    IF p \in Retaking /\ hold[p].pc # "retake"
    THEN /\ Fresh
         /\ Send(p, [h EXCEPT !.pc = "retake", !.id = sent', !.since = sent', !.flight = sent', !.why = why], 0)
    ELSE /\ Become(p, [h EXCEPT !.pc = "paused", !.fate = IF h.fate = "none" THEN why ELSE h.fate])
         /\ UNCHANGED <<wire, sent>>

\* slip: the deadline moves from when the answer came
RenewedOnReply(p) ==
    /\ hold[p].pc \in {"swap", "reswap", "retake"} /\ hold[p].reply > 0
    /\ Become(p, [hold[p] EXCEPT !.pc = "paused", !.rev = hold[p].reply, !.flight = 0, !.id = 0, !.reply = 0,
                                 !.exp = now + TTL])
    /\ UNCHANGED <<now, entry, last, marker, wire, sent>>

\* slip: a renewal that succeeds after the loss was reported takes it back
RenewedRevives(p) ==
    /\ hold[p].pc \in {"swap", "reswap", "retake"} /\ hold[p].reply > 0
    /\ Become(p, [hold[p] EXCEPT !.pc = "paused", !.rev = hold[p].reply, !.flight = 0, !.id = 0, !.reply = 0,
                                 !.exp = hold[p].start + TTL, !.fate = "none"])
    /\ UNCHANGED <<now, entry, last, marker, wire, sent>>

\* the renewal in hand succeeded: the deadline moves from where it started
Renewed(p) ==
    /\ hold[p].pc \in {"swap", "reswap", "retake"} /\ hold[p].reply > 0
    /\ Become(p, [hold[p] EXCEPT !.pc = "paused", !.rev = hold[p].reply, !.flight = 0, !.id = 0, !.reply = 0,
                                 !.exp = hold[p].start + TTL])
    /\ UNCHANGED <<now, entry, last, marker, wire, sent>>

StartRenewal(p) ==
    /\ hold[p].pc = "paused" /\ hold[p].fate = "none"
    /\ now < hold[p].exp \/ p \in Retaking
    /\ Become(p, [hold[p] EXCEPT !.pc = "read", !.start = now])
    /\ UNCHANGED <<now, entry, last, marker, wire, sent>>

\* max_hold: it has held long enough, and the TTL hands the key on
HeldTooLong(p) ==
    /\ hold[p].pc = "paused" /\ hold[p].fate = "none"
    /\ Become(p, [hold[p] EXCEPT !.fate = "max_hold"])
    /\ UNCHANGED <<now, entry, last, marker, wire, sent>>

\* slip: a renewal does not recognise its own unanswered write
ReadForgets(p) ==
    /\ hold[p].pc = "read"
    /\ \/ entry = Free /\ Lose(p, hold[p], "expired")
       \/ entry # Free /\ entry.holder # p /\ Lose(p, hold[p], "taken")
       \/ /\ entry.holder = p
          /\ Fresh
          /\ Send(p, [hold[p] EXCEPT !.pc = "swap", !.old = 0, !.id = sent', !.flight = sent'], hold[p].rev)
    /\ UNCHANGED <<now, entry, last, marker>>

\* the entry is this holder's: a write of its own it never heard of is adopted
Read(p) ==
    /\ hold[p].pc = "read"
    /\ LET h == hold[p]
           own == entry.rev # h.rev /\ (p \in Retaking \/ entry.id = h.flight)
       IN  \/ entry = Free /\ Lose(p, h, "expired")
           \/ entry # Free /\ entry.holder # p /\ Lose(p, h, "taken")
           \/ /\ entry.holder = p
              /\ Fresh
              /\ Send(p, [h EXCEPT !.pc = "swap", !.rev = IF own THEN entry.rev ELSE h.rev,
                                   !.old = IF own THEN 0 ELSE h.flight, !.id = sent', !.flight = sent'],
                      IF own THEN entry.rev ELSE h.rev)
    /\ UNCHANGED <<now, entry, last, marker>>

\* refused, and an earlier write of this handle is unanswered: perhaps that one landed
SwapLost(p) ==
    /\ hold[p].pc = "swap" /\ hold[p].reply = Refused
    /\ IF hold[p].old # 0
       THEN Become(p, [hold[p] EXCEPT !.pc = "reread", !.flight = hold[p].old]) /\ UNCHANGED <<wire, sent>>
       ELSE Lose(p, [hold[p] EXCEPT !.flight = 0], "taken")
    /\ UNCHANGED <<now, entry, last, marker>>

Reread(p) ==
    /\ hold[p].pc = "reread"
    /\ IF entry.holder = p /\ entry.id = hold[p].old
       THEN /\ Send(p, [hold[p] EXCEPT !.pc = "reswap", !.rev = entry.rev, !.flight = hold[p].id], entry.rev)
            /\ UNCHANGED sent
       ELSE Lose(p, hold[p], "taken")
    /\ UNCHANGED <<now, entry, last, marker>>

ReswapLost(p) ==
    /\ hold[p].pc = "reswap" /\ hold[p].reply = Refused
    /\ Lose(p, [hold[p] EXCEPT !.flight = 0], "taken")
    /\ UNCHANGED <<now, entry, last, marker>>

RetakeLost(p) ==
    /\ hold[p].pc = "retake" /\ hold[p].reply = Refused
    /\ Lose(p, [hold[p] EXCEPT !.flight = 0], hold[p].why)
    /\ UNCHANGED <<now, entry, last, marker>>

\* _on_expired: the entry could have expired by now
Expire(p) ==
    /\ hold[p].pc \in Renewing /\ hold[p].fate = "none" /\ p \notin Retaking
    /\ now >= hold[p].exp
    /\ Become(p, [hold[p] EXCEPT !.fate = "unrenewed"])
    /\ UNCHANGED <<now, entry, last, marker, wire, sent>>

----------------------------------------------------------------------------
(* HeldLease.release, KVLease.close -> release_handle                      *)

\* from here on the holder acts no more; a renewal in flight is waited for
Release(p) ==
    /\ hold[p].pc \in Renewing /\ hold[p].fate = "none"
    /\ Become(p, [hold[p] EXCEPT !.fate = "released"])
    /\ UNCHANGED <<now, entry, last, marker, wire, sent>>

EndRenewal(p) ==
    /\ hold[p].pc = "paused" /\ hold[p].fate # "none"
    /\ Goto(p, "check")
    /\ UNCHANGED <<now, entry, last, marker, wire, sent>>

\* slip: a release does not recognise its own unanswered write
CheckForgets(p) ==
    /\ hold[p].pc = "check"
    /\ IF entry.holder # p
       THEN Abandon(p) /\ UNCHANGED wire
       ELSE Send(p, [hold[p] EXCEPT !.pc = "delete", !.id = 0], hold[p].rev)
    /\ UNCHANGED <<now, entry, last, marker, sent>>

\* an entry of this holder's is deleted at the revision that is this handle's
Check(p) ==
    /\ hold[p].pc = "check"
    /\ LET h == hold[p]
           own == entry.rev # h.rev /\ h.flight # 0 /\ entry.id = h.flight
       IN  IF entry.holder # p
           THEN Abandon(p) /\ UNCHANGED wire
           ELSE Send(p, [h EXCEPT !.pc = "delete", !.id = 0], IF own THEN entry.rev ELSE h.rev)
    /\ UNCHANGED <<now, entry, last, marker, sent>>

Deleted(p) ==
    /\ hold[p].pc = "delete" /\ hold[p].reply # 0
    /\ Abandon(p)
    /\ UNCHANGED <<now, entry, last, marker, wire, sent>>

----------------------------------------------------------------------------
(* Calls that fail, and time                                               *)

\* what a task leaves on the wire when it stops waiting
Leave(p) == wire' = IF Late THEN wire ELSE {m \in wire : m.from # p}

\* KvError, a timeout or a cancellation: a renewal is tried again, anything else ends
CallFails(p) ==
    /\ Losses
    /\ hold[p].pc \notin {"idle", "paused"}
    /\ IF hold[p].pc \in Renewing THEN Become(p, [hold[p] EXCEPT !.pc = "paused", !.id = 0, !.reply = 0]) ELSE Abandon(p)
    /\ Leave(p)
    /\ UNCHANGED <<now, entry, last, marker, sent>>

\* the process dies
Crash(p) ==
    /\ Losses
    /\ hold[p].pc # "idle"
    /\ Abandon(p)
    /\ Leave(p)
    /\ UNCHANGED <<now, entry, last, marker, sent>>

\* a timer that is due fires before time moves on
Tick ==
    /\ now < MaxTime
    /\ \A p \in Pods : hold[p].pc \in Renewing /\ hold[p].fate = "none" /\ p \notin Retaking => now < hold[p].exp
    /\ now' = now + 1
    /\ UNCHANGED <<entry, last, marker, wire, hold, sent>>

Init ==
    /\ now = 0
    /\ entry = Free
    /\ last = 0
    /\ marker = FALSE
    /\ wire = {}
    /\ hold = [p \in Pods |-> NoHold]
    /\ sent = 0

AttemptStep(p) == Attempt(p) \/ Acquired(p) \/ CreateLost(p) \/ Look(p) \/ Judge(p) \/ ReclaimLost(p)

RenewStep(p) ==
    \/ StartRenewal(p) \/ HeldTooLong(p) \/ Read(p) \/ Renewed(p) \/ SwapLost(p) \/ Reread(p) \/ ReswapLost(p)
    \/ RetakeLost(p) \/ Expire(p)

ReleaseStep(p) == Release(p) \/ EndRenewal(p) \/ Check(p) \/ Deleted(p)

Next ==
    \/ \E p \in Pods : AttemptStep(p) \/ RenewStep(p) \/ ReleaseStep(p) \/ CallFails(p) \/ Crash(p)
    \/ \E m \in wire : Lands(m) \/ Bounces(m)
    \/ Lapses
    \/ Tick

Spec == Init /\ [][Next]_vars

----------------------------------------------------------------------------
(* Properties                                                              *)

Fates == {"none", "released", "taken", "expired", "unrenewed", "max_hold"}

HoldType ==
    [pc : Renewing \cup Waiting \cup {"idle", "look", "judge", "check"}, since : Nat, rev : Nat, exp : Nat, start : Nat,
     id : Nat, flight : Nat, old : Nat, reply : Int, tries : Nat, why : Fates, fate : Fates]

WriteType == [from : Pods, kind : {"create", "put", "delete"}, rev : Nat, id : Nat, since : Nat, exp : Nat]

\* Every variable has the shape the code gives it.
TypeOK ==
    /\ now \in Nat /\ last \in Nat /\ sent \in Nat /\ marker \in BOOLEAN
    /\ entry \in [holder : Pods \cup {Nobody}, since : Nat, id : Nat, exp : Nat, lapse : Nat, rev : Nat]
    /\ wire \subseteq WriteType
    /\ hold \in [Pods -> HoldType]

\* As long as a holder may act (not lost, not released, and ahead of its timer) the
\* entry in the bucket is its own and outlasts that timer: an entry is assumed alive
\* only from the start of the renewal that extended it (HeldLease).
EntryOutlivesHold == \A p \in Pods : Acts(p) => entry.holder = p /\ entry.exp >= hold[p].exp

\* Two pods never both act as the holder of the key.
MutualExclusion == \A p, q \in Pods : Acts(p) /\ Acts(q) => p = q

\* HeldLease as its user sees it: not yet taken, or over; held; past its deadline; reported lost
Standing(p) ==
    IF Acts(p) THEN "held"
    ELSE IF hold[p].pc \in Renewing /\ hold[p].fate = "none" THEN "lapsed"
    ELSE IF hold[p].pc \in Renewing \cup {"check", "delete"} THEN "lost" ELSE "out"

L == INSTANCE Lease WITH stand <- [p \in Pods |-> Standing(p)]

\* The bucket protocol implements the lease its users rely on: every step of entries, revisions,
\* timers and answers is a step of Lease, or none; nobody comes to hold it while another does, and
\* a loss once reported stands (HeldLease.lost is "never cleared").
ImplementsLease == L!Spec

\* A lease is reported taken only when the entry is no longer this holding's ("only
\* another holder's write moves the entry on between the read and the swap").
TakenMeansTaken ==
    [][\A p \in Pods \ Retaking :
          hold[p].fate = "none" /\ hold'[p].fate = "taken" => entry.since # hold[p].since]_vars

\* A lease that retakes its entry is refused it only where the key is taken ("Only an
\* entry another holder is on loses the lease").
RetakeRefusedByAnEntry ==
    [][\A p \in Retaking : hold[p].pc = "retake" /\ hold[p].reply = 0 /\ hold'[p].reply = Refused => entry # Free]_vars

\* A release whose delete is refused leaves no entry of its own behind: the handle
\* knew the revision of its last write, or recognised it (in_flight_value).
RefusedReleaseOwnsNothing ==
    \A p \in Pods \ Retaking : hold[p].pc = "delete" /\ hold[p].reply = Refused => entry.since # hold[p].since
=============================================================================

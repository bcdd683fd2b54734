---------------------------- MODULE OrderedSwap ----------------------------
(***************************************************************************)
(* BaseCollection.l2_cas_mutate on a collection with an L3 pool: one row,  *)
(* swapped at its L2 revision by operations on several pods, and written   *)
(* to L3 fenced on the order (epoch, revision) the swap won, before the    *)
(* call returns or through a WriteBuffer that a PeriodicFlusher drains.    *)
(* The broker may restart with an empty bucket whose revisions begin again *)
(* (core.collections.base, flush, l2_order; core.coordination.flusher).    *)
(* A row's value is the set of operations whose change it carries.         *)
(***************************************************************************)
EXTENDS Naturals

CONSTANTS
    Pods,
    Ops,          \* each makes one mutation
    Home,         \* the pod an operation runs on
    Mortal,       \* the pods whose collection may be closed or whose process may die
    Policies,     \* among TRUE (l3_write_policy "write_behind") and FALSE ("synchronous")
    Faults,       \* what may go wrong, among AllFaults
    MaxFaults,
    MaxWipes,     \* how often the broker restarts empty
    MaxRetries,   \* _MAX_FLUSH_RETRIES
    Nobody

AllFaults == {"persist",     \* a write to L3 raises; it may have landed
              "call",        \* a read of a mutation, or its swap, raises; the swap may have landed
              "withdraw",    \* the delete that takes a swap back raises
              "close",       \* the collection is closed, a flush of its flusher cancelled
              "crash"}       \* a process dies

ASSUME SwapAssumption ==
    /\ Home \in [Ops -> Pods] /\ Mortal \subseteq Pods
    /\ Policies \subseteq BOOLEAN
    /\ Faults \subseteq AllFaults
    /\ MaxFaults \in Nat /\ MaxWipes \in Nat /\ MaxRetries \in Nat
    /\ Nobody \notin Ops

VARIABLES
    deferred,   \* the collection's policy
    bucket,     \* its creation time, the last revision it gave, and how often the key has gone from it
    l2,         \* the row's entry; revision 0 when there is none
    l3,         \* the row L3 holds, with its order
    known,      \* pod -> the creation time it remembers (_l2_epoch_read), 0 for none
    op,         \* operation -> where its l2_cas_mutate is
    buf,        \* pod -> the write waiting in its buffer
    claimed,    \* pod -> that write is in flight
    flusher,    \* <<pod, part>> -> where a flush is: the loop's, or that of a flusher being closed
    lost,       \* operations whose change may be missing from L3, by what took it
    shown,      \* operations whose change others were shown, or may be though the call fails
    faults

vars == <<deferred, bucket, l2, l3, known, op, buf, claimed, flusher, lost, shown, faults>>

NoEntry == [rev |-> 0, val |-> {}, by |-> Nobody]
NoWrite == [epoch |-> 0, rev |-> 0, val |-> {}, retries |-> 0]

NewOp == [pc |-> "new",
          epoch |-> 0,      \* the bucket's creation time as read before the swap
          rev |-> 0,        \* the revision read, 0 when the key was absent
          val |-> {},       \* the row read, then the row written
          read |-> 0,       \* how often the key had gone by then
          won |-> 0,        \* the bucket the swap won in
          now |-> 0]        \* the creation time read after the swap

NoFlush == [pc |-> "off", w |-> NoWrite]
Parts == {"loop", "close"}
Flushers == Pods \X Parts

Fault(kind) == kind \in Faults /\ faults < MaxFaults /\ faults' = faults + 1

\* the fault that brought the code here lasts
Outage == "persist" \in Faults /\ UNCHANGED faults

\* L2Order: a later bucket after every revision of an earlier one
Older(x, y) == x.epoch < y.epoch \/ (x.epoch = y.epoch /\ x.rev < y.rev)

\* upsert_ordered: a row lands only over a strictly older one
Landed(w) == IF Older(l3, w) THEN [epoch |-> w.epoch, rev |-> w.rev, val |-> w.val] ELSE l3

Step(o, r) == op' = [op EXCEPT ![o] = r]
Goto(o, pc) == Step(o, [op[o] EXCEPT !.pc = pc])
End(o, pc) == Step(o, [NewOp EXCEPT !.pc = pc])

\* what L3 does not have for good of a row that goes
Missing(kind, val) == lost' = [lost EXCEPT ![kind] = @ \cup (val \ (l3.val \ lost.undated))]

----------------------------------------------------------------------------
(* l2_cas_mutate up to the swap                                            *)

\* _l2_epoch: the creation time this pod remembers, or a fresh read
Begin(o) ==
    LET p == Home[o]
        epoch == IF known[p] # 0 THEN known[p] ELSE bucket.epoch
    IN  /\ op[o].pc = "new"
        /\ Step(o, [op[o] EXCEPT !.pc = "read", !.epoch = epoch])
        /\ known' = [known EXCEPT ![p] = epoch]
        /\ UNCHANGED <<deferred, bucket, l2, l3, buf, claimed, flusher, lost, shown, faults>>

Read(o) ==
    /\ op[o].pc = "read"
    /\ Step(o, [op[o] EXCEPT !.pc = IF l2.rev = 0 THEN "seed" ELSE "swap", !.rev = l2.rev, !.val = l2.val,
                             !.read = bucket.gone])
    /\ UNCHANGED <<deferred, bucket, l2, l3, known, buf, claimed, flusher, lost, shown, faults>>

\* L2 holds no live row: L3's is mutated; an order later than the bucket's is looked into
Seed(o) ==
    /\ op[o].pc = "seed"
    /\ Step(o, [op[o] EXCEPT !.pc = IF l3.epoch > op[o].epoch THEN "epoch" ELSE "swap", !.val = l3.val])
    /\ UNCHANGED <<deferred, bucket, l2, l3, known, buf, claimed, flusher, lost, shown, faults>>

\* _refuse_regressed_epoch: what was remembered is too low
ReadEpoch(o) ==
    /\ op[o].pc = "epoch"
    /\ Step(o, [op[o] EXCEPT !.pc = "swap", !.epoch = bucket.epoch])
    /\ known' = [known EXCEPT ![Home[o]] = bucket.epoch]
    /\ UNCHANGED <<deferred, bucket, l2, l3, buf, claimed, flusher, lost, shown, faults>>

\* create where the key was absent, else update at the revision read; one that read before
\* the key went, and wins after, replaces what it never saw. Its row shows what it was built on,
\* which until then another call may have to take back
Swap(o) ==
    LET row == op[o].val \cup {o}
        won == bucket.seq + 1
    IN  /\ op[o].pc = "swap"
        /\ IF l2.rev = op[o].rev
           THEN /\ l2' = [rev |-> won, val |-> row, by |-> o]
                /\ bucket' = [bucket EXCEPT !.seq = won]
                /\ Step(o, [op[o] EXCEPT !.pc = "won", !.rev = won, !.val = row, !.won = bucket.epoch, !.read = 0])
                /\ lost' = IF op[o].read = bucket.gone THEN lost
                           ELSE [lost EXCEPT !.spanned = @ \cup ((l2.val \cup l3.val) \ row)]
                /\ shown' = shown \cup {x \in op[o].val : op[x].pc # "failed" \/ op[o].read # bucket.gone}
           ELSE Goto(o, "read") /\ UNCHANGED <<l2, bucket, lost, shown>>
        /\ UNCHANGED <<deferred, l3, known, buf, claimed, flusher, faults>>

----------------------------------------------------------------------------
(* The order of a swap that won, and its persist                           *)

\* _won_order: the creation time is read again
WonOrder(o) ==
    /\ op[o].pc = "won"
    /\ known' = [known EXCEPT ![Home[o]] = bucket.epoch]
    /\ IF bucket.epoch = op[o].epoch
       THEN Step(o, [op[o] EXCEPT !.pc = "persist", !.won = 0])
       ELSE Step(o, [op[o] EXCEPT !.pc = "readback", !.now = bucket.epoch])
    /\ UNCHANGED <<deferred, bucket, l2, l3, buf, claimed, flusher, lost, shown, faults>>

\* the bucket was recreated around the swap: it is dated in the new one only if the key still
\* holds it, so a swap of the new one that was built upon by then is dated too early
ReadBack(o) ==
    LET epoch == IF l2.rev = op[o].rev /\ l2.by = o THEN op[o].now ELSE op[o].epoch
    IN  /\ op[o].pc = "readback"
        /\ Step(o, [op[o] EXCEPT !.pc = "persist", !.epoch = epoch, !.now = 0, !.won = 0])
        /\ lost' = IF epoch < op[o].won THEN [lost EXCEPT !.undated = @ \cup op[o].val] ELSE lost
        /\ UNCHANGED <<deferred, bucket, l2, l3, known, buf, claimed, flusher, shown, faults>>

\* a call raises, outside what withdraws a swap: before the swap nothing was written, after it (a
\* swap that landed and raised included) L2 keeps a row nobody persists
CallFails(o) ==
    LET kept == op[o].pc \in {"won", "readback"}
    IN  /\ op[o].pc \in {"read", "seed", "epoch", "swap", "won", "readback"}
        /\ Fault("call")
        /\ End(o, "failed")
        /\ lost' = IF kept THEN [lost EXCEPT !.halted = @ \cup op[o].val] ELSE lost
        /\ shown' = IF kept THEN shown \cup {o} ELSE shown
        /\ UNCHANGED <<deferred, bucket, l2, l3, known, buf, claimed, flusher>>

\* save_ordered_to_store; refused for a newer order, the later swap carries it (_confirm_superseded)
Persist(o) ==
    /\ op[o].pc = "persist" /\ ~deferred
    /\ l3' = Landed(op[o])
    /\ End(o, "done")
    /\ UNCHANGED <<deferred, bucket, l2, known, buf, claimed, flusher, lost, shown, faults>>

PersistFails(o) ==
    /\ op[o].pc = "persist" /\ ~deferred
    /\ Fault("persist")
    /\ l3' \in {l3, Landed(op[o])}
    /\ shown' = shown \cup ({o} \cap l3'.val)
    /\ Goto(o, "withdraw")
    /\ UNCHANGED <<deferred, bucket, l2, known, buf, claimed, flusher, lost>>

\* slip: a failed persist leaves the swap where it won
WithdrawNothing(o) ==
    /\ op[o].pc = "withdraw"
    /\ End(o, "failed")
    /\ UNCHANGED <<deferred, bucket, l2, l3, known, buf, claimed, flusher, lost, shown, faults>>

\* _withdraw_unpersisted_cas: the key is deleted at the revision won, with all its row carries;
\* or another row is there, for the most part a later swap that built on it; or the delete raises
\* and the key keeps it. The call is reported failed in each
Withdraw(o) ==
    /\ op[o].pc = "withdraw"
    /\ \/ /\ l2.rev = op[o].rev
          /\ l2' = NoEntry
          /\ bucket' = [bucket EXCEPT !.seq = @ + 1, !.gone = @ + 1]
          /\ Missing("withdrawn", l2.val)
          /\ UNCHANGED shown
       \/ /\ l2.rev # op[o].rev
          /\ UNCHANGED <<l2, bucket, lost, shown>>
       \/ /\ "withdraw" \in Faults
          /\ lost' = [lost EXCEPT !.halted = @ \cup op[o].val]
          /\ shown' = shown \cup {o}
          /\ UNCHANGED <<l2, bucket>>
    /\ End(o, "failed")
    /\ UNCHANGED <<deferred, l3, known, buf, claimed, flusher, faults>>

----------------------------------------------------------------------------
(* WriteBuffer.add, by a write-behind persist                              *)

Pending(o) == [epoch |-> op[o].epoch, rev |-> op[o].rev, val |-> op[o].val, retries |-> 0]

\* _add_locked: an older order than the one that waits is dropped; a newer one takes the claim off
\* its key
Add(o) ==
    LET p == Home[o]
    IN  /\ op[o].pc = "persist" /\ deferred
        /\ IF buf[p] # NoWrite /\ Older(Pending(o), buf[p])
           THEN UNCHANGED <<buf, claimed>>
           ELSE buf' = [buf EXCEPT ![p] = Pending(o)] /\ claimed' = [claimed EXCEPT ![p] = FALSE]
        /\ Goto(o, "arm")
        /\ UNCHANGED <<deferred, bucket, l2, l3, known, flusher, lost, shown, faults>>

\* ensure_flushing: the pod's loop runs, beside a flusher that is still closing
Arm(o) ==
    LET f == <<Home[o], "loop">>
    IN  /\ op[o].pc = "arm"
        /\ flusher' = IF flusher[f].pc = "off" THEN [flusher EXCEPT ![f].pc = "idle"] ELSE flusher
        /\ End(o, "done")
        /\ UNCHANGED <<deferred, bucket, l2, l3, known, buf, claimed, lost, shown, faults>>

----------------------------------------------------------------------------
(* flush_pending, on the loop's interval and once more when it is closed   *)

Flush(f, pc) == flusher' = [flusher EXCEPT ![f].pc = pc]
Rest(f) == flusher' = [flusher EXCEPT ![f] = [pc |-> IF f[2] = "loop" THEN "idle" ELSE "over", w |-> NoWrite]]

Busy(f) == flusher[f].pc \in {"batch", "entity", "ack"}

\* drain: claim what nobody has claimed; a fresh write goes in the atomic batch
Drain(f) ==
    LET p == f[1]
    IN  /\ flusher[f].pc = "idle"
        /\ buf[p] # NoWrite /\ ~claimed[p]
        /\ claimed' = [claimed EXCEPT ![p] = TRUE]
        /\ flusher' = [flusher EXCEPT ![f] = [pc |-> IF buf[p].retries = 0 THEN "batch" ELSE "entity", w |-> buf[p]]]
        /\ UNCHANGED <<deferred, bucket, l2, l3, known, op, buf, lost, shown, faults>>

\* slip: a flush does not look at the order
FlushUnfenced(f) ==
    LET w == flusher[f].w
    IN  /\ flusher[f].pc \in {"batch", "entity"}
        /\ l3' = [epoch |-> w.epoch, rev |-> w.rev, val |-> w.val]
        /\ Flush(f, "ack")
        /\ UNCHANGED <<deferred, bucket, l2, known, op, buf, claimed, lost, shown, faults>>

\* persist_to_store: landed or superseded, the durable tier answered
FlushWrite(f) ==
    /\ flusher[f].pc \in {"batch", "entity"}
    /\ l3' = Landed(flusher[f].w)
    /\ Flush(f, "ack")
    /\ UNCHANGED <<deferred, bucket, l2, known, op, buf, claimed, lost, shown, faults>>

\* slip: whatever the key holds is evicted
AckAnything(f) ==
    /\ flusher[f].pc = "ack"
    /\ buf' = [buf EXCEPT ![f[1]] = NoWrite]
    /\ claimed' = [claimed EXCEPT ![f[1]] = FALSE]
    /\ Rest(f)
    /\ UNCHANGED <<deferred, bucket, l2, l3, known, op, lost, shown, faults>>

\* ack: evicted while the key is claimed, by this flush or by the other
Ack(f) ==
    LET p == f[1]
    IN  /\ flusher[f].pc = "ack"
        /\ IF claimed[p]
           THEN /\ buf' = [buf EXCEPT ![p] = NoWrite]
                /\ claimed' = [claimed EXCEPT ![p] = FALSE]
                /\ IF Older(flusher[f].w, buf[p]) THEN Missing("evicted", buf[p].val) ELSE UNCHANGED lost
           ELSE UNCHANGED <<buf, claimed, lost>>
        /\ Rest(f)
        /\ UNCHANGED <<deferred, bucket, l2, l3, known, op, shown, faults>>

\* re_enqueue: a claimed write that failed waits for the next flush, unless a newer one does
ReEnqueue(p, w) ==
    /\ buf' = IF claimed[p] /\ ~Older(w, buf[p]) THEN [buf EXCEPT ![p] = [w EXCEPT !.retries = @ + 1]] ELSE buf
    /\ claimed' = IF Older(w, buf[p]) THEN claimed ELSE [claimed EXCEPT ![p] = FALSE]

\* a batch that fails is written again one by one; a write that fails is queued again, or given up
\* when it has failed too often
FlushFails(f) ==
    LET w == flusher[f].w
    IN  /\ flusher[f].pc \in {"batch", "entity"}
        /\ l3' \in {l3, Landed(w)}
        /\ \/ /\ flusher[f].pc = "batch"
              /\ Fault("persist")
              /\ Flush(f, "entity")
              /\ UNCHANGED <<buf, claimed, lost>>
           \/ /\ flusher[f].pc = "entity" /\ w.retries + 1 < MaxRetries /\ Outage
              /\ ReEnqueue(f[1], w)
              /\ Rest(f)
              /\ UNCHANGED lost
           \/ /\ flusher[f].pc = "entity" /\ w.retries + 1 >= MaxRetries /\ Outage
              /\ Flush(f, "ack")
              /\ Missing("dropped", w.val)
              /\ UNCHANGED <<buf, claimed>>
        /\ UNCHANGED <<deferred, bucket, l2, known, op, shown>>

\* aclose: the loop is stopped, a flush it was in cancelled where it is, and the buffer is to be
\* flushed once more
Close(p) ==
    LET loop == <<p, "loop">>
    IN  /\ flusher[loop].pc # "off" /\ flusher[<<p, "close">>].pc = "off"
        /\ Fault("close")
        /\ l3' \in {l3} \cup {Landed(w) : w \in IF Busy(loop) THEN {flusher[loop].w} ELSE {}}
        /\ flusher' = [flusher EXCEPT ![loop] = NoFlush, ![<<p, "close">>].pc = "idle"]
        /\ UNCHANGED <<deferred, bucket, l2, known, op, buf, claimed, lost, shown>>

\* no flush will take what the buffer holds
Stuck(p) ==
    LET loop == flusher[<<p, "loop">>]
    IN  /\ buf[p] # NoWrite
        /\ IF claimed[p] THEN ~(Busy(<<p, "loop">>) /\ loop.w = buf[p])
           ELSE loop.pc = "off" /\ \A o \in Ops : ~(Home[o] = p /\ op[o].pc = "arm")

\* the final flush is over, or found nothing it could claim
Closed(p) ==
    LET close == <<p, "close">>
    IN  /\ flusher[close].pc = "over" \/ (flusher[close].pc = "idle" /\ (buf[p] = NoWrite \/ claimed[p]))
        /\ Flush(close, "off")
        /\ Missing("unflushed", IF Stuck(p) THEN buf[p].val ELSE {})
        /\ UNCHANGED <<deferred, bucket, l2, l3, known, op, buf, claimed, shown, faults>>

----------------------------------------------------------------------------
(* The broker and the processes                                            *)

\* the bucket comes back empty, its revisions from the start; what only L2 had is lost
Wipe ==
    /\ bucket.epoch <= MaxWipes
    /\ bucket' = [epoch |-> bucket.epoch + 1, seq |-> 0, gone |-> bucket.gone + 1]
    /\ l2' = NoEntry
    /\ Missing("wiped", l2.val)
    /\ UNCHANGED <<deferred, l3, known, op, buf, claimed, flusher, shown, faults>>

Running(o) == op[o].pc \notin {"new", "done", "failed", "dead"}

\* the operations of a pod end where they are and answer nobody, and its buffer with them
Crash(p) ==
    LET ending == {o \in Ops : Home[o] = p /\ Running(o)}
        won == {o \in ending : op[o].pc \in {"won", "readback", "persist", "withdraw"}}
    IN  /\ Fault("crash")
        /\ op' = [o \in Ops |-> IF o \in ending THEN [NewOp EXCEPT !.pc = "dead"] ELSE op[o]]
        /\ buf' = [buf EXCEPT ![p] = NoWrite]
        /\ claimed' = [claimed EXCEPT ![p] = FALSE]
        /\ flusher' = [f \in Flushers |-> IF f[1] = p THEN NoFlush ELSE flusher[f]]
        /\ known' = [known EXCEPT ![p] = 0]
        /\ lost' = [lost EXCEPT !.crashed = @ \cup (buf[p].val \ (l3.val \ lost.undated)),
                                !.halted = @ \cup UNION {op[o].val : o \in won}]
        /\ UNCHANGED <<deferred, bucket, l2, l3, shown>>

----------------------------------------------------------------------------

\* what takes a change from L2 before L3 has it, and what takes it on its way from the buffer
KeyLosses == {"wiped", "spanned", "withdrawn"}
BufferLosses == {"crashed", "evicted", "dropped", "unflushed"}

\* the rows _won_order dated too early, and those of swaps that won and whose call went no further
RowNotes == {"undated", "halted"}

Init ==
    /\ deferred \in Policies
    /\ bucket = [epoch |-> 1, seq |-> 0, gone |-> 0]
    /\ l2 = NoEntry
    /\ l3 = [epoch |-> 0, rev |-> 0, val |-> {}]
    /\ known = [p \in Pods |-> 0]
    /\ op = [o \in Ops |-> NewOp]
    /\ buf = [p \in Pods |-> NoWrite]
    /\ claimed = [p \in Pods |-> FALSE]
    /\ flusher = [f \in Flushers |-> NoFlush]
    /\ lost = [kind \in KeyLosses \cup BufferLosses \cup RowNotes |-> {}]
    /\ shown = {}
    /\ faults = 0

OpStep(o) ==
    \/ Read(o) \/ Seed(o) \/ ReadEpoch(o) \/ Swap(o) \/ WonOrder(o) \/ ReadBack(o) \/ Persist(o)
    \/ Withdraw(o) \/ Add(o) \/ Arm(o)

FlushStep(p) == (\E k \in Parts : Drain(<<p, k>>) \/ FlushWrite(<<p, k>>) \/ Ack(<<p, k>>)) \/ Closed(p)

Next ==
    \/ \E o \in Ops : Begin(o) \/ OpStep(o) \/ CallFails(o) \/ PersistFails(o)
    \/ \E p \in Pods : FlushStep(p)
    \/ \E p \in Mortal : Close(p) \/ Crash(p)
    \/ \E f \in Flushers : FlushFails(f)
    \/ Wipe

Spec == Init /\ [][Next]_vars

\* a call is answered, and a flusher goes on flushing
Fairness == (\A o \in Ops : WF_vars(OpStep(o))) /\ (\A p \in Pods : WF_vars(FlushStep(p)))

FairSpec == Spec /\ Fairness

----------------------------------------------------------------------------
(* Properties                                                              *)

AnyLoss == UNION {lost[kind] : kind \in KeyLosses \cup BufferLosses}

\* the row the next mutation starts from
Current == IF l2.rev = 0 THEN l3.val ELSE l2.val

\* What has reached L3 stays there at every step, whatever order swaps, persists and flushes of
\* several pods come in and though revisions begin again ("never goes back to an earlier one").
\* The exceptions: a row L2 alone had as it was wiped or withdrawn, which may land late and be
\* replaced; what a swap replaced that read before the key went and won after (spanned); and a row
\* dated too early by _won_order, which the later swap brings back. For a spanned row l2_cas_mutate
\* does not keep its word that "nothing that reached L3 is lost" (ReachedIsKept).
DurableStays == [][l3.val \subseteq l3'.val \cup UNION {lost'[kind] : kind \in KeyLosses \cup {"undated"}}]_vars

\* A mutation reported done reaches L3 and stays, in its own row or one that built on it, unless it
\* was lost: a persist refused for a newer order is superseded by "a later swap -- which built on
\* this one", and one dated too early has "a later swap in the new stream" that "carries it into
\* L3", unless that later swap's call ended before its persist (halted).
DoneLands == <>[](\A o \in Ops : op[o].pc = "done" => o \in l3.val \cup AnyLoss \cup (lost.undated \cap lost.halted))

\* The same of a change dated too early, whoever's call ended.
LaterSwapCarries == <>[](\A o \in Ops : op[o].pc = "done" => o \in l3.val \cup AnyLoss)

\* A mutation reported failed is not in the row a retry starts from, neither in L2 nor, where L2 has
\* none, in L3 ("so a retry does not see a write it was told failed"), whatever stale reads, later
\* swaps and flushes there are. The exceptions (shown): another swap built on it first, as
\* _withdraw_unpersisted_cas says; its persist raised and had landed; the swap, a read of its order
\* or the delete that takes it back raised, and L2 keeps it; or a swap that had read it from before
\* the key went wins at a revision that was given again.
FailedIsWithdrawn == \A o \in Ops : op[o].pc = "failed" => o \notin Current \/ o \in shown

\* The same without exceptions.
FailedIsUnseen == \A o \in Ops : op[o].pc = "failed" => o \notin Current

\* A mutation reported done is in L3 for good, but for one that a wipe found in L2 alone: "with an
\* L3 pool behind it an absent L2 entry is always a correct state".
AbsentIsCorrect == <>[](\A o \in Ops : op[o].pc = "done" => o \in l3.val \cup lost.wiped)

\* A collection that was closed leaves nothing in its buffer: "the final flush is the difference
\* between a clean shutdown losing nothing and losing one interval".
CloseLosesNothing == lost.unflushed = {}

\* What L3 had when L2 lost the key stays: "When L2 then loses the key, the next mutation continues
\* from that row, so nothing that reached L3 is lost".
ReachedIsKept == [][l3.val \subseteq l3'.val \cup lost'.wiped \cup lost'.withdrawn \cup lost'.undated]_vars

\* An acknowledgement never evicts a newer row than the one it is for: "a stale ack / re_enqueue can
\* never clobber that newer value".
AckSparesNewer == lost.evicted = {}
=============================================================================

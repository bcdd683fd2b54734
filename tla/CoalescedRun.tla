---------------------------- MODULE CoalescedRun ----------------------------
(***************************************************************************)
(* CoalescedRun (core.coordination.coalesced_run): an operation that one   *)
(* replica runs at a time, under a lease, while a request for it is        *)
(* recorded in the lease's bucket. Requests made during a run are one more *)
(* run. The lease is what Lease promises, which KVLease implements.        *)
(* A step is one call on the bucket or the lease, with the code up to the  *)
(* next one.                                                               *)
(***************************************************************************)
EXTENDS Naturals

CONSTANTS
    Pods,         \* the replicas
    Scheduled,    \* those that drain on a schedule too
    Faults,       \* what may go wrong, among AllFaults
    MaxSignals,   \* how many requests are made
    MaxFaults     \* how often something goes wrong

AllFaults == {"lose",         \* the lease passes its deadline, or is reported lost
              "interrupt",    \* the drain is cancelled, or one of its calls raises
              "fail",         \* the operation raises
              "release",      \* the delete of the lease's entry fails: it stays for its TTL
              "unanswered",   \* a delete lands and its answer does not come
              "unasked",      \* asking again fails
              "crash"}        \* the process dies

ASSUME RunAssumption ==
    /\ Scheduled \subseteq Pods
    /\ Faults \subseteq AllFaults
    /\ MaxSignals \in Nat /\ MaxFaults \in Nat

VARIABLES
    stand,      \* pod -> where it stands with the lease (Lease)
    left,       \* an entry nobody renews is still in the lease's key
    asked,      \* the revision of the recorded request, 0 when there is none
    last,       \* the last revision given
    pc,         \* pod -> where its drain is
    rev,        \* pod -> the revision of the request it read
    from,       \* pod -> how many requests had been made when it took the one it runs
    made,       \* how many requests have been made
    done,       \* how many of them a run has been made for, from after the request to its end
    gone,       \* how many of them a taken request stood for that was never run nor asked again
    cut,        \* a drain ended by an exception, and none has found a request since
    barred,     \* a drain was refused by an entry nobody holds, and none has found a request since
    faults      \* how often something has gone wrong

vars == <<stand, left, asked, last, pc, rev, from, made, done, gone, cut, barred, faults>>

LS == INSTANCE Lease

Goto(p, step) == pc' = [pc EXCEPT ![p] = step]

Fault(kind) == kind \in Faults /\ faults < MaxFaults /\ faults' = faults + 1

\* put: whatever was recorded, a request of a revision of its own is now
Ask == asked' = last + 1 /\ last' = last + 1

AtLeast(n, m) == IF n > m THEN n ELSE m

\* a request has been taken, and neither run to the end nor asked again
Charged == {"run", "stop", "asking"}

\* p's entry stays in the lease's key for its TTL, unless another's is there by now
Abandon(p) == left' = (left \/ \A q \in Pods \ {p} : stand[q] # "held")

\* the operation may be writing
Working(p) == pc[p] \in {"run", "stop", "ending"}

----------------------------------------------------------------------------
(* request, and drain -> drain_results                                     *)

\* a signal: the request is recorded, and its pod drains
Signal(p) ==
    /\ pc[p] = "idle" /\ made < MaxSignals
    /\ Ask
    /\ made' = made + 1
    /\ Goto(p, "look")
    /\ UNCHANGED <<stand, left, rev, from, done, gone, cut, barred, faults>>

ScheduledDrain(p) ==
    /\ p \in Scheduled
    /\ pc[p] = "idle"
    /\ Goto(p, "look")
    /\ UNCHANGED <<stand, left, asked, last, rev, from, made, done, gone, cut, barred, faults>>

\* requested(), before the first hold and after each release
Look(p) ==
    /\ pc[p] = "look"
    /\ IF asked = 0
       THEN Goto(p, "idle") /\ UNCHANGED <<cut, barred>>
       ELSE Goto(p, "hold") /\ cut' = FALSE /\ barred' = FALSE
    /\ UNCHANGED <<stand, left, asked, last, rev, from, made, done, gone, faults>>

Hold(p) ==
    /\ pc[p] = "hold"
    /\ ~left
    /\ LS!Take(p)
    /\ Goto(p, "read")
    /\ UNCHANGED <<left, asked, last, rev, from, made, done, gone, cut, barred, faults>>

HoldLate(p) ==
    /\ pc[p] = "hold"
    /\ LS!TakeLate(p)
    /\ Fault("lose")
    /\ Goto(p, "read")
    /\ UNCHANGED <<left, asked, last, rev, from, made, done, gone, cut, barred>>

\* LeaseUnavailable: an entry is in the key, a replica's that drains or one nobody holds any more;
\* the drain cannot tell, and returns as if another ran what was asked
Refused(p) ==
    /\ pc[p] = "hold"
    /\ left \/ \E q \in Pods \ {p} : stand[q] # "out"
    /\ barred' = (barred \/ \A q \in Pods \ {p} : stand[q] = "out")
    /\ Goto(p, "idle")
    /\ UNCHANGED <<stand, left, asked, last, rev, from, made, done, gone, cut, faults>>

----------------------------------------------------------------------------
(* _take                                                                   *)

Read(p) ==
    /\ pc[p] = "read"
    /\ rev' = [rev EXCEPT ![p] = asked]
    /\ Goto(p, IF asked = 0 THEN "release" ELSE "delete")
    /\ UNCHANGED <<stand, left, asked, last, from, made, done, gone, cut, barred, faults>>

\* the delete at the revision read lands
Taken(p) ==
    /\ asked = rev[p]
    /\ asked' = 0
    /\ last' = last + 1

Take(p) ==
    /\ pc[p] = "delete"
    /\ Taken(p)
    /\ from' = [from EXCEPT ![p] = made]
    /\ Goto(p, "run")
    /\ UNCHANGED <<stand, left, rev, made, done, gone, cut, barred, faults>>

\* slip: a refused delete is tried again at the revision it was refused at
TakeRefusedRetries(p) ==
    /\ pc[p] = "delete" /\ asked # rev[p]
    /\ UNCHANGED vars

\* refused: the request has been made again, or another pod took it
TakeRefused(p) ==
    /\ pc[p] = "delete" /\ asked # rev[p]
    /\ Goto(p, "read")
    /\ UNCHANGED <<stand, left, asked, last, rev, from, made, done, gone, cut, barred, faults>>

\* the delete landed, and was sent again and refused: the request counts as gone; or it
\* raised, or the drain was cancelled as it waited
TakeUnanswered(p) ==
    /\ pc[p] = "delete"
    /\ Taken(p)
    /\ Fault("unanswered")
    /\ gone' = made
    /\ \E step \in {"read", "leave"} : Goto(p, step)
    /\ UNCHANGED <<stand, left, rev, from, made, done, cut, barred>>

----------------------------------------------------------------------------
(* _run_holding                                                            *)

\* the run ends by itself before a loss is seen; a run that raised ends the drain
Finish(p) ==
    /\ pc[p] = "run"
    /\ done' = AtLeast(from[p], done)
    /\ \/ Goto(p, "read") /\ UNCHANGED faults
       \/ Goto(p, "leave") /\ Fault("fail")
    /\ UNCHANGED <<stand, left, asked, last, rev, from, made, gone, cut, barred>>

\* slip: a stopped run is not asked for again
StopSilently(p) ==
    /\ pc[p] = "run"
    /\ \/ stand[p] = "lost" /\ UNCHANGED faults
       \/ Fault("interrupt")
    /\ Goto(p, "ending")
    /\ UNCHANGED <<stand, left, asked, last, rev, from, made, done, gone, cut, barred>>

\* the loss is seen, or the drain is cancelled: the work is cancelled, and asked for again
Stop(p) ==
    /\ pc[p] = "run"
    /\ \/ stand[p] = "lost" /\ UNCHANGED faults
       \/ Fault("interrupt")
    /\ Goto(p, "stop")
    /\ UNCHANGED <<stand, left, asked, last, rev, from, made, done, gone, cut, barred>>

\* _until_ended waits for both the request and the work; a request that fails is logged
AskAgain(p) ==
    /\ pc[p] \in {"stop", "asking"}
    /\ \/ Ask /\ UNCHANGED <<gone, faults>>
       \/ Fault("unasked") /\ gone' = AtLeast(from[p], gone) /\ UNCHANGED <<asked, last>>
    /\ Goto(p, IF pc[p] = "stop" THEN "ending" ELSE "leave")
    /\ UNCHANGED <<stand, left, rev, from, made, done, cut, barred>>

WorkEnds(p) ==
    /\ pc[p] \in {"stop", "ending"}
    /\ Goto(p, IF pc[p] = "stop" THEN "asking" ELSE "leave")
    /\ UNCHANGED <<stand, left, asked, last, rev, from, made, done, gone, cut, barred, faults>>

----------------------------------------------------------------------------
(* The end of "async with held"                                            *)

\* slip: a drain that found no request is over once it let the lease go
ReleaseAndReturn(p) ==
    /\ pc[p] \in {"release", "leave"}
    /\ LS!Leave(p)
    /\ \/ UNCHANGED <<left, faults>>
       \/ Abandon(p) /\ Fault("release")
    /\ Goto(p, "idle")
    /\ cut' = (cut \/ pc[p] = "leave")
    /\ UNCHANGED <<asked, last, rev, from, made, done, gone, barred>>

\* slip: the lease is let go while the work that was stopped is still ending
ReleaseEarly(p) ==
    /\ pc[p] \in {"release", "leave", "ending"}
    /\ IF stand[p] = "out" THEN UNCHANGED stand ELSE LS!Leave(p)
    /\ Goto(p, IF pc[p] = "release" THEN "look" ELSE IF pc[p] = "leave" THEN "idle" ELSE "ending")
    /\ cut' = (cut \/ pc[p] # "release")
    /\ UNCHANGED <<left, asked, last, rev, from, made, done, gone, barred, faults>>

\* the lease is let go, or its entry left behind, which is contained: after the last request the
\* drain looks again, after an exception it ends
Release(p) ==
    /\ pc[p] \in {"release", "leave"}
    /\ LS!Leave(p)
    /\ \/ UNCHANGED <<left, faults>>
       \/ Abandon(p) /\ Fault("release")
    /\ Goto(p, IF pc[p] = "release" THEN "look" ELSE "idle")
    /\ cut' = (cut \/ pc[p] = "leave")
    /\ UNCHANGED <<asked, last, rev, from, made, done, gone, barred>>

----------------------------------------------------------------------------
(* What the pods do not decide                                             *)

\* the deadline passes, the loss is reported, or a renewal comes just in time
LeaseMoves(p) ==
    /\ \/ LS!Lapse(p) /\ Fault("lose")
       \/ LS!Resume(p) /\ ~left /\ UNCHANGED faults
       \/ LS!Report(p) /\ IF stand[p] = "held" THEN Fault("lose") ELSE UNCHANGED faults
    /\ UNCHANGED <<left, asked, last, pc, rev, from, made, done, gone, cut, barred>>

\* outside a run the drain simply ends, and lets the lease go if it has it; a create that was
\* not answered may have landed, and nobody releases its entry
Interrupt(p) ==
    /\ pc[p] \in {"look", "hold", "read", "delete", "release"}
    /\ Fault("interrupt")
    /\ IF pc[p] \in {"look", "hold"} THEN Goto(p, "idle") /\ cut' = TRUE ELSE Goto(p, "leave") /\ UNCHANGED cut
    /\ UNCHANGED left \/ (pc[p] = "hold" /\ Abandon(p))
    /\ UNCHANGED <<stand, asked, last, rev, from, made, done, gone, barred>>

Crash(p) ==
    /\ pc[p] # "idle"
    /\ Fault("crash")
    /\ IF stand[p] = "out" THEN UNCHANGED stand ELSE LS!Leave(p)
    /\ UNCHANGED left \/ (pc[p] # "look" /\ Abandon(p))
    /\ gone' = IF pc[p] \in Charged THEN AtLeast(from[p], gone) ELSE gone
    /\ Goto(p, "idle")
    /\ cut' = TRUE
    /\ UNCHANGED <<asked, last, rev, from, made, done, barred>>

\* its TTL ends
EntryLapses ==
    /\ left
    /\ left' = FALSE
    /\ UNCHANGED <<stand, asked, last, pc, rev, from, made, done, gone, cut, barred, faults>>

----------------------------------------------------------------------------

Init ==
    /\ LS!Init
    /\ left = FALSE
    /\ asked = 0 /\ last = 0
    /\ pc = [p \in Pods |-> "idle"]
    /\ rev = [p \in Pods |-> 0]
    /\ from = [p \in Pods |-> 0]
    /\ made = 0 /\ done = 0 /\ gone = 0
    /\ cut = FALSE /\ barred = FALSE
    /\ faults = 0

\* the steps a drain takes once it is called
DrainStep(p) ==
    \/ Look(p) \/ Hold(p) \/ Refused(p) \/ Read(p) \/ Take(p) \/ TakeRefused(p) \/ Finish(p)
    \/ Stop(p) \/ AskAgain(p) \/ WorkEnds(p) \/ Release(p)

Next ==
    \/ \E p \in Pods :
         \/ Signal(p) \/ ScheduledDrain(p) \/ DrainStep(p)
         \/ HoldLate(p) \/ TakeUnanswered(p) \/ LeaseMoves(p) \/ Interrupt(p) \/ Crash(p)
    \/ EntryLapses

Spec == Init /\ [][Next]_vars

\* calls are answered, a run and a cancelled run end, the schedule goes on, a TTL ends
Fairness ==
    /\ \A p \in Pods : WF_vars(DrainStep(p))
    /\ \A p \in Scheduled : WF_vars(ScheduledDrain(p))
    /\ WF_vars(EntryLapses)

FairSpec == Spec /\ Fairness

----------------------------------------------------------------------------
(* Properties                                                              *)

Pcs == {"idle", "look", "hold", "read", "delete", "run", "stop", "asking", "ending", "release", "leave"}

\* Every variable has the shape the code gives it.
TypeOK ==
    /\ stand \in [Pods -> LS!Stands]
    /\ left \in BOOLEAN /\ cut \in BOOLEAN /\ barred \in BOOLEAN
    /\ asked \in Nat /\ last \in Nat /\ made \in Nat /\ done \in Nat /\ gone \in Nat /\ faults \in Nat
    /\ pc \in [Pods -> Pcs]
    /\ rev \in [Pods -> Nat] /\ from \in [Pods -> Nat]

\* A request that was not run is recorded, or in the hands of a replica that runs it or is about
\* to ask again; no interleaving of signals, takes and stopped runs loses one. Only a delete whose
\* answer is lost, an ask again that fails and a crash do (gone).
NothingForgotten ==
    made > done /\ made > gone => asked # 0 \/ \E p \in Pods : pc[p] \in Charged /\ from[p] = made

\* The same of every request, whatever happens: "a holder that dies leaves its request recorded
\* for the next drain anywhere".
DeathForgetsNothing ==
    made > done => asked # 0 \/ \E p \in Pods : pc[p] \in Charged /\ from[p] = made

\* Two replicas run the operation at once only where one of them no longer has the lease it
\* started under: a stopped run has ended before its lease is let go (_until_ended).
OverlapOnlyByLoss ==
    \A p, q \in Pods : p # q /\ Working(p) /\ Working(q) => \E r \in {p, q} : stand[r] \in {"lapsed", "lost"}

\* A recorded request is left with no replica draining in two ways only. A drain was ended by an
\* exception, or was refused the lease by an entry that nobody holds: one a release that failed
\* (which _delete_entry contains), a hold that raised or a process that died left behind. A replica
\* refused by a live holder leaves its request to one who looks again after letting go, and in no
\* order of their steps does the request fall between them.
NoRequestStranded == asked # 0 /\ (\A p \in Pods : pc[p] = "idle") => cut \/ barred

\* The same without the second way, as drain_results says: "empty when nothing was wanted or another
\* replica holds the lease (which then runs what was asked)". It holds as long as no entry is left
\* behind, and not otherwise.
RefusedIsServed == asked # 0 /\ (\A p \in Pods : pc[p] = "idle") => cut

\* Every request is followed by a whole run, or was lost as above, as long as a schedule drains:
\* requests made during a run, a lost lease, a cancelled drain and a failed run included.
EveryRequestRuns == \A n \in 1..MaxSignals : made >= n ~> done >= n \/ gone >= n
=============================================================================

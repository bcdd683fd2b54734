-------------------------- MODULE CoalescedRunProof --------------------------
(***************************************************************************)
(* CoalescedRun for any number of replicas, signals and faults: the        *)
(* invariant its safety properties rest on, and their proofs.              *)
(***************************************************************************)
EXTENDS CoalescedRun, TLAPS

\* a drain has a lease, if only to let it go, from its hold to its release
LeaseInHand == \A p \in Pods : (stand[p] = "out") <=> (pc[p] \in {"idle", "look", "hold"})

OneHolds == \A p, q \in Pods : stand[p] = "held" /\ stand[q] = "held" => p = q

\* nothing was run, or taken to be run, before it was asked for
NoneAhead == \A p \in Pods : from[p] <= made

IInv == TypeOK /\ LeaseInHand /\ OneHolds /\ NoneAhead /\ NothingForgotten /\ NoRequestStranded

\* The invariant holds at the start.
LEMMA InitInv == Init => IInv
<1> SUFFICES ASSUME Init PROVE IInv
  OBVIOUS
<1> USE DEF Init, LS!Init
<1>1. TypeOK BY DEF TypeOK, Pcs, LS!Stands
<1>2. LeaseInHand /\ OneHolds /\ NoneAhead BY DEF LeaseInHand, OneHolds, NoneAhead
<1>3. NothingForgotten /\ NoRequestStranded BY DEF NothingForgotten, NoRequestStranded
<1> QED BY <1>1, <1>2, <1>3 DEF IInv

\* Every variable keeps its type.
LEMMA TypeInv == ASSUME IInv, Next PROVE TypeOK'
<1> USE DEF TypeOK, Pcs, Goto, Fault
<1>t. TypeOK BY DEF IInv
<1>1. ASSUME NEW p \in Pods, Signal(p) \/ ScheduledDrain(p) PROVE TypeOK'
  BY <1>t, <1>1 DEF Signal, ScheduledDrain, Ask
<1>2. ASSUME NEW p \in Pods, Look(p) \/ Refused(p) \/ Read(p) PROVE TypeOK'
  BY <1>t, <1>2 DEF Look, Refused, Read
<1>3. ASSUME NEW p \in Pods, Hold(p) \/ HoldLate(p) PROVE TypeOK'
  BY <1>t, <1>3 DEF Hold, HoldLate, LS!Take, LS!TakeLate, LS!Become, LS!Stands
<1>4. ASSUME NEW p \in Pods, Take(p) \/ TakeRefused(p) \/ TakeUnanswered(p) PROVE TypeOK'
  BY <1>t, <1>4 DEF Take, TakeRefused, TakeUnanswered, Taken
<1>5. ASSUME NEW p \in Pods, Finish(p) \/ Stop(p) \/ AskAgain(p) \/ WorkEnds(p) PROVE TypeOK'
  BY <1>t, <1>5 DEF Finish, Stop, AskAgain, WorkEnds, Ask, AtLeast
<1>6. ASSUME NEW p \in Pods, Release(p) PROVE TypeOK'
  <2>1. left' \in BOOLEAN /\ cut' \in BOOLEAN /\ barred' \in BOOLEAN BY <1>t, <1>6 DEF Release, Abandon
  <2>2. faults' \in Nat BY <1>t, <1>6 DEF Release
  <2>3. stand' \in [Pods -> LS!Stands] /\ pc' \in [Pods -> Pcs]
    BY <1>t, <1>6 DEF Release, LS!Leave, LS!Become, LS!Stands
  <2> QED BY <1>t, <1>6, <2>1, <2>2, <2>3 DEF Release
<1>7. ASSUME NEW p \in Pods, LeaseMoves(p) PROVE TypeOK'
  BY <1>t, <1>7 DEF LeaseMoves, LS!Lapse, LS!Resume, LS!Report, LS!Become, LS!Stands
<1>8. ASSUME NEW p \in Pods, Interrupt(p) \/ Crash(p) PROVE TypeOK'
  <2>1. left' \in BOOLEAN /\ cut' \in BOOLEAN /\ barred' \in BOOLEAN BY <1>t, <1>8 DEF Interrupt, Crash, Abandon
  <2>2. faults' \in Nat /\ gone' \in Nat BY <1>t, <1>8 DEF Interrupt, Crash, AtLeast
  <2>3. stand' \in [Pods -> LS!Stands] /\ pc' \in [Pods -> Pcs]
    BY <1>t, <1>8 DEF Interrupt, Crash, LS!Leave, LS!Become, LS!Stands
  <2> QED BY <1>t, <1>8, <2>1, <2>2, <2>3 DEF Interrupt, Crash
<1>9. CASE EntryLapses BY <1>t, <1>9 DEF EntryLapses
<1> QED BY <1>1, <1>2, <1>3, <1>4, <1>5, <1>6, <1>7, <1>8, <1>9 DEF Next, DrainStep

\* A drain has the lease exactly between hold and release, and one at most holds it.
LEMMA LeaseInv == ASSUME IInv, Next PROVE LeaseInHand' /\ OneHolds'
<1> USE DEF TypeOK, Pcs, Goto, LeaseInHand, OneHolds
<1>t. TypeOK /\ LeaseInHand /\ OneHolds BY DEF IInv
<1>1. ASSUME NEW p \in Pods, Signal(p) \/ ScheduledDrain(p) \/ Look(p) \/ Refused(p) PROVE LeaseInHand' /\ OneHolds'
  BY <1>t, <1>1 DEF Signal, ScheduledDrain, Look, Refused
<1>2. ASSUME NEW p \in Pods, Read(p) \/ Take(p) \/ TakeRefused(p) \/ TakeUnanswered(p) PROVE LeaseInHand' /\ OneHolds'
  BY <1>t, <1>2 DEF Read, Take, TakeRefused, TakeUnanswered
<1>3. ASSUME NEW p \in Pods, Hold(p) \/ HoldLate(p) PROVE LeaseInHand' /\ OneHolds'
  BY <1>t, <1>3 DEF Hold, HoldLate, LS!Take, LS!TakeLate, LS!Become, LS!NobodyHolds
<1>5. ASSUME NEW p \in Pods, Finish(p) \/ Stop(p) \/ AskAgain(p) \/ WorkEnds(p) PROVE LeaseInHand' /\ OneHolds'
  BY <1>t, <1>5 DEF Finish, Stop, AskAgain, WorkEnds
<1>6. ASSUME NEW p \in Pods, Release(p) \/ Crash(p) PROVE LeaseInHand' /\ OneHolds'
  BY <1>t, <1>6 DEF Release, Crash, LS!Leave, LS!Become
<1>7. ASSUME NEW p \in Pods, LeaseMoves(p) PROVE LeaseInHand' /\ OneHolds'
  BY <1>t, <1>7 DEF LeaseMoves, LS!Lapse, LS!Resume, LS!Report, LS!Become, LS!NobodyHolds
<1>8. ASSUME NEW p \in Pods, Interrupt(p) PROVE LeaseInHand' /\ OneHolds'
  BY <1>t, <1>8 DEF Interrupt
<1>9. CASE EntryLapses BY <1>t, <1>9 DEF EntryLapses
<1> QED BY <1>1, <1>2, <1>3, <1>5, <1>6, <1>7, <1>8, <1>9 DEF Next, DrainStep

\* No step forgets a request.
LEMMA ForgetInv == ASSUME IInv, Next PROVE NoneAhead' /\ NothingForgotten'
<1> USE DEF TypeOK, Pcs, Goto, NoneAhead, NothingForgotten, Charged
<1>t. TypeOK /\ NoneAhead /\ NothingForgotten BY DEF IInv
<1>1. ASSUME NEW p \in Pods, Signal(p) \/ ScheduledDrain(p) PROVE NoneAhead' /\ NothingForgotten'
  BY <1>t, <1>1 DEF Signal, ScheduledDrain, Ask
<1>2. ASSUME NEW p \in Pods, Look(p) \/ Refused(p) \/ Read(p) \/ Hold(p) \/ HoldLate(p)
      PROVE NoneAhead' /\ NothingForgotten'
  BY <1>t, <1>2 DEF Look, Refused, Read, Hold, HoldLate
<1>3. ASSUME NEW p \in Pods, Take(p) PROVE NoneAhead' /\ NothingForgotten'
  BY <1>t, <1>3 DEF Take, Taken
<1>4. ASSUME NEW p \in Pods, TakeRefused(p) \/ TakeUnanswered(p) PROVE NoneAhead' /\ NothingForgotten'
  BY <1>t, <1>4 DEF TakeRefused, TakeUnanswered, Taken
<1>5. ASSUME NEW p \in Pods, Finish(p) PROVE NoneAhead' /\ NothingForgotten'
  BY <1>t, <1>5 DEF Finish, AtLeast
<1>6. ASSUME NEW p \in Pods, Stop(p) \/ WorkEnds(p) PROVE NoneAhead' /\ NothingForgotten'
  BY <1>t, <1>6 DEF Stop, WorkEnds
<1>7. ASSUME NEW p \in Pods, AskAgain(p) PROVE NoneAhead' /\ NothingForgotten'
  BY <1>t, <1>7 DEF AskAgain, Ask, AtLeast
<1>8. ASSUME NEW p \in Pods, Release(p) \/ LeaseMoves(p) \/ Interrupt(p) PROVE NoneAhead' /\ NothingForgotten'
  BY <1>t, <1>8 DEF Release, LeaseMoves, Interrupt
<1>9. ASSUME NEW p \in Pods, Crash(p) PROVE NoneAhead' /\ NothingForgotten'
  BY <1>t, <1>9 DEF Crash, AtLeast
<1>10. CASE EntryLapses BY <1>t, <1>10 DEF EntryLapses
<1> QED BY <1>1, <1>2, <1>3, <1>4, <1>5, <1>6, <1>7, <1>8, <1>9, <1>10 DEF Next, DrainStep

\* No step strands a request.
LEMMA StrandInv == ASSUME IInv, Next PROVE NoRequestStranded'
<1> USE DEF TypeOK, Goto, NoRequestStranded
<1>t. TypeOK /\ LeaseInHand /\ NoRequestStranded BY DEF IInv
<1>1. ASSUME NEW p \in Pods, Signal(p) \/ ScheduledDrain(p) \/ Look(p) PROVE NoRequestStranded'
  BY <1>t, <1>1 DEF Signal, ScheduledDrain, Look
<1>2. ASSUME NEW p \in Pods, Refused(p) PROVE NoRequestStranded'
  <2>1. CASE \A q \in Pods \ {p} : stand[q] = "out" BY <1>t, <1>2, <2>1 DEF Refused
  <2>2. CASE ~(\A q \in Pods \ {p} : stand[q] = "out")
    <3>1. PICK q \in Pods : q # p /\ stand[q] # "out" BY <2>2
    <3>2. pc[q] # "idle" BY <1>t, <3>1 DEF LeaseInHand
    <3>3. pc'[q] = pc[q] BY <1>t, <1>2, <3>1 DEF Refused
    <3> QED BY <3>2, <3>3
  <2> QED BY <2>1, <2>2
<1>3. ASSUME NEW p \in Pods, Hold(p) \/ HoldLate(p) \/ Read(p) \/ Take(p) \/ TakeRefused(p) \/ TakeUnanswered(p)
      PROVE NoRequestStranded'
  BY <1>t, <1>3 DEF Hold, HoldLate, Read, Take, TakeRefused, TakeUnanswered, Taken
<1>4. ASSUME NEW p \in Pods, Finish(p) \/ Stop(p) \/ AskAgain(p) \/ WorkEnds(p) PROVE NoRequestStranded'
  BY <1>t, <1>4 DEF Finish, Stop, AskAgain, WorkEnds
<1>5. ASSUME NEW p \in Pods, Release(p) PROVE NoRequestStranded'
  BY <1>t, <1>5 DEF Release
<1>6. ASSUME NEW p \in Pods, LeaseMoves(p) \/ Interrupt(p) \/ Crash(p) PROVE NoRequestStranded'
  BY <1>t, <1>6 DEF LeaseMoves, Interrupt, Crash
<1>7. CASE EntryLapses BY <1>t, <1>7 DEF EntryLapses
<1> QED BY <1>1, <1>2, <1>3, <1>4, <1>5, <1>6, <1>7 DEF Next, DrainStep

\* The invariant holds throughout.
THEOREM Invariance == Spec => []IInv
<1>1. IInv /\ [Next]_vars => IInv'
  <2> SUFFICES ASSUME IInv, [Next]_vars PROVE IInv'
    OBVIOUS
  <2>1. CASE Next BY <2>1, TypeInv, LeaseInv, ForgetInv, StrandInv DEF IInv
  <2>2. CASE UNCHANGED vars
    BY <2>2 DEF vars, IInv, TypeOK, LeaseInHand, OneHolds, NoneAhead, NothingForgotten, NoRequestStranded
  <2> QED BY <2>1, <2>2
<1> QED BY InitInv, <1>1, PTL DEF Spec

\* A request is run, recorded or in a live replica's hands, unless a delete's answer, an ask
\* again or a replica was lost (request, _take, _run_holding).
THEOREM RequestsKept == Spec => []NothingForgotten
<1>1. IInv => NothingForgotten BY DEF IInv
<1> QED BY <1>1, Invariance, PTL

\* Two runs overlap only where one has lost its lease (_run_holding, _until_ended).
THEOREM RunsApart == Spec => []OverlapOnlyByLoss
<1>1. IInv => OverlapOnlyByLoss
  <2> SUFFICES ASSUME IInv, NEW p \in Pods, NEW q \in Pods, p # q, Working(p), Working(q)
               PROVE  \E r \in {p, q} : stand[r] \in {"lapsed", "lost"}
    BY DEF OverlapOnlyByLoss
  <2>1. stand[p] # "out" /\ stand[q] # "out" BY DEF IInv, LeaseInHand, Working
  <2>2. stand[p] \in LS!Stands /\ stand[q] \in LS!Stands BY DEF IInv, TypeOK
  <2>3. ~(stand[p] = "held" /\ stand[q] = "held") BY DEF IInv, OneHolds
  <2> QED BY <2>1, <2>2, <2>3 DEF LS!Stands
<1> QED BY <1>1, Invariance, PTL

\* A recorded request has a replica draining, unless a drain raised, or was refused by an entry
\* nobody holds (drain_results).
THEOREM NoneStranded == Spec => []NoRequestStranded
<1>1. IInv => NoRequestStranded BY DEF IInv
<1> QED BY <1>1, Invariance, PTL

\* what leaves an entry of the lease behind
Leaving == {"release", "interrupt", "crash"}

NothingLeft == ~left /\ ~barred

\* Where no entry is left behind, no drain is refused by one.
LEMMA NothingLeftInv == ASSUME Faults \cap Leaving = {}, IInv, NothingLeft, Next PROVE NothingLeft'
<1> USE DEF NothingLeft, Leaving, Fault
<1>1. ASSUME NEW p \in Pods, Signal(p) \/ ScheduledDrain(p) \/ Look(p) \/ Hold(p) \/ HoldLate(p) PROVE NothingLeft'
  BY <1>1 DEF Signal, ScheduledDrain, Look, Hold, HoldLate
<1>2. ASSUME NEW p \in Pods, Refused(p) PROVE NothingLeft'
  BY <1>2 DEF Refused
<1>3. ASSUME NEW p \in Pods, Read(p) \/ Take(p) \/ TakeRefused(p) \/ TakeUnanswered(p) PROVE NothingLeft'
  BY <1>3 DEF Read, Take, TakeRefused, TakeUnanswered
<1>4. ASSUME NEW p \in Pods, Finish(p) \/ Stop(p) \/ AskAgain(p) \/ WorkEnds(p) PROVE NothingLeft'
  BY <1>4 DEF Finish, Stop, AskAgain, WorkEnds
<1>5. ASSUME NEW p \in Pods, Release(p) \/ LeaseMoves(p) \/ Interrupt(p) \/ Crash(p) PROVE NothingLeft'
  BY <1>5 DEF Release, LeaseMoves, Interrupt, Crash
<1>6. CASE EntryLapses BY <1>6 DEF EntryLapses
<1> QED BY <1>1, <1>2, <1>3, <1>4, <1>5, <1>6 DEF Next, DrainStep

\* As long as every release deletes its entry, no drain is cancelled or fails a call as it holds, and
\* no process dies, a drain that is refused was refused by a replica that drains, and only an
\* exception leaves a request with nobody (drain_results).
THEOREM RefusedServed == ASSUME Faults \cap Leaving = {} PROVE Spec => []RefusedIsServed
<1>1. Init => NothingLeft BY DEF Init, NothingLeft
<1>2. IInv /\ NothingLeft /\ [Next]_vars => NothingLeft'
  <2>1. IInv /\ NothingLeft /\ Next => NothingLeft' BY NothingLeftInv
  <2>2. NothingLeft /\ UNCHANGED vars => NothingLeft' BY DEF NothingLeft, vars
  <2> QED BY <2>1, <2>2
<1>3. IInv /\ NothingLeft => RefusedIsServed BY DEF IInv, NothingLeft, NoRequestStranded, RefusedIsServed
<1> QED BY <1>1, <1>2, <1>3, Invariance, PTL DEF Spec
=============================================================================

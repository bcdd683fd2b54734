-------------------------------- MODULE Lease --------------------------------
(***************************************************************************)
(* What a lease promises those who take it (KVLease.hold, HeldLease): one  *)
(* pod holds it at a time; a holder whose deadline passes holds it no more *)
(* and may be renewed just in time, before the loss is reported; a loss    *)
(* that was reported is never taken back.                                  *)
(***************************************************************************)
CONSTANT Pods

VARIABLE stand   \* pod -> where it stands with the lease

Stands == {"out", "held", "lapsed", "lost"}

NobodyHolds == \A q \in Pods : stand[q] # "held"

Become(p, s) == stand' = [stand EXCEPT ![p] = s]

\* it is this pod's, or was until a moment ago: the answer came after the deadline
Take(p) == stand[p] = "out" /\ NobodyHolds /\ Become(p, "held")
TakeLate(p) == stand[p] = "out" /\ Become(p, "lapsed")

\* the deadline passes; a renewal on its way may still succeed
Lapse(p) == stand[p] = "held" /\ Become(p, "lapsed")
Resume(p) == stand[p] = "lapsed" /\ NobodyHolds /\ Become(p, "held")

\* HeldLease.lost is set, by a loss or by a release that has begun
Report(p) == stand[p] \in {"held", "lapsed"} /\ Become(p, "lost")

\* the release has ended, or the process has
Leave(p) == stand[p] # "out" /\ Become(p, "out")

Init == stand = [p \in Pods |-> "out"]

Next == \E p \in Pods : Take(p) \/ TakeLate(p) \/ Lapse(p) \/ Resume(p) \/ Report(p) \/ Leave(p)

Spec == Init /\ [][Next]_stand
=============================================================================

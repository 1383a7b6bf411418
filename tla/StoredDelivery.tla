---------------------------- MODULE StoredDelivery ----------------------------
(***************************************************************************)
(* What the outbound queue promises to the caller of a delivery and to its *)
(* recipient, without claims, rounds, marks, retries or crashes: a stored  *)
(* delivery stays stored until the recipient has seen all its parts, its   *)
(* call was aborted or it was given up, and what is seen of it appears     *)
(* part by part while it is stored.  Aborted is a call that an AbortError  *)
(* ended: the caller's, or the platform's in the middle of a send.  That   *)
(* takes away the stored delivery whatever was seen of it, once, and in no *)
(* other step.  One step may move any number of deliveries (a crash ends   *)
(* all calls), each along an allowed edge.                                 *)
(***************************************************************************)
EXTENDS Naturals

CONSTANTS
    Deliveries,
    Parts,        \* how many parts each delivery has
    BestEffort,   \* deliveries that may lose parts
    Required      \* deliveries that are not sent unless they are stored

VARIABLES
    phase,      \* "new", "stored", "direct" (sent, but not stored), or how it ended:
                \* "removed", "givenUp", or "over" (was never stored)
    seen,       \* the parts the recipient has seen
    aborted     \* deliveries whose call an AbortError ended

vars == <<phase, seen, aborted>>

Init ==
    /\ phase = [d \in Deliveries |-> "new"]
    /\ seen = [d \in Deliveries |-> {}]
    /\ aborted = {}

SameSeen(d)    == seen'[d] = seen[d]
SameAborted(d) == d \in aborted' <=> d \in aborted

\* At most one more part is seen, and, but for best-effort, the next one.
Sees(d) ==
    \/ SameSeen(d)
    \/ \E p \in (1..Parts[d]) \ seen[d] :
         /\ d \in BestEffort \/ \A q \in 1..Parts[d] : q < p => q \in seen[d]
         /\ seen'[d] = seen[d] \cup {p}

Stays(d) == phase'[d] = phase[d] /\ SameSeen(d) /\ SameAborted(d)

Accepted(d) ==
    /\ phase[d] = "new"
    /\ phase'[d] = "stored" \/ phase'[d] = (IF d \in Required THEN "over" ELSE "direct")
    /\ SameSeen(d) /\ SameAborted(d)

GoesOn(d) ==
    /\ phase[d] \in {"stored", "direct"} /\ phase'[d] = phase[d]
    /\ Sees(d) /\ SameAborted(d)

\* The end of a delivery that was never stored.
Ends(d) ==
    /\ phase[d] = "direct" /\ phase'[d] = "over"
    /\ Sees(d) /\ SameAborted(d)

\* An AbortError ends the call; the stored delivery is removed, if it can be.
Aborts(d) ==
    /\ d \notin BestEffort /\ d \notin aborted /\ d \in aborted'
    /\ \/ phase[d] = "stored" /\ phase'[d] \in {"stored", "removed"}
       \/ phase[d] = "direct" /\ phase'[d] = "over"
    /\ SameSeen(d)

Removed(d) ==
    /\ phase[d] = "stored" /\ phase'[d] = "removed"
    /\ d \in BestEffort \/ seen[d] = 1..Parts[d]
    /\ SameSeen(d) /\ SameAborted(d)

GivenUp(d) ==
    /\ phase[d] = "stored" /\ phase'[d] = "givenUp"
    /\ SameSeen(d) /\ SameAborted(d)

Next ==
    /\ DOMAIN phase' = Deliveries /\ DOMAIN seen' = Deliveries /\ aborted' \subseteq Deliveries
    /\ \A d \in Deliveries :
         \/ Stays(d) \/ Accepted(d) \/ GoesOn(d) \/ Ends(d)
         \/ Aborts(d) \/ Removed(d) \/ GivenUp(d)

Spec == Init /\ [][Next]_vars
=============================================================================

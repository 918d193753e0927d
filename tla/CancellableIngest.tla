-------------------------- MODULE CancellableIngest --------------------------
(***************************************************************************)
(* What the owner promises the caller of a cancellable ingest (ADR-0006):  *)
(* the cancellation and the commit of the Publication race for one latch,  *)
(* and the first wins for good.  Only the winner of the commit publishes,  *)
(* once and before the answer; the answer is given once, and it tells who  *)
(* won and whether there is a Publication.  After it nothing is published. *)
(***************************************************************************)
CONSTANT Ops    \* ingest calls

VARIABLES
    fate,       \* who won the latch, or that the call is over
    published,  \* whether the call's Run is published
    answer      \* what the caller was told

vars == <<fate, published, answer>>

Init ==
    /\ fate = [o \in Ops |-> "open"]
    /\ published = [o \in Ops |-> FALSE]
    /\ answer = [o \in Ops |-> "none"]

Cancel(o) ==
    /\ fate[o] = "open"
    /\ fate' = [fate EXCEPT ![o] = "cancelled"]
    /\ UNCHANGED <<published, answer>>

Claim(o) ==
    /\ fate[o] = "open"
    /\ fate' = [fate EXCEPT ![o] = "committed"]
    /\ UNCHANGED <<published, answer>>

Publish(o) ==
    /\ fate[o] = "committed"
    /\ ~published[o]
    /\ published' = [published EXCEPT ![o] = TRUE]
    /\ UNCHANGED <<fate, answer>>

\* A cancelled call raises: the cancellation, or that a process group survived.
Answers(o) ==
    IF fate[o] = "cancelled" THEN {"cancelled", "error"}
    ELSE IF published[o] THEN {"published"} ELSE {"not published"}

Answer(o) ==
    /\ fate[o] # "over"
    /\ \E a \in Answers(o) : answer' = [answer EXCEPT ![o] = a]
    /\ fate' = [fate EXCEPT ![o] = "over"]
    /\ UNCHANGED published

Next == \E o \in Ops : Cancel(o) \/ Claim(o) \/ Publish(o) \/ Answer(o)

Spec == Init /\ [][Next]_vars

=============================================================================

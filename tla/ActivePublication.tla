-------------------------- MODULE ActivePublication --------------------------
(***************************************************************************)
(* What the store promises to Search (ADR-0002), Source by Source: the     *)
(* visible Evidence is nothing, or one Run's complete candidate; it        *)
(* changes in one step; a step that changes it serves the newest request,  *)
(* and a request is served at most once.                                   *)
(***************************************************************************)
EXTENDS Naturals

CONSTANTS Sources, Runs, Items

VARIABLES
    visible,        \* the Evidence rows Search can match
    revision,       \* how often the Source has switched
    requested,      \* the newest request made for the Source
    served          \* the request whose output is visible, 0: none

vars == <<visible, revision, requested, served>>

Init ==
    /\ visible = [s \in Sources |-> {}]
    /\ revision = [s \in Sources |-> 0]
    /\ requested = [s \in Sources |-> 0]
    /\ served = [s \in Sources |-> 0]

Request(s) ==
    /\ requested' = [requested EXCEPT ![s] = @ + 1]
    /\ UNCHANGED <<visible, revision, served>>

Candidate(s, r, items) ==
    {[source |-> s, publication |-> r, item |-> i] : i \in items}

Switch(s, r, items) ==
    /\ served[s] < requested[s]
    /\ served' = [served EXCEPT ![s] = requested[s]]
    /\ visible' = [visible EXCEPT ![s] = Candidate(s, r, items)]
    /\ revision' = [revision EXCEPT ![s] = @ + 1]
    /\ UNCHANGED requested

Next ==
    \E s \in Sources :
        \/ Request(s)
        \/ \E r \in Runs, items \in SUBSET Items : Switch(s, r, items)

Spec == Init /\ [][Next]_vars

=============================================================================

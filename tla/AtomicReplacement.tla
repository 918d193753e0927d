-------------------------- MODULE AtomicReplacement --------------------------
(***************************************************************************)
(* What a journaled replacement of a set of files promises: the set has a  *)
(* version, the call that made it, and only a refresh changes it, in one   *)
(* step and to its own number.  While the set is being worked on its files *)
(* are not to be read; whenever they may be, all are of that version.  A   *)
(* version can be lost, if the work on the set is cut off while its traces *)
(* are removed; nothing succeeds after that.                               *)
(***************************************************************************)
EXTENDS Naturals

CONSTANTS
    Targets,    \* the files of the set
    None        \* a lost version; a set that is being worked on

VARIABLES
    version,    \* the set that stands, or that a recovery puts back
    content,    \* what a reader finds in each file
    call,       \* the call that is running
    calls,      \* how many refreshes there were
    answer      \* what the last call reported

vars == <<version, content, call, calls, answer>>

Init ==
    /\ version = 0
    /\ content = [i \in Targets |-> 0]
    /\ call = "none"
    /\ calls = 0
    /\ answer = "none"

Begin(kind) ==
    /\ call = "none"
    /\ call' = kind
    /\ calls' = IF kind = "refresh" THEN calls + 1 ELSE calls
    /\ answer' = "none"
    /\ UNCHANGED <<version, content>>

Open ==
    /\ call = "refresh"
    /\ content' = None
    /\ UNCHANGED <<version, call, calls, answer>>

\* The one step at which the new set becomes the one that stands.
Commit ==
    /\ call = "refresh"
    /\ content = None
    /\ version \notin {None, calls}
    /\ version' = calls
    /\ UNCHANGED <<content, call, calls, answer>>

Settle ==
    /\ call # "none"
    /\ version # None
    /\ content' = [i \in Targets |-> version]
    /\ UNCHANGED <<version, call, calls, answer>>

\* The traces of the work are incomplete: nothing can be put back any more.
Lose ==
    /\ content = None
    /\ version' = None

LoseOrKeep == UNCHANGED version \/ Lose

LoseMidway ==
    /\ call = "refresh"
    /\ Lose
    /\ UNCHANGED <<content, call, calls, answer>>

End(result) ==
    /\ call # "none"
    /\ call' = "none"
    /\ answer' = result
    /\ UNCHANGED calls

Succeed ==
    /\ call = "refresh"
    /\ version = calls
    /\ content # None
    /\ End("success")
    /\ UNCHANGED <<version, content>>

Fail ==
    /\ call = "refresh"
    /\ content # None
    /\ End("failed")
    /\ UNCHANGED <<version, content>>

Recover ==
    /\ call = "recover"
    /\ content # None
    /\ End("recovered")
    /\ UNCHANGED <<version, content>>

NotBegun ==
    /\ call = "refresh"
    /\ content # None
    /\ version # calls
    /\ End("not_begun")
    /\ content' \in {content, None}
    /\ UNCHANGED version

\* The call is cut off, or cannot recover: the set may be left as it is.
BreakOff ==
    /\ End("killed") \/ End("recovery_failed")
    /\ LoseOrKeep
    /\ UNCHANGED content

Next ==
    \/ Begin("refresh") \/ Begin("recover")
    \/ Open \/ Commit \/ Settle \/ LoseMidway
    \/ Succeed \/ Fail \/ Recover \/ NotBegun \/ BreakOff

Spec == Init /\ [][Next]_vars

=============================================================================

---------------------------- MODULE OmciExchange ----------------------------
(***************************************************************************)
(* What the OMCI channel promises to the state machines of an ONU: a       *)
(* request is asked once, waits from then on, and stops waiting when it    *)
(* gets its only answer or when another request takes over its             *)
(* transaction identifier.                                                 *)
(***************************************************************************)
CONSTANTS Requests

VARIABLES
    asked,      \* requests whose callback has been registered
    waiting,    \* those that may still be answered
    answers     \* <<request, request whose response was taken for it>>

vars == <<asked, waiting, answers>>

Init == asked = {} /\ waiting = {} /\ answers = {}

\* r starts to wait; it may take the place of requests that waited.
Ask(r) ==
    /\ r \in Requests \ asked
    /\ asked' = asked \cup {r}
    /\ \/ waiting' = waiting \cup {r}
       \/ \E q \in waiting : waiting' = (waiting \ {q}) \cup {r}
    /\ UNCHANGED answers

\* A waiting request gets its only answer.
Answer(r, o) ==
    /\ r \in waiting
    /\ waiting' = waiting \ {r}
    /\ answers' = answers \cup {<<r, o>>}
    /\ UNCHANGED asked

Next == \E r \in Requests : Ask(r) \/ \E o \in asked : Answer(r, o)

Spec == Init /\ [][Next]_vars

=============================================================================

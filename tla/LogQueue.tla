------------------------------- MODULE LogQueue -------------------------------
(***************************************************************************)
(* What the threat log ring promises: the logs reach the agent in the      *)
(* order they were accepted, each once and whole, and no more than a bound *)
(* wait.                                                                   *)
(***************************************************************************)
EXTENDS Integers, Sequences

CONSTANTS Logs, None, Capacity

VARIABLES
    q,      \* the accepted logs that were not taken
    hand    \* the log being sent to the agent

vars == <<q, hand>>

Init == q = <<>> /\ hand = None

Accept ==
    /\ Len(q) < Capacity
    /\ \E l \in Logs : q' = Append(q, l)
    /\ UNCHANGED hand

Take ==
    /\ q # <<>> /\ hand = None
    /\ hand' = Head(q) /\ q' = Tail(q)

Sent ==
    /\ hand # None
    /\ hand' = None
    /\ UNCHANGED q

Next == Accept \/ Take \/ Sent

Spec == Init /\ [][Next]_vars
================================================================================

-------------------------------- MODULE Delivery --------------------------------
(***************************************************************************)
(* What a retried call promises its caller: it is carried out at least     *)
(* once if it returns, and at most Limit times whether it returns or not.  *)
(* It may still be carried out after the caller has given up.              *)
(***************************************************************************)
EXTENDS Naturals

CONSTANTS Call, Limit

VARIABLES
    outcome,  \* "unsent", "pending", "returned" or "raised", for each call
    done      \* how often each call has been carried out

vars == <<outcome, done>>

Init == outcome = [c \in Call |-> "unsent"] /\ done = [c \in Call |-> 0]

Send(c) ==
    /\ outcome[c] = "unsent"
    /\ outcome' = [outcome EXCEPT ![c] = "pending"]
    /\ UNCHANGED done

Perform(c) ==
    /\ outcome[c] # "unsent" /\ done[c] < Limit
    /\ done' = [done EXCEPT ![c] = @ + 1]
    /\ UNCHANGED outcome

Return(c) ==
    /\ outcome[c] = "pending" /\ done[c] > 0
    /\ outcome' = [outcome EXCEPT ![c] = "returned"]
    /\ UNCHANGED done

\* The call failed, or the caller crashed.
Raise(c) ==
    /\ outcome[c] = "pending"
    /\ outcome' = [outcome EXCEPT ![c] = "raised"]
    /\ UNCHANGED done

Next == \E c \in Call : Send(c) \/ Perform(c) \/ Return(c) \/ Raise(c)

Spec == Init /\ [][Next]_vars
-------------------------------------------------------------------------------
\* What has returned has been carried out, what was not sent has not, and
\* nothing is carried out more often than the client tries.
AtLeastOnce ==
    \A c \in Call :
        /\ outcome[c] = "returned" => done[c] > 0
        /\ outcome[c] = "unsent" => done[c] = 0
        /\ done[c] <= Limit
===============================================================================

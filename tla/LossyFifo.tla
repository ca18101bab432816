----------------------------- MODULE LossyFifo -----------------------------
(***************************************************************************)
(* What the path of an advertisement promises, whatever queues, threads    *)
(* and processes it is made of: advertisements may be lost anywhere, but   *)
(* none is delivered twice, none overtakes another and none is made up.    *)
(* They are numbered in the order the radio reports them.                  *)
(***************************************************************************)
EXTENDS Naturals

VARIABLES
    next,    \* the number of the next advertisement
    flight,  \* advertisements on their way
    last,    \* the one delivered last, 0 at first
    out      \* all delivered ones

vars == <<next, flight, last, out>>

Init == next = 1 /\ flight = {} /\ last = 0 /\ out = {}

(* Sent, or lost at once.                                                  *)
Send ==
    /\ next' = next + 1
    /\ flight' \in {flight, flight \cup {next}}
    /\ UNCHANGED <<last, out>>

Lose ==
    /\ flight' \in SUBSET flight
    /\ UNCHANGED <<next, last, out>>

Deliver(n) ==
    /\ n \in flight
    /\ \A k \in flight : n <= k
    /\ flight' = flight \ {n}
    /\ last' = n
    /\ out' = out \cup {n}
    /\ UNCHANGED next

Next == Send \/ Lose \/ \E n \in flight : Deliver(n)

Spec == Init /\ [][Next]_vars

-----------------------------------------------------------------------------
TypeOK == next \in Nat /\ flight \subseteq Nat /\ last \in Nat /\ out \subseteq Nat

(* What is on its way was sent after everything that was delivered.        *)
InOrder ==
    /\ \A n \in flight : last < n /\ n < next
    /\ \A n \in out : n <= last
    /\ last < next

(* Nothing is delivered twice or late: every delivery is of an             *)
(* advertisement younger than all the ones delivered before it.            *)
NoOvertaking == [][ out' # out => \A n \in out, k \in out' \ out : n < k ]_vars
=============================================================================

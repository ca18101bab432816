-------------------------- MODULE LossyFifoProofs --------------------------
(***************************************************************************)
(* What the abstract queue promises, and with it every path that           *)
(* implements it (LogIsLossyFifo of AdvertisementPath): deliveries are in  *)
(* the order of the radio's reports, for any number of advertisements.     *)
(***************************************************************************)
EXTENDS LossyFifo, TLAPS

LEMMA InitInOrder == Init => TypeOK /\ InOrder
    BY DEF Init, TypeOK, InOrder

LEMMA SendInOrder == TypeOK /\ InOrder /\ Send => (TypeOK /\ InOrder)'
    BY DEF TypeOK, InOrder, Send

LEMMA LoseInOrder == TypeOK /\ InOrder /\ Lose => (TypeOK /\ InOrder)'
    BY DEF TypeOK, InOrder, Lose

(* What is delivered is younger than all that was, and older than all that *)
(* stays on its way.                                                       *)
LEMMA DeliverInOrder ==
    ASSUME TypeOK, InOrder, NEW n \in flight, Deliver(n)
    PROVE  (TypeOK /\ InOrder)'
<1>1. n \in Nat /\ last < n /\ n < next
    BY DEF TypeOK, InOrder
<1>2. TypeOK'
    BY <1>1 DEF TypeOK, Deliver
<1>3. \A k \in flight' : last' < k /\ k < next'
    BY <1>1 DEF TypeOK, InOrder, Deliver
<1>4. \A k \in out' : k <= last'
    BY <1>1 DEF TypeOK, InOrder, Deliver
<1> QED
    BY <1>1, <1>2, <1>3, <1>4 DEF InOrder, Deliver

LEMMA NextInOrder == TypeOK /\ InOrder /\ [Next]_vars => (TypeOK /\ InOrder)'
<1> SUFFICES ASSUME TypeOK, InOrder, [Next]_vars
             PROVE  (TypeOK /\ InOrder)'
    OBVIOUS
<1>1. CASE UNCHANGED vars
    BY <1>1 DEF vars, TypeOK, InOrder
<1> QED
    BY <1>1, SendInOrder, LoseInOrder, DeliverInOrder DEF Next

(* Whatever is on its way was sent after everything that was delivered     *)
(* (the order of scan_cb's reports).                                       *)
THEOREM FifoInOrder == Spec => [](TypeOK /\ InOrder)
    BY InitInOrder, NextInOrder, PTL DEF Spec

(* No advertisement is delivered twice or after a younger one, which is    *)
(* what the log of grpc_access_point.py inherits by refinement.            *)
THEOREM FifoNoOvertaking == Spec => NoOvertaking
<1>1. ASSUME TypeOK, InOrder, [Next]_vars, out' # out
      PROVE  \A n \in out, k \in out' \ out : n < k
  <2>1. PICK d \in flight : Deliver(d)
      BY <1>1 DEF Next, Send, Lose, vars
  <2>2. out' = out \cup {d}
      BY <2>1 DEF Deliver
  <2>3. d \in Nat /\ last < d /\ \A n \in out : n \in Nat /\ n <= last
      BY <1>1 DEF TypeOK, InOrder
  <2> QED
      BY <1>1, <2>2, <2>3 DEF TypeOK
<1>2. TypeOK /\ InOrder /\ [Next]_vars => (out' # out => \A n \in out, k \in out' \ out : n < k)
    BY <1>1
<1> QED
    BY <1>2, FifoInOrder, PTL DEF Spec, NoOvertaking
=============================================================================

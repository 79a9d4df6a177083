-------------------------- MODULE RtcClock_proofs --------------------------
(* What the order of steps in RtcClock is good for. *)
EXTENDS RtcClock, TLAPS

(* A torn date stands still, and a lost one is not trusted.  Without the     *)
(* second part a clock could be started with a lost date that is trusted.    *)
Order ==
  /\ clock \in {"set", "torn", "lost"} /\ running \in BOOLEAN /\ trusted \in BOOLEAN
  /\ clock = "torn" => ~ running
  /\ clock = "lost" => ~ trusted

(* Whoever follows the order of rx8010_set_time and rx8010_get_time never    *)
(* shows a wrong date that runs and that nothing warns of.                   *)
THEOREM RightOrToldHolds == Spec => []RightOrTold
<1>1. Init => Order
  BY DEF Init, Order
<1>2. Order /\ [Next]_vars => Order'
  <2> SUFFICES ASSUME Order, [Next]_vars PROVE Order'
    OBVIOUS
  <2>1. CASE Halt
    BY <2>1 DEF Halt, Order
  <2>2. CASE SetDate
    BY <2>2 DEF SetDate, Order
  <2>3. CASE Tear
    BY <2>3 DEF Tear, Order
  <2>4. CASE Run
    BY <2>4 DEF Run, Order
  <2>5. CASE Trust
    BY <2>5 DEF Trust, Order
  <2>6. CASE Lose
    BY <2>6 DEF Lose, Order
  <2>7. CASE UNCHANGED vars
    BY <2>7 DEF vars, Order
  <2>8. QED
    BY <2>1, <2>2, <2>3, <2>4, <2>5, <2>6, <2>7 DEF Next
<1>3. Order => RightOrTold
  BY DEF Order, RightOrTold
<1>4. QED
  BY <1>1, <1>2, <1>3, PTL DEF Spec
=============================================================================

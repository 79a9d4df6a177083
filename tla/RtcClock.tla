------------------------------ MODULE RtcClock ------------------------------
(***************************************************************************)
(* What a real-time clock promises to those who set and read it, without   *)
(* registers, transfers and handlers: a date is changed only while the     *)
(* clock stands still, a clock runs only with a whole date, and a clock    *)
(* that has lost its date is not trusted again before it has another one.  *)
(*                                                                         *)
(* rtc-rx8010.c is written to this order in rx8010_set_time (comments of   *)
(* L154 and L177) and rx8010_get_time (L123).                              *)
(***************************************************************************)

VARIABLES
  clock,    \* the date: "set", "torn" (written in part) or "lost"
  running,
  trusted   \* nothing tells a reader that the date may be wrong

vars == <<clock, running, trusted>>

Init == clock = "lost" /\ running \in BOOLEAN /\ trusted = FALSE

Halt == running' = FALSE /\ UNCHANGED <<clock, trusted>>

SetDate ==
  /\ ~ running /\ UNCHANGED running
  /\ clock' = "set" /\ trusted' \in BOOLEAN /\ (trusted => trusted')

Tear == ~ running /\ clock' = "torn" /\ UNCHANGED <<running, trusted>>

Run == clock # "torn" /\ running' = TRUE /\ UNCHANGED <<clock, trusted>>

Trust == clock # "lost" /\ trusted' = TRUE /\ UNCHANGED <<clock, running>>

Lose == clock' = "lost" /\ trusted' = FALSE /\ UNCHANGED running

Next == Halt \/ SetDate \/ Tear \/ Run \/ Trust \/ Lose

Spec == Init /\ [][Next]_vars
-----------------------------------------------------------------------------
\* A clock that runs and is trusted shows a date that was set, whole.
RightOrTold == running /\ trusted => clock = "set"
=============================================================================

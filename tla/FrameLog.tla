------------------------------ MODULE FrameLog ------------------------------
(***************************************************************************)
(* What -itextract and -append promise together.  However often the model  *)
(* is stopped and started again, the extract file holds one time plane for *)
(* every multiple of the extract interval, in order, as if it had run      *)
(* without a stop.  A failure may send the clock back, but not behind the  *)
(* last plane, and may cost the plane that was due when it struck.         *)
(***************************************************************************)
EXTENDS Integers, Sequences, SequencesExt

CONSTANT Interval

VARIABLES clock, planes, failures

Stored == planes # << >> /\ Last(planes) = clock

(* How far the log may fall behind: an interval, and one more per failure. *)
Reach == (IF planes = << >> THEN -Interval ELSE Last(planes)) + (1 + failures) * Interval

Init == clock = 0 /\ planes = << >> /\ failures = 0

Put == clock % Interval = 0 /\ ~Stored /\ planes' = Append(planes, clock)

Record == Put /\ UNCHANGED <<clock, failures>>

Tick ==
  /\ clock < Reach
  /\ clock' = clock + 1
  /\ UNCHANGED <<planes, failures>>

(* A process that is lost while it records a plane may have written it. *)
Fail ==
  /\ failures' = failures + 1
  /\ Put \/ UNCHANGED planes
  /\ UNCHANGED clock

Resume ==
  /\ failures > 0
  /\ clock' \in 0 .. clock
  /\ planes # << >> => Last(planes) <= clock'
  /\ UNCHANGED <<planes, failures>>

Next == Record \/ Tick \/ Fail \/ Resume

Spec == Init /\ [][Next]_<<clock, planes, failures>>

=============================================================================

----------------------------- MODULE WindHistory -----------------------------
(***************************************************************************)
(* What the two time-marching schemes for the winds promise, with the      *)
(* whole history of tendencies at hand: 3rd-order Adams-Bashforth combines *)
(* the tendencies of the last three steps and gets up to speed with one of *)
(* 1st and one of 2nd order; leapfrog goes two steps from the filtered     *)
(* wind of the step before, after one forward step, and lags dissipation.  *)
(***************************************************************************)
EXTENDS Integers, Sequences

CONSTANT Schemes
Winds == {"u", "v"}

VARIABLES
  scheme,
  time,  \* time[w]: the number of steps wind w has been marched
  last   \* last[w]: what its last step was made from

(* What a tendency is the sum of: the name of each term and the times of the *)
(* fields it was computed from.  pgrad uses scalars that are a step ahead.   *)
Tendency(t, dissipation) ==
  {<<"core", {t}>>, <<"sponge", {dissipation}>>,
   <<"pgrad", {t + 1}>>, <<"subgrid", {dissipation}>>}

Part(twelfths, terms) == [twelfths |-> twelfths, terms |-> terms]
Step(base, parts)     == [base |-> base, parts |-> parts]

AdamsBashforth(t) ==
  Step(t, CASE t = 0 -> << Part(12, Tendency(0, 0)) >>
            [] t = 1 -> << Part(18, Tendency(1, 1)), Part(-6, Tendency(0, 0)) >>
            [] OTHER -> << Part(23, Tendency(t, t)), Part(-16, Tendency(t - 1, t - 1)),
                           Part(5, Tendency(t - 2, t - 2)) >>)

Leapfrog(t) ==
  IF t = 0 THEN Step(0, << Part(12, Tendency(0, 0)) >>)
           ELSE Step(t - 1, << Part(24, Tendency(t, t - 1)) >>)

NoStep == Step(0, << >>)

Init ==
  /\ scheme \in Schemes
  /\ time = [w \in Winds |-> 0]
  /\ last = [w \in Winds |-> NoStep]

March(w) ==
  /\ \A x \in Winds : time[w] <= time[x]
  /\ time' = [time EXCEPT ![w] = @ + 1]
  /\ last' = [last EXCEPT ![w] = IF scheme = "AdamsBashforth" THEN AdamsBashforth(time[w])
                                                              ELSE Leapfrog(time[w])]
  /\ UNCHANGED scheme

(* A run that is started again goes on from a time both winds have been at. *)
Resume ==
  \E t \in 0 .. time["u"] : /\ t <= time["v"]
                            /\ time' = [w \in Winds |-> t]
                            /\ UNCHANGED <<scheme, last>>

Next == Resume \/ \E w \in Winds : March(w)

Spec == Init /\ [][Next]_<<scheme, time, last>>

=============================================================================

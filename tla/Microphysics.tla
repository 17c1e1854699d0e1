---------------------------- MODULE Microphysics ----------------------------
(***************************************************************************)
(* cloud_microphysics() (clouds/epic_microphysics.c) in one cell, for one  *)
(* species: neither cells nor species exchange anything in a call.  The    *)
(* nine finite rates are calculated one after another from the mixing      *)
(* ratios the call found, with four running budgets that are to keep them  *)
(* from using the same water twice, and are applied together at the end.   *)
(*                                                                         *)
(* Mixing ratios are whole numbers of units, 0 stands for EPSILON.  A rate *)
(* is the amount of one timestep (rate times DT).  How fast a process is,  *)
(* is left open: it moves any amount its limits in the code allow.         *)
(***************************************************************************)
EXTENDS Integers

CONSTANTS
  Q_LIQ_0, Q_Icrit,  \* thresholds of autoconversion
  Lf, Lc,            \* latent heats of fusion and of condensation
  MaxMass            \* bound: units of water in the cell when a call begins

Ls == Lf + Lc

ASSUME MicrophysicsAssumption == {Q_LIQ_0, Q_Icrit, Lf, Lc, MaxMass} \subseteq Nat

VARIABLES
  pc,
  fast,                              \* ALPHA_RAUT*DT is between 1 and 2
  warm, qsat,                        \* temperature, saturation mixing ratio
  vapor, liquid, ice, rain, snow,    \* Q(is,ip,K,J,I)
  HEAT3,                             \* what this call adds to it, times DT
  av_liquid, av_ice, supersat, subsat,
  pcond, pint, pdepi, praut, psaut, pracw, psaci, prevap, psevap,
  before                             \* what the call was given

water   == <<vapor, liquid, ice, rain, snow>>
budgets == <<av_liquid, av_ice, supersat, subsat>>
rates   == <<pcond, pint, pdepi, praut, psaut, pracw, psaci, prevap, psevap>>
cell    == <<fast, warm, qsat, before>>
vars    == <<pc, cell, water, HEAT3, budgets, rates>>

Excess(q) == IF q > 0 THEN q ELSE 0

Least(a, b) == IF a < b THEN a ELSE b

Saturated == vapor > qsat

-----------------------------------------------------------------------------

Mixture(v, l, i, r, s) == [vapor |-> v, liquid |-> l, ice |-> i, rain |-> r, snow |-> s]

(* What a call may be given: any mixture, since transport, sedimentation and *)
(* temperature change it between calls, but no mixing ratio is negative.     *)
Mixtures ==
  {m \in [{"vapor", "liquid", "ice", "rain", "snow"} -> 0 .. MaxMass] :
     m.vapor + m.liquid + m.ice + m.rain + m.snow <= MaxMass}

Init ==
  /\ pc = "top"
  /\ fast \in BOOLEAN /\ warm \in BOOLEAN /\ qsat \in 0 .. MaxMass
  /\ before \in Mixtures
  /\ vapor = before.vapor /\ liquid = before.liquid /\ ice = before.ice
  /\ rain = before.rain /\ snow = before.snow
  /\ HEAT3 = 0
  /\ av_liquid = 0 /\ av_ice = 0 /\ supersat = 0 /\ subsat = 0
  /\ pcond = 0 /\ pint = 0 /\ pdepi = 0 /\ praut = 0 /\ psaut = 0
  /\ pracw = 0 /\ psaci = 0 /\ prevap = 0 /\ psevap = 0

Call(here, there) == pc = here /\ pc' = there /\ UNCHANGED cell

RestoreMassMin_NotLiquid ==  \* variant: the liquid is forgotten
  /\ vapor' = Excess(vapor) /\ liquid' = liquid /\ ice' = Excess(ice)
  /\ rain' = Excess(rain) /\ snow' = Excess(snow)
  /\ UNCHANGED <<HEAT3, budgets, rates>>

(* Whatever is below EPSILON is set to it. *)
RestoreMassMin ==
  /\ vapor' = Excess(vapor) /\ liquid' = Excess(liquid) /\ ice' = Excess(ice)
  /\ rain' = Excess(rain) /\ snow' = Excess(snow)
  /\ UNCHANGED <<HEAT3, budgets, rates>>

RestoreBefore == Call("top", "instantaneous") /\ RestoreMassMin

(* instantaneous_processes(): everything melts or everything freezes. *)
Instantaneous ==
  /\ Call("instantaneous", "finite")
  /\ LET psmlti == IF warm THEN ice ELSE -liquid
         psmlts == IF warm THEN snow ELSE -rain
     IN  /\ liquid' = liquid + psmlti /\ ice' = ice - psmlti
         /\ rain' = rain + psmlts /\ snow' = snow - psmlts
         /\ HEAT3' = HEAT3 - (psmlti + psmlts) * Lf
  /\ UNCHANGED <<vapor, budgets, rates>>

(* finite_rate_processes(): the budgets at its beginning, all rates zero. *)
FiniteRateProcesses ==
  /\ Call("finite", "pcond")
  /\ av_ice' = ice /\ av_liquid' = liquid
  /\ supersat' = Excess(vapor - qsat) /\ subsat' = Excess(qsat - vapor)
  /\ UNCHANGED <<water, HEAT3, rates>>

Condense ==
  /\ warm /\ Saturated
  /\ \E a \in 0 .. supersat : pcond' = a /\ supersat' = supersat - a
  /\ UNCHANGED <<subsat, av_liquid>>

Evaporate_KeepsDeficit ==  \* variant: the deficit is not reduced
  /\ warm /\ ~Saturated /\ av_liquid > 0
  /\ \E a \in 0 .. Least(subsat, av_liquid) : pcond' = -a /\ av_liquid' = av_liquid - a
  /\ UNCHANGED <<supersat, subsat>>

Evaporate ==
  /\ warm /\ ~Saturated /\ av_liquid > 0
  /\ \E a \in 0 .. Least(subsat, av_liquid) :
       pcond' = -a /\ subsat' = subsat - a /\ av_liquid' = av_liquid - a
  /\ UNCHANGED supersat

Pcond ==
  /\ Call("pcond", "pdepi")
  /\ \/ Condense
     \/ Evaporate
     \/ ~(warm /\ (Saturated \/ av_liquid > 0)) /\ UNCHANGED <<pcond, budgets>>
  /\ UNCHANGED <<water, HEAT3, av_ice, pint, pdepi, praut, psaut, pracw, psaci, prevap, psevap>>

(* PINT: the first ice; PDEPI: deposition on ice that is there. *)
Deposit ==
  /\ ~warm /\ Saturated
  /\ \E a \in 0 .. supersat :
       /\ supersat' = supersat - a
       /\ \/ ice = 0 /\ pint' = a /\ UNCHANGED pdepi
          \/ ice > 0 /\ pdepi' = a /\ UNCHANGED pint
  /\ UNCHANGED <<subsat, av_ice>>

(* Sublimation is limited by the ice, not by the deficit. *)
Sublimate ==
  /\ ~warm /\ ~Saturated /\ av_ice > 0
  /\ \E a \in 0 .. av_ice :
       pdepi' = -a /\ subsat' = subsat - a /\ av_ice' = av_ice - a
  /\ UNCHANGED <<pint, supersat>>

Pdepi ==
  /\ Call("pdepi", "praut")
  /\ \/ Deposit
     \/ Sublimate
     \/ ~(~warm /\ (Saturated \/ av_ice > 0)) /\ UNCHANGED <<pint, pdepi, budgets>>
  /\ UNCHANGED <<water, HEAT3, av_liquid, pcond, praut, psaut, pracw, psaci, prevap, psevap>>

(* ALPHA_RAUT*DT times the liquid above the threshold, whatever there is. *)
Converted(above) == IF fast THEN above .. 2 * above ELSE 0 .. above

Praut ==
  /\ Call("praut", "psaut")
  /\ \/ /\ av_liquid > Q_LIQ_0
        /\ \E a \in Converted(av_liquid - Q_LIQ_0) : praut' = a /\ av_liquid' = av_liquid - a
     \/ av_liquid <= Q_LIQ_0 /\ UNCHANGED <<praut, av_liquid>>
  /\ UNCHANGED <<water, HEAT3, av_ice, supersat, subsat, pcond, pint, pdepi, psaut, pracw, psaci,
                 prevap, psevap>>

Psaut ==
  /\ Call("psaut", "pracw")
  /\ psaut' = Excess(av_ice - Q_Icrit) /\ av_ice' = av_ice - psaut'
  /\ UNCHANGED <<water, HEAT3, av_liquid, supersat, subsat, pcond, pint, pdepi, praut, pracw,
                 psaci, prevap, psevap>>

Pracw_AllLiquid ==  \* variant: limited by the liquid the call found
  /\ Call("pracw", "psaci")
  /\ \/ /\ rain > 0 /\ av_liquid > 0
        /\ \E a \in 0 .. liquid : pracw' = a /\ av_liquid' = av_liquid - a
     \/ ~(rain > 0 /\ av_liquid > 0) /\ UNCHANGED <<pracw, av_liquid>>
  /\ UNCHANGED <<water, HEAT3, av_ice, supersat, subsat, pcond, pint, pdepi, praut, psaut, psaci,
                 prevap, psevap>>

Pracw ==
  /\ Call("pracw", "psaci")
  /\ \/ /\ rain > 0 /\ av_liquid > 0
        /\ \E a \in 0 .. av_liquid : pracw' = a /\ av_liquid' = av_liquid - a
     \/ ~(rain > 0 /\ av_liquid > 0) /\ UNCHANGED <<pracw, av_liquid>>
  /\ UNCHANGED <<water, HEAT3, av_ice, supersat, subsat, pcond, pint, pdepi, praut, psaut, psaci,
                 prevap, psevap>>

Psaci ==
  /\ Call("psaci", "evap")
  /\ \/ /\ snow > 0 /\ av_ice > 0
        /\ \E a \in 0 .. av_ice : psaci' = a /\ av_ice' = av_ice - a
     \/ ~(snow > 0 /\ av_ice > 0) /\ UNCHANGED <<psaci, av_ice>>
  /\ UNCHANGED <<water, HEAT3, av_liquid, supersat, subsat, pcond, pint, pdepi, praut, psaut,
                 pracw, prevap, psevap>>

(* The exchange of precipitation with the vapour, negative when it evaporates. *)
Exchange(amount, precipitation) ==
  \/ /\ subsat > 0
     /\ amount < 0 /\ -amount <= Least(subsat, precipitation)
     /\ subsat' = subsat + amount /\ UNCHANGED supersat
  \/ /\ subsat <= 0 /\ supersat > 0
     /\ amount > 0 /\ amount <= supersat
     /\ supersat' = supersat - amount /\ UNCHANGED subsat
  \/ amount = 0 /\ UNCHANGED <<subsat, supersat>>

PrecipitationEvap ==
  /\ Call("evap", "update")
  /\ \E a \in -MaxMass .. MaxMass :
       \/ rain > 0 /\ warm /\ Exchange(a, rain) /\ prevap' = a /\ UNCHANGED psevap
       \/ snow > 0 /\ ~warm /\ Exchange(a, snow) /\ psevap' = a /\ UNCHANGED prevap
       \/ /\ a = 0 /\ ~(IF warm THEN rain > 0 ELSE snow > 0)
          /\ UNCHANGED <<subsat, supersat, prevap, psevap>>
  /\ UNCHANGED <<water, HEAT3, av_liquid, av_ice, pcond, pint, pdepi, praut, psaut, pracw, psaci>>

(* The locals of finite_rate_processes() are gone when it returns. *)
Return ==
  /\ av_liquid' = 0 /\ av_ice' = 0 /\ supersat' = 0 /\ subsat' = 0
  /\ pcond' = 0 /\ pint' = 0 /\ pdepi' = 0 /\ praut' = 0 /\ psaut' = 0
  /\ pracw' = 0 /\ psaci' = 0 /\ prevap' = 0 /\ psevap' = 0

Update_RainUnheated ==  \* variant: the evaporation of rain cools nothing
  /\ Call("update", "restore")
  /\ vapor'  = vapor - pcond - (pint + pdepi) - prevap - psevap
  /\ liquid' = liquid + pcond - (praut + pracw)
  /\ ice'    = ice + (pint + pdepi) - (psaut + psaci)
  /\ rain'   = rain + (praut + pracw) + prevap
  /\ snow'   = snow + (psaut + psaci) + psevap
  /\ HEAT3'  = HEAT3 + pcond * Lc + (pint + pdepi + psevap) * Ls
  /\ Return

(* All rates are applied; Lc(VAPOR,LIQUID) of the code is -Lc. *)
Update ==
  /\ Call("update", "restore")
  /\ vapor'  = vapor - pcond - (pint + pdepi) - prevap - psevap
  /\ liquid' = liquid + pcond - (praut + pracw)
  /\ ice'    = ice + (pint + pdepi) - (psaut + psaci)
  /\ rain'   = rain + (praut + pracw) + prevap
  /\ snow'   = snow + (psaut + psaci) + psevap
  /\ HEAT3'  = HEAT3 + (pcond + prevap) * Lc + (pint + pdepi + psevap) * Ls
  /\ Return

RestoreAfter == Call("restore", "end") /\ RestoreMassMin

Next ==
  \/ RestoreBefore \/ Instantaneous \/ FiniteRateProcesses
  \/ Pcond \/ Pdepi \/ Praut \/ Psaut \/ Pracw \/ Psaci \/ PrecipitationEvap
  \/ Update \/ RestoreAfter

Spec == Init /\ [][Next]_vars

-----------------------------------------------------------------------------

Total(m) == m.vapor + m.liquid + m.ice + m.rain + m.snow

(* The latent heat in a mixture, that of ice and snow being zero. *)
Latent(m) == m.vapor * Ls + (m.liquid + m.rain) * Lf

Now == Mixture(vapor, liquid, ice, rain, snow)

(* The water that a call has made. *)
Made == Total(Now) - Total(before)

(* Every variable has its type; no mixing ratio is negative after a call. *)
TypeOK ==
  /\ pc \in {"top", "instantaneous", "finite", "pcond", "pdepi", "praut", "psaut", "pracw",
             "psaci", "evap", "update", "restore", "end"}
  /\ {fast, warm} \subseteq BOOLEAN
  /\ qsat \in Nat
  /\ before \in [{"vapor", "liquid", "ice", "rain", "snow"} -> Nat]
  /\ {vapor, liquid, ice, rain, snow} \subseteq (IF pc = "restore" THEN Int ELSE Nat)
  /\ {HEAT3, av_liquid, av_ice, supersat, subsat} \subseteq Int
  /\ {pcond, pint, pdepi, praut, psaut, pracw, psaci, prevap, psevap} \subseteq Int

(***************************************************************************)
(* "We would still avoid using more than the available amount of moisture  *)
(* by these processes" (epic_microphysics.c): the rates together overdraw  *)
(* no phase, so that restore_mass_min() makes no water.  It does when      *)
(* ALPHA_RAUT*DT is above 1, since autoconversion takes more liquid than   *)
(* there is: of a call that makes water all liquid is gone, and what it    *)
(* makes is less than the liquid there was, by twice the threshold.        *)
(***************************************************************************)
MassKept ==
  pc = "end" =>
    /\ ~(fast /\ warm) => Made = 0
    /\ Made \in 0 .. Excess(before.liquid + before.ice - 2 * Q_LIQ_0)
    /\ Made > 0 => liquid = 0

(* What the heating of a call gives is the latent heat its phase changes set *)
(* free, whatever way round water goes through the phases; the liquid that   *)
(* is made comes without any.                                                *)
HeatMatchesPhases ==
  pc = "end" => HEAT3 = Latent(before) - Latent(Now) + Lf * Made

(***************************************************************************)
(* The processes that share the vapour do not take it past saturation      *)
(* together.  Sublimation alone may, by at most the ice there was.         *)
(***************************************************************************)
SaturationCrossedByIceOnly ==
  pc = "end" =>
    /\ before.vapor >= qsat => vapor >= qsat
    /\ before.vapor <= qsat =>
         vapor <= qsat + (IF warm THEN 0 ELSE before.liquid + before.ice)

=============================================================================

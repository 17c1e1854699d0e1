------------------------- MODULE MicrophysicsProofs -------------------------
(* Proofs for Microphysics, for every amount of water, every threshold and   *)
(* every latent heat.  The four budgets of finite_rate_processes() are a     *)
(* ledger: at every stage each is what there was less what the rates so far  *)
(* take from it.  From the ledger and the limits of the rates follows what   *)
(* the rates do when they are applied together.                              *)
EXTENDS Microphysics, TLAPS

Gain(p) == IF p > 0 THEN p ELSE 0
Loss(p) == IF p < 0 THEN -p ELSE 0

(* The stages of finite_rate_processes(). *)
Finite == {"pcond", "pdepi", "praut", "psaut", "pracw", "psaci", "evap", "update"}

Types ==
  /\ pc \in {"top", "instantaneous", "finite", "restore", "end"} \cup Finite
  /\ fast \in BOOLEAN /\ warm \in BOOLEAN /\ qsat \in Nat
  /\ before \in [{"vapor", "liquid", "ice", "rain", "snow"} -> Nat]
  /\ vapor \in Int /\ liquid \in Int /\ ice \in Int /\ rain \in Int /\ snow \in Int
  /\ HEAT3 \in Int
  /\ av_liquid \in Int /\ av_ice \in Int /\ supersat \in Int /\ subsat \in Int
  /\ pcond \in Int /\ pint \in Int /\ pdepi \in Int /\ praut \in Int /\ psaut \in Int
  /\ pracw \in Int /\ psaci \in Int /\ prevap \in Int /\ psevap \in Int

(* Until the rates are applied the cell holds what the call was given, but   *)
(* for what has melted or frozen.                                            *)
Given ==
  /\ pc \in {"top", "instantaneous"} =>
       /\ vapor = before.vapor /\ liquid = before.liquid /\ ice = before.ice
       /\ rain = before.rain /\ snow = before.snow
  /\ pc \in {"finite"} \cup Finite =>
       /\ vapor = before.vapor
       /\ warm => /\ liquid = before.liquid + before.ice /\ ice = 0
                  /\ rain = before.rain + before.snow /\ snow = 0
       /\ ~warm => /\ ice = before.liquid + before.ice /\ liquid = 0
                   /\ snow = before.rain + before.snow /\ rain = 0

(* A rate is zero until its turn. *)
NotYet ==
  /\ pc \notin Finite \ {"pcond"} => pcond = 0
  /\ pc \notin Finite \ {"pcond", "pdepi"} => pint = 0 /\ pdepi = 0
  /\ pc \notin {"psaut", "pracw", "psaci", "evap", "update"} => praut = 0
  /\ pc \notin {"pracw", "psaci", "evap", "update"} => psaut = 0
  /\ pc \notin {"psaci", "evap", "update"} => pracw = 0
  /\ pc \notin {"evap", "update"} => psaci = 0
  /\ pc # "update" => prevap = 0 /\ psevap = 0

Ledger ==
  pc \in Finite =>
    /\ av_liquid = liquid - Loss(pcond) - praut - pracw
    /\ av_ice = ice - Loss(pdepi) - psaut - psaci
    /\ supersat = Excess(vapor - qsat) - Gain(pcond) - pint - Gain(pdepi) - Gain(prevap) - Gain(psevap)
    /\ subsat = Excess(qsat - vapor) - Loss(pcond) - Loss(pdepi) - Loss(prevap) - Loss(psevap)

(* How far a fast autoconversion may overdraw the liquid. *)
Short == IF fast THEN Excess(liquid - 2 * Q_LIQ_0) ELSE 0

(* What is left of a budget.  The liquid may be overdrawn by autoconversion, *)
(* the deficit by sublimation.                                               *)
Limits ==
  pc \in Finite =>
    /\ av_liquid >= -Short
    /\ pc \in {"pcond", "pdepi", "praut"} => av_liquid >= 0
    /\ av_ice >= 0 /\ supersat >= 0 /\ subsat >= -Loss(pdepi)
    /\ warm => Loss(pdepi) = 0
    /\ Loss(pdepi) <= ice
    /\ pint >= 0 /\ praut >= 0 /\ psaut >= 0 /\ pracw >= 0 /\ psaci >= 0
    /\ Loss(prevap) <= rain /\ Loss(psevap) <= snow

(* What the rates leave when they have been applied. *)
Overdrawn == IF fast /\ warm THEN Excess(before.liquid + before.ice - 2 * Q_LIQ_0) ELSE 0

Applied ==
  /\ pc = "restore" =>
       /\ vapor >= 0 /\ ice >= 0 /\ rain >= 0 /\ snow >= 0
       /\ liquid >= -Overdrawn
       /\ Total(Now) = Total(before)
  /\ pc = "end" =>
       /\ vapor >= 0 /\ liquid >= 0 /\ ice >= 0 /\ rain >= 0 /\ snow >= 0
       /\ Total(Now) >= Total(before) /\ Total(Now) <= Total(before) + Overdrawn
       /\ Total(Now) > Total(before) => liquid = 0

Saturation ==
  pc \in {"restore", "end"} =>
    /\ before.vapor >= qsat => vapor >= qsat
    /\ before.vapor <= qsat =>
         vapor <= qsat + (IF warm THEN 0 ELSE before.liquid + before.ice)

Heat ==
  /\ pc # "end" => HEAT3 = Latent(before) - Latent(Now)
  /\ pc = "end" => HEAT3 = Latent(before) - Latent(Now) + Lf * Made

IInv == Types /\ Given /\ NotYet /\ Ledger /\ Limits /\ Applied /\ Saturation /\ Heat

-----------------------------------------------------------------------------

(* Without a new amount of liquid as much may be overdrawn as before. *)
LEMMA ShortIs ==
  ASSUME Types
  PROVE  Short \in Nat /\ (fast' = fast /\ liquid' = liquid => Short' = Short)
<1>1. liquid \in Int /\ Q_LIQ_0 \in Nat
  BY MicrophysicsAssumption DEF Types
<1> QED
  BY <1>1 DEF Short, Excess

LEMMA OverdrawnIs ==
  ASSUME Types
  PROVE  /\ Overdrawn \in Nat
         /\ fast' = fast /\ warm' = warm /\ before' = before => Overdrawn' = Overdrawn
<1>1. before.liquid \in Nat /\ before.ice \in Nat /\ Q_LIQ_0 \in Nat
  BY MicrophysicsAssumption DEF Types
<1> QED
  BY <1>1 DEF Overdrawn, Excess

LEMMA InitInv == Init => IInv
<1> SUFFICES ASSUME Init PROVE IInv
  OBVIOUS
<1>1. /\ before \in [{"vapor", "liquid", "ice", "rain", "snow"} -> 0 .. MaxMass]
      /\ MaxMass \in Nat /\ Lf \in Int /\ Lc \in Int
  BY MicrophysicsAssumption DEF Init, Mixtures
<1>2. before \in [{"vapor", "liquid", "ice", "rain", "snow"} -> Nat]
  BY <1>1
<1>3. Types
  BY <1>1, <1>2 DEF Init, Types
<1>4. Latent(before) = Latent(Now)
  BY DEF Init, Latent, Now, Mixture
<1>5. Latent(Now) \in Int
  BY <1>1, <1>3 DEF Types, Latent, Now, Mixture, Ls
<1>6. Heat
  BY <1>4, <1>5 DEF Init, Heat
<1>7. Given /\ NotYet
  BY DEF Init, Given, NotYet, Finite
<1>8. Ledger /\ Limits /\ Applied /\ Saturation
  BY DEF Init, Ledger, Limits, Applied, Saturation, Finite
<1> QED
  BY <1>3, <1>6, <1>7, <1>8 DEF IInv

(* The stages between which neither the cell nor its heating changes. *)
LEMMA WaterKept ==
  ASSUME IInv, UNCHANGED <<cell, water, HEAT3>>,
         pc \in {"finite"} \cup Finite, pc' \in Finite
  PROVE  Given' /\ Applied' /\ Saturation' /\ Heat'
<1>1. /\ fast' = fast /\ warm' = warm /\ qsat' = qsat /\ before' = before
      /\ vapor' = vapor /\ liquid' = liquid /\ ice' = ice /\ rain' = rain /\ snow' = snow
      /\ HEAT3' = HEAT3
  BY DEF cell, water
<1>2. Given'
  BY <1>1 DEF IInv, Given, Finite
<1>3. Applied' /\ Saturation'
  BY DEF Applied, Saturation, Finite
<1>4. Heat'
  <2>1. (Latent(before))' = Latent(before) /\ (Latent(Now))' = Latent(Now)
    BY <1>1 DEF Latent, Now
  <2>2. HEAT3 = Latent(before) - Latent(Now)
    BY DEF IInv, Heat, Finite
  <2> QED
    BY <1>1, <2>1, <2>2 DEF Heat, Finite
<1> QED
  BY <1>2, <1>3, <1>4

LEMMA RestoreBeforeInv == IInv /\ RestoreBefore => IInv'
<1> SUFFICES ASSUME IInv, RestoreBefore PROVE IInv'
  OBVIOUS
<1>1. /\ pc = "top" /\ pc' = "instantaneous"
      /\ fast' = fast /\ warm' = warm /\ qsat' = qsat /\ before' = before
      /\ UNCHANGED <<HEAT3, budgets, rates>>
  BY DEF RestoreBefore, Call, cell, RestoreMassMin
<1>2. /\ vapor' = vapor /\ liquid' = liquid /\ ice' = ice /\ rain' = rain /\ snow' = snow
  <2>1. /\ vapor \in Nat /\ liquid \in Nat /\ ice \in Nat /\ rain \in Nat /\ snow \in Nat
    BY <1>1 DEF IInv, Types, Given
  <2>2. \A q \in Nat : Excess(q) = q
    BY DEF Excess
  <2> QED
    BY <2>1, <2>2 DEF RestoreBefore, RestoreMassMin
<1>3. Types'
  BY <1>1, <1>2 DEF IInv, Types, budgets, rates
<1>4. Given'
  BY <1>1, <1>2 DEF IInv, Given, Finite
<1>5. NotYet'
  BY <1>1 DEF IInv, NotYet, rates, Finite
<1>6. Ledger' /\ Limits' /\ Applied' /\ Saturation'
  BY <1>1 DEF Ledger, Limits, Applied, Saturation, Finite
<1>7. (Latent(before))' = Latent(before) /\ (Latent(Now))' = Latent(Now)
  BY <1>1, <1>2 DEF Latent, Now
<1>8. Heat'
  BY <1>1, <1>7 DEF IInv, Heat
<1> QED
  BY <1>3, <1>4, <1>5, <1>6, <1>8 DEF IInv

(* The latent heat of freezing what is added to the liquid and the rain. *)
LEMMA Melting ==
  ASSUME NEW h \in Int, NEW f \in Int, NEW l \in Int, NEW r \in Int, NEW a \in Int, NEW b \in Int
  PROVE  ((l + a) + (r + b)) * f = (l + r) * f + (a + b) * f
  OBVIOUS

LEMMA InstantaneousInv == IInv /\ Instantaneous => IInv'
<1> SUFFICES ASSUME IInv, Instantaneous PROVE IInv'
  OBVIOUS
<1> DEFINE a == IF warm THEN ice ELSE -liquid
<1> DEFINE b == IF warm THEN snow ELSE -rain
<1>1. /\ pc = "instantaneous" /\ pc' = "finite"
      /\ fast' = fast /\ warm' = warm /\ qsat' = qsat /\ before' = before
      /\ vapor' = vapor /\ UNCHANGED <<budgets, rates>>
      /\ liquid' = liquid + a /\ ice' = ice - a /\ rain' = rain + b /\ snow' = snow - b
      /\ HEAT3' = HEAT3 - (a + b) * Lf
  BY DEF Instantaneous, Call, cell
<1>2. /\ vapor \in Int /\ liquid \in Int /\ ice \in Int /\ rain \in Int /\ snow \in Int
      /\ HEAT3 \in Int /\ Lf \in Int /\ Lc \in Int /\ a \in Int /\ b \in Int
  BY MicrophysicsAssumption DEF IInv, Types
<1>3. Given'
  BY <1>1, <1>2 DEF IInv, Given, Finite
<1>4. Heat'
  <2> HIDE DEF a, b
  <2>1. HEAT3 = Latent(before) - Latent(Now)
    BY <1>1 DEF IInv, Heat
  <2>2. Latent(Now) = vapor * (Lf + Lc) + (liquid + rain) * Lf
    BY DEF Latent, Now, Mixture, Ls
  <2>3. (Latent(Now))' = vapor * (Lf + Lc) + ((liquid + a) + (rain + b)) * Lf
    BY <1>1 DEF Latent, Now, Mixture, Ls
  <2>4. (Latent(before))' = Latent(before)
    BY <1>1 DEF Latent
  <2>5. Latent(before) \in Int
    BY <1>2 DEF IInv, Types, Latent, Ls
  <2>6. ((liquid + a) + (rain + b)) * Lf = (liquid + rain) * Lf + (a + b) * Lf
    BY <1>2, Melting
  <2>7. vapor * (Lf + Lc) \in Int /\ (liquid + rain) * Lf \in Int /\ (a + b) * Lf \in Int
    BY <1>2
  <2>8. HEAT3' = (Latent(before))' - (Latent(Now))'
    BY <1>1, <2>1, <2>2, <2>3, <2>4, <2>5, <2>6, <2>7
  <2> QED
    BY <1>1, <2>8 DEF Heat
<1>5. Types'
  <2>1. liquid' \in Int /\ ice' \in Int /\ rain' \in Int /\ snow' \in Int /\ vapor' \in Int
    BY <1>1, <1>2
  <2>2. HEAT3' \in Int
    BY <1>1, <1>2
  <2> QED
    BY <1>1, <2>1, <2>2 DEF IInv, Types, budgets, rates
<1>6. NotYet'
  BY <1>1 DEF IInv, NotYet, rates, Finite
<1>7. Ledger' /\ Limits' /\ Applied' /\ Saturation'
  BY <1>1 DEF Ledger, Limits, Applied, Saturation, Finite
<1> QED
  BY <1>3, <1>4, <1>5, <1>6, <1>7 DEF IInv

LEMMA FiniteRateProcessesInv == IInv /\ FiniteRateProcesses => IInv'
<1> SUFFICES ASSUME IInv, FiniteRateProcesses PROVE IInv'
  OBVIOUS
<1>1. /\ pc = "finite" /\ pc' = "pcond" /\ UNCHANGED <<cell, water, HEAT3, rates>>
      /\ av_ice' = ice /\ av_liquid' = liquid
      /\ supersat' = Excess(vapor - qsat) /\ subsat' = Excess(qsat - vapor)
  BY DEF FiniteRateProcesses, Call
<1>2. /\ vapor \in Nat /\ liquid \in Nat /\ ice \in Nat /\ rain \in Nat /\ snow \in Nat
      /\ qsat \in Nat
  BY <1>1 DEF IInv, Types, Given
<1>3. /\ pcond' = 0 /\ pint' = 0 /\ pdepi' = 0 /\ praut' = 0 /\ psaut' = 0 /\ pracw' = 0
      /\ psaci' = 0 /\ prevap' = 0 /\ psevap' = 0
  BY <1>1 DEF IInv, NotYet, rates, Finite
<1>4. Given' /\ Applied' /\ Saturation' /\ Heat'
  BY <1>1, WaterKept DEF Finite
<1>5. Types'
  <2>1. supersat' \in Int /\ subsat' \in Int
    BY <1>1, <1>2 DEF Excess
  <2> QED
    BY <1>1, <1>2, <1>3, <2>1 DEF IInv, Types, cell, water, Finite
<1>6. NotYet'
  BY <1>3 DEF NotYet
<1>7. Ledger'
  BY <1>1, <1>2, <1>3 DEF Ledger, Gain, Loss, Excess, cell, water
<1>8. Limits'
  BY <1>1, <1>2, <1>3, ShortIs DEF IInv, Limits, Loss, Excess, cell, water
<1> QED
  BY <1>4, <1>5, <1>6, <1>7, <1>8 DEF IInv

(* What the finite rates start from: whole numbers, and nothing negative.   *)
Amounts ==
  /\ vapor \in Nat /\ liquid \in Nat /\ ice \in Nat /\ rain \in Nat /\ snow \in Nat
  /\ qsat \in Nat /\ fast \in BOOLEAN /\ warm \in BOOLEAN
  /\ av_liquid \in Int /\ av_ice \in Int /\ supersat \in Int /\ subsat \in Int

LEMMA FiniteAmounts == IInv /\ pc \in Finite => Amounts
  BY DEF IInv, Types, Given, Amounts

LEMMA NoneYet == Gain(0) = 0 /\ Loss(0) = 0
  BY DEF Gain, Loss

LEMMA PcondInv == IInv /\ Pcond => IInv'
<1> SUFFICES ASSUME IInv, Pcond PROVE IInv'
  OBVIOUS
<1>1. /\ pc = "pcond" /\ pc' = "pdepi" /\ UNCHANGED <<cell, water, HEAT3, av_ice>>
      /\ UNCHANGED <<pint, pdepi, praut, psaut, pracw, psaci, prevap, psevap>>
  BY DEF Pcond, Call
<1>2. /\ pcond = 0 /\ pint = 0 /\ pdepi = 0 /\ praut = 0 /\ psaut = 0 /\ pracw = 0
      /\ psaci = 0 /\ prevap = 0 /\ psevap = 0
  BY <1>1 DEF IInv, NotYet, Finite
<1>3. Given' /\ Applied' /\ Saturation' /\ Heat'
  BY <1>1, WaterKept DEF Finite
<1>4. Amounts
  BY <1>1, FiniteAmounts DEF Finite
<1> USE DEF Amounts
<1>5. /\ av_liquid = liquid /\ av_ice = ice
      /\ supersat = Excess(vapor - qsat) /\ subsat = Excess(qsat - vapor)
      /\ supersat >= 0 /\ subsat >= 0
  BY <1>1, <1>2, <1>4 DEF IInv, Ledger, Gain, Loss, Excess, Finite
<1>6. /\ pcond' \in Int /\ supersat' = supersat - Gain(pcond') /\ supersat' \in Int /\ supersat' >= 0
      /\ subsat' = subsat - Loss(pcond') /\ subsat' \in Int /\ subsat' >= 0
      /\ av_liquid' = av_liquid - Loss(pcond') /\ av_liquid' \in Int /\ av_liquid' >= 0
  <2>1. CASE Condense
    BY <2>1, <1>4, <1>5 DEF Condense, Gain, Loss
  <2>2. CASE Evaporate
    BY <2>2, <1>4, <1>5 DEF Evaporate, Gain, Loss, Least
  <2>3. CASE UNCHANGED <<pcond, budgets>>
    BY <2>3, <1>2, <1>4, <1>5 DEF budgets, Gain, Loss
  <2> QED
    BY <2>1, <2>2, <2>3 DEF Pcond
<1>7. Types'
  BY <1>1, <1>6 DEF IInv, Types, cell, water, Finite
<1>8. NotYet'
  BY <1>1, <1>2 DEF NotYet, Finite
<1>9. /\ vapor' = vapor /\ liquid' = liquid /\ ice' = ice /\ rain' = rain /\ snow' = snow
      /\ qsat' = qsat /\ fast' = fast /\ warm' = warm /\ av_ice' = av_ice
      /\ pint' = 0 /\ pdepi' = 0 /\ praut' = 0 /\ psaut' = 0 /\ pracw' = 0 /\ psaci' = 0
      /\ prevap' = 0 /\ psevap' = 0
  BY <1>1, <1>2 DEF cell, water
<1>10. Loss(pcond') \in Int /\ Gain(pcond') \in Int
       /\ Excess(vapor - qsat) \in Int /\ Excess(qsat - vapor) \in Int
  BY <1>4, <1>6 DEF Gain, Loss, Excess
<1>11. Ledger'
  BY <1>4, <1>5, <1>6, <1>9, <1>10, NoneYet DEF Ledger
<1>12. Limits'
  BY <1>4, <1>5, <1>6, <1>9, NoneYet, ShortIs DEF IInv, Limits
<1> QED
  BY <1>3, <1>7, <1>8, <1>11, <1>12 DEF IInv

LEMMA PdepiInv == IInv /\ Pdepi => IInv'
<1> SUFFICES ASSUME IInv, Pdepi PROVE IInv'
  OBVIOUS
<1>1. /\ pc = "pdepi" /\ pc' = "praut" /\ UNCHANGED <<cell, water, HEAT3, av_liquid>>
      /\ UNCHANGED <<pcond, praut, psaut, pracw, psaci, prevap, psevap>>
  BY DEF Pdepi, Call
<1>2. /\ pint = 0 /\ pdepi = 0 /\ praut = 0 /\ psaut = 0 /\ pracw = 0
      /\ psaci = 0 /\ prevap = 0 /\ psevap = 0 /\ pcond \in Int
  BY <1>1 DEF IInv, Types, NotYet, Finite
<1>3. Given' /\ Applied' /\ Saturation' /\ Heat'
  BY <1>1, WaterKept DEF Finite
<1>4. Amounts
  BY <1>1, FiniteAmounts DEF Finite
<1> USE DEF Amounts
<1>5. /\ Loss(pcond) \in Int /\ Gain(pcond) \in Int
      /\ Excess(vapor - qsat) \in Int /\ Excess(qsat - vapor) \in Int
  BY <1>2, <1>4 DEF Gain, Loss, Excess
<1>6. /\ av_liquid = liquid - Loss(pcond) /\ av_ice = ice
      /\ supersat = Excess(vapor - qsat) - Gain(pcond)
      /\ subsat = Excess(qsat - vapor) - Loss(pcond)
      /\ supersat >= 0 /\ subsat >= 0 /\ av_liquid >= 0
  BY <1>1, <1>2, <1>4, <1>5, NoneYet DEF IInv, Ledger, Limits, Finite
<1>7. /\ pint' \in Int /\ pint' >= 0 /\ pdepi' \in Int
      /\ supersat' = supersat - pint' - Gain(pdepi') /\ supersat' \in Int /\ supersat' >= 0
      /\ subsat' = subsat - Loss(pdepi') /\ subsat' \in Int
      /\ av_ice' = av_ice - Loss(pdepi') /\ av_ice' \in Int /\ av_ice' >= 0
      /\ warm => Loss(pdepi') = 0
  <2>1. CASE Deposit
    BY <2>1, <1>2, <1>4, <1>6 DEF Deposit, Gain, Loss
  <2>2. CASE Sublimate
    BY <2>2, <1>2, <1>4, <1>6 DEF Sublimate, Gain, Loss
  <2>3. CASE UNCHANGED <<pint, pdepi, budgets>>
    BY <2>3, <1>2, <1>4, <1>6 DEF budgets, Gain, Loss
  <2> QED
    BY <2>1, <2>2, <2>3 DEF Pdepi
<1>8. Types'
  BY <1>1, <1>7 DEF IInv, Types, cell, water, Finite
<1>9. NotYet'
  BY <1>1, <1>2 DEF NotYet, Finite
<1>10. /\ vapor' = vapor /\ liquid' = liquid /\ ice' = ice /\ rain' = rain /\ snow' = snow
       /\ qsat' = qsat /\ fast' = fast /\ warm' = warm /\ av_liquid' = av_liquid
       /\ pcond' = pcond /\ praut' = 0 /\ psaut' = 0 /\ pracw' = 0 /\ psaci' = 0
       /\ prevap' = 0 /\ psevap' = 0
  BY <1>1, <1>2 DEF cell, water
<1>11. Loss(pdepi') \in Int /\ Gain(pdepi') \in Int
  BY <1>7 DEF Gain, Loss
<1>12. Ledger'
  BY <1>4, <1>5, <1>6, <1>7, <1>10, <1>11, NoneYet DEF Ledger
<1>13. Limits'
  BY <1>1, <1>4, <1>6, <1>7, <1>10, <1>11, NoneYet, ShortIs DEF IInv, Limits
<1> QED
  BY <1>3, <1>8, <1>9, <1>12, <1>13 DEF IInv

LEMMA PrautInv == IInv /\ Praut => IInv'
<1> SUFFICES ASSUME IInv, Praut PROVE IInv'
  OBVIOUS
<1>1. /\ pc = "praut" /\ pc' = "psaut" /\ UNCHANGED <<cell, water, HEAT3>>
      /\ av_ice' = av_ice /\ supersat' = supersat /\ subsat' = subsat
      /\ UNCHANGED <<pcond, pint, pdepi, psaut, pracw, psaci, prevap, psevap>>
  BY DEF Praut, Call
<1>2. praut = 0
  BY <1>1 DEF IInv, NotYet, Finite
<1>3. Given' /\ Applied' /\ Saturation' /\ Heat'
  BY <1>1, WaterKept DEF Finite
<1>4. Amounts
  BY <1>1, FiniteAmounts DEF Finite
<1> USE DEF Amounts
<1>5. /\ av_liquid >= 0 /\ Q_LIQ_0 \in Nat /\ av_liquid <= liquid
  <2>1. av_liquid >= 0 /\ av_liquid = liquid - Loss(pcond) - praut - pracw
    BY <1>1 DEF IInv, Ledger, Limits, Finite
  <2>2. praut = 0 /\ pracw = 0 /\ pcond \in Int
    BY <1>1 DEF IInv, Types, NotYet, Finite
  <2>3. Q_LIQ_0 \in Nat
    BY MicrophysicsAssumption
  <2> QED
    BY <1>4, <2>1, <2>2, <2>3 DEF Loss
<1>6. /\ praut' \in Int /\ praut' >= 0
      /\ av_liquid' = av_liquid - praut' /\ av_liquid' \in Int
      /\ av_liquid' >= -Short
  <2>1. CASE av_liquid > Q_LIQ_0
    <3>1. PICK a \in Converted(av_liquid - Q_LIQ_0) : praut' = a /\ av_liquid' = av_liquid - a
      BY <2>1, <1>4, <1>5 DEF Praut
    <3>2. /\ a \in Int /\ a >= 0 /\ a <= 2 * (av_liquid - Q_LIQ_0)
          /\ ~fast => a <= av_liquid - Q_LIQ_0
      BY <3>1, <2>1, <1>4, <1>5 DEF Converted
    <3> QED
      <4>1. /\ ~fast => av_liquid - a >= 0
            /\ fast => av_liquid - a >= -Excess(liquid - 2 * Q_LIQ_0)
        BY <3>2, <2>1, <1>4, <1>5 DEF Excess
      <4> QED
        BY <3>1, <3>2, <4>1, <1>4, <1>5 DEF Short
  <2>2. CASE av_liquid <= Q_LIQ_0
    BY <2>2, <1>2, <1>4, <1>5, ShortIs DEF IInv, Praut
  <2> QED
    BY <2>1, <2>2, <1>4, <1>5
<1>7. Types'
  BY <1>1, <1>6 DEF IInv, Types, cell, water, Finite
<1>8. NotYet'
  BY <1>1, <1>2 DEF IInv, NotYet, Finite
<1>9. /\ vapor' = vapor /\ liquid' = liquid /\ ice' = ice /\ rain' = rain /\ snow' = snow
      /\ qsat' = qsat /\ fast' = fast /\ warm' = warm
      /\ pcond' = pcond /\ pint' = pint /\ pdepi' = pdepi /\ psaut' = psaut
       /\ pracw' = pracw /\ psaci' = psaci /\ prevap' = prevap /\ psevap' = psevap
  BY <1>1 DEF cell, water
<1>10. Ledger /\ Limits
  BY DEF IInv
<1>11. Ledger'
  <2>1. /\ Loss(pcond) \in Int /\ Loss(pdepi) \in Int /\ Loss(prevap) \in Int /\ Loss(psevap) \in Int
        /\ praut \in Int /\ psaut \in Int /\ pracw \in Int /\ psaci \in Int
    BY DEF IInv, Types, Loss
  <2> QED
    BY <1>1, <1>2, <1>4, <1>6, <1>9, <1>10, <2>1 DEF Ledger, Finite
<1>12. Limits'
  BY <1>1, <1>4, <1>5, <1>6, <1>9, <1>10, ShortIs DEF IInv, Limits, Finite
<1> QED
  BY <1>3, <1>7, <1>8, <1>11, <1>12 DEF IInv

LEMMA PsautInv == IInv /\ Psaut => IInv'
<1> SUFFICES ASSUME IInv, Psaut PROVE IInv'
  OBVIOUS
<1>1. /\ pc = "psaut" /\ pc' = "pracw" /\ UNCHANGED <<cell, water, HEAT3>>
      /\ av_liquid' = av_liquid /\ supersat' = supersat /\ subsat' = subsat
      /\ UNCHANGED <<pcond, pint, pdepi, praut, pracw, psaci, prevap, psevap>>
  BY DEF Psaut, Call
<1>2. psaut = 0
  BY <1>1 DEF IInv, NotYet, Finite
<1>3. Given' /\ Applied' /\ Saturation' /\ Heat'
  BY <1>1, WaterKept DEF Finite
<1>4. Amounts
  BY <1>1, FiniteAmounts DEF Finite
<1> USE DEF Amounts
<1>5. /\ av_ice >= 0 /\ Q_Icrit \in Nat
  BY <1>1, <1>4, MicrophysicsAssumption DEF IInv, Limits, Finite
<1>6. /\ psaut' \in Int /\ psaut' >= 0
      /\ av_ice' = av_ice - psaut' /\ av_ice' \in Int
      /\ av_ice' >= 0
  BY <1>2, <1>4, <1>5 DEF Psaut, Excess
<1>7. Types'
  BY <1>1, <1>6 DEF IInv, Types, cell, water, Finite
<1>8. NotYet'
  BY <1>1, <1>2 DEF IInv, NotYet, Finite
<1>9. /\ vapor' = vapor /\ liquid' = liquid /\ ice' = ice /\ rain' = rain /\ snow' = snow
      /\ qsat' = qsat /\ fast' = fast /\ warm' = warm
      /\ pcond' = pcond /\ pint' = pint /\ pdepi' = pdepi /\ praut' = praut
       /\ pracw' = pracw /\ psaci' = psaci /\ prevap' = prevap /\ psevap' = psevap
  BY <1>1 DEF cell, water
<1>10. Ledger /\ Limits
  BY DEF IInv
<1>11. Ledger'
  <2>1. /\ Loss(pcond) \in Int /\ Loss(pdepi) \in Int /\ Loss(prevap) \in Int /\ Loss(psevap) \in Int
        /\ praut \in Int /\ psaut \in Int /\ pracw \in Int /\ psaci \in Int
    BY DEF IInv, Types, Loss
  <2> QED
    BY <1>1, <1>2, <1>4, <1>6, <1>9, <1>10, <2>1 DEF Ledger, Finite
<1>12. Limits'
  BY <1>1, <1>4, <1>5, <1>6, <1>9, <1>10, ShortIs DEF IInv, Limits, Finite
<1> QED
  BY <1>3, <1>7, <1>8, <1>11, <1>12 DEF IInv

LEMMA PracwInv == IInv /\ Pracw => IInv'
<1> SUFFICES ASSUME IInv, Pracw PROVE IInv'
  OBVIOUS
<1>1. /\ pc = "pracw" /\ pc' = "psaci" /\ UNCHANGED <<cell, water, HEAT3>>
      /\ av_ice' = av_ice /\ supersat' = supersat /\ subsat' = subsat
      /\ UNCHANGED <<pcond, pint, pdepi, praut, psaut, psaci, prevap, psevap>>
  BY DEF Pracw, Call
<1>2. pracw = 0
  BY <1>1 DEF IInv, NotYet, Finite
<1>3. Given' /\ Applied' /\ Saturation' /\ Heat'
  BY <1>1, WaterKept DEF Finite
<1>4. Amounts
  BY <1>1, FiniteAmounts DEF Finite
<1> USE DEF Amounts
<1>5. /\ av_liquid >= -Short
  BY <1>1, <1>4 DEF IInv, Limits, Finite
<1>6. /\ pracw' \in Int /\ pracw' >= 0
      /\ av_liquid' = av_liquid - pracw' /\ av_liquid' \in Int
      /\ av_liquid' >= -Short
  BY <1>2, <1>4, <1>5, ShortIs DEF IInv, Pracw
<1>7. Types'
  BY <1>1, <1>6 DEF IInv, Types, cell, water, Finite
<1>8. NotYet'
  BY <1>1, <1>2 DEF IInv, NotYet, Finite
<1>9. /\ vapor' = vapor /\ liquid' = liquid /\ ice' = ice /\ rain' = rain /\ snow' = snow
      /\ qsat' = qsat /\ fast' = fast /\ warm' = warm
      /\ pcond' = pcond /\ pint' = pint /\ pdepi' = pdepi /\ praut' = praut
       /\ psaut' = psaut /\ psaci' = psaci /\ prevap' = prevap /\ psevap' = psevap
  BY <1>1 DEF cell, water
<1>10. Ledger /\ Limits
  BY DEF IInv
<1>11. Ledger'
  <2>1. /\ Loss(pcond) \in Int /\ Loss(pdepi) \in Int /\ Loss(prevap) \in Int /\ Loss(psevap) \in Int
        /\ praut \in Int /\ psaut \in Int /\ pracw \in Int /\ psaci \in Int
    BY DEF IInv, Types, Loss
  <2> QED
    BY <1>1, <1>2, <1>4, <1>6, <1>9, <1>10, <2>1 DEF Ledger, Finite
<1>12. Limits'
  BY <1>1, <1>4, <1>5, <1>6, <1>9, <1>10, ShortIs DEF IInv, Limits, Finite
<1> QED
  BY <1>3, <1>7, <1>8, <1>11, <1>12 DEF IInv

LEMMA PsaciInv == IInv /\ Psaci => IInv'
<1> SUFFICES ASSUME IInv, Psaci PROVE IInv'
  OBVIOUS
<1>1. /\ pc = "psaci" /\ pc' = "evap" /\ UNCHANGED <<cell, water, HEAT3>>
      /\ av_liquid' = av_liquid /\ supersat' = supersat /\ subsat' = subsat
      /\ UNCHANGED <<pcond, pint, pdepi, praut, psaut, pracw, prevap, psevap>>
  BY DEF Psaci, Call
<1>2. psaci = 0
  BY <1>1 DEF IInv, NotYet, Finite
<1>3. Given' /\ Applied' /\ Saturation' /\ Heat'
  BY <1>1, WaterKept DEF Finite
<1>4. Amounts
  BY <1>1, FiniteAmounts DEF Finite
<1> USE DEF Amounts
<1>5. /\ av_ice >= 0
  BY <1>1, <1>4 DEF IInv, Limits, Finite
<1>6. /\ psaci' \in Int /\ psaci' >= 0
      /\ av_ice' = av_ice - psaci' /\ av_ice' \in Int
      /\ av_ice' >= 0
  BY <1>2, <1>4, <1>5 DEF Psaci
<1>7. Types'
  BY <1>1, <1>6 DEF IInv, Types, cell, water, Finite
<1>8. NotYet'
  BY <1>1, <1>2 DEF IInv, NotYet, Finite
<1>9. /\ vapor' = vapor /\ liquid' = liquid /\ ice' = ice /\ rain' = rain /\ snow' = snow
      /\ qsat' = qsat /\ fast' = fast /\ warm' = warm
      /\ pcond' = pcond /\ pint' = pint /\ pdepi' = pdepi /\ praut' = praut
       /\ psaut' = psaut /\ pracw' = pracw /\ prevap' = prevap /\ psevap' = psevap
  BY <1>1 DEF cell, water
<1>10. Ledger /\ Limits
  BY DEF IInv
<1>11. Ledger'
  <2>1. /\ Loss(pcond) \in Int /\ Loss(pdepi) \in Int /\ Loss(prevap) \in Int /\ Loss(psevap) \in Int
        /\ praut \in Int /\ psaut \in Int /\ pracw \in Int /\ psaci \in Int
    BY DEF IInv, Types, Loss
  <2> QED
    BY <1>1, <1>2, <1>4, <1>6, <1>9, <1>10, <2>1 DEF Ledger, Finite
<1>12. Limits'
  BY <1>1, <1>4, <1>5, <1>6, <1>9, <1>10, ShortIs DEF IInv, Limits, Finite
<1> QED
  BY <1>3, <1>7, <1>8, <1>11, <1>12 DEF IInv

LEMMA PrecipitationEvapInv == IInv /\ PrecipitationEvap => IInv'
<1> SUFFICES ASSUME IInv, PrecipitationEvap PROVE IInv'
  OBVIOUS
<1>1. /\ pc = "evap" /\ pc' = "update" /\ UNCHANGED <<cell, water, HEAT3>>
      /\ av_liquid' = av_liquid /\ av_ice' = av_ice
      /\ UNCHANGED <<pcond, pint, pdepi, praut, psaut, pracw, psaci>>
  BY DEF PrecipitationEvap, Call
<1>2. prevap = 0 /\ psevap = 0
  BY <1>1 DEF IInv, NotYet
<1>3. Given' /\ Applied' /\ Saturation' /\ Heat'
  BY <1>1, WaterKept DEF Finite
<1>4. Amounts
  BY <1>1, FiniteAmounts DEF Finite
<1> USE DEF Amounts
<1>5. supersat >= 0 /\ subsat >= -Loss(pdepi) /\ Loss(pdepi) \in Int /\ Loss(pdepi) >= 0
  BY <1>1 DEF IInv, Types, Limits, Loss, Finite
(* The amount that one of the two kinds of precipitation exchanges. *)
<1>6. ASSUME NEW a \in Int, NEW q \in Nat, Exchange(a, q)
      PROVE  /\ supersat' = supersat - Gain(a) /\ supersat' \in Int /\ supersat' >= 0
             /\ subsat' = subsat - Loss(a) /\ subsat' \in Int /\ subsat' >= -Loss(pdepi)
             /\ Loss(a) <= q
  BY <1>4, <1>5, <1>6 DEF Exchange, Least, Gain, Loss
<1>7. /\ prevap' \in Int /\ psevap' \in Int
      /\ supersat' = supersat - Gain(prevap') - Gain(psevap') /\ supersat' \in Int /\ supersat' >= 0
      /\ subsat' = subsat - Loss(prevap') - Loss(psevap') /\ subsat' \in Int
      /\ subsat' >= -Loss(pdepi)
      /\ Loss(prevap') <= rain /\ Loss(psevap') <= snow
  <2>1. PICK a \in -MaxMass .. MaxMass :
          \/ rain > 0 /\ warm /\ Exchange(a, rain) /\ prevap' = a /\ UNCHANGED psevap
          \/ snow > 0 /\ ~warm /\ Exchange(a, snow) /\ psevap' = a /\ UNCHANGED prevap
          \/ /\ a = 0 /\ ~(IF warm THEN rain > 0 ELSE snow > 0)
             /\ UNCHANGED <<subsat, supersat, prevap, psevap>>
    BY DEF PrecipitationEvap
  <2>2. a \in Int
    BY MicrophysicsAssumption
  <2>3. Loss(a) \in Int /\ Gain(a) \in Int
    BY <2>2 DEF Loss, Gain
  <2>4. CASE Exchange(a, rain) /\ prevap' = a /\ UNCHANGED psevap
    BY <2>2, <2>3, <2>4, <1>2, <1>4, <1>6, NoneYet
  <2>5. CASE Exchange(a, snow) /\ psevap' = a /\ UNCHANGED prevap
    BY <2>2, <2>3, <2>5, <1>2, <1>4, <1>6, NoneYet
  <2>6. CASE UNCHANGED <<subsat, supersat, prevap, psevap>>
    BY <2>6, <1>2, <1>4, <1>5, NoneYet
  <2> QED
    BY <2>1, <2>4, <2>5, <2>6
<1>8. Types'
  BY <1>1, <1>7 DEF IInv, Types, cell, water, Finite
<1>9. NotYet'
  BY <1>1 DEF NotYet, Finite
<1>10. /\ vapor' = vapor /\ liquid' = liquid /\ ice' = ice /\ rain' = rain /\ snow' = snow
       /\ qsat' = qsat /\ fast' = fast /\ warm' = warm
       /\ pcond' = pcond /\ pint' = pint /\ pdepi' = pdepi /\ praut' = praut /\ psaut' = psaut
       /\ pracw' = pracw /\ psaci' = psaci
  BY <1>1 DEF cell, water
<1>11. Ledger /\ Limits
  BY DEF IInv
<1>12. Ledger'
  <2>1. /\ pint \in Int /\ Gain(pcond) \in Int /\ Gain(pdepi) \in Int /\ Loss(pcond) \in Int
        /\ Gain(prevap') \in Int /\ Gain(psevap') \in Int
        /\ Loss(prevap') \in Int /\ Loss(psevap') \in Int
        /\ Excess(vapor - qsat) \in Int /\ Excess(qsat - vapor) \in Int
    BY <1>4, <1>7 DEF IInv, Types, Gain, Loss, Excess
  <2>2. /\ supersat = Excess(vapor - qsat) - Gain(pcond) - pint - Gain(pdepi)
        /\ subsat = Excess(qsat - vapor) - Loss(pcond) - Loss(pdepi)
    BY <1>1, <1>2, <1>5, <1>11, <2>1, NoneYet DEF Ledger, Finite
  <2>3. /\ av_liquid = liquid - Loss(pcond) - praut - pracw
        /\ av_ice = ice - Loss(pdepi) - psaut - psaci
    BY <1>1, <1>11 DEF Ledger, Finite
  <2> QED
    BY <1>1, <1>5, <1>7, <1>10, <2>1, <2>2, <2>3 DEF Ledger
<1>13. Limits'
  BY <1>1, <1>4, <1>5, <1>7, <1>10, <1>11, ShortIs DEF IInv, Limits, Finite
<1> QED
  BY <1>3, <1>8, <1>9, <1>12, <1>13 DEF IInv

LEMMA Parts == \A p \in Int : /\ Gain(p) \in Int /\ Loss(p) \in Int /\ p = Gain(p) - Loss(p)
                              /\ Gain(p) >= 0 /\ Loss(p) >= 0
  BY DEF Gain, Loss

LEMMA Totals ==
  /\ Total(Now) = vapor + liquid + ice + rain + snow
  /\ Total(before) = before.vapor + before.liquid + before.ice + before.rain + before.snow
  BY DEF Total, Now, Mixture

(* c condenses, d is deposited: what both set free is what the mixture loses. *)
LEMMA Exchanged ==
  ASSUME NEW f \in Int, NEW h \in Int, NEW v \in Int, NEW w \in Int, NEW c \in Int, NEW d \in Int
  PROVE  (v - c - d) * (f + h) + (w + c) * f = (v * (f + h) + w * f) - (c * h + d * (f + h))
  OBVIOUS

LEMMA UpdateInv == IInv /\ Update => IInv'
<1> SUFFICES ASSUME IInv, Update PROVE IInv'
  OBVIOUS
<1>1. /\ pc = "update" /\ pc' = "restore"
      /\ fast' = fast /\ warm' = warm /\ qsat' = qsat /\ before' = before
      /\ vapor'  = vapor - pcond - (pint + pdepi) - prevap - psevap
      /\ liquid' = liquid + pcond - (praut + pracw)
      /\ ice'    = ice + (pint + pdepi) - (psaut + psaci)
      /\ rain'   = rain + (praut + pracw) + prevap
      /\ snow'   = snow + (psaut + psaci) + psevap
      /\ HEAT3'  = HEAT3 + (pcond + prevap) * Lc + (pint + pdepi + psevap) * Ls
  BY DEF Update, Call, cell
<1>2. /\ av_liquid' = 0 /\ av_ice' = 0 /\ supersat' = 0 /\ subsat' = 0
      /\ pcond' = 0 /\ pint' = 0 /\ pdepi' = 0 /\ praut' = 0 /\ psaut' = 0
      /\ pracw' = 0 /\ psaci' = 0 /\ prevap' = 0 /\ psevap' = 0
  BY DEF Update, Return
<1>3. Amounts
  BY <1>1, FiniteAmounts DEF Finite
<1> USE DEF Amounts
<1>4. /\ pcond \in Int /\ pint \in Int /\ pdepi \in Int /\ praut \in Int /\ psaut \in Int
      /\ pracw \in Int /\ psaci \in Int /\ prevap \in Int /\ psevap \in Int
      /\ HEAT3 \in Int /\ Lc \in Int /\ Lf \in Int /\ Ls = Lf + Lc
  BY MicrophysicsAssumption DEF IInv, Types, Ls
<1>5. /\ av_liquid = liquid - Loss(pcond) - praut - pracw
      /\ av_ice = ice - Loss(pdepi) - psaut - psaci
      /\ supersat = Excess(vapor - qsat) - Gain(pcond) - pint - Gain(pdepi) - Gain(prevap) - Gain(psevap)
      /\ subsat = Excess(qsat - vapor) - Loss(pcond) - Loss(pdepi) - Loss(prevap) - Loss(psevap)
  BY <1>1 DEF IInv, Ledger, Finite
<1>6. /\ av_liquid >= -Short /\ av_ice >= 0
      /\ supersat >= 0 /\ subsat >= -Loss(pdepi)
      /\ (warm => Loss(pdepi) = 0) /\ Loss(pdepi) <= ice
      /\ pint >= 0 /\ praut >= 0 /\ psaut >= 0 /\ pracw >= 0 /\ psaci >= 0
      /\ Loss(prevap) <= rain /\ Loss(psevap) <= snow
  BY <1>1 DEF IInv, Limits, Finite
<1>7. /\ vapor = before.vapor
      /\ warm => /\ liquid = before.liquid + before.ice /\ ice = 0
                 /\ rain = before.rain + before.snow /\ snow = 0
      /\ ~warm => /\ ice = before.liquid + before.ice /\ liquid = 0
                  /\ snow = before.rain + before.snow /\ rain = 0
  BY <1>1 DEF IInv, Given, Finite
<1>8. /\ before.vapor \in Nat /\ before.liquid \in Nat /\ before.ice \in Nat
      /\ before.rain \in Nat /\ before.snow \in Nat
  BY DEF IInv, Types
(* The amounts in terms of the budgets. *)
<1>9. /\ Gain(pcond) \in Int /\ Loss(pcond) \in Int /\ pcond = Gain(pcond) - Loss(pcond)
      /\ Gain(pdepi) \in Int /\ Loss(pdepi) \in Int /\ pdepi = Gain(pdepi) - Loss(pdepi)
      /\ Gain(prevap) \in Int /\ Loss(prevap) \in Int /\ prevap = Gain(prevap) - Loss(prevap)
      /\ Gain(psevap) \in Int /\ Loss(psevap) \in Int /\ psevap = Gain(psevap) - Loss(psevap)
      /\ Gain(pcond) >= 0 /\ Gain(pdepi) >= 0 /\ Gain(prevap) >= 0 /\ Gain(psevap) >= 0
      /\ Loss(pcond) >= 0 /\ Loss(pdepi) >= 0 /\ Loss(prevap) >= 0 /\ Loss(psevap) >= 0
  BY <1>4, Parts
<1>10. /\ Excess(vapor - qsat) \in Int /\ Excess(qsat - vapor) \in Int
       /\ vapor - qsat = Excess(vapor - qsat) - Excess(qsat - vapor)
       /\ Excess(qsat - vapor) >= 0 /\ Excess(vapor - qsat) <= vapor
       /\ vapor >= qsat => Excess(qsat - vapor) = 0
       /\ vapor <= qsat => Excess(vapor - qsat) = 0
  BY <1>3 DEF Excess
<1>11. /\ vapor' = qsat + supersat - subsat
       /\ liquid' = av_liquid + Gain(pcond)
       /\ ice' = av_ice + pint + Gain(pdepi)
  <2>1. supersat - subsat = vapor - qsat - pint - pcond - pdepi - prevap - psevap
    <3>1. supersat - subsat
            = (Excess(vapor - qsat) - Excess(qsat - vapor)) - pint - (Gain(pcond) - Loss(pcond))
              - (Gain(pdepi) - Loss(pdepi)) - (Gain(prevap) - Loss(prevap))
              - (Gain(psevap) - Loss(psevap))
      BY <1>4, <1>5, <1>9, <1>10
    <3> QED
      BY <3>1, <1>9, <1>10
  <2>2. vapor' = qsat + supersat - subsat
    BY <2>1, <1>1, <1>3, <1>4
  <2>3. liquid' = av_liquid + Gain(pcond)
    BY <1>1, <1>3, <1>4, <1>5, <1>9
  <2>4. ice' = av_ice + pint + Gain(pdepi)
    BY <1>1, <1>3, <1>4, <1>5, <1>9
  <2> QED
    BY <2>2, <2>3, <2>4
<1>12. vapor' \in Int /\ liquid' \in Int /\ ice' \in Int /\ rain' \in Int /\ snow' \in Int
  BY <1>1, <1>3, <1>4
<1>13. vapor' >= 0
  <2>1. vapor' >= vapor - (Gain(pcond) + pint + Gain(pdepi) + Gain(prevap) + Gain(psevap))
    BY <1>1, <1>3, <1>4, <1>9
  <2>2. Gain(pcond) + pint + Gain(pdepi) + Gain(prevap) + Gain(psevap) <= Excess(vapor - qsat)
    BY <1>3, <1>4, <1>5, <1>6, <1>9, <1>10
  <2> QED
    BY <2>1, <2>2, <1>3, <1>4, <1>9, <1>10, <1>12
<1>14. ice' >= 0 /\ rain' >= 0 /\ snow' >= 0
  BY <1>1, <1>3, <1>4, <1>6, <1>9, <1>11
<1>15. liquid' >= -Overdrawn'
  <2>1. Short = Overdrawn /\ Overdrawn' = Overdrawn /\ Overdrawn \in Nat
    <3>1. Q_LIQ_0 \in Nat
      BY MicrophysicsAssumption
    <3>2. warm => Short = Overdrawn
      BY <3>1, <1>7, <1>8 DEF Short, Overdrawn, Excess
    <3>3. ~warm => Short = 0 /\ Overdrawn = 0
      BY <3>1, <1>7 DEF Short, Overdrawn, Excess
    <3> QED
      BY <3>2, <3>3, <1>1, OverdrawnIs DEF IInv
  <2> QED
    BY <2>1, <1>3, <1>6, <1>9, <1>11
<1>16. (Total(Now))' = (Total(before))'
  <2>1. (Total(Now))' = vapor' + liquid' + ice' + rain' + snow'
    BY DEF Total, Now, Mixture
  <2>2. (Total(before))' = before.vapor + before.liquid + before.ice + before.rain + before.snow
    BY <1>1 DEF Total
  <2>3. vapor' + liquid' + ice' + rain' + snow' = vapor + liquid + ice + rain + snow
    BY <1>1, <1>3, <1>4
  <2>4. vapor + liquid + ice + rain + snow
          = before.vapor + before.liquid + before.ice + before.rain + before.snow
    BY <1>3, <1>7, <1>8
  <2> QED
    BY <2>1, <2>2, <2>3, <2>4
<1>17. Applied'
  BY <1>1, <1>13, <1>14, <1>15, <1>16 DEF Applied
<1>18. Saturation'
  <2>1. before.vapor >= qsat => vapor' >= qsat
    BY <1>3, <1>5, <1>6, <1>7, <1>9, <1>10, <1>11
  <2>2. vapor' <= qsat + supersat + Loss(pdepi)
    BY <1>3, <1>6, <1>9, <1>11
  <2>3. before.vapor <= qsat => supersat <= 0
    BY <1>3, <1>4, <1>5, <1>6, <1>7, <1>9, <1>10
  <2>4. before.vapor <= qsat =>
          vapor' <= qsat + (IF warm THEN 0 ELSE before.liquid + before.ice)
    BY <2>2, <2>3, <1>3, <1>6, <1>7, <1>8, <1>9, <1>12
  <2> QED
    BY <2>1, <2>4, <1>1 DEF Saturation
<1>19. Heat'
  <2> DEFINE c == pcond + prevap
  <2> DEFINE d == pint + pdepi + psevap
  <2> DEFINE w == liquid + rain
  <2>1. c \in Int /\ d \in Int /\ w \in Int /\ vapor \in Int
    BY <1>3, <1>4
  <2>2. vapor' = vapor - c - d /\ liquid' + rain' = w + c
    BY <1>1, <1>3, <1>4
  <2>3. HEAT3' = HEAT3 + (c * Lc + d * (Lf + Lc))
    <3>1. c * Lc \in Int /\ d * (Lf + Lc) \in Int
      BY <2>1, <1>4
    <3>2. HEAT3' = HEAT3 + c * Lc + d * (Lf + Lc)
      BY <1>1, <1>4
    <3> HIDE DEF c, d
    <3> QED
      BY <3>1, <3>2, <1>4
  <2> HIDE DEF c, d, w
  <2>4. HEAT3 = Latent(before) - Latent(Now)
    BY <1>1 DEF IInv, Heat
  <2>5. Latent(Now) = vapor * (Lf + Lc) + w * Lf
    BY DEF Latent, Now, Mixture, Ls, w
  <2>6. (Latent(Now))' = (vapor - c - d) * (Lf + Lc) + (w + c) * Lf
    <3>1. (Latent(Now))' = vapor' * (Lf + Lc) + (liquid' + rain') * Lf
      BY DEF Latent, Now, Mixture, Ls
    <3> QED
      BY <3>1, <2>2
  <2>7. (vapor - c - d) * (Lf + Lc) + (w + c) * Lf
          = (vapor * (Lf + Lc) + w * Lf) - (c * Lc + d * (Lf + Lc))
    BY <2>1, <1>4, Exchanged
  <2>8. (Latent(before))' = Latent(before) /\ Latent(before) \in Int
    BY <1>1, <1>4, <1>8 DEF Latent
  <2>9. vapor * (Lf + Lc) + w * Lf \in Int /\ c * Lc + d * (Lf + Lc) \in Int
    BY <2>1, <1>4
  <2>10. HEAT3' = (Latent(before))' - (Latent(Now))'
    <3> DEFINE was == vapor * (Lf + Lc) + w * Lf
    <3> DEFINE freed == c * Lc + d * (Lf + Lc)
    <3>1. (vapor - c - d) * (Lf + Lc) + (w + c) * Lf = was - freed
      BY <2>7
    <3>2. (Latent(Now))' = was - freed
      BY <2>6, <3>1
    <3>3. Latent(Now) = was
      BY <2>5
    <3>4. HEAT3' = HEAT3 + freed
      BY <2>3
    <3>5. was \in Int /\ freed \in Int
      BY <2>9
    <3> HIDE DEF was, freed
    <3> QED
      BY <3>2, <3>3, <3>4, <3>5, <2>4, <2>8, <1>4
  <2> QED
    BY <2>10, <1>1 DEF Heat
<1>20. Types'
  <2>1. HEAT3' \in Int
    BY <1>1, <1>4
  <2> QED
    BY <2>1, <1>1, <1>2, <1>12 DEF IInv, Types
<1>21. Given' /\ Ledger' /\ Limits'
  BY <1>1 DEF Given, Ledger, Limits, Finite
<1>22. NotYet'
  BY <1>2 DEF NotYet
<1> QED
  BY <1>17, <1>18, <1>19, <1>20, <1>21, <1>22 DEF IInv

LEMMA Difference ==
  \A x \in Int, y \in Int : (x - y) \in Int /\ x = y + (x - y)
  OBVIOUS

LEMMA RestoreAfterInv == IInv /\ RestoreAfter => IInv'
<1> SUFFICES ASSUME IInv, RestoreAfter PROVE IInv'
  OBVIOUS
<1>1. /\ pc = "restore" /\ pc' = "end"
      /\ fast' = fast /\ warm' = warm /\ qsat' = qsat /\ before' = before
      /\ UNCHANGED <<HEAT3, budgets, rates>> /\ liquid' = Excess(liquid)
  BY DEF RestoreAfter, Call, cell, RestoreMassMin
<1>2. /\ vapor \in Nat /\ ice \in Nat /\ rain \in Nat /\ snow \in Nat /\ liquid \in Int
      /\ liquid >= -Overdrawn /\ Total(Now) = Total(before)
  BY <1>1 DEF IInv, Types, Applied
<1>3. vapor' = vapor /\ ice' = ice /\ rain' = rain /\ snow' = snow
  <2>1. \A q \in Nat : Excess(q) = q
    BY DEF Excess
  <2> QED
    BY <1>2, <2>1 DEF RestoreAfter, RestoreMassMin
<1>4. /\ before.vapor \in Nat /\ before.liquid \in Nat /\ before.ice \in Nat
      /\ before.rain \in Nat /\ before.snow \in Nat /\ Overdrawn \in Nat
      /\ Overdrawn' = Overdrawn
  BY <1>1, OverdrawnIs DEF IInv, Types
<1>5. liquid' \in Nat /\ liquid' >= liquid /\ liquid' <= liquid + Overdrawn
  BY <1>1, <1>2, <1>4 DEF Excess
<1>6. /\ (Total(Now))' = (Total(before))' + (liquid' - liquid)
      /\ (Total(before))' = Total(before) /\ Total(before) \in Int
  <2>1. (Total(Now))' = vapor' + liquid' + ice' + rain' + snow'
    BY DEF Total, Now, Mixture
  <2>2. (Total(before))' = Total(before) /\ Total(Now) = vapor + liquid + ice + rain + snow
    BY <1>1, Totals DEF Total
  <2> QED
    BY <2>1, <2>2, <1>2, <1>3, <1>4, <1>5
<1>7. Applied'
  <2>1. (Total(Now))' >= (Total(before))' /\ (Total(Now))' <= (Total(before))' + Overdrawn'
    BY <1>2, <1>4, <1>5, <1>6
  <2>2. (Total(Now))' > (Total(before))' => liquid' = 0
    <3>1. liquid > 0 => liquid' = liquid
      BY <1>1 DEF Excess
    <3>2. ~(liquid > 0) => liquid' = 0
      BY <1>1 DEF Excess
    <3> QED
      BY <3>1, <3>2, <1>2, <1>5, <1>6
  <2> QED
    BY <1>1, <1>2, <1>3, <1>5, <2>1, <2>2 DEF Applied
<1>8. Saturation'
  BY <1>1, <1>3 DEF IInv, Saturation
<1>9. Heat'
  <2> DEFINE made  == liquid' - liquid
             early == vapor * Ls + (liquid + rain) * Lf
  <2>0. liquid \in Int /\ liquid' \in Int
    BY <1>2, <1>5
  <2>1. made \in Int /\ liquid' = liquid + made
    BY <2>0, Difference
  <2>2. Made' = made
    <3>1. Made' = (Total(Now))' - (Total(before))'
      BY DEF Made
    <3>2. (Total(Now))' = (Total(before))' + made /\ (Total(before))' \in Int
      BY <1>6 DEF made
    <3> HIDE DEF made
    <3> QED
      BY <3>1, <3>2, <2>1
  <2>3. (Latent(Now))' = vapor * Ls + (liquid + made + rain) * Lf /\ Latent(Now) = early
    BY <1>3, <2>1 DEF Latent, Now, Mixture
  <2>4. Lf \in Int /\ Ls \in Int /\ HEAT3 \in Int
    BY MicrophysicsAssumption DEF IInv, Types, Ls
  <2>5. HEAT3 = Latent(before) - early /\ HEAT3' = HEAT3
    BY <1>1, <2>3 DEF IInv, Heat
  <2>6. (Latent(before))' = Latent(before) /\ Latent(before) \in Int
    BY <1>1, <1>4, <2>4 DEF Latent
  <2> HIDE DEF made
  <2>7. (liquid + made + rain) * Lf = (liquid + rain) * Lf + Lf * made
    BY <1>2, <2>1, <2>4
  <2>8. vapor * Ls \in Int /\ (liquid + rain) * Lf \in Int /\ Lf * made \in Int
    BY <1>2, <2>1, <2>4
  <2>9. (Latent(Now))' = early + Lf * made /\ early \in Int
    BY <2>3, <2>7, <2>8
  <2> HIDE DEF early
  <2> DEFINE extra == Lf * made
  <2>10. extra \in Int /\ (Latent(Now))' = early + extra
    BY <2>8, <2>9
  <2>11. (Lf * Made)' = extra
    BY <2>2
  <2> HIDE DEF extra
  <2>12. HEAT3' = (Latent(before))' - (Latent(Now))' + extra
    BY <2>4, <2>5, <2>6, <2>9, <2>10
  <2> QED
    BY <1>1, <2>11, <2>12 DEF Heat
<1>10. Types'
  BY <1>1, <1>2, <1>3, <1>5 DEF IInv, Types, budgets, rates
<1>11. Given' /\ Ledger' /\ Limits'
  BY <1>1 DEF Given, Ledger, Limits, Finite
<1>12. NotYet'
  BY <1>1 DEF IInv, NotYet, rates, Finite
<1> QED
  BY <1>7, <1>8, <1>9, <1>10, <1>11, <1>12 DEF IInv

LEMMA StutterInv == IInv /\ UNCHANGED vars => IInv'
<1> SUFFICES ASSUME IInv, UNCHANGED vars PROVE IInv'
  OBVIOUS
<1>1. pc' = pc /\ UNCHANGED <<fast, warm, qsat, before, vapor, liquid, ice, rain, snow, HEAT3>>
  BY DEF vars, cell, water
<1>2. /\ UNCHANGED <<av_liquid, av_ice, supersat, subsat>>
      /\ UNCHANGED <<pcond, pint, pdepi, praut, psaut, pracw, psaci, prevap, psevap>>
  BY DEF vars, budgets, rates
<1>3. Types' /\ Given' /\ NotYet'
  BY <1>1, <1>2 DEF IInv, Types, Given, NotYet
<1>4. Ledger' /\ Limits'
  BY <1>1, <1>2, ShortIs DEF IInv, Ledger, Limits
<1>5. (Total(Now))' = Total(Now) /\ (Latent(Now))' = Latent(Now)
  BY <1>1 DEF Total, Latent, Now
<1>6. (Total(before))' = Total(before) /\ (Latent(before))' = Latent(before) /\ Overdrawn' = Overdrawn
  BY <1>1, OverdrawnIs DEF IInv, Total, Latent
<1>7. Applied' /\ Saturation' /\ Heat'
  BY <1>1, <1>5, <1>6 DEF IInv, Applied, Saturation, Heat, Made
<1> QED
  BY <1>3, <1>4, <1>7 DEF IInv

LEMMA NextInv == IInv /\ [Next]_vars => IInv'
  BY RestoreBeforeInv, InstantaneousInv, FiniteRateProcessesInv, PcondInv, PdepiInv, PrautInv,
     PsautInv, PracwInv, PsaciInv, PrecipitationEvapInv, UpdateInv, RestoreAfterInv, StutterInv
  DEF Next

LEMMA Invariance == Spec => []IInv
  BY InitInv, NextInv, PTL DEF Spec

-----------------------------------------------------------------------------

(* Before, between and after the stages of a call no mixing ratio is         *)
(* negative, except for the liquid before the fill-up.                       *)
THEOREM TypeCorrect == Spec => []TypeOK
<1>1. IInv => TypeOK
  <2> SUFFICES ASSUME IInv PROVE TypeOK
    OBVIOUS
  <2>1. {vapor, liquid, ice, rain, snow} \subseteq (IF pc = "restore" THEN Int ELSE Nat)
    <3>1. CASE pc = "restore"
      BY <3>1 DEF IInv, Types
    <3>2. CASE pc # "restore"
      BY <3>2 DEF IInv, Types, Given, Applied, Finite
    <3> QED
      BY <3>1, <3>2
  <2> QED
    BY <2>1 DEF IInv, Types, TypeOK, Finite
<1> QED
  BY <1>1, Invariance, PTL

(* A call makes and loses no water, unless the cell is warm and ALPHA_RAUT   *)
(* times DT between 1 and 2; then it may make some, with no liquid left and  *)
(* less than there was, by twice the threshold.                              *)
THEOREM WaterMade == Spec => []MassKept
<1>1. IInv => MassKept
  <2> SUFFICES ASSUME IInv, pc = "end" PROVE MassKept
    BY DEF MassKept
  <2>1. /\ Total(Now) >= Total(before) /\ Total(Now) <= Total(before) + Overdrawn
        /\ Total(Now) > Total(before) => liquid = 0
        /\ vapor \in Nat /\ liquid \in Nat /\ ice \in Nat /\ rain \in Nat /\ snow \in Nat
    BY DEF IInv, Types, Applied
  <2> DEFINE most == Excess(before.liquid + before.ice - 2 * Q_LIQ_0)
  <2>2. Total(Now) \in Int /\ Total(before) \in Int
    BY <2>1, Totals DEF IInv, Types
  <2>3. most \in Nat /\ Overdrawn \in Nat /\ Overdrawn <= most /\ (~(fast /\ warm) => Overdrawn = 0)
    <3>1. before.liquid \in Nat /\ before.ice \in Nat /\ Q_LIQ_0 \in Nat
      BY MicrophysicsAssumption DEF IInv, Types
    <3> QED
      BY <3>1 DEF Overdrawn, Excess
  <2> HIDE DEF most
  <2>4. (Made \in 0 .. Overdrawn) /\ (Made > 0 => liquid = 0)
    <3> DEFINE now == Total(Now)
    <3> DEFINE was == Total(before)
    <3>1. Made = now - was
      BY DEF Made
    <3>2. /\ now \in Int /\ was \in Int /\ now >= was /\ now <= was + Overdrawn
          /\ now > was => liquid = 0
      BY <2>1, <2>2
    <3> HIDE DEF now, was
    <3> QED
      BY <3>1, <3>2, <2>3
  <2>5. Made \in 0 .. most /\ (~(fast /\ warm) => Made = 0)
    BY <2>3, <2>4
  <2> QED
    BY <2>4, <2>5 DEF MassKept, most
<1> QED
  BY <1>1, Invariance, PTL

(* The heating of a call is the latent heat of its phase changes, whatever   *)
(* the latent heats are and however fast the processes; water that the call  *)
(* makes is liquid nobody has melted.                                        *)
THEOREM HeatOfPhases == Spec => []HeatMatchesPhases
<1>1. IInv => HeatMatchesPhases
  BY DEF IInv, Heat, HeatMatchesPhases
<1> QED
  BY <1>1, Invariance, PTL

(* Condensation, deposition and evaporation stop together at saturation; the *)
(* sublimation of ice alone passes it, by no more than the ice there was.    *)
THEOREM SaturationIsCrossedByIceOnly == Spec => []SaturationCrossedByIceOnly
<1>1. IInv => SaturationCrossedByIceOnly
  BY DEF IInv, Saturation, SaturationCrossedByIceOnly
<1> QED
  BY <1>1, Invariance, PTL

=============================================================================

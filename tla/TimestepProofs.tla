---------------------------- MODULE TimestepProofs ----------------------------
(***************************************************************************)
(* The two sides of timestep().                                            *)
(*                                                                         *)
(* The winds: the slots, flags and restart files of WindPlanes implement   *)
(* WindHistory, for every number of steps and of restarts: each step of    *)
(* each wind is made from the tendencies and the winds it should be made   *)
(* from.  The invariant says what every slot holds in every stage.         *)
(*                                                                         *)
(* The order of work: in every setting the diagnostic variables, the pads  *)
(* and DZDT2 of Timestep are what each call needs; last, where the pads can*)
(* differ from what their owners have.                                     *)
(***************************************************************************)
EXTENDS WindPlanes, Timestep, TLAPS

(***************************************************************************)
(* The winds                                                               *)
(***************************************************************************)

Full(t, d) == History!Tendency(t, d)

(* The dissipation is computed from the present winds or from the ones before. *)
DisTime(t) == IF scheme = "Leapfrog" /\ t > 0 THEN t - 1 ELSE t

(* The terms that have been added at each stage of a timestep at time t. *)
Core(t)    == {<<"core", {t}>>}
Sponge(t)  == Core(t) \cup {<<"sponge", {DisTime(t)}>>}
Pgrad(t)   == Sponge(t) \cup {<<"pgrad", {t + 1}>>}
Subgrid(t) == Pgrad(t) \cup {<<"subgrid", {DisTime(t)}>>}

SoFar(stage, t) ==
  CASE stage = "core"    -> {}
    [] stage = "sponge"  -> Core(t)
    [] stage = "pgrad"   -> Sponge(t)
    [] stage = "subgrid" -> Pgrad(t)
    [] OTHER             -> Subgrid(t)

(* The tendency of k steps before time t, as Adams-Bashforth keeps it. *)
Older(t, k) == IF t < k THEN FlagTerms ELSE Terms(Full(t - k, t - k))

(* The winds of time t after the leap over them, and the ones before time t. *)
Leapt(t)  == IF t = 0 THEN Plane(0, {"smoothed"}) ELSE Plane(t, {"smoothed", "asselin"})
Lagged(t) == IF t = 0 THEN FlagPlane ELSE Leapt(t - 1)

(* Wind w has been marched, but the slots have yet to be cycled or time to go on. *)
Marched(w) == pc \in {"cycle", "smooth"} \/ (w = "u" /\ pc = "march_v")

(* The time that slot zero stands for. *)
Present == IF pc = "smooth" THEN now + 1 ELSE now

Summing == pc \in Stages \ {"top", "smooth"}

Shape ==
  /\ scheme \in Schemes /\ pc \in Stages /\ now \in Nat
  /\ value = [w \in Winds |-> value[w]]
  /\ tendency = [w \in Winds |-> tendency[w]]
  /\ \A w \in Winds : /\ value[w] = [i \in 0 .. 1 |-> value[w][i]]
                      /\ tendency[w] = [i \in Slots |-> tendency[w][i]]
  /\ time = [w \in Winds |-> IF Marched(w) THEN now + 1 ELSE now]
  /\ last = [w \in Winds |-> last[w]]

AbInv ==
  /\ slot \in [zero : Slots, minus1 : Slots, minus2 : Slots]
  /\ slot.zero # slot.minus1 /\ slot.zero # slot.minus2 /\ slot.minus1 # slot.minus2
  /\ it = [uv |-> 0, dis |-> 0, tend |-> slot.zero]
  /\ \A w \in Winds :
       /\ value[w][0] = IF Marched(w) THEN Plane(now + 1, {}) ELSE Plane(now, {"smoothed"})
       /\ tendency[w][slot.minus1] = Older(Present, 1)
       /\ tendency[w][slot.minus2] = Older(Present, 2)
       /\ Summing => tendency[w][slot.zero] = Terms(SoFar(pc, now))

LfInv ==
  /\ slot \in [zero : {0, 1}, minus1 : {0, 1}, minus2 : {2}]
  /\ slot.zero # slot.minus1
  /\ it = [uv |-> slot.zero, dis |-> IF Present = 0 THEN slot.zero ELSE slot.minus1, tend |-> 0]
  /\ \A w \in Winds :
       /\ value[w][slot.zero] =
            IF pc = "smooth" THEN Plane(now + 1, {})
            ELSE IF Marched(w) THEN Leapt(now) ELSE Plane(now, {"smoothed"})
       /\ value[w][slot.minus1] =
            IF pc = "smooth" THEN Leapt(now)
            ELSE IF Marched(w) THEN Plane(now + 1, {}) ELSE Lagged(now)
       /\ Summing => tendency[w][0] = Terms(SoFar(pc, now))

(* A file holds what the slots held at its time. *)
FileInv ==
  /\ file.time \in Nat /\ file.time <= now
  /\ \A w \in Winds :
       /\ file.zero[w] = Plane(file.time, {"smoothed"})
       /\ scheme = "AdamsBashforth" =>
            /\ file.older[w].dminus1 = Older(file.time, 1)
            /\ file.older[w].dminus2 = Older(file.time, 2)
       /\ scheme = "Leapfrog" => file.older[w].minus1 = Lagged(file.time)

Inv ==
  /\ Shape /\ FileInv
  /\ scheme = "AdamsBashforth" => AbInv
  /\ scheme = "Leapfrog" => LfInv

-----------------------------------------------------------------------------
(* The constructors. *)

LEMMA PlaneIs ==
  ASSUME NEW t, NEW f, NEW g
  PROVE  /\ Plane(t, f).time = t /\ Plane(t, f).filters = f
         /\ [Plane(t, f) EXCEPT !.filters = g] = Plane(t, g)
  BY SMT DEF Plane

LEMMA NotFlagged == ASSUME NEW t \in Nat, NEW f PROVE Plane(t, f) # FlagPlane
  <1>1. Plane(t, f).time # FlagPlane.time
    BY SMT DEF Plane, FlagPlane, FLOAT_MAX
  <1> QED BY <1>1

LEMMA TermsIs ==
  ASSUME NEW x
  PROVE  Terms(x).terms = x /\ Terms(x) # FlagTerms
  <1>1. Terms(x).terms = x
    BY SMT DEF Terms
  <1>3. Terms(x).kind # FlagTerms.kind
    BY SMT DEF Terms, FlagTerms
  <1> QED BY <1>1, <1>3

LEMMA AddedIs ==
  ASSUME NEW x, NEW e
  PROVE  Added(Terms(x), e) = Terms(x \cup {e})
  <1>1. Terms(x).terms = x
    BY TermsIs
  <1>2. \A y : [Terms(x) EXCEPT !.terms = y] = Terms(y)
    BY SMT DEF Terms
  <1> QED BY <1>1, <1>2 DEF Added

LEMMA PartIs ==
  ASSUME NEW k, NEW x
  PROVE  Part(k, Terms(x)) = History!Part(k, x)
  BY DEF Part, History!Part, Terms

LEMMA LeaptIs ==
  ASSUME NEW t \in Nat
  PROVE  Leapt(t) # FlagPlane /\ Leapt(t).time = t
  BY PlaneIs, NotFlagged DEF Leapt

(* Asselin's filter makes of the present winds the ones that are leapt over. *)
LEMMA AsselinIs ==
  ASSUME NEW t \in Nat, t > 0
  PROVE  LET p == Plane(t, {"smoothed"})
         IN  [p EXCEPT !.filters = @ \cup {"asselin"}] = Leapt(t)
  <1>1. {"smoothed"} \cup {"asselin"} = {"smoothed", "asselin"}
    OBVIOUS
  <1>2. Leapt(t) = Plane(t, {"smoothed", "asselin"})
    BY DEF Leapt
  <1> DEFINE p == Plane(t, {"smoothed"})
             g == p.filters \cup {"asselin"}
  <1>3. g = {"smoothed", "asselin"}
    BY <1>1, PlaneIs
  <1> HIDE DEF g
  <1>4. [p EXCEPT !.filters = g] = Plane(t, g)
    BY PlaneIs
  <1> QED BY <1>2, <1>3, <1>4 DEF g

LEMMA SmoothedIs ==
  ASSUME NEW t
  PROVE  [Plane(t, {}) EXCEPT !.filters = @ \cup {"smoothed"}] = Plane(t, {"smoothed"})
  <1>1. {} \cup {"smoothed"} = {"smoothed"}
    OBVIOUS
  <1> QED BY <1>1, PlaneIs

LEMMA SchemeIs == Shape => scheme = "AdamsBashforth" \/ scheme = "Leapfrog"
  BY SchemesAssumption DEF Shape

LEMMA FullIs == ASSUME NEW t PROVE Subgrid(t) = Full(t, DisTime(t))
  <1>1. \A a, b, c, d : (({a} \cup {b}) \cup {c}) \cup {d} = {a, b, c, d}
    OBVIOUS
  <1> QED BY Zenon, <1>1 DEF Subgrid, Pgrad, Sponge, Core, Full, History!Tendency

-----------------------------------------------------------------------------
(* The steps.  What a file holds is the same after any step that leaves it.  *)

LEMMA FileKept ==
  ASSUME FileInv, UNCHANGED <<scheme, file>>, now \in Nat, now' \in Nat, now <= now'
  PROVE  FileInv'
  BY DEF FileInv, Older, Lagged, Leapt, Full

(* A run that has just read the file. *)
Loaded ==
  /\ scheme \in Schemes /\ pc = "top" /\ FileInv
  /\ now = file.time
  /\ slot = FirstSlots
  /\ value = ReadValue(file) /\ tendency = ReadTendency(file)
  /\ it = Bookkeeping(FirstSlots, value)
  /\ time = [w \in Winds |-> file.time]
  /\ last = [w \in Winds |-> last[w]]

LEMMA LoadedInv == Loaded => Inv
  <1> SUFFICES ASSUME Loaded PROVE Inv
    OBVIOUS
  <1>1. /\ scheme \in Schemes /\ pc = "top" /\ now = file.time /\ now \in Nat
        /\ ~Summing /\ Present = now /\ \A w \in Winds : ~Marched(w)
    BY DEF Loaded, FileInv, Summing, Present, Marched
  <1>2. slot = [zero |-> 0, minus1 |-> 1, minus2 |-> 2]
    BY DEF Loaded, FirstSlots
  <1>3. \A w \in Winds : /\ value[w] = [i \in 0 .. 1 |-> IF i = 0 THEN file.zero[w] ELSE file.older[w].minus1]
                        /\ value[w][0] = file.zero[w] /\ value[w][1] = file.older[w].minus1
    BY DEF Loaded, ReadValue
  <1>4. \A w \in Winds : /\ tendency[w] = [i \in Slots |-> tendency[w][i]]
                        /\ tendency[w][1] = file.older[w].dminus1 /\ tendency[w][2] = file.older[w].dminus2
    BY DEF Loaded, ReadTendency, Slots
  <1>5. Shape
    <2>1. \A w \in Winds : value[w] = [i \in 0 .. 1 |-> value[w][i]]
      BY <1>3
    <2>2. value = [w \in Winds |-> value[w]] /\ tendency = [w \in Winds |-> tendency[w]]
      BY DEF Loaded, ReadValue, ReadTendency
    <2>3. time = [w \in Winds |-> IF Marched(w) THEN now + 1 ELSE now]
      BY <1>1 DEF Loaded
    <2> QED BY <1>1, <1>4, <2>1, <2>2, <2>3 DEF Shape, Loaded, Stages
  <1>6. ASSUME scheme = "AdamsBashforth" PROVE AbInv
    <2>1. it = [uv |-> 0, dis |-> 0, tend |-> slot.zero]
      BY <1>2, <1>6 DEF Loaded, Bookkeeping, FirstSlots
    <2>2. ASSUME NEW w \in Winds
          PROVE  /\ value[w][0] = Plane(now, {"smoothed"})
                 /\ tendency[w][1] = Older(now, 1) /\ tendency[w][2] = Older(now, 2)
      <3>1. /\ file.zero[w] = Plane(file.time, {"smoothed"})
            /\ file.older[w].dminus1 = Older(file.time, 1)
            /\ file.older[w].dminus2 = Older(file.time, 2)
        BY <1>6 DEF Loaded, FileInv
      <3> QED BY <1>1, <1>3, <1>4, <3>1
    <2> QED BY <1>1, <1>2, <2>1, <2>2 DEF AbInv, Slots
  <1>7. ASSUME scheme = "Leapfrog" PROVE LfInv
    <2>1. ASSUME NEW w \in Winds
          PROVE  value[w][0] = Plane(now, {"smoothed"}) /\ value[w][1] = Lagged(now)
      <3>1. file.zero[w] = Plane(file.time, {"smoothed"}) /\ file.older[w].minus1 = Lagged(file.time)
        BY <1>7 DEF Loaded, FileInv
      <3> QED BY <1>1, <1>3, <3>1
    <2>2. (value["u"][1] = FlagPlane) <=> now = 0
      <3>1. now # 0 => now - 1 \in Nat
        BY <1>1
      <3> QED BY <2>1, <3>1, LeaptIs DEF Lagged, Winds
    <2>3. it = [uv |-> 0, dis |-> IF now = 0 THEN 0 ELSE 1, tend |-> 0]
      BY <1>7, <2>2 DEF Loaded, Bookkeeping, FirstSlots
    <2> QED BY <1>1, <1>2, <2>1, <2>3 DEF LfInv
  <1> QED BY <1>5, <1>6, <1>7 DEF Inv, Loaded

LEMMA InitInv == Init => Inv
  <1> SUFFICES ASSUME Init PROVE Loaded
    BY LoadedInv
  <1>1. file.time = 0
    BY DEF Init, InitialFile
  <1>2. FileInv
    <2>1. \A w \in Winds : /\ file.zero[w] = Plane(0, {"smoothed"})
                          /\ file.older[w].minus1 = FlagPlane
                          /\ file.older[w].dminus1 = FlagTerms /\ file.older[w].dminus2 = FlagTerms
      BY DEF Init, InitialFile
    <2>2. Older(0, 1) = FlagTerms /\ Older(0, 2) = FlagTerms /\ Lagged(0) = FlagPlane
      BY DEF Older, Lagged
    <2>3. now = 0
      BY DEF Init
    <2> QED BY <1>1, <2>1, <2>2, <2>3 DEF FileInv
  <1>3. last = [w \in Winds |-> last[w]]
    BY DEF Init
  <1> QED BY <1>1, <1>2, <1>3 DEF Init, Loaded

LEMMA RestartInv == Inv /\ Restart => Inv'
  <1> SUFFICES ASSUME Inv, Restart PROVE Loaded'
    BY LoadedInv, PTL
  <1>1. file' = file /\ scheme' = scheme /\ last' = last /\ file.time \in Nat /\ now' = file.time
    BY DEF Restart, Inv, FileInv
  <1>2. FileInv'
    BY <1>1 DEF Inv, FileInv, Older, Lagged, Leapt, Full
  <1>3. it' = Bookkeeping(FirstSlots, value)'
    BY <1>1 DEF Restart, Bookkeeping, FirstSlots
  <1> QED BY <1>1, <1>2, <1>3 DEF Restart, Loaded, Inv, Shape, ReadValue, ReadTendency, FirstSlots

(* A file written between two timesteps has what reading it needs. *)
LEMMA SaveInv ==
  ASSUME Inv, Save PROVE Inv'
  <1>1. /\ pc = "top" /\ Present = now /\ \A w \in Winds : ~Marched(w)
        /\ UNCHANGED <<scheme, pc, now, slot, it, value, tendency, time, last>>
    BY DEF Save, Present, Marched, planes, seen
  <1>2. now \in Nat /\ file'.time = now
    BY DEF Inv, Shape, Save
  <1>3. ASSUME NEW w \in Winds
        PROVE  /\ file'.zero[w] = value[w][it.uv]
               /\ scheme = "Leapfrog" => file'.older[w].minus1 = value[w][slot.minus1]
               /\ scheme = "AdamsBashforth" => /\ file'.older[w].dminus1 = tendency[w][slot.minus1]
                                               /\ file'.older[w].dminus2 = tendency[w][slot.minus2]
    BY DEF Save
  <1>4. ASSUME NEW w \in Winds, scheme = "AdamsBashforth"
        PROVE  /\ value[w][it.uv] = Plane(now, {"smoothed"})
               /\ tendency[w][slot.minus1] = Older(now, 1) /\ tendency[w][slot.minus2] = Older(now, 2)
    BY <1>1, <1>4 DEF Inv, AbInv
  <1>5. ASSUME NEW w \in Winds, scheme = "Leapfrog"
        PROVE  value[w][it.uv] = Plane(now, {"smoothed"}) /\ value[w][slot.minus1] = Lagged(now)
    BY <1>1, <1>5 DEF Inv, LfInv
  <1>6. scheme = "AdamsBashforth" \/ scheme = "Leapfrog"
    BY SchemeIs DEF Inv
  <1>7. FileInv'
    <2>1. /\ \A k : Older(now, k)' = Older(now, k)
          /\ Lagged(now)' = Lagged(now)
      BY <1>1 DEF Older, Lagged, Leapt, Full
    <2>2. ASSUME NEW w \in Winds PROVE file'.zero[w] = Plane(now, {"smoothed"})
      BY <1>3, <1>4, <1>5, <1>6
    <2> QED BY <1>1, <1>2, <1>3, <1>4, <1>5, <2>1, <2>2 DEF FileInv, Older, Lagged, Leapt, Full
  <1>8. Shape'
    BY <1>1 DEF Inv, Shape, Marched
  <1>9. scheme = "AdamsBashforth" => AbInv'
    BY <1>1 DEF Inv, AbInv, Marched, Present, Summing, Older, Full, SoFar, Core, Sponge, Pgrad, Subgrid, DisTime
  <1>10. scheme = "Leapfrog" => LfInv'
    BY <1>1 DEF Inv, LfInv, Marched, Present, Summing, Lagged, Leapt, SoFar, Core, Sponge, Pgrad, Subgrid, DisTime
  <1> QED BY <1>1, <1>7, <1>8, <1>9, <1>10 DEF Inv

(* The part of the invariant that is about the winds, which a step that only *)
(* sums tendencies keeps.                                                    *)
LEMMA WindsKept ==
  ASSUME Inv, UNCHANGED <<scheme, now, slot, it, value, file, time, last>>,
         pc \in {"top", "core", "sponge", "pgrad", "subgrid"},
         pc' \in {"core", "sponge", "pgrad", "subgrid", "march_u"}, Summing',
         tendency' = [w \in Winds |-> tendency'[w]],
         \A w \in Winds :
           /\ tendency'[w] = [i \in Slots |-> tendency'[w][i]]
           /\ \A i \in Slots \ {it.tend} : tendency'[w][i] = tendency[w][i]
           /\ tendency'[w][it.tend] = Terms(SoFar(pc', now))
  PROVE  Inv'
  <1>1. /\ Present = now /\ Present' = now /\ \A w \in Winds : ~Marched(w) /\ ~Marched(w)'
        /\ pc # "smooth" /\ pc' # "smooth"
    BY DEF Present, Marched
  <1>2. /\ \A k : Older(now, k)' = Older(now, k)
        /\ Lagged(now)' = Lagged(now) /\ Leapt(now)' = Leapt(now)
        /\ SoFar(pc, now)' = SoFar(pc', now)
    BY DEF Older, Lagged, Leapt, Full, SoFar, Core, Sponge, Pgrad, Subgrid, DisTime
  <1>3. FileInv'
    BY DEF Inv, FileInv, Older, Lagged, Leapt, Full
  <1>4. Shape'
    BY <1>1 DEF Inv, Shape, Stages
  <1>5. ASSUME scheme = "AdamsBashforth" PROVE AbInv'
    <2>1. AbInv /\ it.tend = slot.zero
      BY <1>5 DEF Inv, AbInv
    <2>2. slot.minus1 \in Slots \ {it.tend} /\ slot.minus2 \in Slots \ {it.tend}
      BY <2>1 DEF AbInv
    <2>3. ASSUME NEW w \in Winds
          PROVE  /\ tendency'[w][slot.minus1] = Older(now, 1)
                 /\ tendency'[w][slot.minus2] = Older(now, 2)
                 /\ value[w][0] = Plane(now, {"smoothed"})
      BY <1>1, <2>1, <2>2 DEF AbInv
    <2> QED BY <1>1, <1>2, <2>1, <2>3 DEF AbInv
  <1>6. ASSUME scheme = "Leapfrog" PROVE LfInv'
    <2>1. LfInv /\ it.tend = 0
      BY <1>6 DEF Inv, LfInv
    <2>2. \A w \in Winds : value[w][slot.zero] = Plane(now, {"smoothed"}) /\ value[w][slot.minus1] = Lagged(now)
      BY <1>1, <2>1 DEF LfInv
    <2>3. it = [uv |-> slot.zero, dis |-> IF now = 0 THEN slot.zero ELSE slot.minus1, tend |-> 0]
      BY <1>1, <2>1 DEF LfInv
    <2> QED BY <1>1, <1>2, <2>1, <2>2, <2>3 DEF LfInv
  <1> QED BY <1>3, <1>4, <1>5, <1>6 DEF Inv

(* The slot of the current tendencies is one of the three. *)
LEMMA TendIsSlot == Inv => it.tend \in Slots
  BY SchemeIs DEF Inv, AbInv, LfInv, Slots

LEMMA ClearInv ==
  ASSUME Inv, Clear PROVE Inv'
  <1>1. pc = "top" /\ pc' = "core" /\ UNCHANGED <<scheme, now, slot, it, value, file, time, last>>
    BY DEF Clear, At, seen
  <1>2. tendency' = [w \in Winds |-> [tendency[w] EXCEPT ![it.tend] = Terms({})]]
    BY DEF Clear
  <1>3. ASSUME NEW w \in Winds
        PROVE  /\ tendency'[w] = [i \in Slots |-> tendency'[w][i]]
               /\ \A i \in Slots \ {it.tend} : tendency'[w][i] = tendency[w][i]
               /\ tendency'[w][it.tend] = Terms({})
    <2>1. tendency[w] = [i \in Slots |-> tendency[w][i]] /\ it.tend \in Slots
      BY TendIsSlot DEF Inv, Shape
    <2>2. tendency'[w] = [tendency[w] EXCEPT ![it.tend] = Terms({})]
      BY <1>2
    <2> QED BY <2>1, <2>2
  <1>4. tendency' = [w \in Winds |-> tendency'[w]]
    BY <1>2
  <1>5. SoFar(pc', now) = {} /\ Summing'
    BY <1>1 DEF SoFar, Summing, Stages
  <1> QED BY <1>1, <1>3, <1>4, <1>5, WindsKept

LEMMA AddTermInv ==
  ASSUME Inv, NEW term, AddTerm(term),
         pc \in {"core", "sponge", "pgrad", "subgrid"},
         pc' \in {"sponge", "pgrad", "subgrid", "march_u"},
         SoFar(pc', now) = SoFar(pc, now) \cup {term}
  PROVE  Inv'
  <1>1. UNCHANGED <<scheme, now, slot, it, value, file, time, last>>
    BY DEF AddTerm, seen
  <1>2. Summing /\ Summing'
    BY DEF Summing, Stages
  <1>3. tendency' = [w \in Winds |-> [tendency[w] EXCEPT ![it.tend] = Added(tendency[w][it.tend], term)]]
    BY DEF AddTerm
  <1>4. ASSUME NEW w \in Winds
        PROVE  /\ tendency'[w] = [i \in Slots |-> tendency'[w][i]]
               /\ \A i \in Slots \ {it.tend} : tendency'[w][i] = tendency[w][i]
               /\ tendency'[w][it.tend] = Terms(SoFar(pc', now))
    <2>1. tendency[w] = [i \in Slots |-> tendency[w][i]] /\ it.tend \in Slots
      BY TendIsSlot DEF Inv, Shape
    <2>2. tendency[w][it.tend] = Terms(SoFar(pc, now))
      BY <1>2, SchemeIs DEF Inv, AbInv, LfInv
    <2> DEFINE sum == Added(tendency[w][it.tend], term)
    <2>3. sum = Terms(SoFar(pc', now))
      BY <2>2, AddedIs
    <2>4. tendency'[w] = [tendency[w] EXCEPT ![it.tend] = sum]
      BY <1>3
    <2> HIDE DEF sum
    <2> QED BY <2>1, <2>3, <2>4
  <1>5. tendency' = [w \in Winds |-> tendency'[w]]
    BY <1>3
  <1> QED BY <1>1, <1>2, <1>4, <1>5, WindsKept

(* The times of the winds that the terms are computed from. *)
LEMMA PresentTimes ==
  ASSUME Inv, pc \in {"core", "sponge", "pgrad", "subgrid"}
  PROVE  TimesIn(it.uv) = {now} /\ TimesIn(it.dis) = {DisTime(now)}
  <1>1. now \in Nat /\ Present = now /\ pc # "smooth" /\ \A w \in Winds : ~Marched(w)
    BY DEF Inv, Shape, Present, Marched
  <1>2. \A i, t : (\A w \in Winds : value[w][i].time = t) => TimesIn(i) = {t}
    BY DEF TimesIn, Winds
  <1>3. CASE scheme = "AdamsBashforth"
    <2>1. it.uv = 0 /\ it.dis = 0 /\ \A w \in Winds : value[w][0] = Plane(now, {"smoothed"})
      BY <1>1, <1>3 DEF Inv, AbInv
    <2>2. \A w \in Winds : value[w][0].time = now
      BY <2>1, PlaneIs
    <2>3. DisTime(now) = now
      BY <1>3 DEF DisTime
    <2> QED BY <1>2, <2>1, <2>2, <2>3
  <1>4. CASE scheme = "Leapfrog"
    <2>1. /\ it.uv = slot.zero /\ it.dis = IF now = 0 THEN slot.zero ELSE slot.minus1
          /\ \A w \in Winds : /\ value[w][slot.zero] = Plane(now, {"smoothed"})
                             /\ value[w][slot.minus1] = Lagged(now)
      BY <1>1, <1>4 DEF Inv, LfInv
    <2>2. \A w \in Winds : value[w][slot.zero].time = now
      BY <2>1, PlaneIs
    <2>3. CASE now = 0
      <3>1. DisTime(now) = now
        BY <2>3 DEF DisTime
      <3>2. it.uv = slot.zero /\ it.dis = slot.zero
        BY <2>1, <2>3
      <3>3. TimesIn(slot.zero) = {now}
        BY <1>2, <2>2
      <3> QED BY <3>1, <3>2, <3>3
    <2>4. CASE now # 0
      <3>1. DisTime(now) = now - 1 /\ now - 1 \in Nat /\ Lagged(now) = Leapt(now - 1)
        BY <1>1, <1>4, <2>4 DEF DisTime, Lagged
      <3>2. \A w \in Winds : value[w][slot.minus1].time = now - 1
        BY <2>1, <3>1, LeaptIs
      <3>3. it.uv = slot.zero /\ it.dis = slot.minus1
        BY <2>1, <2>4
      <3>4. TimesIn(slot.zero) = {now} /\ TimesIn(slot.minus1) = {now - 1}
        BY <1>2, <2>2, <3>2
      <3> QED BY <3>1, <3>3, <3>4
    <2> QED BY <2>3, <2>4
  <1> QED BY <1>3, <1>4, SchemeIs DEF Inv

LEMMA SumInv ==
  ASSUME Inv, UvCore \/ UvSponge \/ UvPgrad \/ UvHorizontalSubgrid
  PROVE  Inv'
  <1>1. CASE UvCore
    <2>1. pc = "core" /\ pc' = "sponge" /\ AddTerm(<<"core", TimesIn(it.uv)>>)
      BY <1>1 DEF UvCore, At
    <2>2. SoFar(pc', now) = SoFar(pc, now) \cup {<<"core", {now}>>}
      BY <2>1 DEF SoFar, Core
    <2> QED BY <2>1, <2>2, PresentTimes, AddTermInv
  <1>2. CASE UvSponge
    <2>1. pc = "sponge" /\ pc' = "pgrad" /\ AddTerm(<<"sponge", TimesIn(it.dis)>>)
      BY <1>2 DEF UvSponge, At
    <2>2. SoFar(pc', now) = SoFar(pc, now) \cup {<<"sponge", {DisTime(now)}>>}
      BY <2>1 DEF SoFar, Sponge
    <2> QED BY <2>1, <2>2, PresentTimes, AddTermInv
  <1>3. CASE UvPgrad
    <2>1. pc = "pgrad" /\ pc' = "subgrid" /\ AddTerm(<<"pgrad", {now + 1}>>)
      BY <1>3 DEF UvPgrad, At
    <2>2. SoFar(pc', now) = SoFar(pc, now) \cup {<<"pgrad", {now + 1}>>}
      BY <2>1 DEF SoFar, Pgrad
    <2> QED BY <2>1, <2>2, AddTermInv
  <1>4. CASE UvHorizontalSubgrid
    <2>1. pc = "subgrid" /\ pc' = "march_u" /\ AddTerm(<<"subgrid", TimesIn(it.dis)>>)
      BY <1>4 DEF UvHorizontalSubgrid, At
    <2>2. SoFar(pc', now) = SoFar(pc, now) \cup {<<"subgrid", {DisTime(now)}>>}
      BY <2>1 DEF SoFar, Subgrid
    <2> QED BY <2>1, <2>2, PresentTimes, AddTermInv
  <1> QED BY <1>1, <1>2, <1>3, <1>4

(* A wind that is marched when both tendencies are complete. *)
Marching(w) ==
  /\ March(w) /\ ~Marched(w) /\ Marched(w)'
  /\ pc \in {"march_u", "march_v"} /\ pc' \in {"march_v", "cycle"}
  /\ \A x \in Winds \ {w} : Marched(x)' <=> Marched(x)

LEMMA MarchingIs ==
  /\ MarchU => Marching("u")
  /\ MarchV => Marching("v")
  BY DEF MarchU, MarchV, Marching, Marched, At, Winds

LEMMA MarchingKeeps ==
  ASSUME Inv, NEW w \in Winds, Marching(w)
  PROVE  /\ UNCHANGED <<scheme, now, slot, it, tendency, file>> /\ now \in Nat
         /\ Present = now /\ Present' = now /\ Summing /\ Summing'
         /\ pc # "smooth" /\ pc' # "smooth"
         /\ SoFar(pc, now) = Full(now, DisTime(now)) /\ SoFar(pc, now)' = Full(now, DisTime(now))
         /\ Older(now, 1)' = Older(now, 1) /\ Older(now, 2)' = Older(now, 2)
         /\ Lagged(now)' = Lagged(now) /\ Leapt(now)' = Leapt(now)
  <1>1. UNCHANGED <<scheme, now, slot, it, tendency, file>>
    BY DEF Marching, March
  <1>2. SoFar(pc, now) = Subgrid(now) /\ SoFar(pc, now)' = Subgrid(now)'
    BY DEF SoFar, Marching
  <1>3. Subgrid(now)' = Subgrid(now)
    BY <1>1 DEF Subgrid, Pgrad, Sponge, Core, DisTime
  <1> QED BY <1>1, <1>2, <1>3, FullIs
          DEF Marching, Present, Summing, Stages, Older, Lagged, Leapt, Full, Inv, Shape

(* What one wind's step does to the observed variables. *)
LEMMA ObserveShape ==
  ASSUME Inv, NEW w \in Winds, Marching(w), NEW base, NEW parts, Observe(w, base, parts)
  PROVE  /\ time' = [x \in Winds |-> IF Marched(x)' THEN now' + 1 ELSE now']
         /\ last' = [x \in Winds |-> last'[x]]
         /\ time[w] = now
         /\ time' = [time EXCEPT ![w] = time[w] + 1]
         /\ last' = [last EXCEPT ![w] = History!Step(base, parts)]
  <1>1. now' = now /\ now \in Nat
    BY MarchingKeeps
  <1>2. time = [x \in Winds |-> IF Marched(x) THEN now + 1 ELSE now] /\ last = [x \in Winds |-> last[x]]
    BY DEF Inv, Shape
  <1>3. time[w] = now
    BY <1>2 DEF Marching
  <1>4. time' = [time EXCEPT ![w] = time[w] + 1] /\ last' = [last EXCEPT ![w] = History!Step(base, parts)]
    BY DEF Observe, History!Step
  <1>5. last' = [x \in Winds |-> last'[x]]
    BY <1>2, <1>4
  <1>6. ASSUME NEW x \in Winds PROVE time'[x] = IF Marched(x)' THEN now' + 1 ELSE now'
    <2>1. CASE x = w
      <3>1. time'[x] = now + 1
        BY <1>2, <1>3, <1>4, <2>1
      <3> QED BY <1>1, <2>1, <3>1 DEF Marching
    <2>2. CASE x # w
      <3>1. time'[x] = time[x]
        BY <1>4, <1>2, <2>2
      <3>2. time[x] = IF Marched(x) THEN now + 1 ELSE now
        BY <1>2
      <3> QED BY <1>1, <2>2, <3>1, <3>2 DEF Marching
    <2> QED BY <2>1, <2>2
  <1>7. time' = [x \in Winds |-> time'[x]]
    BY <1>2, <1>4
  <1> QED BY <1>3, <1>4, <1>5, <1>6, <1>7

(* Adams-Bashforth: the winds are marched in place. *)
LEMMA AbMarchInv ==
  ASSUME Inv, NEW w \in Winds, Marching(w), AdamsBashforthStep(w)
  PROVE  /\ Inv'
         /\ last' = [last EXCEPT ![w] = History!AdamsBashforth(time[w])]
         /\ time' = [time EXCEPT ![w] = time[w] + 1]
  <1>1. scheme = "AdamsBashforth" /\ AbInv /\ it.uv = 0
    BY DEF AdamsBashforthStep, Inv, AbInv
  <1> DEFINE old == value[w][0]
  <1>2. /\ UNCHANGED <<scheme, now, slot, it, tendency, file>> /\ now \in Nat
        /\ Present = now /\ Present' = now /\ Summing /\ Summing'
        /\ SoFar(pc, now) = Full(now, DisTime(now)) /\ SoFar(pc, now)' = Full(now, DisTime(now))
        /\ Older(now, 1)' = Older(now, 1) /\ Older(now, 2)' = Older(now, 2)
    BY MarchingKeeps
  <1>3. old = Plane(now, {"smoothed"}) /\ old.time = now
    BY <1>1, PlaneIs DEF AbInv, Marching
  <1>4. value' = [value EXCEPT ![w][0] = Plane(old.time + 1, {})] /\ Observe(w, old.time, AbParts(w))
    BY <1>1 DEF AdamsBashforthStep
  <1>5. /\ time' = [x \in Winds |-> IF Marched(x)' THEN now' + 1 ELSE now']
        /\ last' = [x \in Winds |-> last'[x]]
        /\ time[w] = now
        /\ time' = [time EXCEPT ![w] = time[w] + 1]
        /\ last' = [last EXCEPT ![w] = History!Step(old.time, AbParts(w))]
    <2> HIDE DEF old
    <2> QED BY <1>4, ObserveShape
  <1>6. \A x \in Winds : value[x] = [i \in 0 .. 1 |-> value[x][i]]
    BY DEF Inv, Shape
  <1>7. value = [x \in Winds |-> value[x]]
    BY DEF Inv, Shape
  <1>8. value'[w] = [value[w] EXCEPT ![0] = Plane(now + 1, {})] /\ \A x \in Winds \ {w} : value'[x] = value[x]
    BY <1>3, <1>4, <1>7
  <1>9. value'[w][0] = Plane(now + 1, {}) /\ value'[w] = [i \in 0 .. 1 |-> value'[w][i]]
    <2> DEFINE new == Plane(now + 1, {})
               before == value[w]
    <2>1. before = [i \in 0 .. 1 |-> before[i]]
      BY <1>6
    <2>2. value'[w] = [before EXCEPT ![0] = new]
      BY <1>8
    <2> HIDE DEF new, before
    <2> QED BY <2>1, <2>2 DEF new
  <1>10. Shape'
    <2>1. value' = [x \in Winds |-> value'[x]]
      BY <1>4, <1>7
    <2>2. \A x \in Winds : value'[x] = [i \in 0 .. 1 |-> value'[x][i]]
      BY <1>6, <1>8, <1>9
    <2>3. pc' \in Stages
      BY DEF Marching, Stages
    <2> QED BY <1>2, <1>5, <2>1, <2>2, <2>3 DEF Inv, Shape
  <1>11. AbInv'
    <2>1. ASSUME NEW x \in Winds
          PROVE  value'[x][0] = IF Marched(x)' THEN Plane(now + 1, {}) ELSE Plane(now, {"smoothed"})
      <3>1. CASE x = w
        BY <1>9, <3>1 DEF Marching
      <3>2. CASE x # w
        <4>1. value'[x] = value[x] /\ (Marched(x)' <=> Marched(x))
          BY <1>8, <3>2 DEF Marching
        <4>2. value[x][0] = IF Marched(x) THEN Plane(now + 1, {}) ELSE Plane(now, {"smoothed"})
          BY <1>1 DEF AbInv
        <4> QED BY <4>1, <4>2
      <3> QED BY <3>1, <3>2
    <2>2. \A x \in Winds : /\ tendency[x][slot.minus1] = Older(now, 1)
                          /\ tendency[x][slot.minus2] = Older(now, 2)
                          /\ tendency[x][slot.zero] = Terms(SoFar(pc, now))
      BY <1>1, <1>2 DEF AbInv
    <2>3. ASSUME NEW x \in Winds
          PROVE  /\ tendency'[x][slot'.minus1] = Older(Present', 1)
                 /\ tendency'[x][slot'.minus2] = Older(Present', 2)
                 /\ tendency'[x][slot'.zero] = Terms(SoFar(pc, now)')
      BY <1>2, <2>2
    <2>4. /\ slot' \in [zero : Slots, minus1 : Slots, minus2 : Slots]
          /\ slot'.zero # slot'.minus1 /\ slot'.zero # slot'.minus2 /\ slot'.minus1 # slot'.minus2
          /\ it' = [uv |-> 0, dis |-> 0, tend |-> slot'.zero]
      BY <1>1, <1>2 DEF AbInv
    <2>5. now' = now
      BY <1>2
    <2> QED BY <2>1, <2>3, <2>4, <2>5 DEF AbInv
  <1>12. FileInv'
    BY <1>2, FileKept DEF Inv
  <1>13. AbParts(w) = History!AdamsBashforth(now).parts /\ History!AdamsBashforth(now) = History!Step(now, AbParts(w))
    <2>1. /\ tendency[w][slot.zero] = Terms(Full(now, now))
          /\ tendency[w][slot.minus1] = Older(now, 1)
          /\ tendency[w][slot.minus2] = Older(now, 2)
      BY <1>1, <1>2 DEF AbInv, DisTime
    <2>2. CASE now = 0
      <3>1. Older(now, 1) = FlagTerms /\ Older(now, 2) = FlagTerms
        BY <2>2 DEF Older
      <3>2. AbParts(w) = << History!Part(12, Full(0, 0)) >>
        BY <2>1, <2>2, <3>1, PartIs DEF AbParts
      <3>3. History!AdamsBashforth(now) = History!Step(0, << History!Part(12, Full(0, 0)) >>)
        BY <2>2 DEF History!AdamsBashforth, Full
      <3> QED BY <2>2, <3>2, <3>3 DEF History!Step
    <2>3. CASE now = 1
      <3>1. Older(now, 1) = Terms(Full(0, 0)) /\ Older(now, 2) = FlagTerms
        BY <2>3 DEF Older
      <3>2. Terms(Full(0, 0)) # FlagTerms
        BY TermsIs
      <3>3. AbParts(w) = << History!Part(18, Full(1, 1)), History!Part(-6, Full(0, 0)) >>
        BY <2>1, <2>3, <3>1, <3>2, PartIs DEF AbParts
      <3>4. History!AdamsBashforth(now)
              = History!Step(1, << History!Part(18, Full(1, 1)), History!Part(-6, Full(0, 0)) >>)
        BY <2>3 DEF History!AdamsBashforth, Full
      <3> QED BY <2>3, <3>3, <3>4 DEF History!Step
    <2>4. CASE now > 1
      <3>1. Older(now, 1) = Terms(Full(now - 1, now - 1)) /\ Older(now, 2) = Terms(Full(now - 2, now - 2))
        BY <1>2, <2>4 DEF Older
      <3>2. Terms(Full(now - 2, now - 2)) # FlagTerms
        BY TermsIs
      <3>3. AbParts(w) = << History!Part(23, Full(now, now)), History!Part(-16, Full(now - 1, now - 1)),
                            History!Part(5, Full(now - 2, now - 2)) >>
        BY <2>1, <3>1, <3>2, PartIs DEF AbParts
      <3>4. History!AdamsBashforth(now)
              = History!Step(now, << History!Part(23, Full(now, now)),
                                     History!Part(-16, Full(now - 1, now - 1)),
                                     History!Part(5, Full(now - 2, now - 2)) >>)
        <4>1. now # 0 /\ now # 1
          BY <1>2, <2>4
        <4> QED BY <4>1 DEF History!AdamsBashforth, Full
      <3> QED BY <3>3, <3>4 DEF History!Step
    <2> QED BY <1>2, <2>2, <2>3, <2>4
  <1> QED BY <1>1, <1>2, <1>3, <1>5, <1>10, <1>11, <1>12, <1>13 DEF Inv

(* Leapfrog: the new winds take the slot of the oldest, and the present ones *)
(* go through Asselin's filter if there is an older wind to filter with.     *)
LEMMA LfMarchInv ==
  ASSUME Inv, NEW w \in Winds, Marching(w), LeapfrogStep(w)
  PROVE  /\ Inv'
         /\ last' = [last EXCEPT ![w] = History!Leapfrog(time[w])]
         /\ time' = [time EXCEPT ![w] = time[w] + 1]
  <1> DEFINE old     == value[w][slot.minus1]
             present == value[w][slot.zero]
             current == tendency[w][it.tend]
             base    == History!Leapfrog(now).base
             parts   == History!Leapfrog(now).parts
  <1>1. scheme = "Leapfrog" /\ LfInv /\ it.tend = 0
    BY DEF LeapfrogStep, Inv, LfInv
  <1>2. /\ UNCHANGED <<scheme, now, slot, it, tendency, file>> /\ now \in Nat
        /\ Present = now /\ Present' = now /\ Summing /\ Summing'
        /\ pc # "smooth" /\ pc' # "smooth"
        /\ SoFar(pc, now) = Full(now, DisTime(now)) /\ SoFar(pc, now)' = Full(now, DisTime(now))
        /\ Lagged(now)' = Lagged(now) /\ Leapt(now)' = Leapt(now)
    BY MarchingKeeps
  <1>3. /\ slot.zero \in 0 .. 1 /\ slot.minus1 \in 0 .. 1 /\ slot.zero # slot.minus1
    BY <1>1 DEF LfInv
  <1>4. old = Lagged(now) /\ present = Plane(now, {"smoothed"}) /\ present.time = now
    BY <1>1, <1>2, PlaneIs DEF LfInv, Marching
  <1>5. current = Terms(Full(now, DisTime(now)))
    BY <1>1, <1>2 DEF LfInv
  <1>6. History!Leapfrog(now) = History!Step(base, parts)
    BY DEF History!Leapfrog, History!Step
  <1>7. value = [x \in Winds |-> value[x]] /\ \A x \in Winds : value[x] = [i \in 0 .. 1 |-> value[x][i]]
    BY DEF Inv, Shape
  <1> DEFINE after == [value[w] EXCEPT ![slot.minus1] = Plane(now + 1, {}), ![slot.zero] = Leapt(now)]
  <1>8. value' = [value EXCEPT ![w] = after] /\ Observe(w, base, parts)
    <2>1. CASE now = 0
      <3>1. old = FlagPlane /\ Leapt(now) = present
        BY <1>4, <2>1 DEF Lagged, Leapt
      <3>2. value' = [value EXCEPT ![w][slot.minus1] = Plane(present.time + 1, {})]
            /\ Observe(w, present.time, << Part(12, current) >>)
        BY <3>1 DEF LeapfrogStep
      <3>3. base = 0 /\ parts = << Part(12, current) >>
        <4>1. DisTime(now) = 0
          BY <2>1 DEF DisTime
        <4>2. Part(12, current) = History!Part(12, Full(0, 0))
          BY <1>5, <2>1, <4>1, PartIs
        <4> QED BY <2>1, <4>2 DEF History!Leapfrog, History!Step, Full
      <3>4. value' = [value EXCEPT ![w] = [value[w] EXCEPT ![slot.minus1] = Plane(now + 1, {})]]
        BY <1>4, <3>2
      <3>5. [value[w] EXCEPT ![slot.minus1] = Plane(now + 1, {})] = after
        <4> DEFINE new == Plane(now + 1, {})
                   x   == value[w]
        <4>1. x = [i \in 0 .. 1 |-> x[i]] /\ x[slot.zero] = Leapt(now)
          BY <1>7, <3>1
        <4> HIDE DEF new, x
        <4>2. [x EXCEPT ![slot.minus1] = new] = [x EXCEPT ![slot.minus1] = new, ![slot.zero] = Leapt(now)]
          BY <1>3, <4>1
        <4> QED BY <4>2 DEF new, x
      <3> HIDE DEF current, present
      <3> QED BY <1>4, <2>1, <3>2, <3>3, <3>4, <3>5
    <2>2. CASE now # 0
      <3>1. now - 1 \in Nat /\ now > 0 /\ old = Leapt(now - 1)
        BY <1>2, <1>4, <2>2 DEF Lagged
      <3>2. old # FlagPlane /\ old.time = now - 1 /\ old.time + 2 = now + 1
        BY <1>2, <3>1, LeaptIs
      <3>3. /\ value' = [value EXCEPT ![w][slot.minus1] = Plane(old.time + 2, {}),
                                       ![w][slot.zero].filters = @ \cup {"asselin"}]
            /\ Observe(w, old.time, << Part(24, current) >>)
        BY <3>2 DEF LeapfrogStep
      <3>4. [present EXCEPT !.filters = @ \cup {"asselin"}] = Leapt(now)
        BY <1>2, <1>4, <3>1, AsselinIs
      <3>5. value' = [value EXCEPT ![w] = after]
        BY <1>3, <1>7, <3>2, <3>3, <3>4
      <3>6. base = now - 1 /\ parts = << Part(24, current) >>
        <4>1. DisTime(now) = now - 1
          BY <1>1, <3>1 DEF DisTime
        <4>2. Part(24, current) = History!Part(24, Full(now, now - 1))
          BY <1>5, <4>1, PartIs
        <4> QED BY <2>2, <4>2 DEF History!Leapfrog, History!Step, Full
      <3> QED BY <3>2, <3>3, <3>5, <3>6
    <2> QED BY <2>1, <2>2
  <1>9. /\ after[slot.minus1] = Plane(now + 1, {}) /\ after[slot.zero] = Leapt(now)
        /\ after = [i \in 0 .. 1 |-> after[i]]
    <2> DEFINE new == Plane(now + 1, {})
               x   == value[w]
    <2>1. x = [i \in 0 .. 1 |-> x[i]]
      BY <1>7
    <2> HIDE DEF new, x
    <2>2. after = [x EXCEPT ![slot.minus1] = new, ![slot.zero] = Leapt(now)]
      BY DEF new, x
    <2> QED BY <1>3, <2>1, <2>2 DEF new
  <1> HIDE DEF after, base, parts
  <1>10. value'[w] = after /\ \A x \in Winds \ {w} : value'[x] = value[x]
    BY <1>7, <1>8
  <1>11. /\ time' = [x \in Winds |-> IF Marched(x)' THEN now' + 1 ELSE now']
         /\ last' = [x \in Winds |-> last'[x]]
         /\ time[w] = now
         /\ time' = [time EXCEPT ![w] = time[w] + 1]
         /\ last' = [last EXCEPT ![w] = History!Step(base, parts)]
    BY <1>8, ObserveShape
  <1>12. Shape'
    <2>1. value' = [x \in Winds |-> value'[x]]
      BY <1>7, <1>8
    <2>2. \A x \in Winds : value'[x] = [i \in 0 .. 1 |-> value'[x][i]]
      BY <1>7, <1>9, <1>10
    <2>3. pc' \in Stages
      BY DEF Marching, Stages
    <2> QED BY <1>2, <1>11, <2>1, <2>2, <2>3 DEF Inv, Shape
  <1>13. LfInv'
    <2>1. ASSUME NEW x \in Winds
          PROVE  /\ value'[x][slot.zero] = IF Marched(x)' THEN Leapt(now) ELSE Plane(now, {"smoothed"})
                 /\ value'[x][slot.minus1] = IF Marched(x)' THEN Plane(now + 1, {}) ELSE Lagged(now)
      <3>1. CASE x = w
        BY <1>9, <1>10, <3>1 DEF Marching
      <3>2. CASE x # w
        <4>1. value'[x] = value[x] /\ (Marched(x)' <=> Marched(x))
          BY <1>10, <3>2 DEF Marching
        <4>2. /\ value[x][slot.zero] = IF Marched(x) THEN Leapt(now) ELSE Plane(now, {"smoothed"})
              /\ value[x][slot.minus1] = IF Marched(x) THEN Plane(now + 1, {}) ELSE Lagged(now)
          BY <1>1, <1>2 DEF LfInv
        <4> QED BY <4>1, <4>2
      <3> QED BY <3>1, <3>2
    <2>2. \A x \in Winds : tendency'[x][0] = Terms(SoFar(pc, now)')
      BY <1>1, <1>2 DEF LfInv
    <2>3. /\ slot' \in [zero : {0, 1}, minus1 : {0, 1}, minus2 : {2}] /\ slot'.zero # slot'.minus1
          /\ it' = [uv |-> slot'.zero, dis |-> IF Present' = 0 THEN slot'.zero ELSE slot'.minus1, tend |-> 0]
      BY <1>1, <1>2 DEF LfInv
    <2>4. ASSUME NEW x \in Winds
          PROVE  /\ value'[x][slot'.zero] = IF Marched(x)' THEN Leapt(now)' ELSE Plane(now', {"smoothed"})
                 /\ value'[x][slot'.minus1] = IF Marched(x)' THEN Plane(now' + 1, {}) ELSE Lagged(now)'
      BY <1>2, <2>1
    <2> QED BY <1>2, <2>2, <2>3, <2>4 DEF LfInv
  <1>14. FileInv'
    BY <1>2, FileKept DEF Inv
  <1> QED BY <1>1, <1>2, <1>6, <1>11, <1>12, <1>13, <1>14 DEF Inv

LEMMA CycleInv ==
  ASSUME Inv, Cycle PROVE Inv'
  <1>1. /\ pc = "cycle" /\ pc' = "smooth" /\ slot' = Cycled /\ it' = Bookkeeping(Cycled, value)
        /\ UNCHANGED <<scheme, now, value, tendency, file, time, last>>
    BY DEF Cycle, At, planes, seen
  <1>2. /\ now \in Nat /\ Present = now /\ Present' = now + 1 /\ Summing /\ ~Summing'
        /\ \A w \in Winds : Marched(w) /\ Marched(w)'
    BY <1>1 DEF Inv, Shape, Present, Summing, Stages, Marched
  <1>3. Shape'
    BY <1>1, <1>2 DEF Inv, Shape, Stages
  <1>4. FileInv'
    BY <1>1, <1>2, FileKept DEF Inv
  <1>5. ASSUME scheme = "AdamsBashforth" PROVE AbInv'
    <2>1. slot' = [zero |-> slot.minus2, minus1 |-> slot.zero, minus2 |-> slot.minus1]
      BY <1>1, <1>5 DEF Cycled
    <2>2. it' = [uv |-> 0, dis |-> 0, tend |-> slot'.zero]
      BY <1>1, <1>5 DEF Bookkeeping
    <2>3. AbInv
      BY <1>5 DEF Inv
    <2>4. SoFar(pc, now) = Full(now, now)
      <3>1. SoFar(pc, now) = Subgrid(now) /\ DisTime(now) = now
        BY <1>1, <1>5 DEF SoFar, DisTime
      <3> QED BY <3>1, FullIs
    <2>5. ASSUME NEW w \in Winds
          PROVE  /\ tendency[w][slot.zero] = Older(now + 1, 1)
                 /\ tendency[w][slot.minus1] = Older(now + 1, 2)
                 /\ value[w][0] = Plane(now + 1, {})
      <3>1. tendency[w][slot.zero] = Terms(Full(now, now)) /\ tendency[w][slot.minus1] = Older(now, 1)
        BY <1>2, <2>3, <2>4 DEF AbInv
      <3> DEFINE t == now + 1
      <3>2. t \in Nat /\ ~(t < 1) /\ t - 1 = now /\ t - 2 = now - 1 /\ (t < 2 <=> now < 1)
        BY <1>2
      <3> HIDE DEF t
      <3>3. Older(t, 1) = Terms(Full(now, now)) /\ Older(t, 2) = Older(now, 1)
        <4>1. Older(t, 1) = Terms(Full(t - 1, t - 1))
          BY <3>2 DEF Older
        <4>2. Older(t, 2) = IF t < 2 THEN FlagTerms ELSE Terms(Full(t - 2, t - 2))
          BY DEF Older
        <4>3. Older(now, 1) = IF now < 1 THEN FlagTerms ELSE Terms(Full(now - 1, now - 1))
          BY DEF Older
        <4>4. Older(t, 2) = Older(now, 1)
          BY Zenon, <3>2, <4>2, <4>3
        <4> QED BY <3>2, <4>1, <4>4
      <3>4. Older(now + 1, 1) = Terms(Full(now, now)) /\ Older(now + 1, 2) = Older(now, 1)
        BY <3>3 DEF t
      <3> QED BY <1>2, <2>3, <3>1, <3>4 DEF AbInv
    <2>6. /\ slot' \in [zero : Slots, minus1 : Slots, minus2 : Slots]
          /\ slot'.zero # slot'.minus1 /\ slot'.zero # slot'.minus2 /\ slot'.minus1 # slot'.minus2
          /\ slot'.minus1 = slot.zero /\ slot'.minus2 = slot.minus1
      BY <2>1, <2>3 DEF AbInv
    <2> QED BY <1>1, <1>2, <2>2, <2>5, <2>6 DEF AbInv
  <1>6. ASSUME scheme = "Leapfrog" PROVE LfInv'
    <2>1. slot' = [slot EXCEPT !.zero = slot.minus1, !.minus1 = slot.zero]
      BY <1>1, <1>6 DEF Cycled
    <2>2. LfInv
      BY <1>6 DEF Inv
    <2>3. /\ slot' \in [zero : {0, 1}, minus1 : {0, 1}, minus2 : {2}] /\ slot'.zero # slot'.minus1
          /\ slot'.zero = slot.minus1 /\ slot'.minus1 = slot.zero
      BY <2>1, <2>2 DEF LfInv
    <2>4. \A w \in Winds : value[w][slot'.zero] = Plane(now + 1, {}) /\ value[w][slot'.minus1] = Leapt(now)
      BY <1>1, <1>2, <2>2, <2>3 DEF LfInv
    <2>5. value["u"][slot'.minus1] # FlagPlane
      BY <1>2, <2>4, LeaptIs DEF Winds
    <2>6. it' = [uv |-> slot'.zero, tend |-> 0, dis |-> slot'.minus1]
      BY <1>1, <1>6, <2>5 DEF Bookkeeping
    <2>7. Present' # 0
      BY <1>2
    <2>8. Leapt(now)' = Leapt(now)
      BY <1>1 DEF Leapt
    <2>9. it' = [uv |-> slot'.zero, dis |-> IF Present' = 0 THEN slot'.zero ELSE slot'.minus1, tend |-> 0]
      BY <2>6, <2>7
    <2> QED BY <1>1, <1>2, <2>3, <2>4, <2>8, <2>9 DEF LfInv
  <1> QED BY <1>1, <1>3, <1>4, <1>5, <1>6 DEF Inv

LEMMA SmoothInv ==
  ASSUME Inv, Smooth PROVE Inv'
  <1>1. /\ pc = "smooth" /\ pc' = "top" /\ now' = now + 1
        /\ value' = [w \in Winds |-> [value[w] EXCEPT ![it.uv].filters = @ \cup {"smoothed"}]]
        /\ UNCHANGED <<scheme, slot, it, tendency, file, time, last>>
    BY DEF Smooth, At, seen
  <1>2. /\ now \in Nat /\ now' \in Nat /\ Present = now' /\ Present' = now' /\ ~Summing'
        /\ \A w \in Winds : Marched(w) /\ ~Marched(w)'
    BY <1>1 DEF Inv, Shape, Present, Summing, Marched
  <1>3. it.uv \in 0 .. 1
    BY SchemeIs DEF Inv, AbInv, LfInv
  <1>4. ASSUME NEW w \in Winds, value[w][it.uv] = Plane(now', {})
        PROVE  /\ value'[w] = [i \in 0 .. 1 |-> value'[w][i]]
               /\ value'[w][it.uv] = Plane(now', {"smoothed"})
               /\ \A i \in (0 .. 1) \ {it.uv} : value'[w][i] = value[w][i]
    <2> DEFINE x == value[w]
               new == [x[it.uv] EXCEPT !.filters = @ \cup {"smoothed"}]
    <2>1. x = [i \in 0 .. 1 |-> x[i]]
      BY DEF Inv, Shape
    <2>2. new = Plane(now', {"smoothed"})
      BY <1>4, SmoothedIs
    <2>3. value'[w] = [x EXCEPT ![it.uv] = new]
      BY <1>1
    <2> HIDE DEF new, x
    <2>4. /\ [x EXCEPT ![it.uv] = new] = [i \in 0 .. 1 |-> [x EXCEPT ![it.uv] = new][i]]
          /\ [x EXCEPT ![it.uv] = new][it.uv] = new
          /\ \A i \in (0 .. 1) \ {it.uv} : [x EXCEPT ![it.uv] = new][i] = x[i]
      BY <1>3, <2>1
    <2> QED BY <2>2, <2>3, <2>4 DEF x
  <1>5. \A w \in Winds : value[w][it.uv] = Plane(now', {})
    BY <1>1, <1>2, SchemeIs DEF Inv, AbInv, LfInv
  <1>6. Shape'
    <2>1. value' = [w \in Winds |-> value'[w]]
      BY <1>1
    <2>2. time' = [w \in Winds |-> IF Marched(w)' THEN now' + 1 ELSE now']
      BY <1>1, <1>2 DEF Inv, Shape
    <2> QED BY <1>1, <1>2, <1>4, <1>5, <2>1, <2>2 DEF Inv, Shape, Stages
  <1>7. FileInv'
    BY <1>1, <1>2, FileKept DEF Inv
  <1>8. ASSUME scheme = "AdamsBashforth" PROVE AbInv'
    <2>1. AbInv /\ it.uv = 0
      BY <1>8 DEF Inv, AbInv
    <2>2. \A w \in Winds : value'[w][0] = Plane(now', {"smoothed"})
      BY <1>4, <1>5, <2>1
    <2> QED BY <1>1, <1>2, <2>1, <2>2 DEF AbInv
  <1>9. ASSUME scheme = "Leapfrog" PROVE LfInv'
    <2>1. LfInv /\ it.uv = slot.zero /\ slot.minus1 \in (0 .. 1) \ {it.uv}
      BY <1>9 DEF Inv, LfInv
    <2>2. Lagged(now') = Leapt(now)
      <3>1. now' # 0 /\ now' - 1 = now
        BY <1>1, <1>2
      <3> QED BY <3>1 DEF Lagged
    <2>3. ASSUME NEW w \in Winds
          PROVE  value'[w][slot.zero] = Plane(now', {"smoothed"}) /\ value'[w][slot.minus1] = Lagged(now')
      <3>1. value[w][slot.minus1] = Leapt(now)
        BY <1>1, <2>1 DEF LfInv
      <3> QED BY <1>4, <1>5, <2>1, <2>2, <3>1
    <2>4. Lagged(now)' = Lagged(now')
      BY DEF Lagged, Leapt
    <2> QED BY <1>1, <1>2, <2>1, <2>3, <2>4 DEF LfInv
  <1> QED BY <1>1, <1>6, <1>7, <1>8, <1>9 DEF Inv

-----------------------------------------------------------------------------
(* The theorems. *)

(* The step of a wind when its tendencies are complete, and what it shows. *)
LEMMA MarchStep ==
  ASSUME Inv, NEW w \in Winds, Marching(w)
  PROVE  /\ Inv'
         /\ scheme' = scheme
         /\ time' = [time EXCEPT ![w] = time[w] + 1]
         /\ last' = [last EXCEPT ![w] = IF scheme = "AdamsBashforth" THEN History!AdamsBashforth(time[w])
                                                                   ELSE History!Leapfrog(time[w])]
  <1>1. AdamsBashforthStep(w) \/ LeapfrogStep(w)
    BY DEF Marching, March
  <1>2. scheme' = scheme
    BY DEF Marching, March
  <1>3. CASE AdamsBashforthStep(w)
    BY <1>2, <1>3, AbMarchInv DEF AdamsBashforthStep
  <1>4. CASE LeapfrogStep(w)
    <2>1. scheme = "Leapfrog"
      BY <1>4 DEF LeapfrogStep
    <2> QED BY <1>2, <1>4, <2>1, LfMarchInv
  <1> QED BY <1>1, <1>3, <1>4

LEMMA NextInv == Inv /\ [Next]_vars => Inv'
  <1> SUFFICES ASSUME Inv, [Next]_vars PROVE Inv'
    OBVIOUS
  <1>1. CASE Save
    BY <1>1, SaveInv
  <1>2. CASE Restart
    BY <1>2, RestartInv
  <1>3. CASE Clear
    BY <1>3, ClearInv
  <1>4. CASE UvCore \/ UvSponge \/ UvPgrad \/ UvHorizontalSubgrid
    BY <1>4, SumInv
  <1>5. CASE MarchU
    BY <1>5, MarchingIs, MarchStep DEF Winds
  <1>6. CASE MarchV
    BY <1>6, MarchingIs, MarchStep DEF Winds
  <1>7. CASE Cycle
    BY <1>7, CycleInv
  <1>8. CASE Smooth
    BY <1>8, SmoothInv
  <1>9. CASE UNCHANGED vars
    <2>1. UNCHANGED <<scheme, pc, now, slot, it, value, tendency, file, time, last>>
      BY <1>9 DEF vars, planes, seen
    <2>2. Shape'
      BY <2>1 DEF Inv, Shape, Marched
    <2>3. FileInv'
      BY <2>1 DEF Inv, FileInv, Older, Lagged, Leapt, Full
    <2>4. scheme = "AdamsBashforth" => AbInv'
      BY <2>1 DEF Inv, AbInv, Marched, Present, Summing, Older, Full, SoFar, Core, Sponge, Pgrad, Subgrid, DisTime
    <2>5. scheme = "Leapfrog" => LfInv'
      BY <2>1 DEF Inv, LfInv, Marched, Present, Summing, Lagged, Leapt, SoFar, Core, Sponge, Pgrad, Subgrid, DisTime
    <2> QED BY <2>1, <2>2, <2>3, <2>4, <2>5 DEF Inv
  <1> QED BY <1>1, <1>2, <1>3, <1>4, <1>5, <1>6, <1>7, <1>8, <1>9 DEF Next

(* The invariant holds in every state. *)
THEOREM Invariance == Spec => []Inv
  BY InitInv, NextInv, PTL DEF Spec

LEMMA InvSmoothed == Inv => SmoothedAndFiltered
  <1> SUFFICES ASSUME Inv, pc = "core", NEW w \in Winds
               PROVE  /\ "smoothed" \in value[w][it.uv].filters
                      /\ scheme = "Leapfrog" /\ now > 1 => value[w][it.dis].filters = {"smoothed", "asselin"}
    BY DEF SmoothedAndFiltered
  <1>1. now \in Nat /\ Present = now /\ pc # "smooth" /\ ~Marched(w)
    BY DEF Inv, Shape, Present, Marched
  <1>2. value[w][it.uv] = Plane(now, {"smoothed"})
    BY <1>1, SchemeIs DEF Inv, AbInv, LfInv
  <1>3. "smoothed" \in value[w][it.uv].filters
    BY <1>2, PlaneIs
  <1>4. ASSUME scheme = "Leapfrog", now > 1
        PROVE  value[w][it.dis].filters = {"smoothed", "asselin"}
    <2>1. now # 0 /\ now - 1 # 0
      BY <1>1, <1>4
    <2>2. value[w][it.dis] = Lagged(now)
      BY <1>1, <1>4, <2>1 DEF Inv, LfInv
    <2>3. Lagged(now) = Plane(now - 1, {"smoothed", "asselin"})
      BY <2>1 DEF Lagged, Leapt
    <2> QED BY <2>2, <2>3, PlaneIs
  <1> QED BY <1>3, <1>4

(* A timestep starts from winds that have been smoothed and, with leapfrog,  *)
(* lags its dissipation to winds that have been through both filters.        *)
THEOREM Smoothed == Spec => []SmoothedAndFiltered
  BY Invariance, InvSmoothed, PTL

LEMMA InitHistory == Init => History!Init
  BY DEF Init, History!Init, History!NoStep, History!Step, History!Winds, Winds

(* Only the two steps of the winds and a restart show. *)
LEMMA NextHistory ==
  Inv /\ [Next]_vars => [History!Next]_<<scheme, time, last>>
  <1> SUFFICES ASSUME Inv, [Next]_vars PROVE [History!Next]_<<scheme, time, last>>
    OBVIOUS
  <1>1. time = [w \in Winds |-> IF Marched(w) THEN now + 1 ELSE now] /\ now \in Nat
    BY DEF Inv, Shape
  <1>2. "u" \in Winds /\ "v" \in Winds /\ History!Winds = Winds
    BY DEF Winds, History!Winds
  <1>3. CASE MarchU \/ MarchV
    <2>1. PICK w \in Winds : Marching(w)
      BY <1>2, <1>3, MarchingIs
    <2>2. \A x \in Winds : time[w] <= time[x]
      <3>1. time[w] = now
        BY <1>1, <2>1 DEF Marching
      <3>2. \A x \in Winds : time[x] = now \/ time[x] = now + 1
        BY <1>1
      <3> QED BY <1>1, <3>1, <3>2
    <2>3. History!March(w)
      BY <1>2, <2>1, <2>2, MarchStep DEF History!March
    <2> QED BY <1>2, <2>3 DEF History!Next
  <1>4. CASE Restart
    <2>1. time' = [w \in Winds |-> file.time] /\ scheme' = scheme /\ last' = last
      BY <1>4 DEF Restart
    <2>2. file.time \in Nat /\ file.time <= now
      BY DEF Inv, FileInv
    <2>3. file.time \in 0 .. time["u"] /\ file.time <= time["v"]
      BY <1>1, <1>2, <2>2
    <2>4. History!Resume
      BY <1>2, <2>1, <2>3 DEF History!Resume
    <2> QED BY <2>4 DEF History!Next
  <1>5. CASE Save \/ Clear \/ Cycle \/ Smooth \/ UNCHANGED vars
    BY <1>5 DEF Save, Clear, Cycle, Smooth, vars, seen
  <1>6. CASE UvCore \/ UvSponge \/ UvPgrad \/ UvHorizontalSubgrid
    BY <1>6 DEF UvCore, UvSponge, UvPgrad, UvHorizontalSubgrid, AddTerm, seen
  <1> QED BY <1>3, <1>4, <1>5, <1>6 DEF Next

(* However long a run is and however often it is stopped and started again,  *)
(* the steps of the winds are those of the two schemes.                      *)
THEOREM Refinement == Spec => HistoryKept
  BY InitHistory, Invariance, NextHistory, PTL DEF Spec, HistoryKept, History!Spec

-----------------------------------------------------------------------------
(* Types: the bounds, and the slots that Inv does not speak of. *)
Kept ==
  /\ restarts \in 0 .. MaxRestarts /\ now \in 0 .. MaxTime /\ (pc # "top" => now < MaxTime)
  /\ \A w \in Winds : IsTend(file.older[w].dminus1) /\ IsTend(file.older[w].dminus2)
  /\ \A w \in Winds, i \in Slots : IsTend(tendency[w][i])
  /\ scheme = "AdamsBashforth" => \A w \in Winds :
       value[w][1] = FlagPlane /\ file.older[w].minus1 = FlagPlane

LEMMA TendsAre ==
  ASSUME now \in Nat
  PROVE  /\ IsTend(FlagTerms) /\ IsTend(Terms({}))
         /\ \A stage : IsTend(Terms(SoFar(stage, now)))
  <1>1. \A x : (\A e \in x : e[2] \subseteq Nat) => IsTend(Terms(x))
    BY TermsIs DEF IsTend, Terms
  <1>2. IsTend(FlagTerms)
    BY DEF IsTend
  <1>3. DisTime(now) \in Nat /\ now + 1 \in Nat
    BY DEF DisTime
  <1>4. \A e \in Subgrid(now) : e[2] \subseteq Nat
    BY <1>3 DEF Subgrid, Pgrad, Sponge, Core
  <1>5. \A stage : SoFar(stage, now) \subseteq Subgrid(now)
    BY DEF SoFar, Subgrid, Pgrad, Sponge, Core
  <1>6. \A stage : \A e \in SoFar(stage, now) : e[2] \subseteq Nat
    BY <1>4, <1>5
  <1> QED BY <1>1, <1>2, <1>6

LEMMA InitKept == Init => Kept
  <1> SUFFICES ASSUME Init PROVE Kept
    OBVIOUS
  <1>1. now = 0 /\ pc = "top" /\ restarts = 0 /\ MaxTime \in Nat /\ MaxRestarts \in Nat
    BY BoundsAssumption DEF Init
  <1>2. \A w \in Winds : /\ file.older[w].dminus1 = FlagTerms /\ file.older[w].dminus2 = FlagTerms
                         /\ file.older[w].minus1 = FlagPlane
    BY DEF Init, InitialFile
  <1>3. \A w \in Winds : /\ tendency[w][0] = Terms({}) /\ tendency[w][1] = file.older[w].dminus1
                         /\ tendency[w][2] = file.older[w].dminus2
                         /\ value[w][1] = file.older[w].minus1
    BY DEF Init, ReadTendency, ReadValue, Slots
  <1>4. IsTend(FlagTerms) /\ IsTend(Terms({}))
    BY <1>1, TendsAre
  <1>5. \A w \in Winds, i \in Slots : IsTend(tendency[w][i])
    <2>1. Slots = {0, 1, 2}
      BY DEF Slots
    <2> QED BY <1>2, <1>3, <1>4, <2>1
  <1> QED BY <1>1, <1>2, <1>3, <1>4, <1>5 DEF Kept

LEMMA NextKept ==
  ASSUME Inv, Inv', Kept, [Next]_vars
  PROVE  Kept'
  <1> USE DEF Kept
  <1>1. CASE UNCHANGED vars
    BY <1>1 DEF vars, planes, seen
  <1>2. CASE Save
    <2>1. /\ UNCHANGED <<scheme, pc, now, value, tendency, restarts>>
          /\ file' = [time |-> now,
               zero |-> [w \in Winds |-> value[w][it.uv]],
               older |-> [w \in Winds |->
                 [minus1  |-> IF scheme = "Leapfrog" THEN value[w][slot.minus1] ELSE FlagPlane,
                  dminus1 |-> IF scheme = "Leapfrog" THEN FlagTerms ELSE tendency[w][slot.minus1],
                  dminus2 |-> IF scheme = "Leapfrog" THEN FlagTerms ELSE tendency[w][slot.minus2]]]]
      BY <1>2 DEF Save, planes
    <2>2. \A w \in Winds :
            /\ file'.older[w].minus1 =
                 IF scheme = "Leapfrog" THEN value[w][slot.minus1] ELSE FlagPlane
            /\ file'.older[w].dminus1 =
                 IF scheme = "Leapfrog" THEN FlagTerms ELSE tendency[w][slot.minus1]
            /\ file'.older[w].dminus2 =
                 IF scheme = "Leapfrog" THEN FlagTerms ELSE tendency[w][slot.minus2]
      BY <2>1
    <2>3. scheme # "Leapfrog" => slot.minus1 \in Slots /\ slot.minus2 \in Slots
      BY SchemeIs DEF Inv, AbInv
    <2>4. IsTend(FlagTerms)
      BY DEF IsTend
    <2>5. \A w \in Winds : IsTend(file'.older[w].dminus1) /\ IsTend(file'.older[w].dminus2)
      BY <2>2, <2>3, <2>4
    <2>6. scheme = "AdamsBashforth" => \A w \in Winds : file'.older[w].minus1 = FlagPlane
      BY <2>2
    <2> QED BY <2>1, <2>5, <2>6
  <1>3. CASE Restart
    <2>1. /\ restarts < MaxRestarts /\ restarts' = restarts + 1 /\ pc' = "top" /\ now' = file.time
          /\ UNCHANGED <<scheme, file>> /\ value' = ReadValue(file) /\ tendency' = ReadTendency(file)
      BY <1>3 DEF Restart
    <2>2. now' \in 0 .. MaxTime /\ restarts' \in 0 .. MaxRestarts
      BY <2>1, BoundsAssumption DEF Inv, FileInv
    <2>3. \A w \in Winds : /\ tendency'[w][0] = Terms({}) /\ tendency'[w][1] = file.older[w].dminus1
                           /\ tendency'[w][2] = file.older[w].dminus2
                           /\ value'[w][1] = file.older[w].minus1
      BY <2>1 DEF ReadTendency, ReadValue, Slots
    <2>4. IsTend(Terms({}))
      BY BoundsAssumption, TendsAre
    <2>5. \A w \in Winds, i \in Slots : IsTend(tendency'[w][i])
      <3>1. Slots = {0, 1, 2}
        BY DEF Slots
      <3> QED BY <2>3, <2>4, <3>1
    <2> QED BY <2>1, <2>2, <2>3, <2>5
  <1>4. CASE Clear
    <2>1. /\ UNCHANGED <<scheme, now, value, file, restarts>> /\ now < MaxTime
          /\ tendency' = [w \in Winds |-> [tendency[w] EXCEPT ![it.tend] = Terms({})]]
      BY <1>4 DEF Clear
    <2>2. IsTend(Terms({}))
      BY BoundsAssumption, TendsAre
    <2>3. \A w \in Winds, i \in Slots :
            tendency'[w][i] = Terms({}) \/ tendency'[w][i] = tendency[w][i]
      <3>1. \A w \in Winds : tendency[w] = [i \in Slots |-> tendency[w][i]]
        BY DEF Inv, Shape
      <3> QED BY <2>1, <3>1
    <2> QED BY <2>1, <2>2, <2>3
  <1>5. CASE UvCore \/ UvSponge \/ UvPgrad \/ UvHorizontalSubgrid
    <2>1. /\ UNCHANGED <<scheme, now, it, slot, value, file, restarts>> /\ Summing' /\ pc # "top"
          /\ \A w \in Winds, i \in Slots : i # it.tend => tendency'[w][i] = tendency[w][i]
      <3>1. \A w \in Winds : tendency[w] = [i \in Slots |-> tendency[w][i]]
        BY DEF Inv, Shape
      <3>2. /\ UNCHANGED <<scheme, now, it, slot, value, file, restarts>> /\ Summing' /\ pc # "top"
        BY <1>5 DEF UvCore, UvSponge, UvPgrad, UvHorizontalSubgrid, AddTerm, At, Summing, Stages
      <3>3. \E term : AddTerm(term)
        BY <1>5 DEF UvCore, UvSponge, UvPgrad, UvHorizontalSubgrid
      <3>4. PICK term : AddTerm(term)
        BY <3>3
      <3>5. tendency' = [w \in Winds |-> [tendency[w] EXCEPT ![it.tend] = Added(@, term)]]
        BY <3>4 DEF AddTerm
      <3> QED BY <3>1, <3>2, <3>5
    <2>2. \A w \in Winds : tendency'[w][it.tend] = Terms(SoFar(pc', now))
      <3>0. SoFar(pc, now)' = SoFar(pc', now)
        BY <2>1 DEF SoFar, Core, Sponge, Pgrad, Subgrid, DisTime
      <3>1. CASE scheme = "AdamsBashforth"
        <4>1. AbInv' /\ it.tend = slot.zero
          BY <2>1, <3>1 DEF Inv, AbInv
        <4>2. \A w \in Winds : Summing' => tendency'[w][slot'.zero] = Terms(SoFar(pc, now)')
          BY <4>1 DEF AbInv
        <4> QED BY <2>1, <3>0, <4>1, <4>2
      <3>2. CASE scheme = "Leapfrog"
        <4>1. LfInv' /\ it.tend = 0
          BY <2>1, <3>2 DEF Inv, LfInv
        <4>2. \A w \in Winds : Summing' => tendency'[w][0] = Terms(SoFar(pc, now)')
          BY <4>1 DEF LfInv
        <4> QED BY <2>1, <3>0, <4>1, <4>2
      <3> QED BY <3>1, <3>2, SchemeIs DEF Inv
    <2>3. \A stage : IsTend(Terms(SoFar(stage, now)))
      BY BoundsAssumption, TendsAre
    <2>4. \A w \in Winds, i \in Slots : IsTend(tendency'[w][i])
      BY <2>1, <2>2, <2>3
    <2> QED BY <2>1, <2>4
  <1>6. CASE MarchU \/ MarchV
    <2>1. /\ UNCHANGED <<scheme, now, it, file, tendency, restarts>> /\ pc # "top"
      BY <1>6 DEF MarchU, MarchV, March, At
    <2>2. scheme = "AdamsBashforth" => \A w \in Winds : value'[w][1] = value[w][1]
      <3>1. PICK x \in Winds : AdamsBashforthStep(x) \/ LeapfrogStep(x)
        BY <1>6 DEF MarchU, MarchV, March, Winds
      <3>2. scheme = "AdamsBashforth" =>
              /\ value' = [value EXCEPT ![x][it.uv] = Plane(@.time + 1, {})]
              /\ it.uv = 0
        BY <3>1 DEF AdamsBashforthStep, LeapfrogStep, Inv, AbInv
      <3>3. /\ value = [w \in Winds |-> value[w]]
            /\ \A w \in Winds : value[w] = [i \in 0 .. 1 |-> value[w][i]]
        BY DEF Inv, Shape
      <3> QED BY <3>2, <3>3
    <2> QED BY <2>1, <2>2
  <1>7. CASE Cycle
    BY <1>7 DEF Cycle, At, planes
  <1>8. CASE Smooth
    <2>1. /\ UNCHANGED <<scheme, file, tendency, restarts>> /\ pc # "top" /\ pc' = "top"
          /\ now' = now + 1
          /\ value' = [w \in Winds |-> [value[w] EXCEPT ![it.uv].filters = @ \cup {"smoothed"}]]
      BY <1>8 DEF Smooth, At
    <2>2. now' \in 0 .. MaxTime
      BY <2>1, BoundsAssumption
    <2>3. scheme = "AdamsBashforth" => \A w \in Winds : value'[w][1] = value[w][1]
      <3>1. scheme = "AdamsBashforth" => it.uv = 0
        BY DEF Inv, AbInv
      <3>2. \A w \in Winds : value[w] = [i \in 0 .. 1 |-> value[w][i]]
        BY DEF Inv, Shape
      <3> QED BY <2>1, <3>1, <3>2
    <2> QED BY <2>1, <2>2, <2>3
  <1> QED BY <1>1, <1>2, <1>3, <1>4, <1>5, <1>6, <1>7, <1>8 DEF Next

LEMMA InvTypes == Inv /\ Kept => TypeOK
  <1> SUFFICES ASSUME Inv, Kept PROVE TypeOK
    OBVIOUS
  <1>1. /\ scheme \in Schemes /\ pc \in Stages /\ now \in Nat
        /\ value = [w \in Winds |-> value[w]]
        /\ \A w \in Winds : value[w] = [i \in 0 .. 1 |-> value[w][i]]
        /\ time = [w \in Winds |-> IF Marched(w) THEN now + 1 ELSE now]
    BY DEF Inv, Shape
  <1>2. /\ now \in 0 .. MaxTime /\ restarts \in 0 .. MaxRestarts
        /\ \A w \in Winds, i \in Slots : IsTend(tendency[w][i])
    BY DEF Kept
  <1>3. \A t \in Nat : \A f \in SUBSET {"smoothed", "asselin"} : Plane(t, f) \in PlaneType
    BY DEF Plane, PlaneType
  <1>4. FlagPlane \in PlaneType
    BY DEF PlaneType
  <1>5. /\ now \in Nat /\ now + 1 \in Nat
        /\ {} \in SUBSET {"smoothed", "asselin"} /\ {"smoothed"} \in SUBSET {"smoothed", "asselin"}
    BY <1>1
  <1>6. Plane(now + 1, {}) \in PlaneType /\ Plane(now, {"smoothed"}) \in PlaneType
    BY <1>3, <1>5
  <1>7. /\ {slot.zero, slot.minus1, slot.minus2} = Slots
        /\ {it.uv, it.dis} \subseteq 0 .. 1 /\ it.tend \in Slots
        /\ \A w \in Winds, i \in 0 .. 1 : value[w][i] \in PlaneType
    <2>1. CASE scheme = "AdamsBashforth"
      <3>1. /\ slot.zero \in {0, 1, 2} /\ slot.minus1 \in {0, 1, 2} /\ slot.minus2 \in {0, 1, 2}
            /\ slot.zero # slot.minus1 /\ slot.zero # slot.minus2 /\ slot.minus1 # slot.minus2
            /\ Slots = {0, 1, 2}
        BY <2>1 DEF Inv, AbInv, Slots
      <3>2. {slot.zero, slot.minus1, slot.minus2} = Slots
        BY <3>1
      <3>3. it.uv = 0 /\ it.dis = 0 /\ it.tend = slot.zero
        BY <2>1 DEF Inv, AbInv
      <3>4. \A w \in Winds : value[w][0] \in PlaneType /\ value[w][1] = FlagPlane
        <4>1. \A w \in Winds : value[w][0] = Plane(now + 1, {}) \/ value[w][0] = Plane(now, {"smoothed"})
          BY <2>1 DEF Inv, AbInv
        <4>2. \A w \in Winds : value[w][1] = FlagPlane
          BY <2>1 DEF Kept
        <4> QED BY <1>6, <4>1, <4>2
      <3>5. \A i \in 0 .. 1 : i = 0 \/ i = 1
        OBVIOUS
      <3> QED BY <1>4, <3>1, <3>2, <3>3, <3>4, <3>5
    <2>2. CASE scheme = "Leapfrog"
      <3>1. /\ slot.zero \in {0, 1} /\ slot.minus1 \in {0, 1} /\ slot.minus2 = 2
            /\ slot.zero # slot.minus1 /\ Slots = {0, 1, 2}
        BY <2>2 DEF Inv, LfInv, Slots
      <3>2. {slot.zero, slot.minus1, slot.minus2} = Slots
        BY <3>1
      <3>3. it.uv = slot.zero /\ it.dis \in {slot.zero, slot.minus1} /\ it.tend = 0
        BY <2>2 DEF Inv, LfInv
      <3>4. Leapt(now) \in PlaneType /\ Lagged(now) \in PlaneType
        BY <1>1, <1>3, <1>4 DEF Leapt, Lagged
      <3>6. \A w \in Winds : /\ value[w][slot.zero] \in PlaneType
                             /\ value[w][slot.minus1] \in PlaneType
        BY <1>6, <2>2, <3>4 DEF Inv, LfInv
      <3>7. \A i \in 0 .. 1 : i = slot.zero \/ i = slot.minus1
        BY <3>1
      <3> QED BY <3>1, <3>2, <3>3, <3>6, <3>7
    <2> QED BY <2>1, <2>2, SchemeIs DEF Inv
  <1>8. value \in [Winds -> [0 .. 1 -> PlaneType]]
    BY <1>1, <1>7
  <1>9. time \in [Winds -> Nat]
    BY <1>1
  <1> QED BY <1>1, <1>2, <1>7, <1>8, <1>9 DEF TypeOK

(* Every variable keeps its type: the slots stay a permutation of the planes *)
(* there are, no plane or tendency is other than the flag or a number, and   *)
(* the bounds are kept.                                                      *)
THEOREM TypeCorrect == Spec => []TypeOK
  <1>1. Kept /\ Inv /\ Inv' /\ [Next]_vars => Kept'
    BY NextKept
  <1>2. Spec => []Kept
    BY <1>1, InitKept, Invariance, PTL DEF Spec
  <1> QED BY <1>2, Invariance, InvTypes, PTL

-----------------------------------------------------------------------------
(***************************************************************************)
(* The order of work                                                       *)
(***************************************************************************)

(* What the condition of the fields is made of. *)
Condition ==
  [behind : [Diagnostic -> SUBSET Prognostic], seams : SUBSET (Prognostic \cup Diagnostic),
   z2_kept : BOOLEAN, finished : Int]

(* The recursion that defines Roots ends: from the diagnostic variables of a *)
(* lower level to those of the next.                                         *)
RootsFrom(r, d) == UNION {IF f \in Diagnostic THEN r[f] ELSE {f} : f \in From[d]}

(* What each diagnostic variable may be calculated from. *)
LEMMA FromIs ==
  ASSUME set \in Settings
  PROVE  /\ DOMAIN From = Diagnostic
         /\ From["x"] = {"q"}
         /\ From["p"] \subseteq {"h"}
         /\ From["dry"] \subseteq {"p", "q", "x"}
         /\ From["theta2"] \subseteq {"theta"}
         /\ From["pgrad_vars"] \subseteq {"p", "theta", "theta2", "fpara", "x"}
         /\ ~Species => "x" \notin From["pgrad_vars"]
         /\ From["flow"] = {"uv", "h"}
         /\ From["ri2"] = {"uv", "pgrad_vars", "p"}
         /\ From["coef"] \subseteq {"uv", "nu_turb"}
         /\ ~Turbulent => From["coef"] = {}
         /\ From["heat3"] \subseteq {"p", "pgrad_vars", "model_time", "fpara"}
         /\ From["w3"] \subseteq {"flow", "p", "heat3", "pgrad_vars", "theta"}
  <1>1. set.coord \in {"isobaric", "isentropic", "hybrid"}
    BY SettingsAssumption DEF Settings
  <1>2. From["w3"] \subseteq {"flow", "p", "heat3", "pgrad_vars", "theta"}
    <2>1. CASE set.coord = "isobaric"
      BY <2>1 DEF From
    <2>2. CASE set.coord = "isentropic"
      BY <2>2 DEF From
    <2>3. CASE set.coord = "hybrid"
      BY <2>3 DEF From
    <2> QED BY <1>1, <2>1, <2>2, <2>3
  <1>3. DOMAIN From = Diagnostic
    BY DEF From, Diagnostic
  <1>4. From["pgrad_vars"] \subseteq {"p", "theta", "theta2", "fpara", "x"}
        /\ (~Species => "x" \notin From["pgrad_vars"])
    BY DEF From
  <1>5. /\ From["x"] = {"q"} /\ From["p"] \subseteq {"h"} /\ From["dry"] \subseteq {"p", "q", "x"}
        /\ From["theta2"] \subseteq {"theta"} /\ From["flow"] = {"uv", "h"}
    BY DEF From
  <1>6. /\ From["ri2"] = {"uv", "pgrad_vars", "p"} /\ From["coef"] \subseteq {"uv", "nu_turb"}
        /\ ~Turbulent => From["coef"] = {}
        /\ From["heat3"] \subseteq {"p", "pgrad_vars", "model_time", "fpara"}
    BY DEF From
  <1> QED BY <1>2, <1>3, <1>4, <1>5, <1>6

(* Diagnostic variables by the number of others they are calculated through. *)
Level == << {"x", "p", "theta2", "flow", "coef"}, {"dry", "pgrad_vars"}, {"ri2", "heat3"}, {"w3"} >>

LEMMA FromLevels ==
  ASSUME set \in Settings, NEW d \in Diagnostic
  PROVE  /\ d \in Level[1] \/ d \in Level[2] \/ d \in Level[3] \/ d \in Level[4]
         /\ d \in Level[1] => From[d] \cap Diagnostic = {}
         /\ d \in Level[2] => From[d] \cap Diagnostic \subseteq Level[1]
         /\ d \in Level[3] => From[d] \cap Diagnostic \subseteq Level[1] \cup Level[2]
         /\ d \in Level[4] => From[d] \cap Diagnostic \subseteq Level[1] \cup Level[2] \cup Level[3]
  BY FromIs DEF Level, Diagnostic

LEMMA RootsOfEquals ==
  ASSUME NEW r, NEW t, NEW d \in Diagnostic, \A f \in From[d] \cap Diagnostic : r[f] = t[f]
  PROVE  RootsFrom(r, d) = RootsFrom(t, d)
  BY DEF RootsFrom

(* What Roots is defined to be exists. *)
LEMMA RootsAre ==
  ASSUME set \in Settings
  PROVE  Roots = [d \in Diagnostic |-> RootsFrom(Roots, d)]
  <1> DEFINE Step(r) == [d \in Diagnostic |-> RootsFrom(r, d)]
             r1 == Step(From)
             r2 == Step(r1)
             r3 == Step(r2)
             r4 == Step(r3)
  <1> HIDE DEF Step, r1, r2, r3, r4
  <1>0. \A r : \A d \in Diagnostic : Step(r)[d] = RootsFrom(r, d)
    BY DEF Step
  <1>1. \A d \in Level[1] : r1[d] = r2[d] /\ r2[d] = r3[d] /\ r3[d] = r4[d]
    <2> SUFFICES ASSUME NEW d \in Level[1] PROVE r1[d] = r2[d] /\ r2[d] = r3[d] /\ r3[d] = r4[d]
      OBVIOUS
    <2>1. d \in Diagnostic
      BY DEF Level, Diagnostic
    <2>2. From[d] \cap Diagnostic = {}
      BY <2>1, FromLevels
    <2>3. RootsFrom(From, d) = RootsFrom(r1, d) /\ RootsFrom(r1, d) = RootsFrom(r2, d)
          /\ RootsFrom(r2, d) = RootsFrom(r3, d)
      BY <2>1, <2>2, RootsOfEquals
    <2> QED BY <1>0, <2>1, <2>3 DEF r1, r2, r3, r4
  <1>2. \A d \in Level[2] : r2[d] = r3[d] /\ r3[d] = r4[d]
    <2> SUFFICES ASSUME NEW d \in Level[2] PROVE r2[d] = r3[d] /\ r3[d] = r4[d]
      OBVIOUS
    <2>1. d \in Diagnostic
      BY DEF Level, Diagnostic
    <2>2. From[d] \cap Diagnostic \subseteq Level[1]
      BY <2>1, FromLevels
    <2>3. RootsFrom(r1, d) = RootsFrom(r2, d) /\ RootsFrom(r2, d) = RootsFrom(r3, d)
      BY <1>1, <2>1, <2>2, RootsOfEquals
    <2> QED BY <1>0, <2>1, <2>3 DEF r1, r2, r3, r4
  <1>3. \A d \in Level[3] : r3[d] = r4[d]
    <2> SUFFICES ASSUME NEW d \in Level[3] PROVE r3[d] = r4[d]
      OBVIOUS
    <2>1. d \in Diagnostic
      BY DEF Level, Diagnostic
    <2>2. From[d] \cap Diagnostic \subseteq Level[1] \cup Level[2]
      BY <2>1, FromLevels
    <2>3. RootsFrom(r2, d) = RootsFrom(r3, d)
      BY <1>1, <1>2, <2>1, <2>2, RootsOfEquals
    <2> QED BY <1>0, <2>1, <2>3 DEF r1, r2, r3, r4
  <1>4. \A d \in Diagnostic : RootsFrom(r4, d) = RootsFrom(r3, d)
    <2> SUFFICES ASSUME NEW d \in Diagnostic PROVE RootsFrom(r4, d) = RootsFrom(r3, d)
      OBVIOUS
    <2>1. From[d] \cap Diagnostic \subseteq Level[1] \cup Level[2] \cup Level[3]
      BY FromLevels
    <2> QED BY <1>1, <1>2, <1>3, <2>1, RootsOfEquals
  <1>5. r4 = [d \in Diagnostic |-> RootsFrom(r4, d)]
    <2>1. r4 = [d \in Diagnostic |-> RootsFrom(r3, d)]
      BY DEF r4, Step
    <2> QED BY <1>4, <2>1
  <1> DEFINE Eq(v) == v = [d \in Diagnostic |-> UNION {IF f \in Diagnostic THEN v[f] ELSE {f} : f \in From[d]}]
             c == CHOOSE v : Eq(v)
  <1>6. Eq(r4)
    BY <1>5 DEF RootsFrom
  <1>7. Roots = c
    BY DEF Roots
  <1>8. Eq(c)
    BY <1>6
  <1> HIDE DEF c
  <1> QED BY <1>7, <1>8 DEF RootsFrom

LEMMA RootsKept ==
  ASSUME set' = set
  PROVE Roots' = Roots
  <1>1. From' = From
    BY DEF From, Isentropic, IsobaricP, Species, Turbulent
  <1> QED BY <1>1 DEF Roots

(* What the prognostic variables are that a diagnostic one goes back to. *)
LEMMA RootsBound ==
  ASSUME set \in Settings
  PROVE  /\ Roots \in [Diagnostic -> SUBSET Prognostic]
         /\ \A d \in Diagnostic : \A f \in From[d] \cap Diagnostic : Roots[f] \subseteq Roots[d]
         /\ Roots["x"] \subseteq {"q"} /\ Roots["p"] \subseteq {"h"}
         /\ Roots["theta2"] \subseteq {"theta"} /\ Roots["flow"] \subseteq {"uv", "h"}
         /\ Roots["dry"] \subseteq {"h", "q"}
         /\ Roots["pgrad_vars"] \subseteq {"h", "theta", "fpara", "q"}
         /\ ~Species => "q" \notin Roots["pgrad_vars"]
         /\ ~Turbulent => Roots["coef"] = {}
  <1>1. \A d \in Diagnostic : Roots[d] = UNION {IF f \in Diagnostic THEN Roots[f] ELSE {f} : f \in From[d]}
    BY RootsAre DEF RootsFrom
  <1>2. ASSUME NEW d \in Diagnostic, NEW P, \A f \in From[d] \cap Diagnostic : Roots[f] \subseteq P,
               From[d] \ Diagnostic \subseteq P
        PROVE  Roots[d] \subseteq P
    BY <1>1, <1>2
  <1>3. \A d \in Diagnostic : \A f \in From[d] \cap Diagnostic : Roots[f] \subseteq Roots[d]
    BY <1>1
  <1>4. Roots["x"] \subseteq {"q"} /\ Roots["p"] \subseteq {"h"} /\ Roots["theta2"] \subseteq {"theta"}
    <2>1. From["x"] = {"q"} /\ From["p"] \subseteq {"h"} /\ From["theta2"] \subseteq {"theta"}
      BY FromIs
    <2>2. \A d \in {"x", "p", "theta2"} : d \in Diagnostic /\ From[d] \cap Diagnostic = {}
      BY <2>1 DEF Diagnostic
    <2>3. \A d \in {"x", "p", "theta2"} : Roots[d] \subseteq From[d]
      BY <1>2, <2>2
    <2> QED BY <2>1, <2>3
  <1>5. Roots["flow"] \subseteq {"uv", "h"} /\ Roots["coef"] \subseteq {"uv", "nu_turb"}
    <2>1. From["flow"] = {"uv", "h"} /\ From["coef"] \subseteq {"uv", "nu_turb"}
      BY FromIs
    <2>2. \A d \in {"flow", "coef"} : d \in Diagnostic /\ From[d] \cap Diagnostic = {}
      BY <2>1 DEF Diagnostic
    <2>3. \A d \in {"flow", "coef"} : Roots[d] \subseteq From[d]
      BY <1>2, <2>2
    <2> QED BY <2>1, <2>3
  <1>6. ~Turbulent => Roots["coef"] = {}
    BY <1>2, FromIs DEF Diagnostic
  <1>7. Roots["dry"] \subseteq {"h", "q"}
    <2>1. \A f \in From["dry"] \cap Diagnostic : Roots[f] \subseteq {"h", "q"}
      BY <1>4, FromIs DEF Diagnostic
    <2>2. From["dry"] \ Diagnostic \subseteq {"h", "q"}
      BY FromIs DEF Diagnostic
    <2>3. "dry" \in Diagnostic
      BY DEF Diagnostic
    <2> QED BY <1>2, <2>1, <2>2, <2>3
  <1>8. Roots["pgrad_vars"] \subseteq {"h", "theta", "fpara", "q"}
    <2>1. \A f \in From["pgrad_vars"] \cap Diagnostic : Roots[f] \subseteq {"h", "theta", "fpara", "q"}
      BY <1>4, FromIs DEF Diagnostic
    <2>2. From["pgrad_vars"] \ Diagnostic \subseteq {"h", "theta", "fpara", "q"}
      BY FromIs DEF Diagnostic
    <2>3. "pgrad_vars" \in Diagnostic
      BY DEF Diagnostic
    <2> QED BY <1>2, <2>1, <2>2, <2>3
  <1>9. ~Species => "q" \notin Roots["pgrad_vars"]
    <2> SUFFICES ASSUME ~Species PROVE Roots["pgrad_vars"] \subseteq {"h", "theta", "fpara"}
      OBVIOUS
    <2>1. \A f \in From["pgrad_vars"] \cap Diagnostic : Roots[f] \subseteq {"h", "theta", "fpara"}
      BY <1>4, FromIs DEF Diagnostic
    <2>2. From["pgrad_vars"] \ Diagnostic \subseteq {"h", "theta", "fpara"}
      BY FromIs DEF Diagnostic
    <2>3. "pgrad_vars" \in Diagnostic
      BY DEF Diagnostic
    <2> QED BY <1>2, <2>1, <2>2, <2>3
  <1>10. ASSUME NEW d \in Diagnostic PROVE Roots[d] \subseteq Prognostic
    <2>0. \A e \in Diagnostic : From[e] \ Diagnostic \subseteq Prognostic
      BY FromIs DEF Diagnostic, Prognostic
    <2>1. \A e \in Level[1] \cup Level[2] : e \in Diagnostic /\ Roots[e] \subseteq Prognostic
      BY <1>4, <1>5, <1>7, <1>8 DEF Level, Prognostic, Diagnostic
    <2>2. ASSUME NEW e \in Level[3] PROVE e \in Diagnostic /\ Roots[e] \subseteq Prognostic
      <3>1. e \in Diagnostic
        BY DEF Level, Diagnostic
      <3>2. From[e] \cap Diagnostic \subseteq Level[1] \cup Level[2]
        BY <3>1, FromLevels
      <3> QED BY <1>2, <2>0, <2>1, <3>1, <3>2
    <2>3. d \in Level[4] => From[d] \cap Diagnostic \subseteq Level[1] \cup Level[2] \cup Level[3]
      BY FromLevels
    <2>4. d \in Level[4] => Roots[d] \subseteq Prognostic
      BY <1>2, <2>0, <2>1, <2>2, <2>3
    <2> QED BY <2>1, <2>2, <2>4, FromLevels
  <1>11. Roots \in [Diagnostic -> SUBSET Prognostic]
    <2>1. Roots = [d \in Diagnostic |-> RootsFrom(Roots, d)]
      BY RootsAre
    <2>2. \A d \in Diagnostic : RootsFrom(Roots, d) \subseteq Prognostic
      BY <1>10, <2>1
    <2> HIDE DEF Roots
    <2> QED BY <2>1, <2>2
  <1> QED BY <1>3, <1>4, <1>5, <1>6, <1>7, <1>8, <1>9, <1>11

-----------------------------------------------------------------------------
(* What the calls do to the condition of the fields. *)

(* A field is behind only with what it goes back to. *)
Good(s) == s \in Condition /\ \A d \in Diagnostic : s.behind[d] \subseteq Roots[d]

(* But for clouds that condense, r has no seam if s has none. *)
Seamless(s, r) == set.microphysics # "ACTIVE" /\ s.seams = {} => r.seams = {}

(* r has come of s by calls that neither concern Z2 and DZDT2 nor make the *)
(* first seam.                                                             *)
Mild(s, r) ==
  /\ Good(r)
  /\ r.z2_kept = s.z2_kept /\ r.finished = s.finished
  /\ Seamless(s, r)

(* Of the diagnostic variables other than those of D, none is behind with more. *)
NoMore(s, r, D, P) == \A d \in Diagnostic \ D : r.behind[d] \subseteq s.behind[d] \cup P

(* A record with other values of two of its fields. *)
Record(b, m, z, n) == [behind |-> b, seams |-> m, z2_kept |-> z, finished |-> n]

LEMMA RecordWith ==
  ASSUME NEW b, NEW m, NEW z, NEW n, NEW v
  PROVE  /\ [Record(b, m, z, n) EXCEPT !.behind = v] = Record(v, m, z, n)
         /\ [Record(b, m, z, n) EXCEPT !.seams = v] = Record(b, v, z, n)
         /\ [Record(b, m, z, n) EXCEPT !.z2_kept = v] = Record(b, m, v, n)
         /\ [Record(b, m, z, n) EXCEPT !.finished = v] = Record(b, m, z, v)
         /\ Record(b, m, z, n).behind = b /\ Record(b, m, z, n).seams = m
         /\ Record(b, m, z, n).z2_kept = z /\ Record(b, m, z, n).finished = n
  BY DEF Record

LEMMA ConditionIs ==
  ASSUME NEW s
  PROVE  /\ s \in Condition => s = Record(s.behind, s.seams, s.z2_kept, s.finished)
         /\ \A b \in [Diagnostic -> SUBSET Prognostic], m \in SUBSET (Prognostic \cup Diagnostic),
               z \in BOOLEAN, n \in Int : Record(b, m, z, n) \in Condition
  BY DEF Condition, Record

LEMMA ChangeIs ==
  ASSUME NEW s, NEW p \in Prognostic, Good(s)
  PROVE  /\ Mild(s, Change(s, p))
         /\ NoMore(s, Change(s, p), {}, {p})
         /\ \A d \in Diagnostic : p \notin Roots[d] => Change(s, p).behind[d] = s.behind[d]
  <1> DEFINE r == Change(s, p)
  <1>1. s \in Condition /\ \A d \in Diagnostic : s.behind[d] \subseteq Roots[d]
    BY DEF Good
  <1> DEFINE b == [d \in Diagnostic |-> IF p \in Roots[d] THEN s.behind[d] \cup {p} ELSE s.behind[d]]
  <1>3. r = Record(b, s.seams \ {p}, s.z2_kept, s.finished)
    <2> DEFINE m == s.seams \ {p}
               t == [s EXCEPT !.seams = m]
    <2>1. r = [t EXCEPT !.behind = b]
      BY DEF Change
    <2>2. s = Record(s.behind, s.seams, s.z2_kept, s.finished)
      BY <1>1, ConditionIs
    <2> HIDE DEF m
    <2>3. t = Record(s.behind, m, s.z2_kept, s.finished)
      BY <2>2, RecordWith
    <2> HIDE DEF r, b, t
    <2>4. r = Record(b, m, s.z2_kept, s.finished)
      BY <2>1, <2>3, RecordWith
    <2> QED BY <2>4 DEF m
  <1>4. b \in [Diagnostic -> SUBSET Prognostic] /\ s.seams \ {p} \in SUBSET (Prognostic \cup Diagnostic)
        /\ s.z2_kept \in BOOLEAN /\ s.finished \in Int
    BY <1>1 DEF Condition
  <1> HIDE DEF r
  <1>2. /\ r.behind = [d \in Diagnostic |-> IF p \in Roots[d] THEN s.behind[d] \cup {p} ELSE s.behind[d]]
        /\ r.seams = s.seams \ {p} /\ r.z2_kept = s.z2_kept /\ r.finished = s.finished
    BY <1>3, RecordWith
  <1>5. r \in Condition
    BY <1>3, <1>4, ConditionIs
  <1> HIDE DEF b
  <1>6. \A d \in Diagnostic : r.behind[d] \subseteq Roots[d]
    BY <1>1, <1>2
  <1>7. Mild(s, r)
    BY <1>2, <1>5, <1>6 DEF Mild, Seamless, Good
  <1>8. NoMore(s, r, {}, {p})
    BY <1>2 DEF NoMore
  <1>9. \A d \in Diagnostic : p \notin Roots[d] => r.behind[d] = s.behind[d]
    BY <1>2
  <1> QED BY <1>7, <1>8, <1>9 DEF r

LEMMA LagWithin ==
  ASSUME NEW s, NEW d, NEW P, \A f \in From[d] \cap Diagnostic : s.behind[f] \subseteq P
  PROVE  Lag(s, From[d]) \subseteq P
  BY DEF Lag

LEMMA LagIs ==
  ASSUME set \in Settings, NEW s, NEW d \in Diagnostic, Good(s)
  PROVE  /\ Lag(s, From[d]) \subseteq Roots[d] /\ Lag(s, From[d]) \subseteq Prognostic
  <1>1. \A f \in From[d] \cap Diagnostic : s.behind[f] \subseteq Roots[d]
    BY RootsBound DEF Good
  <1>2. Lag(s, From[d]) \subseteq Roots[d]
    BY <1>1, LagWithin
  <1>3. Roots[d] \subseteq Prognostic
    BY RootsBound
  <1> QED BY <1>1, <1>2, <1>3

LEMMA OverPadsIs ==
  ASSUME set \in Settings, NEW s, NEW d \in Diagnostic, Good(s)
  PROVE  /\ Mild(s, OverPads(s, d))
         /\ OverPads(s, d).behind[d] = Lag(s, From[d])
         /\ \A e \in Diagnostic \ {d} : OverPads(s, d).behind[e] = s.behind[e]
  <1> DEFINE r == OverPads(s, d)
             lag == Lag(s, From[d])
  <1>1. s \in Condition /\ \A e \in Diagnostic : s.behind[e] \subseteq Roots[e]
    BY DEF Good
  <1>2. lag \subseteq Roots[d] /\ lag \subseteq Prognostic
    BY LagIs
  <1> DEFINE b == [s.behind EXCEPT ![d] = lag]
             m == IF From[d] \cap s.seams = {} THEN s.seams \ {d} ELSE s.seams \cup {d}
  <1>3. r = Record(b, m, s.z2_kept, s.finished)
    <2>1. s = Record(s.behind, s.seams, s.z2_kept, s.finished)
      BY <1>1, ConditionIs
    <2>2. Calculated(s, d) = [s EXCEPT !.behind = b]
      BY DEF Calculated
    <2>3. Calculated(s, d) = Record(b, s.seams, s.z2_kept, s.finished)
      BY <2>1, <2>2, RecordWith
    <2>4. Calculated(s, d).seams = s.seams
      BY <2>3, RecordWith
    <2>5. r = [Calculated(s, d) EXCEPT !.seams = m]
      BY <2>4 DEF OverPads
    <2> HIDE DEF r, m, b
    <2> QED BY <2>3, <2>5, RecordWith
  <1> HIDE DEF r, lag
  <1>4. b[d] = lag /\ \A e \in Diagnostic \ {d} : b[e] = s.behind[e]
    BY <1>1 DEF Condition
  <1>5. b \in [Diagnostic -> SUBSET Prognostic]
    BY <1>1, <1>2 DEF Condition
  <1>6. m \subseteq Prognostic \cup Diagnostic
    BY <1>1 DEF Condition
  <1>7. s.z2_kept \in BOOLEAN /\ s.finished \in Int
    BY <1>1 DEF Condition
  <1>11. s.seams = {} => m = {}
    OBVIOUS
  <1> HIDE DEF b, m
  <1>12. r.behind = b /\ r.seams = m /\ r.z2_kept = s.z2_kept /\ r.finished = s.finished
    BY <1>3, RecordWith
  <1>8. r \in Condition
    BY <1>3, <1>5, <1>6, <1>7, ConditionIs
  <1>9. \A e \in Diagnostic : r.behind[e] \subseteq Roots[e]
    BY <1>1, <1>2, <1>4, <1>12
  <1> QED BY <1>4, <1>8, <1>9, <1>11, <1>12 DEF Mild, Seamless, Good, r, lag

LEMMA ExchangedIs ==
  ASSUME set \in Settings, NEW s, NEW d \in Diagnostic, Good(s)
  PROVE  /\ Mild(s, Exchanged(s, d))
         /\ Exchanged(s, d).behind[d] = Lag(s, From[d])
         /\ \A e \in Diagnostic \ {d} : Exchanged(s, d).behind[e] = s.behind[e]
  <1> DEFINE r == Exchanged(s, d)
             lag == Lag(s, From[d])
  <1>1. s \in Condition /\ \A e \in Diagnostic : s.behind[e] \subseteq Roots[e]
    BY DEF Good
  <1>2. lag \subseteq Roots[d] /\ lag \subseteq Prognostic
    BY LagIs
  <1> DEFINE b == [s.behind EXCEPT ![d] = lag]
             m == s.seams \ {d}
  <1>3. r = Record(b, m, s.z2_kept, s.finished)
    <2>1. s = Record(s.behind, s.seams, s.z2_kept, s.finished)
      BY <1>1, ConditionIs
    <2>2. Calculated(s, d) = [s EXCEPT !.behind = b]
      BY DEF Calculated
    <2>3. Calculated(s, d) = Record(b, s.seams, s.z2_kept, s.finished)
      BY <2>1, <2>2, RecordWith
    <2>4. Calculated(s, d).seams = s.seams
      BY <2>3, RecordWith
    <2>5. r = [Calculated(s, d) EXCEPT !.seams = m]
      BY <2>4 DEF Exchanged
    <2> HIDE DEF r, m, b
    <2> QED BY <2>3, <2>5, RecordWith
  <1> HIDE DEF r, lag
  <1>4. b[d] = lag /\ \A e \in Diagnostic \ {d} : b[e] = s.behind[e]
    BY <1>1 DEF Condition
  <1>5. b \in [Diagnostic -> SUBSET Prognostic]
    BY <1>1, <1>2 DEF Condition
  <1>6. m \subseteq Prognostic \cup Diagnostic
    BY <1>1 DEF Condition
  <1>7. s.z2_kept \in BOOLEAN /\ s.finished \in Int
    BY <1>1 DEF Condition
  <1>11. s.seams = {} => m = {}
    OBVIOUS
  <1> HIDE DEF b, m
  <1>12. r.behind = b /\ r.seams = m /\ r.z2_kept = s.z2_kept /\ r.finished = s.finished
    BY <1>3, RecordWith
  <1>8. r \in Condition
    BY <1>3, <1>5, <1>6, <1>7, ConditionIs
  <1>9. \A e \in Diagnostic : r.behind[e] \subseteq Roots[e]
    BY <1>1, <1>2, <1>4, <1>12
  <1> QED BY <1>4, <1>8, <1>9, <1>11, <1>12 DEF Mild, Seamless, Good, r, lag

LEMMA MildMild ==
  ASSUME NEW s, NEW r, NEW t, Mild(s, r), Mild(r, t)
  PROVE  Mild(s, t)
  BY DEF Mild, Seamless

LEMMA MildSame == ASSUME NEW s, Good(s) PROVE Mild(s, s)
  BY DEF Mild, Seamless

(* The fields of D are behind with no more than P. *)
Bounded(s, D, P) == \A d \in D : s.behind[d] \subseteq P

(* The fields of D stay within P, if they are not behind with p for the change *)
(* of it, or may be.                                                           *)
LEMMA ChangeIfIs ==
  ASSUME NEW s, NEW p \in Prognostic, NEW condition \in BOOLEAN, Good(s)
  PROVE  /\ Mild(s, ChangeIf(condition, s, p))
         /\ \A D, P : /\ D \subseteq Diagnostic /\ Bounded(s, D, P)
                      /\ p \in P \/ \A d \in D : p \notin Roots[d]
                      => Bounded(ChangeIf(condition, s, p), D, P)
  <1>1. CASE condition
    <2>1. ChangeIf(condition, s, p) = Change(s, p)
      BY <1>1 DEF ChangeIf
    <2>2. Mild(s, Change(s, p))
      BY ChangeIs
    <2>3. ASSUME NEW D, NEW P, D \subseteq Diagnostic, Bounded(s, D, P),
                 p \in P \/ \A d \in D : p \notin Roots[d]
          PROVE  Bounded(Change(s, p), D, P)
      <3>1. \A d \in D : /\ Change(s, p).behind[d] \subseteq s.behind[d] \cup {p}
                         /\ p \notin Roots[d] => Change(s, p).behind[d] = s.behind[d]
        BY <2>3, ChangeIs DEF NoMore
      <3> QED BY <2>3, <3>1 DEF Bounded
    <2> QED BY <2>1, <2>2, <2>3
  <1>2. CASE ~condition
    BY <1>2, MildSame DEF ChangeIf
  <1> QED BY <1>1, <1>2

(* A field calculated from fields of D stays within P. *)
LEMMA OverPadsBounded ==
  ASSUME set \in Settings, NEW s, NEW d \in Diagnostic, Good(s), NEW D, NEW P,
         Bounded(s, D, P), From[d] \cap Diagnostic \subseteq D
  PROVE  D \subseteq Diagnostic => Bounded(OverPads(s, d), D \cup {d}, P)
  BY LagWithin, OverPadsIs DEF Bounded

(* X is calculated from Q alone. *)
LEMMA SyncXToQIs ==
  ASSUME set \in Settings, NEW s, Good(s)
  PROVE  /\ Mild(s, SyncXToQ(s))
         /\ \A D, P : D \subseteq Diagnostic /\ Bounded(s, D, P) => Bounded(SyncXToQ(s), D, P)
  <1>1. CASE Species
    <2>0. "x" \in Diagnostic /\ From["x"] \cap Diagnostic = {}
      BY FromIs DEF Diagnostic
    <2>1. SyncXToQ(s) = OverPads(s, "x")
      BY <1>1 DEF SyncXToQ
    <2>2. Mild(s, OverPads(s, "x"))
      BY <2>0, OverPadsIs
    <2>3. OverPads(s, "x").behind["x"] = {}
      BY <2>0, OverPadsIs DEF Lag
    <2>4. \A e \in Diagnostic \ {"x"} : OverPads(s, "x").behind[e] = s.behind[e]
      BY <2>0, OverPadsIs
    <2> QED BY <2>1, <2>2, <2>3, <2>4 DEF Bounded
  <1>2. CASE ~Species
    BY <1>2, MildSame DEF SyncXToQ
  <1> QED BY <1>1, <1>2

(* After set_p2_etc() the pressures are up to date. *)
LEMMA SetP2EtcIs ==
  ASSUME set \in Settings, NEW s, NEW b \in BOOLEAN, Good(s)
  PROVE  /\ Mild(s, SetP2Etc(s, b))
         /\ SetP2Etc(s, b).behind["p"] = {}
         /\ SetP2Etc(s, b).behind["dry"] \subseteq {"q"}
         /\ b => SetP2Etc(s, b).behind["theta2"] = {}
  <1> DEFINE restored  == ChangeIf(HRaised, s, "h")
             p         == OverPads(restored, "p")
             pressures == OverPads(p, "dry")
             theta     == OverPads(pressures, "theta2")
  <1>0. "p" \in Diagnostic /\ "dry" \in Diagnostic /\ "theta2" \in Diagnostic /\ "x" \in Diagnostic
        /\ "h" \in Prognostic
    BY DEF Diagnostic, Prognostic
  <1>1. SetP2Etc(s, b) = IF b THEN theta ELSE pressures
    BY DEF SetP2Etc
  <1> HIDE DEF restored, p, pressures, theta
  <1>2. Mild(s, restored) /\ Good(restored)
    BY <1>0, ChangeIfIs DEF restored, Mild, HRaised, IsobaricP
  <1>3. From["p"] \cap Diagnostic = {} /\ From["theta2"] \cap Diagnostic = {}
        /\ From["dry"] \cap Diagnostic \subseteq {"p", "x"}
    BY FromIs DEF Diagnostic
  <1>4. Mild(restored, p) /\ Good(p) /\ p.behind["p"] = {}
    BY <1>0, <1>2, <1>3, OverPadsIs DEF p, Mild, Lag
  <1>5. Mild(p, pressures) /\ Good(pressures) /\ pressures.behind["dry"] = Lag(p, From["dry"])
        /\ pressures.behind["p"] = {}
    BY <1>0, <1>4, OverPadsIs DEF pressures, Mild
  <1>6. pressures.behind["dry"] \subseteq {"q"}
    <2>1. p.behind["x"] \subseteq {"q"}
      BY <1>0, <1>4, RootsBound DEF Good
    <2>2. \A f \in From["dry"] \cap Diagnostic : p.behind[f] \subseteq {"q"}
      BY <1>3, <1>4, <2>1
    <2>3. Lag(p, From["dry"]) \subseteq {"q"}
      BY <2>2, LagWithin
    <2> QED BY <1>5, <2>3
  <1>7. Mild(pressures, theta) /\ theta.behind["theta2"] = {}
        /\ theta.behind["p"] = {} /\ theta.behind["dry"] \subseteq {"q"}
    BY <1>0, <1>3, <1>5, <1>6, OverPadsIs DEF theta, Mild, Lag
  <1>8. Mild(s, pressures)
    BY <1>2, <1>4, <1>5, MildMild
  <1>9. Mild(s, theta)
    BY <1>7, <1>8, MildMild
  <1> QED BY <1>1, <1>5, <1>6, <1>7, <1>8, <1>9

LEMMA StorePgradVarsIs ==
  ASSUME set \in Settings, NEW s, NEW stepping \in BOOLEAN, Good(s)
  PROVE  LET r == StorePgradVars(s, stepping)
         IN  /\ Good(r) /\ Seamless(s, r)
             /\ r.z2_kept = stepping
             /\ r.finished = IF stepping THEN 0 ELSE s.finished
             /\ r.behind["pgrad_vars"] = Lag(s, From["pgrad_vars"])
             /\ \A e \in Diagnostic \ {"pgrad_vars"} : r.behind[e] = s.behind[e]
  <1> DEFINE t == OverPads(s, "pgrad_vars")
             n == IF stepping THEN 0 ELSE t.finished
             u == [t EXCEPT !.z2_kept = stepping]
             r == [u EXCEPT !.finished = n]
  <1>0. "pgrad_vars" \in Diagnostic
    BY DEF Diagnostic
  <1>1. Mild(s, t) /\ Good(t) /\ t.behind["pgrad_vars"] = Lag(s, From["pgrad_vars"])
        /\ \A e \in Diagnostic \ {"pgrad_vars"} : t.behind[e] = s.behind[e]
    BY <1>0, OverPadsIs DEF Mild
  <1>2. StorePgradVars(s, stepping) = r
    BY DEF StorePgradVars
  <1> HIDE DEF t
  <1>3. t \in Condition /\ t = Record(t.behind, t.seams, t.z2_kept, t.finished)
    BY <1>1, ConditionIs DEF Good
  <1> HIDE DEF n
  <1>4. u = Record(t.behind, t.seams, stepping, t.finished)
    BY <1>3, RecordWith
  <1> HIDE DEF u
  <1>5. r = Record(t.behind, t.seams, stepping, n)
    BY <1>4, RecordWith
  <1> HIDE DEF r
  <1>6. r.behind = t.behind /\ r.seams = t.seams /\ r.z2_kept = stepping /\ r.finished = n
    BY <1>5, RecordWith
  <1>7. n \in Int /\ n = IF stepping THEN 0 ELSE s.finished
    BY <1>1, <1>3 DEF n, Condition, Mild
  <1>8. t.behind \in [Diagnostic -> SUBSET Prognostic] /\ t.seams \in SUBSET (Prognostic \cup Diagnostic)
    BY <1>3 DEF Condition
  <1>9. r \in Condition
    BY <1>5, <1>7, <1>8, ConditionIs
  <1>10. Good(r) /\ Seamless(s, r)
    BY <1>1, <1>6, <1>9 DEF Good, Mild, Seamless
  <1> QED BY <1>1, <1>2, <1>6, <1>7, <1>10

-----------------------------------------------------------------------------
(***************************************************************************)
(* The invariant.  What store_pgrad_vars() and what it depends on has      *)
(* renewed stays so until the next timestep begins, but for the species;   *)
(* with the rest of the diagnostic variables renewed as well, a timestep   *)
(* begins; what it then changes, before the winds are marched, is scalars. *)
(***************************************************************************)
Renewed == {"x", "p", "dry", "theta2", "pgrad_vars"}

BehindAt(c, s) ==
  /\ c = "top" => Bounded(s, Diagnostic \ {"w3"}, {"q"})
  /\ c = "calc_w" => Bounded(s, Diagnostic \ {"w3"}, {"fpara", "q", "theta"})
  /\ c \in {"source_sink_turb", "extract", "uv_core"} =>
       Bounded(s, Diagnostic, {"fpara", "q", "theta", "nu_turb"})
  /\ c = "advection" => s.behind["p"] = {}
  /\ c \in {"uv_pgrad", "uv_vertical_subgrid", "model_time", "store_diag"} => Bounded(s, Renewed, {"q"})

(* Between calc_w() and store_pgrad_vars() DZDT2 has its second part. *)
WithSecondPart ==
  {"source_sink_turb", "extract", "uv_core", "scalar_vertical_subgrid",
   "scalar_horizontal_subgrid", "advection", "filter", "pgrad_vars"}

FieldsAt(c, s) ==
  /\ Good(s)
  /\ s.finished = IF c \in WithSecondPart THEN 1 ELSE 0
  /\ BehindAt(c, s)
  /\ (Turbulent \/ Isentropic) /\ ~Species /\ ~HRaised => s.z2_kept
  /\ set.microphysics # "ACTIVE" => s.seams = {}

(* Of the newest file: Z2 goes with what its DZDT2 was started with. *)
FileIs(f) ==
  /\ Good(f) /\ f.finished = 0
  /\ ~Species => f.behind["pgrad_vars"] = {}

StepInv == call \in StepCalls /\ set \in Settings /\ FieldsAt(call, data) /\ FileIs(written)

(* HEAT3 and what store_diag() calculates, from what is renewed. *)
LEMMA DiagsRenewed ==
  ASSUME set \in Settings, NEW s, Good(s), Bounded(s, Renewed, {"q"})
  PROVE  /\ Mild(s, CalcHeating(StoreDiag(s)))
         /\ Bounded(CalcHeating(StoreDiag(s)), Diagnostic \ {"w3"}, {"q"})
  <1> DEFINE flow == Exchanged(s, "flow")
             ri2  == Exchanged(flow, "ri2")
             coef == Exchanged(ri2, "coef")
             diag == StoreDiag(s)
             heat == CalcHeating(diag)
  <1>0. /\ {"flow", "ri2", "coef", "heat3"} \subseteq Diagnostic /\ Renewed \subseteq Diagnostic
        /\ Diagnostic \ {"w3"} = Renewed \cup {"flow", "ri2", "coef", "heat3"}
        /\ Renewed \cap {"flow", "ri2", "coef", "heat3"} = {}
        /\ "p" \in Renewed /\ "pgrad_vars" \in Renewed
    BY DEF Diagnostic, Renewed
  <1>1. /\ From["flow"] \cap Diagnostic = {} /\ From["coef"] \cap Diagnostic = {}
        /\ From["ri2"] \cap Diagnostic \subseteq Renewed /\ From["heat3"] \cap Diagnostic \subseteq Renewed
    BY FromIs DEF Diagnostic, Renewed
  <1>2. Mild(s, flow) /\ Good(flow) /\ flow.behind["flow"] = {} /\ Bounded(flow, Renewed, {"q"})
    <2>1. Mild(s, flow) /\ flow.behind["flow"] = Lag(s, From["flow"])
          /\ \A e \in Diagnostic \ {"flow"} : flow.behind[e] = s.behind[e]
      BY <1>0, ExchangedIs
    <2>2. Lag(s, From["flow"]) \subseteq {}
      BY <1>1, LagWithin
    <2> QED BY <1>0, <2>1, <2>2 DEF Bounded, Mild
  <1> HIDE DEF flow
  <1>3. /\ Mild(flow, ri2) /\ Good(ri2) /\ ri2.behind["flow"] = {}
        /\ ri2.behind["ri2"] \subseteq {"q"} /\ Bounded(ri2, Renewed, {"q"})
    <2>1. Mild(flow, ri2) /\ ri2.behind["ri2"] = Lag(flow, From["ri2"])
          /\ \A e \in Diagnostic \ {"ri2"} : ri2.behind[e] = flow.behind[e]
      BY <1>0, <1>2, ExchangedIs
    <2>2. \A f \in From["ri2"] \cap Diagnostic : flow.behind[f] \subseteq {"q"}
      BY <1>1, <1>2 DEF Bounded
    <2>3. Lag(flow, From["ri2"]) \subseteq {"q"}
      BY <2>2, LagWithin
    <2>4. ri2.behind["flow"] = flow.behind["flow"]
      BY <1>0, <2>1
    <2> QED BY <1>0, <1>2, <2>1, <2>3, <2>4 DEF Bounded, Mild
  <1> HIDE DEF ri2
  <1>4. /\ Mild(ri2, diag) /\ Good(diag) /\ diag.behind["flow"] = {} /\ diag.behind["coef"] = {}
        /\ diag.behind["ri2"] \subseteq {"q"} /\ Bounded(diag, Renewed, {"q"})
    <2>1. CASE Turbulent
      <3>1. diag = coef
        BY <2>1 DEF StoreDiag, flow, ri2
      <3>2. Mild(ri2, coef) /\ coef.behind["coef"] = Lag(ri2, From["coef"])
            /\ \A e \in Diagnostic \ {"coef"} : coef.behind[e] = ri2.behind[e]
        BY <1>0, <1>3, ExchangedIs
      <3>3. Lag(ri2, From["coef"]) \subseteq {}
        BY <1>1, LagWithin
      <3>4. coef.behind["flow"] = ri2.behind["flow"] /\ coef.behind["ri2"] = ri2.behind["ri2"]
        BY <1>0, <3>2
      <3> HIDE DEF coef, diag
      <3> QED BY <1>0, <1>3, <3>1, <3>2, <3>3, <3>4 DEF Bounded, Mild
    <2>2. CASE ~Turbulent
      <3>1. diag = ri2
        BY <2>2 DEF StoreDiag, flow, ri2
      <3>2. ri2.behind["coef"] \subseteq {}
        BY <1>0, <1>3, <2>2, RootsBound DEF Good
      <3> HIDE DEF diag
      <3> QED BY <1>3, <3>1, <3>2, MildSame
    <2> QED BY <2>1, <2>2
  <1> HIDE DEF diag
  <1>5. /\ Mild(diag, heat) /\ heat.behind["heat3"] \subseteq {"q"}
        /\ \A e \in Diagnostic \ {"heat3"} : heat.behind[e] = diag.behind[e]
    <2>1. Mild(diag, heat) /\ heat.behind["heat3"] = Lag(diag, From["heat3"])
          /\ \A e \in Diagnostic \ {"heat3"} : heat.behind[e] = diag.behind[e]
      BY <1>0, <1>4, ExchangedIs DEF CalcHeating
    <2>2. \A f \in From["heat3"] \cap Diagnostic : diag.behind[f] \subseteq {"q"}
      BY <1>1, <1>4 DEF Bounded
    <2>3. Lag(diag, From["heat3"]) \subseteq {"q"}
      BY <2>2, LagWithin
    <2> HIDE DEF heat
    <2> QED BY <2>1, <2>3
  <1> HIDE DEF heat
  <1>6. Bounded(heat, Diagnostic \ {"w3"}, {"q"})
    <2>1. \A e \in Renewed : heat.behind[e] \subseteq {"q"}
      BY <1>0, <1>4, <1>5 DEF Bounded
    <2>2. \A e \in {"flow", "ri2", "coef"} : heat.behind[e] \subseteq {"q"}
      BY <1>0, <1>4, <1>5
    <2> QED BY <1>0, <1>5, <2>1, <2>2 DEF Bounded
  <1>7. Mild(s, ri2)
    BY <1>2, <1>3, MildMild
  <1>8. Mild(s, diag)
    BY <1>4, <1>7, MildMild
  <1>9. Mild(s, heat)
    BY <1>5, <1>8, MildMild
  <1> QED BY <1>6, <1>9 DEF heat, diag

(* What store_pgrad_vars() calculates, and what it does that from. *)
LEMMA PgradRenewed ==
  ASSUME set \in Settings, NEW s, NEW stepping \in BOOLEAN, Good(s)
  PROVE  LET r == StorePgradVars(SetP2Etc(s, TRUE), stepping)
         IN  /\ Good(r) /\ Seamless(s, r)
             /\ r.z2_kept = stepping
             /\ r.finished = IF stepping THEN 0 ELSE s.finished
             /\ Bounded(r, Renewed, {"q"})
  <1> DEFINE t == SetP2Etc(s, TRUE)
             r == StorePgradVars(t, stepping)
  <1>0. Renewed \subseteq Diagnostic /\ "pgrad_vars" \in Diagnostic /\ "x" \in Diagnostic
    BY DEF Renewed, Diagnostic
  <1>1. Mild(s, t) /\ Good(t) /\ t.behind["p"] = {} /\ t.behind["dry"] \subseteq {"q"}
        /\ t.behind["theta2"] = {}
    BY SetP2EtcIs DEF Mild
  <1>2. t.behind["x"] \subseteq {"q"}
    BY <1>0, <1>1, RootsBound DEF Good
  <1> HIDE DEF t
  <1>3. \A f \in From["pgrad_vars"] \cap Diagnostic : t.behind[f] \subseteq {"q"}
    <2>1. From["pgrad_vars"] \cap Diagnostic \subseteq {"p", "theta2", "x"}
      BY FromIs DEF Diagnostic
    <2> QED BY <1>1, <1>2, <2>1
  <1>4. Lag(t, From["pgrad_vars"]) \subseteq {"q"}
    BY <1>3, LagWithin
  <1>5. /\ Good(r) /\ Seamless(t, r)
        /\ r.z2_kept = stepping
        /\ r.finished = IF stepping THEN 0 ELSE t.finished
        /\ r.behind["pgrad_vars"] = Lag(t, From["pgrad_vars"])
        /\ \A e \in Diagnostic \ {"pgrad_vars"} : r.behind[e] = t.behind[e]
    BY <1>1, StorePgradVarsIs
  <1> HIDE DEF r
  <1>6. Bounded(r, Renewed, {"q"})
    <2>1. \A e \in {"x", "p", "dry", "theta2"} : e \in Diagnostic \ {"pgrad_vars"} /\ t.behind[e] \subseteq {"q"}
      BY <1>1, <1>2 DEF Diagnostic
    <2> QED BY <1>4, <1>5, <2>1 DEF Bounded, Renewed
  <1>7. Seamless(s, r)
    BY <1>1, <1>5 DEF Mild, Seamless
  <1>8. r.finished = IF stepping THEN 0 ELSE s.finished
    BY <1>1, <1>5 DEF Mild
  <1> QED BY <1>5, <1>6, <1>7, <1>8 DEF r, t

(* W3 is calculated, and a timestep counts the second part of DZDT2. *)
LEMMA CalcWIs ==
  ASSUME set \in Settings, NEW s, NEW stepping \in BOOLEAN, Good(s)
  PROVE  LET r == CalcW(s, stepping)
         IN  /\ Good(r) /\ Seamless(s, r)
             /\ r.z2_kept = s.z2_kept
             /\ r.finished = IF stepping THEN s.finished + 1 ELSE s.finished
             /\ r.behind["w3"] = Lag(s, From["w3"])
             /\ \A e \in Diagnostic \ {"w3"} : r.behind[e] = s.behind[e]
  <1> DEFINE w == OverPads(s, "w3")
             n == w.finished + 1
             r == [w EXCEPT !.finished = n]
  <1>1. Mild(s, w) /\ Good(w) /\ w.behind["w3"] = Lag(s, From["w3"])
        /\ \A e \in Diagnostic \ {"w3"} : w.behind[e] = s.behind[e]
    BY OverPadsIs DEF Mild, Diagnostic
  <1>2. CalcW(s, stepping) = IF stepping THEN r ELSE w
    BY DEF CalcW
  <1> HIDE DEF w
  <1>3. w \in Condition /\ w = Record(w.behind, w.seams, w.z2_kept, w.finished)
    BY <1>1, ConditionIs DEF Good
  <1>4. n \in Int /\ n = s.finished + 1
    BY <1>1, <1>3 DEF Condition, Mild
  <1> HIDE DEF n
  <1>5. r = Record(w.behind, w.seams, w.z2_kept, n)
    BY <1>3, RecordWith
  <1> HIDE DEF r
  <1>6. r.behind = w.behind /\ r.seams = w.seams /\ r.z2_kept = w.z2_kept /\ r.finished = n
    BY <1>5, RecordWith
  <1>7. /\ w.behind \in [Diagnostic -> SUBSET Prognostic] /\ w.seams \in SUBSET (Prognostic \cup Diagnostic)
        /\ w.z2_kept \in BOOLEAN
    BY <1>3 DEF Condition
  <1>8. r \in Condition
    BY <1>4, <1>5, <1>7, ConditionIs
  <1>9. Good(r)
    BY <1>1, <1>6, <1>8 DEF Good
  <1>10. CASE stepping
    BY <1>1, <1>2, <1>4, <1>6, <1>9, <1>10 DEF Mild, Seamless
  <1>11. CASE ~stepping
    BY <1>1, <1>2, <1>11 DEF Mild
  <1> QED BY <1>10, <1>11

(* A run that begins with a file has everything calculated from what is in it. *)
LEMMA SyncDiagsOnlyIs ==
  ASSUME set \in Settings, NEW f, f.finished \in Int
  PROVE  LET r == SyncDiagsOnly(f)
         IN  /\ Good(r) /\ r.finished = f.finished
             /\ set.microphysics # "ACTIVE" => r.seams = {}
             /\ r.z2_kept = (f.behind["pgrad_vars"] = {} /\ ~HRaised)
             /\ Bounded(r, Diagnostic \ {"w3"}, {"q"})
  <1> DEFINE b    == [d \in Diagnostic |-> Roots[d]]
             read == Record(b, {}, FALSE, f.finished)
             sync == SyncXToQ(read)
             z2   == StorePgradVars(SetP2Etc(sync, TRUE), FALSE)
             heat == CalcHeating(StoreDiag(z2))
             w    == CalcW(heat, FALSE)
             kept == f.behind["pgrad_vars"] = {} /\ ~HRaised
             r    == [w EXCEPT !.z2_kept = kept]
  <1>1. SyncDiagsOnly(f) = r
    BY DEF SyncDiagsOnly, Record
  <1>2. Good(read) /\ read.seams = {} /\ read.finished = f.finished
    <2>1. b \in [Diagnostic -> SUBSET Prognostic] /\ \A d \in Diagnostic : b[d] = Roots[d]
      BY RootsBound
    <2> HIDE DEF b
    <2>2. read \in Condition
      BY <2>1, ConditionIs
    <2>3. read.behind = b /\ read.seams = {} /\ read.finished = f.finished
      BY DEF Record
    <2> HIDE DEF read
    <2> QED BY <2>1, <2>2, <2>3 DEF Good
  <1> HIDE DEF read, b
  <1>3. Good(sync) /\ Seamless(read, sync) /\ sync.finished = f.finished
    BY <1>2, SyncXToQIs DEF Mild
  <1> HIDE DEF sync
  <1>4. Good(z2) /\ Seamless(read, z2) /\ z2.finished = f.finished /\ Bounded(z2, Renewed, {"q"})
    BY <1>3, PgradRenewed DEF Seamless
  <1> HIDE DEF z2
  <1>5. Good(heat) /\ Seamless(read, heat) /\ heat.finished = f.finished
        /\ Bounded(heat, Diagnostic \ {"w3"}, {"q"})
    BY <1>4, DiagsRenewed DEF Mild, Seamless
  <1> HIDE DEF heat
  <1>6. Good(w) /\ Seamless(read, w) /\ w.finished = f.finished
        /\ Bounded(w, Diagnostic \ {"w3"}, {"q"})
    BY <1>5, CalcWIs DEF Bounded, Seamless
  <1> HIDE DEF w
  <1>7. w \in Condition /\ w = Record(w.behind, w.seams, w.z2_kept, w.finished) /\ kept \in BOOLEAN
    BY <1>6, ConditionIs DEF Good
  <1> HIDE DEF kept
  <1>8. r = Record(w.behind, w.seams, kept, w.finished)
    BY <1>7, RecordWith
  <1> HIDE DEF r
  <1>9. r.behind = w.behind /\ r.seams = w.seams /\ r.z2_kept = kept /\ r.finished = w.finished
    BY <1>8, RecordWith
  <1>10. /\ w.behind \in [Diagnostic -> SUBSET Prognostic] /\ w.seams \in SUBSET (Prognostic \cup Diagnostic)
         /\ w.finished \in Int
    BY <1>7 DEF Condition
  <1>11. r \in Condition
    BY <1>7, <1>8, <1>10, ConditionIs
  <1> QED BY <1>1, <1>2, <1>6, <1>9, <1>11 DEF Good, Bounded, Seamless, kept

LEMMA SettingsAre ==
  ASSUME set \in Settings
  PROVE  /\ set.fpara \in BOOLEAN /\ set.hyper \in BOOLEAN /\ set.filter \in BOOLEAN
         /\ Species \in BOOLEAN /\ Transported \in BOOLEAN /\ Turbulent \in BOOLEAN
         /\ IsobaricP \in BOOLEAN /\ Isentropic \in BOOLEAN
         /\ HRaised \in BOOLEAN /\ Touched \in BOOLEAN
  BY SettingsAssumption DEF Settings, Species, Transported, Turbulent, IsobaricP, Isentropic, HRaised, Touched

(* A call after others. *)
LEMMA MildThen ==
  ASSUME set \in Settings, NEW s, NEW r, Mild(s, r)
  PROVE  /\ \A p \in Prognostic : Mild(s, Change(r, p))
         /\ \A p \in Prognostic, c \in BOOLEAN : Mild(s, ChangeIf(c, r, p))
         /\ Mild(s, SyncXToQ(r))
         /\ \A b \in BOOLEAN : Mild(s, SetP2Etc(r, b))
  <1>1. Good(r)
    BY DEF Mild
  <1>2. ASSUME NEW p \in Prognostic PROVE Mild(s, Change(r, p))
    <2>1. Mild(r, Change(r, p))
      BY <1>1, ChangeIs
    <2> QED BY <2>1, MildMild
  <1>3. ASSUME NEW p \in Prognostic, NEW c \in BOOLEAN PROVE Mild(s, ChangeIf(c, r, p))
    <2>1. Mild(r, ChangeIf(c, r, p))
      BY <1>1, ChangeIfIs
    <2> QED BY <2>1, MildMild
  <1>4. Mild(s, SyncXToQ(r))
    <2>1. Mild(r, SyncXToQ(r))
      BY <1>1, SyncXToQIs
    <2> QED BY <2>1, MildMild
  <1>5. ASSUME NEW b \in BOOLEAN PROVE Mild(s, SetP2Etc(r, b))
    <2>1. Mild(r, SetP2Etc(r, b))
      BY <1>1, SetP2EtcIs
    <2> QED BY <2>1, MildMild
  <1> QED BY <1>2, <1>3, <1>4, <1>5

(* The same, with the fields of D behind with no more than P. *)
Inside(s, r, D, P) == Mild(s, r) /\ Bounded(r, D, P)

LEMMA InsideThen ==
  ASSUME set \in Settings, NEW s, NEW r, NEW D, NEW P, D \subseteq Diagnostic, Inside(s, r, D, P)
  PROVE  /\ \A p \in Prognostic, c \in BOOLEAN :
              p \in P \/ (\A d \in D : p \notin Roots[d]) => Inside(s, ChangeIf(c, r, p), D, P)
         /\ Inside(s, SyncXToQ(r), D, P)
  <1>1. Good(r) /\ Mild(s, r) /\ Bounded(r, D, P)
    BY DEF Inside, Mild
  <1>2. ASSUME NEW p \in Prognostic, NEW c \in BOOLEAN, p \in P \/ \A d \in D : p \notin Roots[d]
        PROVE  Inside(s, ChangeIf(c, r, p), D, P)
    <2>1. Bounded(ChangeIf(c, r, p), D, P)
      BY <1>1, <1>2, ChangeIfIs
    <2>2. Mild(s, ChangeIf(c, r, p))
      BY <1>1, MildThen
    <2> QED BY <2>1, <2>2 DEF Inside
  <1>3. Inside(s, SyncXToQ(r), D, P)
    <2>1. Bounded(SyncXToQ(r), D, P)
      BY <1>1, SyncXToQIs
    <2>2. Mild(s, SyncXToQ(r))
      BY <1>1, MildThen
    <2> QED BY <2>1, <2>2 DEF Inside
  <1> QED BY <1>2, <1>3

LEMMA Names ==
  /\ {"uv", "h", "theta", "fpara", "q", "nu_turb", "model_time"} = Prognostic
  /\ TRUE \in BOOLEAN /\ FALSE \in BOOLEAN
  BY DEF Prognostic

(* The species are changed, and X after them. *)
LEMMA MixedIs ==
  ASSUME set \in Settings, NEW s, NEW r, Mild(s, r)
  PROVE  /\ Mild(s, IF Transported THEN SyncXToQ(Change(r, "q")) ELSE r)
         /\ Mild(s, IF Transported THEN SyncXToQ(ChangeIf(set.hyper, r, "q")) ELSE r)
  <1>1. Mild(s, Change(r, "q")) /\ Mild(s, ChangeIf(set.hyper, r, "q"))
    BY MildThen, SettingsAre, Names
  <1>2. Mild(s, SyncXToQ(Change(r, "q"))) /\ Mild(s, SyncXToQ(ChangeIf(set.hyper, r, "q")))
    BY <1>1, MildThen
  <1> QED BY <1>2

(* A turbulence scheme, explicit diffusion, hyperviscosity. *)
LEMMA VerticalDiffusionIs ==
  ASSUME set \in Settings, NEW s, Good(s)
  PROVE  Mild(s, VerticalDiffusion(s))
  <1> DEFINE theta  == ChangeIf(IsobaricP, s, "theta")
             mixed  == IF Transported THEN SyncXToQ(Change(theta, "q")) ELSE theta
             para   == ChangeIf(set.fpara, mixed, "fpara")
             scalar == SetP2Etc(para, TRUE)
  <1>1. Mild(s, theta)
    BY MildSame, MildThen, SettingsAre, Names
  <1>2. Mild(s, mixed)
    BY <1>1, MixedIs
  <1> HIDE DEF mixed
  <1>3. Mild(s, para)
    BY <1>2, MildThen, SettingsAre, Names
  <1> HIDE DEF para
  <1>4. Mild(s, scalar)
    BY <1>3, MildThen
  <1> HIDE DEF scalar
  <1>5. Mild(s, Change(scalar, "nu_turb"))
    BY <1>4, MildThen, Names
  <1> QED BY <1>5 DEF VerticalDiffusion, scalar, para, mixed

LEMMA HorizontalDiffusionIs ==
  ASSUME set \in Settings, NEW s, Good(s)
  PROVE  Mild(s, HorizontalDiffusion(s))
  <1> DEFINE theta  == ChangeIf(~Isentropic, s, "theta")
             mixed  == IF Transported THEN SyncXToQ(Change(theta, "q")) ELSE theta
             scalar == SetP2Etc(mixed, TRUE)
  <1>1. Mild(s, theta)
    BY MildSame, MildThen, SettingsAre, Names
  <1>2. Mild(s, mixed)
    BY <1>1, MixedIs
  <1> HIDE DEF mixed
  <1>3. Mild(s, scalar)
    BY <1>2, MildThen
  <1> HIDE DEF scalar
  <1>4. Mild(s, Change(scalar, "nu_turb"))
    BY <1>3, MildThen, Names
  <1> QED BY <1>4 DEF HorizontalDiffusion, scalar, mixed

(* The pressures are set after H is smoothed, and what follows is not H. *)
LEMMA HyperviscosityIs ==
  ASSUME set \in Settings, NEW s, Good(s)
  PROVE  Mild(s, Hyperviscosity(s)) /\ Hyperviscosity(s).behind["p"] = {}
  <1> DEFINE mixed == IF Transported THEN SyncXToQ(ChangeIf(set.hyper, s, "q")) ELSE s
             h     == ChangeIf(set.hyper /\ ~IsobaricP, mixed, "h")
             thick == SetP2Etc(h, TRUE)
             theta == ChangeIf(set.hyper /\ ~Isentropic, thick, "theta")
             nu    == ChangeIf(set.hyper /\ Turbulent, theta, "nu_turb")
             para  == ChangeIf(set.hyper /\ set.fpara, nu, "fpara")
  <1>1. Mild(s, mixed)
    BY MildSame, MixedIs
  <1> HIDE DEF mixed
  <1>2. Mild(s, h)
    BY <1>1, MildThen, SettingsAre, Names
  <1> HIDE DEF h
  <1>3. Inside(s, thick, {"p"}, {})
    <2>1. thick.behind["p"] = {}
      BY <1>2, SetP2EtcIs DEF Mild
    <2>2. Mild(s, thick)
      BY <1>2, MildThen
    <2> HIDE DEF thick
    <2> QED BY <2>1, <2>2 DEF Inside, Bounded
  <1> HIDE DEF thick
  <1>4. {"p"} \subseteq Diagnostic /\ \A p \in {"theta", "nu_turb", "fpara"} : \A d \in {"p"} : p \notin Roots[d]
    BY RootsBound DEF Diagnostic
  <1>5. Inside(s, theta, {"p"}, {})
    BY <1>3, <1>4, InsideThen, SettingsAre, Names
  <1> HIDE DEF theta
  <1>6. Inside(s, nu, {"p"}, {})
    BY <1>4, <1>5, InsideThen, SettingsAre, Names
  <1> HIDE DEF nu
  <1>7. Inside(s, para, {"p"}, {})
    BY <1>4, <1>6, InsideThen, SettingsAre, Names
  <1>8. para = Hyperviscosity(s)
    BY DEF Hyperviscosity, para, nu, theta, thick, h, mixed
  <1> QED BY <1>7, <1>8 DEF Inside, Bounded

-----------------------------------------------------------------------------
(* What a step has to show: with the settings as they were, what the fields *)
(* may go back to is what it was.                                           *)
LEMMA Established ==
  ASSUME set \in Settings, set' = set, call' \in StepCalls, FieldsAt(call', data'), FileIs(written')
  PROVE  StepInv'
  <1>1. Roots' = Roots
    BY RootsKept
  <1>2. Good(data)' /\ Good(written)'
    BY <1>1 DEF FieldsAt, FileIs, Good, Condition
  <1>3. FileIs(written)'
    BY <1>2 DEF FileIs, Species
  <1>4. BehindAt(call, data)'
    BY DEF FieldsAt, BehindAt, Bounded
  <1>5. FieldsAt(call, data)'
    BY <1>2, <1>4 DEF FieldsAt, Species, Turbulent, Isentropic, HRaised, IsobaricP
  <1>6. (set \in Settings)' /\ (call \in StepCalls)'
    BY DEF Settings, StepCalls
  <1> QED BY <1>3, <1>5, <1>6 DEF StepInv

LEMMA FieldsMild ==
  ASSUME NEW c, NEW e, NEW s, NEW r, FieldsAt(c, s), Mild(s, r), BehindAt(e, r),
         c \in WithSecondPart <=> e \in WithSecondPart
  PROVE  FieldsAt(e, r)
  BY DEF FieldsAt, Mild, Seamless

(* Before the winds are marched scalars are changed, after it the winds. *)
LEMMA Untouched ==
  ASSUME set \in Settings
  PROVE  /\ Diagnostic \ {"w3"} \subseteq Diagnostic /\ Renewed \subseteq Diagnostic
         /\ \A p \in {"uv", "model_time"} : \A d \in Renewed : p \notin Roots[d]
  <1>1. Renewed \subseteq Diagnostic
    BY DEF Renewed, Diagnostic
  <1>2. \A d \in Renewed : Roots[d] \subseteq {"h", "theta", "fpara", "q"}
    BY RootsBound DEF Renewed
  <1> QED BY <1>1, <1>2

LEMMA SaveFieldsInv == ASSUME StepInv, SaveFields PROVE StepInv'
  <1> DEFINE D == Diagnostic \ {"w3"}
             q == ChangeIf(Species, data, "q")
  <1>1. /\ set \in Settings /\ FieldsAt("top", data) /\ set' = set
        /\ call = "top" /\ call' = "top" /\ data' = SyncXToQ(q) /\ written' = data'
    BY DEF StepInv, SaveFields
  <1>2. Inside(data, data, D, {"q"})
    BY <1>1, MildSame DEF FieldsAt, BehindAt, Inside
  <1>3. Inside(data, q, D, {"q"})
    BY <1>1, <1>2, InsideThen, SettingsAre, Names
  <1> HIDE DEF q
  <1>4. Inside(data, data', D, {"q"})
    BY <1>1, <1>3, InsideThen
  <1>5. BehindAt("top", data')
    BY <1>4 DEF BehindAt, Inside
  <1>6. FieldsAt("top", data')
    BY <1>1, <1>4, <1>5, FieldsMild DEF Inside
  <1>7. FileIs(written')
    <2>1. ~Species => "q" \notin Roots["pgrad_vars"]
      BY <1>1, RootsBound
    <2>2. "pgrad_vars" \in D
      BY DEF Diagnostic
    <2>3. data'.behind["pgrad_vars"] \subseteq {"q"} /\ data'.behind["pgrad_vars"] \subseteq Roots["pgrad_vars"]
      BY <1>5, <1>6, <2>2 DEF BehindAt, FieldsAt, Good, Bounded
    <2> QED BY <1>1, <1>6, <2>1, <2>3 DEF FileIs, FieldsAt, WithSecondPart
  <1> QED BY <1>1, <1>6, <1>7, Established DEF StepCalls

LEMMA RestartFieldsInv == ASSUME StepInv, RestartFields PROVE StepInv'
  <1>1. /\ set \in Settings /\ FileIs(written) /\ set' = set /\ written' = written
        /\ call' = "top" /\ data' = SyncDiagsOnly(written)
    BY DEF StepInv, RestartFields
  <1>2. /\ Good(data') /\ data'.finished = 0
        /\ set.microphysics # "ACTIVE" => data'.seams = {}
        /\ data'.z2_kept = (written.behind["pgrad_vars"] = {} /\ ~HRaised)
        /\ Bounded(data', Diagnostic \ {"w3"}, {"q"})
    <2> DEFINE r == SyncDiagsOnly(written)
    <2>1. written.finished \in Int /\ written.finished = 0
      BY <1>1 DEF FileIs
    <2>2. Good(r) /\ r.finished = 0 /\ Bounded(r, Diagnostic \ {"w3"}, {"q"})
      BY <1>1, <2>1, SyncDiagsOnlyIs
    <2>3. set.microphysics # "ACTIVE" => r.seams = {}
      BY <1>1, <2>1, SyncDiagsOnlyIs
    <2>4. r.z2_kept = (written.behind["pgrad_vars"] = {} /\ ~HRaised)
      BY <1>1, <2>1, SyncDiagsOnlyIs
    <2> HIDE DEF r
    <2>5. data' = r
      BY <1>1 DEF r
    <2> QED BY <2>2, <2>3, <2>4, <2>5
  <1>3. BehindAt("top", data')
    BY <1>2 DEF BehindAt
  <1>4. FieldsAt("top", data')
    BY <1>1, <1>2, <1>3 DEF FieldsAt, FileIs, WithSecondPart
  <1> QED BY <1>1, <1>4, Established DEF StepCalls

LEMMA InitStepInv == InitStep => StepInv
  <1> SUFFICES ASSUME InitStep PROVE StepInv
    OBVIOUS
  <1>1. set \in Settings /\ call = "top" /\ written = FirstFile /\ data = SyncDiagsOnly(FirstFile)
    BY DEF InitStep
  <1>2. FileIs(FirstFile)
    <2> DEFINE b == [d \in Diagnostic |-> {}]
    <2>1. b \in [Diagnostic -> SUBSET Prognostic] /\ \A d \in Diagnostic : b[d] = {}
      OBVIOUS
    <2>2. FirstFile = Record(b, {}, TRUE, 0)
      BY DEF FirstFile, Record
    <2>3. FirstFile.behind = b /\ FirstFile.finished = 0
      BY DEF FirstFile
    <2> HIDE DEF b
    <2>4. FirstFile \in Condition
      BY <2>1, <2>2 DEF Record, Condition
    <2>5. "pgrad_vars" \in Diagnostic
      BY DEF Diagnostic
    <2> QED BY <2>1, <2>3, <2>4, <2>5 DEF FileIs, Good
  <1>3. /\ Good(data) /\ data.finished = 0
        /\ set.microphysics # "ACTIVE" => data.seams = {}
        /\ data.z2_kept = (FirstFile.behind["pgrad_vars"] = {} /\ ~HRaised)
        /\ Bounded(data, Diagnostic \ {"w3"}, {"q"})
    <2> DEFINE r == SyncDiagsOnly(FirstFile)
    <2>1. FirstFile.finished \in Int /\ FirstFile.finished = 0
      BY <1>2 DEF FileIs
    <2>2. Good(r) /\ r.finished = 0 /\ Bounded(r, Diagnostic \ {"w3"}, {"q"})
      BY <1>1, <2>1, SyncDiagsOnlyIs
    <2>3. set.microphysics # "ACTIVE" => r.seams = {}
      BY <1>1, <2>1, SyncDiagsOnlyIs
    <2>4. r.z2_kept = (FirstFile.behind["pgrad_vars"] = {} /\ ~HRaised)
      BY <1>1, <2>1, SyncDiagsOnlyIs
    <2> HIDE DEF r
    <2>5. data = r
      BY <1>1 DEF r
    <2> QED BY <2>2, <2>3, <2>4, <2>5
  <1>4. FirstFile.behind["pgrad_vars"] = {}
    BY DEF FirstFile, Diagnostic
  <1>5. BehindAt("top", data)
    BY <1>3 DEF BehindAt
  <1>6. FieldsAt("top", data)
    BY <1>3, <1>4, <1>5 DEF FieldsAt, WithSecondPart
  <1> QED BY <1>1, <1>2, <1>6 DEF StepInv, StepCalls

(* Fields that get a seam. *)
LEMMA SeamIs ==
  ASSUME NEW s, NEW m \in SUBSET (Prognostic \cup Diagnostic), Good(s)
  PROVE  LET r == [s EXCEPT !.seams = @ \cup m]
         IN  /\ Good(r) /\ r.behind = s.behind /\ r.seams = s.seams \cup m
             /\ r.z2_kept = s.z2_kept /\ r.finished = s.finished
  <1> DEFINE v == s.seams \cup m
             r == [s EXCEPT !.seams = v]
  <1>1. s \in Condition /\ s = Record(s.behind, s.seams, s.z2_kept, s.finished)
    BY ConditionIs DEF Good
  <1>2. v \in SUBSET (Prognostic \cup Diagnostic)
    BY <1>1 DEF Condition
  <1> HIDE DEF v
  <1>3. r = Record(s.behind, v, s.z2_kept, s.finished)
    BY <1>1, RecordWith
  <1> HIDE DEF r
  <1>4. r.behind = s.behind /\ r.seams = v /\ r.z2_kept = s.z2_kept /\ r.finished = s.finished
    BY <1>3, RecordWith
  <1>5. s.behind \in [Diagnostic -> SUBSET Prognostic] /\ s.z2_kept \in BOOLEAN /\ s.finished \in Int
    BY <1>1 DEF Condition
  <1>6. r \in Condition
    BY <1>2, <1>3, <1>5, ConditionIs
  <1> QED BY <1>4, <1>6 DEF Good, r, v

LEMMA SeamInside ==
  ASSUME NEW s, NEW r, NEW D, NEW P, Inside(s, r, D, P), NEW m \in SUBSET (Prognostic \cup Diagnostic),
         set.microphysics = "ACTIVE" \/ s.seams # {}
  PROVE  Inside(s, [r EXCEPT !.seams = @ \cup m], D, P)
  <1> DEFINE t == [r EXCEPT !.seams = @ \cup m]
  <1>1. Good(r)
    BY DEF Inside, Mild
  <1>2. Good(t) /\ t.behind = r.behind /\ t.z2_kept = r.z2_kept /\ t.finished = r.finished
    BY <1>1, SeamIs
  <1> HIDE DEF t
  <1>3. Inside(s, t, D, P)
    BY <1>2 DEF Inside, Mild, Seamless, Bounded
  <1> QED BY <1>3 DEF t

LEMMA CloudMicrophysicsIs ==
  ASSUME set \in Settings, set.microphysics = "ACTIVE", NEW active \in BOOLEAN,
         NEW s, NEW r, NEW D, NEW P, D \subseteq Diagnostic, "q" \in P, Inside(s, r, D, P)
  PROVE  Inside(s, CloudMicrophysics(r, active), D, P)
  <1> DEFINE moved == Change(r, "q")
             m     == {"heat3"}
             seam  == [moved EXCEPT !.seams = @ \cup m]
             both  == IF active THEN seam ELSE moved
  <1>1. Inside(s, moved, D, P)
    <2>1. Inside(s, ChangeIf(TRUE, r, "q"), D, P)
      BY InsideThen, Names
    <2> QED BY <2>1 DEF ChangeIf
  <1>2. m \in SUBSET (Prognostic \cup Diagnostic)
    BY DEF Diagnostic
  <1> HIDE DEF moved
  <1>3. CloudMicrophysics(r, active) = SyncXToQ(both)
    BY DEF CloudMicrophysics, moved
  <1> HIDE DEF m
  <1>4. Inside(s, seam, D, P)
    BY <1>1, <1>2, SeamInside
  <1> HIDE DEF seam
  <1>5. Inside(s, both, D, P)
    BY <1>1, <1>4
  <1> HIDE DEF both
  <1> QED BY <1>3, <1>5, InsideThen

LEMMA SourceSinkInv == ASSUME StepInv, SourceSink PROVE StepInv'
  <1> DEFINE D == Diagnostic \ {"w3"}
             P == {"fpara", "q", "theta"}
             relaxed == ChangeIf(set.fpara, data, "fpara")
             clouds(active) == IF set.microphysics = "ACTIVE" THEN CloudMicrophysics(relaxed, active)
                                                              ELSE relaxed
             heated(active) == Change(clouds(active), "theta")
             m == {"theta"}
             seamed(active) == [heated(active) EXCEPT !.seams = @ \cup m]
  <1>1. PICK active \in BOOLEAN :
           data' = IF Isentropic THEN clouds(active)
                   ELSE IF {"heat3", "pgrad_vars", "theta"} \cap clouds(active).seams # {}
                        THEN seamed(active) ELSE heated(active)
    BY DEF SourceSink
  <1>2. /\ set \in Settings /\ FieldsAt("top", data) /\ FileIs(written)
        /\ set' = set /\ written' = written /\ call' = "calc_w"
    BY DEF StepInv, SourceSink, Call
  <1>3. D \subseteq Diagnostic /\ P \subseteq Prognostic /\ "q" \in P /\ "fpara" \in P /\ "theta" \in P
        /\ m \in SUBSET (Prognostic \cup Diagnostic)
    BY DEF Prognostic
  <1>4. Inside(data, data, D, P)
    BY <1>2, MildSame DEF FieldsAt, BehindAt, Bounded, Inside
  <1> HIDE DEF D, P, m
  <1>5. Inside(data, relaxed, D, P)
    BY <1>2, <1>3, <1>4, InsideThen, SettingsAre
  <1> HIDE DEF relaxed
  <1>6. Inside(data, clouds(active), D, P)
    <2>1. CASE set.microphysics = "ACTIVE"
      <3>1. Inside(data, CloudMicrophysics(relaxed, active), D, P)
        BY <1>2, <1>3, <1>5, <2>1, CloudMicrophysicsIs
      <3> QED BY <2>1, <3>1
    <2>2. CASE set.microphysics # "ACTIVE"
      BY <1>5, <2>2
    <2> QED BY <2>1, <2>2
  <1> HIDE DEF clouds
  <1>7. Inside(data, heated(active), D, P)
    <2>1. Inside(data, ChangeIf(TRUE, clouds(active), "theta"), D, P)
      BY <1>2, <1>3, <1>6, InsideThen, Names
    <2> QED BY <2>1 DEF ChangeIf
  <1> HIDE DEF heated
  <1>8. clouds(active).seams # {} => Inside(data, seamed(active), D, P)
    <2> SUFFICES ASSUME clouds(active).seams # {} PROVE Inside(data, seamed(active), D, P)
      OBVIOUS
    <2>1. set.microphysics = "ACTIVE" \/ data.seams # {}
      BY <1>6 DEF Inside, Mild, Seamless
    <2> QED BY <1>3, <1>7, <2>1, SeamInside
  <1> HIDE DEF seamed
  <1>9. Inside(data, data', D, P)
    BY <1>1, <1>6, <1>7, <1>8
  <1>10. BehindAt("calc_w", data')
    BY <1>9 DEF BehindAt, Inside, D, P
  <1>11. FieldsAt("calc_w", data')
    BY <1>2, <1>9, <1>10, FieldsMild DEF Inside, WithSecondPart
  <1> QED BY <1>2, <1>11, Established DEF StepCalls

LEMMA CalcWStepInv == ASSUME StepInv, CalcWStep PROVE StepInv'
  <1> DEFINE P == {"fpara", "q", "theta"}
  <1>1. /\ set \in Settings /\ FieldsAt("calc_w", data) /\ FileIs(written) /\ data' = CalcW(data, TRUE)
        /\ set' = set /\ written' = written /\ call' = "source_sink_turb"
    BY DEF StepInv, CalcWStep, Call
  <1>2. /\ Good(data) /\ Bounded(data, Diagnostic \ {"w3"}, P) /\ data.finished = 0
    BY <1>1 DEF FieldsAt, BehindAt, WithSecondPart
  <1>3. /\ Good(data') /\ Seamless(data, data') /\ data'.z2_kept = data.z2_kept
        /\ data'.finished = 1 /\ data'.behind["w3"] = Lag(data, From["w3"])
        /\ \A e \in Diagnostic \ {"w3"} : data'.behind[e] = data.behind[e]
    <2> DEFINE r == CalcW(data, TRUE)
    <2>1. Good(r) /\ Seamless(data, r) /\ r.z2_kept = data.z2_kept
      BY <1>1, <1>2, CalcWIs
    <2>2. r.finished = data.finished + 1
      BY <1>1, <1>2, CalcWIs
    <2>3. /\ r.behind["w3"] = Lag(data, From["w3"])
          /\ \A e \in Diagnostic \ {"w3"} : r.behind[e] = data.behind[e]
      BY <1>1, <1>2, CalcWIs
    <2> HIDE DEF r
    <2>4. data' = r
      BY <1>1 DEF r
    <2> QED BY <1>2, <2>1, <2>2, <2>3, <2>4
  <1>4. \A f \in From["w3"] \cap Diagnostic : data.behind[f] \subseteq P
    <2>1. From["w3"] \cap Diagnostic \subseteq Diagnostic \ {"w3"}
      BY <1>1, FromIs
    <2> QED BY <1>2, <2>1 DEF Bounded
  <1>5. Lag(data, From["w3"]) \subseteq P
    BY <1>4, LagWithin
  <1>6. \A d \in Diagnostic : data'.behind[d] \subseteq P
    BY <1>2, <1>3, <1>5 DEF Bounded
  <1>7. BehindAt("source_sink_turb", data')
    BY <1>6 DEF BehindAt, Bounded
  <1>8. FieldsAt("source_sink_turb", data')
    BY <1>1, <1>3, <1>7 DEF FieldsAt, WithSecondPart, Seamless
  <1> QED BY <1>1, <1>8, Established DEF StepCalls

LEMMA SourceSinkTurbInv == ASSUME StepInv, SourceSinkTurb PROVE StepInv'
  <1> DEFINE P == {"fpara", "q", "theta", "nu_turb"}
  <1>1. /\ set \in Settings /\ FieldsAt("source_sink_turb", data) /\ FileIs(written)
        /\ data' = ChangeIf(Turbulent, data, "nu_turb")
        /\ set' = set /\ written' = written /\ call' = "extract"
    BY DEF StepInv, SourceSinkTurb, Call
  <1>2. Inside(data, data, Diagnostic, P)
    BY <1>1, MildSame DEF FieldsAt, BehindAt, Inside
  <1>3. Inside(data, data', Diagnostic, P)
    BY <1>1, <1>2, InsideThen, SettingsAre, Names
  <1>4. BehindAt("extract", data')
    BY <1>3 DEF BehindAt, Inside
  <1>5. FieldsAt("extract", data')
    BY <1>1, <1>3, <1>4, FieldsMild DEF Inside, WithSecondPart
  <1> QED BY <1>1, <1>5, Established DEF StepCalls

LEMMA ExtractInv == ASSUME StepInv, Extract PROVE StepInv'
  <1> DEFINE P == {"fpara", "q", "theta", "nu_turb"}
             q == ChangeIf(Species, data, "q")
  <1>1. /\ set \in Settings /\ FieldsAt("extract", data) /\ FileIs(written)
        /\ data' = data \/ data' = SyncXToQ(q)
        /\ set' = set /\ written' = written /\ call' = "uv_core"
    BY DEF StepInv, Extract, Call
  <1>2. Inside(data, data, Diagnostic, P)
    BY <1>1, MildSame DEF FieldsAt, BehindAt, Inside
  <1>3. Inside(data, q, Diagnostic, P)
    BY <1>1, <1>2, InsideThen, SettingsAre, Names
  <1> HIDE DEF q
  <1>4. Inside(data, SyncXToQ(q), Diagnostic, P)
    BY <1>1, <1>3, InsideThen
  <1>5. Inside(data, data', Diagnostic, P)
    BY <1>1, <1>2, <1>4
  <1>6. BehindAt("uv_core", data')
    BY <1>5 DEF BehindAt, Inside
  <1>7. FieldsAt("uv_core", data')
    BY <1>1, <1>5, <1>6, FieldsMild DEF Inside, WithSecondPart
  <1> QED BY <1>1, <1>7, Established DEF StepCalls

LEMMA UvTendenciesInv == ASSUME StepInv, UvTendencies PROVE StepInv'
  <1>1. /\ set \in Settings /\ FieldsAt("uv_core", data) /\ FileIs(written) /\ data' = data
        /\ set' = set /\ written' = written /\ call' = "scalar_vertical_subgrid"
    BY DEF StepInv, UvTendencies, Call
  <1>2. FieldsAt("scalar_vertical_subgrid", data')
    BY <1>1 DEF FieldsAt, BehindAt, WithSecondPart
  <1> QED BY <1>1, <1>2, Established DEF StepCalls

LEMMA ScalarVerticalSubgridInv == ASSUME StepInv, ScalarVerticalSubgrid PROVE StepInv'
  <1>1. /\ set \in Settings /\ FieldsAt("scalar_vertical_subgrid", data) /\ FileIs(written) /\ Good(data)
        /\ set' = set /\ written' = written /\ call' = "scalar_horizontal_subgrid"
    BY DEF StepInv, ScalarVerticalSubgrid, Call, FieldsAt
  <1>2. BehindAt("scalar_horizontal_subgrid", data')
    BY DEF BehindAt
  <1>3. CASE data' = VerticalDiffusion(data)
    <2>1. Mild(data, data')
      BY <1>1, <1>3, VerticalDiffusionIs
    <2>2. FieldsAt("scalar_horizontal_subgrid", data')
      BY <1>1, <1>2, <2>1, FieldsMild DEF WithSecondPart
    <2> QED BY <1>1, <2>2, Established DEF StepCalls
  <1>4. CASE ~Turbulent /\ ~Isentropic /\ data' = AdiabaticAdjustment(data)
    <2> DEFINE mixed == IF Transported THEN SyncXToQ(Change(data, "q")) ELSE data
               para  == ChangeIf(set.fpara, mixed, "fpara")
               theta == Change(para, "theta")
               r     == StorePgradVars(SetP2Etc(theta, TRUE), FALSE)
    <2>1. Mild(data, mixed)
      BY <1>1, MildSame, MixedIs
    <2>2. AdiabaticAdjustment(data) = r
      BY DEF AdiabaticAdjustment
    <2> HIDE DEF mixed
    <2>3. Mild(data, para)
      BY <1>1, <2>1, MildThen, SettingsAre, Names
    <2> HIDE DEF para
    <2>4. Mild(data, theta)
      BY <1>1, <2>3, MildThen, Names
    <2> HIDE DEF theta
    <2>5. Good(r) /\ Seamless(theta, r)
      BY <1>1, <2>4, PgradRenewed DEF Mild
    <2>6. r.finished = theta.finished
      BY <1>1, <2>4, PgradRenewed DEF Mild
    <2> HIDE DEF r
    <2>7. Good(data') /\ Seamless(data, data') /\ data'.finished = data.finished
      BY <1>4, <2>2, <2>4, <2>5, <2>6 DEF Mild, Seamless
    <2>8. FieldsAt("scalar_horizontal_subgrid", data')
      BY <1>1, <1>2, <1>4, <2>7 DEF FieldsAt, Seamless, WithSecondPart
    <2> QED BY <1>1, <2>8, Established DEF StepCalls
  <1>5. CASE data' = data
    <2>1. FieldsAt("scalar_horizontal_subgrid", data')
      BY <1>1, <1>2, <1>5, MildSame, FieldsMild DEF WithSecondPart
    <2> QED BY <1>1, <2>1, Established DEF StepCalls
  <1> QED BY <1>3, <1>4, <1>5 DEF ScalarVerticalSubgrid

LEMMA ScalarHorizontalSubgridInv == ASSUME StepInv, ScalarHorizontalSubgrid PROVE StepInv'
  <1> DEFINE s == IF set.turbulence = "on" THEN HorizontalDiffusion(data) ELSE data
  <1>1. /\ set \in Settings /\ FieldsAt("scalar_horizontal_subgrid", data) /\ FileIs(written) /\ Good(data)
        /\ set' = set /\ written' = written /\ call' = "advection" /\ data' = Hyperviscosity(s)
    BY DEF StepInv, ScalarHorizontalSubgrid, Call, FieldsAt
  <1>2. Mild(data, s)
    BY <1>1, MildSame, HorizontalDiffusionIs
  <1> HIDE DEF s
  <1>3. Mild(s, data') /\ data'.behind["p"] = {}
    BY <1>1, <1>2, HyperviscosityIs DEF Mild
  <1>4. Mild(data, data')
    BY <1>2, <1>3, MildMild
  <1>5. BehindAt("advection", data')
    BY <1>3 DEF BehindAt
  <1>6. FieldsAt("advection", data')
    BY <1>1, <1>4, <1>5, FieldsMild DEF WithSecondPart
  <1> QED BY <1>1, <1>6, Established DEF StepCalls

LEMMA AdvectionInv == ASSUME StepInv, Advection PROVE StepInv'
  <1> DEFINE theta == ChangeIf(~Isentropic, data, "theta")
             para  == ChangeIf(set.fpara, theta, "fpara")
             q     == ChangeIf(Transported, para, "q")
             nu    == ChangeIf(Turbulent, q, "nu_turb")
             thick == ChangeIf(~IsobaricP, nu, "h")
             both  == IF Transported THEN SyncXToQ(thick) ELSE thick
  <1>1. /\ set \in Settings /\ FieldsAt("advection", data) /\ FileIs(written) /\ Good(data)
        /\ set' = set /\ written' = written /\ call' = "filter" /\ data' = SetP2Etc(both, FALSE)
    BY DEF StepInv, Advection, Call, FieldsAt
  <1>2. Mild(data, theta)
    BY <1>1, MildSame, MildThen, SettingsAre, Names
  <1> HIDE DEF theta
  <1>3. Mild(data, para)
    BY <1>1, <1>2, MildThen, SettingsAre, Names
  <1> HIDE DEF para
  <1>4. Mild(data, q)
    BY <1>1, <1>3, MildThen, SettingsAre, Names
  <1> HIDE DEF q
  <1>5. Mild(data, nu)
    BY <1>1, <1>4, MildThen, SettingsAre, Names
  <1> HIDE DEF nu
  <1>6. Mild(data, thick)
    BY <1>1, <1>5, MildThen, SettingsAre, Names
  <1> HIDE DEF thick
  <1>7. Mild(data, both)
    BY <1>1, <1>6, MildThen
  <1> HIDE DEF both
  <1>8. Mild(data, data')
    BY <1>1, <1>7, MildThen
  <1>9. BehindAt("filter", data')
    BY DEF BehindAt
  <1>10. FieldsAt("filter", data')
    BY <1>1, <1>8, <1>9, FieldsMild DEF WithSecondPart
  <1> QED BY <1>1, <1>10, Established DEF StepCalls

LEMMA FilterInv == ASSUME StepInv, Filter PROVE StepInv'
  <1> DEFINE thick == ChangeIf(Touched /\ ~IsobaricP, data, "h")
             theta == ChangeIf(Touched /\ ~Isentropic, thick, "theta")
             para  == ChangeIf(Touched /\ set.fpara, theta, "fpara")
             nu    == ChangeIf(Touched /\ Turbulent, para, "nu_turb")
  <1>1. /\ set \in Settings /\ FieldsAt("filter", data) /\ FileIs(written) /\ Good(data)
        /\ set' = set /\ written' = written /\ call' = "pgrad_vars"
        /\ data' = ChangeIf(Touched /\ Species, nu, "q")
    BY DEF StepInv, Filter, Call, FieldsAt
  <1>2. Mild(data, thick)
    BY <1>1, MildSame, MildThen, SettingsAre, Names
  <1> HIDE DEF thick
  <1>3. Mild(data, theta)
    BY <1>1, <1>2, MildThen, SettingsAre, Names
  <1> HIDE DEF theta
  <1>4. Mild(data, para)
    BY <1>1, <1>3, MildThen, SettingsAre, Names
  <1> HIDE DEF para
  <1>5. Mild(data, nu)
    BY <1>1, <1>4, MildThen, SettingsAre, Names
  <1> HIDE DEF nu
  <1>6. Mild(data, data')
    BY <1>1, <1>5, MildThen, SettingsAre, Names
  <1>7. FieldsAt("pgrad_vars", data')
    BY <1>1, <1>6, FieldsMild DEF WithSecondPart, BehindAt
  <1> QED BY <1>1, <1>7, Established DEF StepCalls

LEMMA PgradVarsInv == ASSUME StepInv, PgradVars PROVE StepInv'
  <1> DEFINE r == StorePgradVars(SetP2Etc(data, TRUE), TRUE)
  <1>1. /\ set \in Settings /\ FieldsAt("pgrad_vars", data) /\ FileIs(written) /\ Good(data)
        /\ set' = set /\ written' = written /\ call' = "uv_pgrad" /\ data' = r
    BY DEF StepInv, PgradVars, Call, FieldsAt
  <1>2. Good(r) /\ Seamless(data, r) /\ Bounded(r, Renewed, {"q"})
    BY <1>1, PgradRenewed, Names
  <1>3. r.z2_kept = TRUE
    BY <1>1, PgradRenewed, Names
  <1>4. r.finished = 0
    BY <1>1, PgradRenewed, Names
  <1> HIDE DEF r
  <1>5. BehindAt("uv_pgrad", data')
    BY <1>1, <1>2 DEF BehindAt
  <1>6. FieldsAt("uv_pgrad", data')
    BY <1>1, <1>2, <1>3, <1>4, <1>5 DEF FieldsAt, Seamless, WithSecondPart
  <1> QED BY <1>1, <1>6, Established DEF StepCalls

(* The winds and the time change, then what depends on them is calculated. *)
LEMMA WindsInside ==
  ASSUME set \in Settings, NEW c \in {"uv_pgrad", "uv_vertical_subgrid", "model_time"},
         FieldsAt(c, data), NEW p \in {"uv", "model_time"}, NEW b \in BOOLEAN
  PROVE  Inside(data, ChangeIf(b, data, p), Renewed, {"q"})
  <1>1. Inside(data, data, Renewed, {"q"})
    BY MildSame DEF FieldsAt, BehindAt, Inside
  <1> QED BY <1>1, InsideThen, Untouched, Names

LEMMA MarchWindsInv == ASSUME StepInv, MarchWinds PROVE StepInv'
  <1>1. /\ set \in Settings /\ FieldsAt("uv_pgrad", data) /\ FileIs(written) /\ data' = Change(data, "uv")
        /\ set' = set /\ written' = written /\ call' = "uv_vertical_subgrid"
    BY DEF StepInv, MarchWinds, Call
  <1>2. data' = ChangeIf(TRUE, data, "uv")
    BY <1>1 DEF ChangeIf
  <1>3. Inside(data, data', Renewed, {"q"})
    BY <1>1, <1>2, WindsInside, Names
  <1>4. FieldsAt("uv_vertical_subgrid", data')
    BY <1>1, <1>3, FieldsMild DEF Inside, BehindAt, WithSecondPart
  <1> QED BY <1>1, <1>4, Established DEF StepCalls

LEMMA SmoothWindsInv == ASSUME StepInv, SmoothWinds PROVE StepInv'
  <1>1. /\ set \in Settings /\ FieldsAt("uv_vertical_subgrid", data) /\ FileIs(written)
        /\ data' = ChangeIf(Turbulent \/ set.hyper \/ set.filter, data, "uv")
        /\ set' = set /\ written' = written /\ call' = "model_time"
    BY DEF StepInv, SmoothWinds, Call
  <1>2. Inside(data, data', Renewed, {"q"})
    BY <1>1, WindsInside, SettingsAre
  <1>3. FieldsAt("model_time", data')
    BY <1>1, <1>2, FieldsMild DEF Inside, BehindAt, WithSecondPart
  <1> QED BY <1>1, <1>3, Established DEF StepCalls

LEMMA AdvanceTimeInv == ASSUME StepInv, AdvanceTime PROVE StepInv'
  <1>1. /\ set \in Settings /\ FieldsAt("model_time", data) /\ FileIs(written)
        /\ data' = Change(data, "model_time")
        /\ set' = set /\ written' = written /\ call' = "store_diag"
    BY DEF StepInv, AdvanceTime, Call
  <1>2. data' = ChangeIf(TRUE, data, "model_time")
    BY <1>1 DEF ChangeIf
  <1>3. Inside(data, data', Renewed, {"q"})
    BY <1>1, <1>2, WindsInside, Names
  <1>4. FieldsAt("store_diag", data')
    BY <1>1, <1>3, FieldsMild DEF Inside, BehindAt, WithSecondPart
  <1> QED BY <1>1, <1>4, Established DEF StepCalls

LEMMA UpdateDiagsInv == ASSUME StepInv, UpdateDiags PROVE StepInv'
  <1>1. /\ set \in Settings /\ FieldsAt("store_diag", data) /\ FileIs(written) /\ Good(data)
        /\ data' = CalcHeating(StoreDiag(data))
        /\ set' = set /\ written' = written /\ call' = "top"
    BY DEF StepInv, UpdateDiags, Call, FieldsAt
  <1>2. Bounded(data, Renewed, {"q"})
    BY <1>1 DEF FieldsAt, BehindAt
  <1>3. Mild(data, data') /\ Bounded(data', Diagnostic \ {"w3"}, {"q"})
    BY <1>1, <1>2, DiagsRenewed
  <1>4. FieldsAt("top", data')
    BY <1>1, <1>3, FieldsMild DEF BehindAt, WithSecondPart
  <1> QED BY <1>1, <1>4, Established DEF StepCalls

LEMMA NextStepInv == StepInv /\ [NextStep]_step_vars => StepInv'
  <1> SUFFICES ASSUME StepInv, [NextStep]_step_vars PROVE StepInv'
    OBVIOUS
  <1>1. CASE UNCHANGED step_vars
    <2>1. set' = set /\ call' = call /\ data' = data /\ written' = written
      BY <1>1 DEF step_vars
    <2> QED BY <2>1, Established DEF StepInv
  <1>2. CASE NextStep
    BY <1>2, SaveFieldsInv, RestartFieldsInv, SourceSinkInv, CalcWStepInv, SourceSinkTurbInv, ExtractInv,
       UvTendenciesInv, ScalarVerticalSubgridInv, ScalarHorizontalSubgridInv, AdvectionInv, FilterInv,
       PgradVarsInv, MarchWindsInv, SmoothWindsInv, AdvanceTimeInv, UpdateDiagsInv DEF NextStep
  <1> QED BY <1>1, <1>2

(* In every setting, after any saves and restarts, StepInv. *)
THEOREM StepInvariance == StepSpec => []StepInv
  BY InitStepInv, NextStepInv, PTL DEF StepSpec

LEMMA InvStepTypeOK == StepInv => StepTypeOK
  <1> SUFFICES ASSUME StepInv PROVE StepTypeOK
    OBVIOUS
  <1>1. call \in StepCalls /\ set \in Settings /\ Good(data) /\ Good(written)
        /\ data.finished \in 0 .. 1 /\ written.finished \in 0 .. 1
    BY DEF StepInv, FieldsAt, FileIs
  <1>2. ASSUME NEW s \in {data, written}
        PROVE  /\ DOMAIN s = {"behind", "seams", "z2_kept", "finished"}
               /\ s.behind \in [Diagnostic -> SUBSET Prognostic]
               /\ s.seams \subseteq Prognostic \cup Diagnostic
               /\ s.z2_kept \in BOOLEAN /\ s.finished \in 0 .. 1
    <2>1. s \in Condition /\ s.finished \in 0 .. 1
      BY <1>1 DEF Good
    <2> QED BY <2>1 DEF Condition
  <1> QED BY <1>1, <1>2 DEF StepTypeOK

(* Every variable has its type. *)
THEOREM StepTypeCorrect == StepSpec => []StepTypeOK
  BY StepInvariance, InvStepTypeOK, PTL

LEMMA InvUpToDate == StepInv => UpToDateButForSpecies
  BY DEF StepInv, FieldsAt, BehindAt, Bounded, UpToDateButForSpecies

(* A timestep begins with diagnostic variables that are up to date, but for *)
(* the species and W3, after a restart and after a save as well.            *)
THEOREM EntryUpToDate == StepSpec => []UpToDateButForSpecies
  BY StepInvariance, InvUpToDate, PTL

LEMMA InvCallsSeePresentState == StepInv => CallsSeePresentState
  <1> SUFFICES ASSUME StepInv PROVE CallsSeePresentState
    OBVIOUS
  <1>0. /\ set \in Settings /\ FieldsAt(call, data) /\ BehindAt(call, data)
        /\ \A d \in Diagnostic : data.behind[d] \subseteq Roots[d]
    BY DEF StepInv, FieldsAt, Good
  <1>1. call = "advection" => data.behind["p"] = {}
    BY <1>0 DEF BehindAt
  <1>2. call \in {"calc_w", "uv_core"} => Lag(data, {"flow", "p"}) = {}
    <2> SUFFICES ASSUME call \in {"calc_w", "uv_core"} PROVE Lag(data, {"flow", "p"}) = {}
      OBVIOUS
    <2>1. "flow" \in Diagnostic \ {"w3"} /\ "p" \in Diagnostic \ {"w3"}
      BY DEF Diagnostic
    <2>2. \A d \in {"flow", "p"} : data.behind[d] \subseteq {"fpara", "q", "theta", "nu_turb"}
      BY <1>0, <2>1 DEF BehindAt, Bounded
    <2>3. \A d \in {"flow", "p"} : data.behind[d] \subseteq {"uv", "h"}
      BY <1>0, <2>1, RootsBound
    <2>4. \A d \in {"flow", "p"} : data.behind[d] = {}
      BY <2>2, <2>3
    <2> QED BY <2>4 DEF Lag
  <1>3. ASSUME call = "uv_pgrad"
        PROVE  Lag(data, {"p", "theta2", "pgrad_vars"}) \subseteq (IF Species THEN {"q"} ELSE {})
    <2>1. {"p", "theta2", "pgrad_vars"} \subseteq Diagnostic
      BY DEF Diagnostic
    <2>2. \A d \in {"p", "theta2", "pgrad_vars"} : data.behind[d] \subseteq {"q"}
      BY <1>0, <1>3 DEF BehindAt, Bounded, Renewed
    <2>3. ~Species => \A d \in {"p", "theta2", "pgrad_vars"} : "q" \notin data.behind[d]
      BY <1>0, <2>1, RootsBound
    <2> QED BY <2>2, <2>3 DEF Lag
  <1> QED BY <1>1, <1>2, <1>3 DEF CallsSeePresentState

(* What advection() reads of the pressures, calc_w() and uv_core() of them   *)
(* and of vorticity and divergence, uv_pgrad() of the pressure gradient, is  *)
(* calculated from the prognostic variables as they are at that call, but    *)
(* for the species at the last.                                              *)
THEOREM ReadsPresentState == StepSpec => []CallsSeePresentState
  BY StepInvariance, InvCallsSeePresentState, PTL

-----------------------------------------------------------------------------
(***************************************************************************)
(* Where the seams are, whatever the clouds.  Since the prognostic         *)
(* variables are exchanged, a seam comes from HEAT3 in the interior; it is *)
(* in THETA until that is next changed, in THETA2 until that is next       *)
(* calculated from it, in W3 and HEAT3 themselves until the next timestep. *)
(***************************************************************************)
Seamed == {"heat3", "w3", "theta", "theta2"}

Confined(s, D) == Good(s) /\ D \subseteq Seamed /\ s.seams \subseteq D

LEMMA NotSeamed ==
  /\ Seamed \subseteq Prognostic \cup Diagnostic
  /\ {"uv", "h", "fpara", "q", "nu_turb", "model_time", "x", "p", "dry", "pgrad_vars", "flow", "ri2", "coef"}
       \cap Seamed = {}
  /\ {"x", "p", "dry", "theta2", "pgrad_vars", "flow", "ri2", "coef", "heat3", "w3"} = Diagnostic
  BY DEF Seamed, Prognostic, Diagnostic

LEMMA ChangeSeams ==
  ASSUME NEW s, Good(s), NEW p \in Prognostic
  PROVE  Change(s, p).seams = s.seams \ {p}
  BY DEF Change, Good, Condition

LEMMA OverPadsSeams ==
  ASSUME NEW s, Good(s), NEW d \in Diagnostic
  PROVE  OverPads(s, d).seams = IF From[d] \cap s.seams = {} THEN s.seams \ {d} ELSE s.seams \cup {d}
  BY DEF OverPads, Calculated, Good, Condition

LEMMA ExchangedSeams ==
  ASSUME NEW s, Good(s), NEW d \in Diagnostic
  PROVE  Exchanged(s, d).seams = s.seams \ {d}
  BY DEF Exchanged, Calculated, Good, Condition

(* Fewer seams, or a D that has more. *)
LEMMA ConfinedWider ==
  ASSUME NEW s, NEW D, NEW E, Confined(s, D), D \subseteq E, E \subseteq Seamed
  PROVE  Confined(s, E)
  BY DEF Confined

LEMMA ConfinedChange ==
  ASSUME set \in Settings, NEW s, NEW D, Confined(s, D), NEW p \in Prognostic, NEW c \in BOOLEAN
  PROVE  /\ Confined(Change(s, p), D \ {p})
         /\ Confined(ChangeIf(c, s, p), D)
         /\ c => Confined(ChangeIf(c, s, p), D \ {p})
  <1>1. Good(Change(s, p)) /\ Change(s, p).seams = s.seams \ {p}
    BY ChangeIs, ChangeSeams DEF Confined, Mild
  <1>2. Confined(Change(s, p), D \ {p}) /\ Confined(Change(s, p), D)
    BY <1>1 DEF Confined
  <1> QED BY <1>2 DEF ChangeIf

LEMMA ConfinedOverPads ==
  ASSUME set \in Settings, NEW s, NEW D, Confined(s, D), NEW d \in Diagnostic
  PROVE  /\ d \in Seamed => Confined(OverPads(s, d), D \cup {d})
         /\ From[d] \cap D = {} => Confined(OverPads(s, d), D \ {d})
  <1>1. Good(OverPads(s, d))
    BY OverPadsIs DEF Confined, Mild
  <1>2. OverPads(s, d).seams = IF From[d] \cap s.seams = {} THEN s.seams \ {d} ELSE s.seams \cup {d}
    BY OverPadsSeams DEF Confined
  <1>3. OverPads(s, d).seams \subseteq D \cup {d}
    BY <1>2 DEF Confined
  <1>4. From[d] \cap D = {} => OverPads(s, d).seams \subseteq D \ {d}
    BY <1>2 DEF Confined
  <1> QED BY <1>1, <1>3, <1>4 DEF Confined

LEMMA ConfinedExchanged ==
  ASSUME set \in Settings, NEW s, NEW D, Confined(s, D), NEW d \in Diagnostic
  PROVE  Confined(Exchanged(s, d), D \ {d})
  <1>1. Good(Exchanged(s, d)) /\ Exchanged(s, d).seams = s.seams \ {d}
    BY ExchangedIs, ExchangedSeams DEF Confined, Mild
  <1> QED BY <1>1 DEF Confined

(* From fields that have no seams. *)
LEMMA ConfinedSync ==
  ASSUME set \in Settings, NEW s, NEW D, Confined(s, D)
  PROVE  Confined(SyncXToQ(s), D)
  <1>1. "x" \in Diagnostic /\ From["x"] \cap D = {}
    BY FromIs, NotSeamed DEF Confined
  <1>2. Confined(OverPads(s, "x"), D \ {"x"})
    BY <1>1, ConfinedOverPads
  <1>3. Confined(OverPads(s, "x"), D)
    BY <1>2, ConfinedWider DEF Confined
  <1> QED BY <1>3 DEF SyncXToQ

LEMMA ConfinedMixed ==
  ASSUME set \in Settings, NEW s, NEW D, Confined(s, D)
  PROVE  /\ Confined(IF Transported THEN SyncXToQ(Change(s, "q")) ELSE s, D)
         /\ Confined(IF Transported THEN SyncXToQ(ChangeIf(set.hyper, s, "q")) ELSE s, D)
  <1>1. Confined(ChangeIf(TRUE, s, "q"), D) /\ Confined(ChangeIf(set.hyper, s, "q"), D)
    BY ConfinedChange, SettingsAre, Names
  <1>2. Confined(Change(s, "q"), D)
    BY <1>1 DEF ChangeIf
  <1>3. Confined(SyncXToQ(Change(s, "q")), D) /\ Confined(SyncXToQ(ChangeIf(set.hyper, s, "q")), D)
    BY <1>1, <1>2, ConfinedSync
  <1> QED BY <1>3

(* THETA2 has the seams of THETA. *)
LEMMA ConfinedSetP2Etc ==
  ASSUME set \in Settings, NEW s, NEW D, Confined(s, D)
  PROVE  /\ Confined(SetP2Etc(s, FALSE), D)
         /\ Confined(SetP2Etc(s, TRUE), D \cup {"theta2"})
         /\ Isentropic \/ "theta" \notin D => Confined(SetP2Etc(s, TRUE), D \ {"theta2"})
  <1> DEFINE restored  == ChangeIf(HRaised, s, "h")
             p         == OverPads(restored, "p")
             pressures == OverPads(p, "dry")
             theta     == OverPads(pressures, "theta2")
  <1>0. {"p", "dry", "theta2"} \subseteq Diagnostic /\ "h" \in Prognostic /\ D \subseteq Seamed
    BY DEF Diagnostic, Prognostic, Confined
  <1>1. SetP2Etc(s, TRUE) = theta /\ SetP2Etc(s, FALSE) = pressures
    BY DEF SetP2Etc
  <1> HIDE DEF theta
  <1>2. /\ From["p"] \cap D = {} /\ From["dry"] \cap D = {}
        /\ Isentropic \/ "theta" \notin D => From["theta2"] \cap D = {}
    BY <1>0, FromIs, NotSeamed DEF From
  <1>3. Confined(restored, D)
    BY <1>0, ConfinedChange DEF HRaised, IsobaricP
  <1> HIDE DEF restored
  <1>4. Confined(p, D)
    <2>1. Confined(p, D \ {"p"})
      BY <1>0, <1>2, <1>3, ConfinedOverPads
    <2> HIDE DEF p
    <2> QED BY <1>0, <2>1, ConfinedWider
  <1> HIDE DEF p
  <1>5. Confined(pressures, D)
    <2>1. Confined(pressures, D \ {"dry"})
      BY <1>0, <1>2, <1>4, ConfinedOverPads
    <2> HIDE DEF pressures
    <2> QED BY <1>0, <2>1, ConfinedWider
  <1> HIDE DEF pressures
  <1>6. Confined(theta, D \cup {"theta2"})
    BY <1>0, <1>5, ConfinedOverPads DEF theta, Seamed
  <1>7. Isentropic \/ "theta" \notin D => Confined(theta, D \ {"theta2"})
    BY <1>0, <1>2, <1>5, ConfinedOverPads DEF theta
  <1> QED BY <1>1, <1>5, <1>6, <1>7

LEMMA ConfinedPgrad ==
  ASSUME set \in Settings, NEW s, NEW D, Confined(s, D), NEW b \in BOOLEAN,
         "theta" \notin D, "theta2" \notin D
  PROVE  Confined(StorePgradVars(s, b), D)
  <1> DEFINE r == OverPads(s, "pgrad_vars")
  <1>1. "pgrad_vars" \in Diagnostic /\ From["pgrad_vars"] \cap D = {}
    BY FromIs, NotSeamed DEF Confined, From, Seamed, Diagnostic
  <1>2. Confined(r, D)
    BY <1>1, ConfinedOverPads, ConfinedWider DEF Confined
  <1>3. StorePgradVars(s, b).seams = r.seams
    BY DEF StorePgradVars, OverPads, Calculated, Confined, Good, Condition
  <1> HIDE DEF r
  <1>4. Good(StorePgradVars(s, b))
    BY StorePgradVarsIs DEF Confined
  <1> QED BY <1>2, <1>3, <1>4 DEF Confined

LEMMA ConfinedCalcW ==
  ASSUME set \in Settings, NEW s, NEW D, Confined(s, D), NEW b \in BOOLEAN
  PROVE  Confined(CalcW(s, b), D \cup {"w3"})
  <1> DEFINE r == OverPads(s, "w3")
  <1>1. "w3" \in Diagnostic /\ "w3" \in Seamed
    BY DEF Diagnostic, Seamed
  <1>2. Confined(r, D \cup {"w3"})
    BY <1>1, ConfinedOverPads
  <1>3. CalcW(s, b).seams = r.seams
    BY DEF CalcW, OverPads, Calculated, Confined, Good, Condition
  <1> HIDE DEF r
  <1>4. Good(CalcW(s, b))
    BY CalcWIs DEF Confined
  <1> QED BY <1>2, <1>3, <1>4 DEF Confined

LEMMA ConfinedDiags ==
  ASSUME set \in Settings, NEW s, NEW D, Confined(s, D)
  PROVE  Confined(CalcHeating(StoreDiag(s)), D \ {"heat3"})
  <1> DEFINE flow == Exchanged(s, "flow")
             ri2  == Exchanged(flow, "ri2")
             coef == Exchanged(ri2, "coef")
             diag == StoreDiag(s)
  <1>0. {"flow", "ri2", "coef", "heat3"} \subseteq Diagnostic /\ D \subseteq Seamed
    BY DEF Diagnostic, Confined
  <1>1. diag = IF Turbulent THEN coef ELSE ri2
    BY DEF StoreDiag
  <1> HIDE DEF diag
  <1>2. Confined(flow, D)
    <2>1. Confined(flow, D \ {"flow"})
      BY <1>0, ConfinedExchanged
    <2> HIDE DEF flow
    <2> QED BY <1>0, <2>1, ConfinedWider
  <1> HIDE DEF flow
  <1>3. Confined(ri2, D)
    <2>1. Confined(ri2, D \ {"ri2"})
      BY <1>0, <1>2, ConfinedExchanged
    <2> HIDE DEF ri2
    <2> QED BY <1>0, <2>1, ConfinedWider
  <1> HIDE DEF ri2
  <1>4. Confined(coef, D)
    <2>1. Confined(coef, D \ {"coef"})
      BY <1>0, <1>3, ConfinedExchanged
    <2> HIDE DEF coef
    <2> QED BY <1>0, <2>1, ConfinedWider
  <1> HIDE DEF coef
  <1>5. Confined(diag, D)
    BY <1>1, <1>3, <1>4
  <1>6. Confined(Exchanged(diag, "heat3"), D \ {"heat3"})
    BY <1>0, <1>5, ConfinedExchanged
  <1> QED BY <1>6 DEF CalcHeating, diag

(* A file has no seams, and W3 only may get one when it is read. *)
LEMMA ConfinedRestart ==
  ASSUME set \in Settings, NEW f, f.finished \in Int
  PROVE  SyncDiagsOnly(f).seams \subseteq {"w3"}
  <1> DEFINE b    == [d \in Diagnostic |-> Roots[d]]
             read == Record(b, {}, FALSE, f.finished)
             sync == SyncXToQ(read)
             set2 == SetP2Etc(sync, TRUE)
             z2   == StorePgradVars(set2, FALSE)
             heat == CalcHeating(StoreDiag(z2))
             w    == CalcW(heat, FALSE)
             kept == f.behind["pgrad_vars"] = {} /\ ~HRaised
             r    == [w EXCEPT !.z2_kept = kept]
  <1>1. SyncDiagsOnly(f) = r
    BY DEF SyncDiagsOnly, Record
  <1>2. Confined(read, {})
    <2>1. b \in [Diagnostic -> SUBSET Prognostic] /\ \A d \in Diagnostic : b[d] = Roots[d]
      BY RootsBound
    <2> HIDE DEF b
    <2>2. read \in Condition
      BY <2>1, ConditionIs
    <2>3. read.behind = b /\ read.seams = {}
      BY DEF Record
    <2> HIDE DEF read
    <2> QED BY <2>1, <2>2, <2>3 DEF Good, Confined
  <1> HIDE DEF read, b
  <1>3. Confined(sync, {})
    BY <1>2, ConfinedSync
  <1> HIDE DEF sync
  <1>4. Confined(set2, {})
    <2>1. Confined(set2, {} \ {"theta2"})
      BY <1>3, ConfinedSetP2Etc
    <2> QED BY <2>1
  <1> HIDE DEF set2
  <1>5. Confined(z2, {})
    <2> DEFINE none == {}
    <2>1. Confined(set2, none) /\ "theta" \notin none /\ "theta2" \notin none
      BY <1>4
    <2> HIDE DEF none
    <2>2. Confined(StorePgradVars(set2, FALSE), none)
      BY <2>1, ConfinedPgrad
    <2> QED BY <2>2 DEF none
  <1> HIDE DEF z2
  <1>6. Confined(heat, {})
    <2>1. Confined(heat, {} \ {"heat3"})
      BY <1>5, ConfinedDiags
    <2> QED BY <2>1
  <1> HIDE DEF heat
  <1>7. Confined(w, {"w3"})
    <2>1. Confined(w, {} \cup {"w3"})
      BY <1>6, ConfinedCalcW
    <2> QED BY <2>1
  <1> HIDE DEF w, kept
  <1>8. r.seams = w.seams
    BY <1>7 DEF Confined, Good, Condition
  <1> QED BY <1>1, <1>7, <1>8 DEF Confined

(* The calls at which THETA can have a seam, from the heating to the advection. *)
BeforeAdvection ==
  {"calc_w", "source_sink_turb", "extract", "uv_core", "scalar_vertical_subgrid",
   "scalar_horizontal_subgrid", "advection"}

SeamsAt(c) ==
  {"w3"} \cup (IF c = "top" THEN {} ELSE {"heat3"})
         \cup (IF c \in BeforeAdvection /\ ~Isentropic THEN {"theta"} ELSE {})
         \cup (IF c \in {"advection", "filter", "pgrad_vars"} /\ ~Isentropic THEN {"theta2"} ELSE {})

(* At every call the seams are among those that call may find. *)
SeamInv == data.seams \subseteq SeamsAt(call)

(* What a step has to show, and may use. *)
LEMMA SeamsKept ==
  ASSUME set' = set, NEW D, Confined(data', D), D \subseteq SeamsAt(call')
  PROVE  SeamInv'
  <1>1. SeamsAt(call)' = SeamsAt(call')
    BY DEF SeamsAt, Isentropic
  <1> QED BY <1>1 DEF SeamInv, Confined

LEMMA SeamsNow ==
  ASSUME StepInv, SeamInv
  PROVE  set \in Settings /\ Confined(data, SeamsAt(call))
  BY DEF StepInv, FieldsAt, SeamInv, SeamsAt, Seamed, Confined

(* A change of one field, or none. *)
LEMMA SeamsChanged ==
  ASSUME StepInv, SeamInv, set' = set, NEW p \in Prognostic, NEW c \in BOOLEAN,
         data' = ChangeIf(c, data, p), SeamsAt(call) \subseteq SeamsAt(call')
  PROVE  SeamInv'
  <1>1. Confined(data', SeamsAt(call))
    BY SeamsNow, ConfinedChange
  <1> QED BY <1>1, SeamsKept

LEMMA SaveSeams == ASSUME StepInv, SeamInv, SaveFields \/ Extract PROVE SeamInv'
  <1> DEFINE q == ChangeIf(Species, data, "q")
             D == SeamsAt(call)
  <1>1. /\ set' = set /\ SeamsAt(call) \subseteq SeamsAt(call')
        /\ data' = data \/ data' = SyncXToQ(q)
    BY DEF SaveFields, Extract, Call, SeamsAt, BeforeAdvection
  <1>2. set \in Settings /\ Confined(data, D)
    BY SeamsNow
  <1> HIDE DEF D
  <1>3. Confined(q, D)
    BY <1>2, ConfinedChange, SettingsAre, Names
  <1> HIDE DEF q
  <1>4. Confined(data', D)
    BY <1>1, <1>2, <1>3, ConfinedSync
  <1> QED BY <1>1, <1>4, SeamsKept DEF D

LEMMA SourceSinkSeams == ASSUME StepInv, SeamInv, SourceSink PROVE SeamInv'
  <1> DEFINE relaxed == ChangeIf(set.fpara, data, "fpara")
             clouds(active) == IF set.microphysics = "ACTIVE" THEN CloudMicrophysics(relaxed, active)
                                                              ELSE relaxed
             heated(active) == Change(clouds(active), "theta")
             seamed(active) == [heated(active) EXCEPT !.seams = @ \cup {"theta"}]
             D == {"w3", "heat3"}
  <1>1. PICK active \in BOOLEAN :
           \/ data' = clouds(active)
           \/ ~Isentropic /\ data' = heated(active)
           \/ ~Isentropic /\ data' = seamed(active)
    BY DEF SourceSink
  <1>2. set \in Settings /\ Confined(data, D) /\ set' = set /\ call' = "calc_w"
    <2>1. call = "top" /\ set' = set /\ call' = "calc_w"
      BY DEF SourceSink, Call
    <2>2. SeamsAt(call) \subseteq D /\ D \subseteq Seamed
      BY <2>1 DEF SeamsAt, BeforeAdvection, Seamed
    <2> QED BY <2>1, <2>2, SeamsNow, ConfinedWider
  <1>3. Confined(relaxed, D)
    BY <1>2, ConfinedChange, SettingsAre, Names
  <1> HIDE DEF relaxed
  <1>4. Confined(clouds(active), D)
    <2> DEFINE moved == Change(relaxed, "q")
               seam  == [moved EXCEPT !.seams = @ \cup {"heat3"}]
               both  == IF active THEN seam ELSE moved
    <2>1. Confined(moved, D)
      <3>1. Confined(moved, D \ {"q"})
        BY <1>2, <1>3, ConfinedChange, Names
      <3> QED BY <1>2, <3>1, ConfinedWider DEF Confined
    <2> HIDE DEF moved
    <2>2. Good(seam) /\ seam.seams = moved.seams \cup {"heat3"}
      BY <2>1, SeamIs DEF Confined, Diagnostic
    <2> HIDE DEF seam
    <2>3. Confined(both, D)
      BY <2>1, <2>2 DEF Confined
    <2>4. CloudMicrophysics(relaxed, active) = SyncXToQ(both)
      BY DEF CloudMicrophysics, both, seam, moved
    <2> HIDE DEF both
    <2>5. Confined(CloudMicrophysics(relaxed, active), D)
      BY <1>2, <2>3, <2>4, ConfinedSync
    <2> QED BY <1>3, <2>5
  <1> HIDE DEF clouds
  <1>5. Confined(heated(active), D)
    <2>1. Confined(heated(active), D \ {"theta"})
      BY <1>2, <1>4, ConfinedChange, Names
    <2> QED BY <1>2, <2>1, ConfinedWider DEF Confined
  <1> HIDE DEF heated
  <1>6. Confined(seamed(active), D \cup {"theta"})
    <2>1. Good(seamed(active)) /\ seamed(active).seams = heated(active).seams \cup {"theta"}
      BY <1>5, SeamIs DEF Confined, Prognostic
    <2> HIDE DEF seamed
    <2> QED BY <1>5, <2>1 DEF Confined, Seamed
  <1> HIDE DEF seamed
  <1>7. /\ D \subseteq SeamsAt(call')
        /\ ~Isentropic => D \cup {"theta"} \subseteq SeamsAt(call')
    BY <1>2 DEF SeamsAt, BeforeAdvection
  <1> HIDE DEF D
  <1> QED BY <1>1, <1>2, <1>4, <1>5, <1>6, <1>7, SeamsKept

LEMMA CalcWSeams == ASSUME StepInv, SeamInv, CalcWStep PROVE SeamInv'
  <1> DEFINE D == SeamsAt(call)
  <1>1. /\ set' = set /\ D \cup {"w3"} \subseteq SeamsAt(call') /\ data' = CalcW(data, TRUE)
    BY DEF CalcWStep, Call, SeamsAt, BeforeAdvection
  <1>2. set \in Settings /\ Confined(data, D)
    BY SeamsNow
  <1> HIDE DEF D
  <1>3. Confined(data', D \cup {"w3"})
    BY <1>1, <1>2, ConfinedCalcW, Names
  <1> QED BY <1>1, <1>3, SeamsKept

(* Both schemes of the vertical, and the adjustment, change THETA before *)
(* anything is calculated from it.                                       *)
LEMMA VerticalSeams == ASSUME StepInv, SeamInv, ScalarVerticalSubgrid PROVE SeamInv'
  <1> DEFINE D == SeamsAt(call)
             T == D \ {"theta"}
  <1>1. /\ set' = set /\ D \subseteq SeamsAt(call')
        /\ "theta2" \notin D /\ (Isentropic => "theta" \notin D)
    BY DEF ScalarVerticalSubgrid, Call, SeamsAt, BeforeAdvection
  <1>2. set \in Settings /\ Confined(data, D) /\ D \subseteq Seamed
    BY SeamsNow DEF Confined
  <1>3. Turbulent => IsobaricP \/ Isentropic
    BY <1>2, SettingsAssumption DEF Settings, Turbulent, IsobaricP, Isentropic
  <1> HIDE DEF D
  <1>4. T \subseteq D /\ T \subseteq Seamed /\ "theta" \notin T /\ T \ {"theta2"} = T
    BY <1>1, <1>2
  <1>5. CASE Turbulent /\ data' = VerticalDiffusion(data)
    <2> DEFINE theta  == ChangeIf(IsobaricP, data, "theta")
               mixed  == IF Transported THEN SyncXToQ(Change(theta, "q")) ELSE theta
               para   == ChangeIf(set.fpara, mixed, "fpara")
               scalar == SetP2Etc(para, TRUE)
    <2>1. Confined(theta, T)
      <3>1. CASE IsobaricP
        BY <1>2, <3>1, ConfinedChange, SettingsAre, Names
      <3>2. CASE Isentropic /\ ~IsobaricP
        <4>1. theta = data /\ T = D
          BY <1>1, <3>2 DEF ChangeIf
        <4> QED BY <1>2, <4>1
      <3> QED BY <1>3, <1>5, <3>1, <3>2
    <2> HIDE DEF theta, T
    <2>2. Confined(mixed, T)
      BY <1>2, <2>1, ConfinedMixed
    <2> HIDE DEF mixed
    <2>3. Confined(para, T)
      BY <1>2, <2>2, ConfinedChange, SettingsAre, Names
    <2> HIDE DEF para
    <2>4. Confined(scalar, T)
      BY <1>2, <1>4, <2>3, ConfinedSetP2Etc
    <2> HIDE DEF scalar
    <2>5. Confined(ChangeIf(TRUE, scalar, "nu_turb"), T)
      BY <1>2, <2>4, ConfinedChange, Names
    <2>6. data' = ChangeIf(TRUE, scalar, "nu_turb")
      BY <1>5 DEF VerticalDiffusion, ChangeIf, scalar, para, mixed, theta
    <2> QED BY <1>1, <1>4, <2>5, <2>6, SeamsKept
  <1>6. CASE data' = AdiabaticAdjustment(data)
    <2> DEFINE mixed == IF Transported THEN SyncXToQ(Change(data, "q")) ELSE data
               para  == ChangeIf(set.fpara, mixed, "fpara")
               theta == Change(para, "theta")
               set2  == SetP2Etc(theta, TRUE)
    <2>1. Confined(mixed, D)
      BY <1>2, ConfinedMixed
    <2> HIDE DEF mixed
    <2>2. Confined(para, D)
      BY <1>2, <2>1, ConfinedChange, SettingsAre, Names
    <2> HIDE DEF para
    <2>3. Confined(theta, T)
      BY <1>2, <2>2, ConfinedChange, Names
    <2> HIDE DEF theta, T
    <2>4. Confined(set2, T)
      BY <1>2, <1>4, <2>3, ConfinedSetP2Etc
    <2> HIDE DEF set2
    <2>5. Confined(StorePgradVars(set2, FALSE), T)
      <3>1. "theta" \notin T /\ "theta2" \notin T
        BY <1>4
      <3> QED BY <1>2, <2>4, <3>1, ConfinedPgrad, Names
    <2>6. data' = StorePgradVars(set2, FALSE)
      BY <1>6 DEF AdiabaticAdjustment, set2, theta, para, mixed
    <2> QED BY <1>1, <1>4, <2>5, <2>6, SeamsKept
  <1>7. CASE data' = data
    BY <1>1, <1>2, <1>7, SeamsKept
  <1> QED BY <1>5, <1>6, <1>7 DEF ScalarVerticalSubgrid

(* Hyperviscosity calculates THETA2 before THETA is changed. *)
LEMMA HorizontalSeams == ASSUME StepInv, SeamInv, ScalarHorizontalSubgrid PROVE SeamInv'
  <1> DEFINE D == SeamsAt(call)
             E == SeamsAt(call')
             s == IF set.turbulence = "on" THEN HorizontalDiffusion(data) ELSE data
  <1>1. /\ set' = set /\ D \subseteq E /\ E \subseteq Seamed /\ data' = Hyperviscosity(s)
        /\ "theta2" \notin D
        /\ Isentropic => "theta" \notin D
        /\ ~Isentropic => "theta2" \in E
    BY DEF ScalarHorizontalSubgrid, Call, SeamsAt, BeforeAdvection, Seamed
  <1>2. set \in Settings /\ Confined(data, D)
    BY SeamsNow
  <1> HIDE DEF D
  <1>3. Confined(HorizontalDiffusion(data), D)
    <2> DEFINE theta  == ChangeIf(~Isentropic, data, "theta")
               mixed  == IF Transported THEN SyncXToQ(Change(theta, "q")) ELSE theta
               scalar == SetP2Etc(mixed, TRUE)
               T      == D \ {"theta"}
    <2>0. T \subseteq D /\ "theta" \notin T /\ T \ {"theta2"} = T /\ D \subseteq Seamed
      BY <1>1, <1>2 DEF Confined
    <2>1. Confined(theta, T)
      <3>1. CASE ~Isentropic
        BY <1>2, <3>1, ConfinedChange, SettingsAre, Names
      <3>2. CASE Isentropic
        <4>1. theta = data /\ T = D
          BY <1>1, <3>2 DEF ChangeIf
        <4> QED BY <1>2, <4>1
      <3> QED BY <3>1, <3>2
    <2> HIDE DEF theta, T
    <2>2. Confined(mixed, T)
      BY <1>2, <2>1, ConfinedMixed
    <2> HIDE DEF mixed
    <2>3. Confined(scalar, T)
      BY <1>2, <2>0, <2>2, ConfinedSetP2Etc
    <2> HIDE DEF scalar
    <2>4. Confined(ChangeIf(TRUE, scalar, "nu_turb"), T)
      BY <1>2, <2>3, ConfinedChange, Names
    <2>5. HorizontalDiffusion(data) = ChangeIf(TRUE, scalar, "nu_turb")
      BY DEF HorizontalDiffusion, ChangeIf, scalar, mixed, theta
    <2> QED BY <2>0, <2>4, <2>5, ConfinedWider
  <1>4. Confined(s, D)
    BY <1>2, <1>3
  <1> HIDE DEF s, E
  <1>5. Confined(Hyperviscosity(s), E)
    <2> DEFINE mixed == IF Transported THEN SyncXToQ(ChangeIf(set.hyper, s, "q")) ELSE s
               h     == ChangeIf(set.hyper /\ ~IsobaricP, mixed, "h")
               thick == SetP2Etc(h, TRUE)
               theta == ChangeIf(set.hyper /\ ~Isentropic, thick, "theta")
               nu    == ChangeIf(set.hyper /\ Turbulent, theta, "nu_turb")
               para  == ChangeIf(set.hyper /\ set.fpara, nu, "fpara")
    <2>1. Confined(mixed, D)
      BY <1>2, <1>4, ConfinedMixed
    <2> HIDE DEF mixed
    <2>2. Confined(h, D)
      BY <1>2, <2>1, ConfinedChange, SettingsAre, Names
    <2> HIDE DEF h
    <2>3. Confined(thick, E)
      <3>1. Confined(thick, D \cup {"theta2"})
        BY <1>2, <2>2, ConfinedSetP2Etc
      <3>2. Isentropic => Confined(thick, D \ {"theta2"})
        BY <1>2, <2>2, ConfinedSetP2Etc
      <3> HIDE DEF thick
      <3>3. CASE Isentropic
        BY <1>1, <3>2, <3>3, ConfinedWider
      <3>4. CASE ~Isentropic
        BY <1>1, <3>1, <3>4, ConfinedWider
      <3> QED BY <3>3, <3>4
    <2> HIDE DEF thick
    <2>4. Confined(theta, E)
      BY <1>2, <2>3, ConfinedChange, SettingsAre, Names
    <2> HIDE DEF theta
    <2>5. Confined(nu, E)
      BY <1>2, <2>4, ConfinedChange, SettingsAre, Names
    <2> HIDE DEF nu
    <2>6. Confined(para, E)
      BY <1>2, <2>5, ConfinedChange, SettingsAre, Names
    <2>7. para = Hyperviscosity(s)
      BY DEF Hyperviscosity, para, nu, theta, thick, h, mixed
    <2> QED BY <2>6, <2>7
  <1> QED BY <1>1, <1>5, SeamsKept DEF E

LEMMA AdvectionSeams == ASSUME StepInv, SeamInv, Advection PROVE SeamInv'
  <1> DEFINE D == SeamsAt(call)
             T == D \ {"theta"}
             theta == ChangeIf(~Isentropic, data, "theta")
             para  == ChangeIf(set.fpara, theta, "fpara")
             q     == ChangeIf(Transported, para, "q")
             nu    == ChangeIf(Turbulent, q, "nu_turb")
             thick == ChangeIf(~IsobaricP, nu, "h")
             both  == IF Transported THEN SyncXToQ(thick) ELSE thick
  <1>1. /\ set' = set /\ T \subseteq SeamsAt(call') /\ data' = SetP2Etc(both, FALSE)
        /\ Isentropic => "theta" \notin D
    BY DEF Advection, Call, SeamsAt, BeforeAdvection
  <1>2. set \in Settings /\ Confined(data, D)
    BY SeamsNow
  <1> HIDE DEF D
  <1>3. Confined(theta, T)
    <2>1. CASE ~Isentropic
      BY <1>2, <2>1, ConfinedChange, SettingsAre, Names
    <2>2. CASE Isentropic
      <3>1. theta = data /\ T = D
        BY <1>1, <2>2 DEF ChangeIf
      <3> QED BY <1>2, <3>1
    <2> QED BY <2>1, <2>2
  <1> HIDE DEF theta, T
  <1>4. Confined(para, T)
    BY <1>2, <1>3, ConfinedChange, SettingsAre, Names
  <1> HIDE DEF para
  <1>5. Confined(q, T)
    BY <1>2, <1>4, ConfinedChange, SettingsAre, Names
  <1> HIDE DEF q
  <1>6. Confined(nu, T)
    BY <1>2, <1>5, ConfinedChange, SettingsAre, Names
  <1> HIDE DEF nu
  <1>7. Confined(thick, T)
    BY <1>2, <1>6, ConfinedChange, SettingsAre, Names
  <1> HIDE DEF thick
  <1>8. Confined(both, T)
    BY <1>2, <1>7, ConfinedSync
  <1> HIDE DEF both
  <1>9. Confined(data', T)
    BY <1>1, <1>2, <1>8, ConfinedSetP2Etc
  <1> QED BY <1>1, <1>9, SeamsKept

LEMMA FilterSeams == ASSUME StepInv, SeamInv, Filter PROVE SeamInv'
  <1> DEFINE D == SeamsAt(call)
             thick == ChangeIf(Touched /\ ~IsobaricP, data, "h")
             theta == ChangeIf(Touched /\ ~Isentropic, thick, "theta")
             para  == ChangeIf(Touched /\ set.fpara, theta, "fpara")
             nu    == ChangeIf(Touched /\ Turbulent, para, "nu_turb")
  <1>1. /\ set' = set /\ D \subseteq SeamsAt(call')
        /\ data' = ChangeIf(Touched /\ Species, nu, "q")
    BY DEF Filter, Call, SeamsAt, BeforeAdvection
  <1>2. set \in Settings /\ Confined(data, D)
    BY SeamsNow
  <1> HIDE DEF D
  <1>3. Confined(thick, D)
    BY <1>2, ConfinedChange, SettingsAre, Names
  <1> HIDE DEF thick
  <1>4. Confined(theta, D)
    BY <1>2, <1>3, ConfinedChange, SettingsAre, Names
  <1> HIDE DEF theta
  <1>5. Confined(para, D)
    BY <1>2, <1>4, ConfinedChange, SettingsAre, Names
  <1> HIDE DEF para
  <1>6. Confined(nu, D)
    BY <1>2, <1>5, ConfinedChange, SettingsAre, Names
  <1> HIDE DEF nu
  <1>7. Confined(data', D)
    BY <1>1, <1>2, <1>6, ConfinedChange, SettingsAre, Names
  <1> QED BY <1>1, <1>7, SeamsKept

LEMMA PgradSeams == ASSUME StepInv, SeamInv, PgradVars PROVE SeamInv'
  <1> DEFINE D == SeamsAt(call)
             T == D \ {"theta2"}
             set2 == SetP2Etc(data, TRUE)
  <1>1. /\ set' = set /\ T \subseteq SeamsAt(call') /\ data' = StorePgradVars(set2, TRUE)
        /\ "theta" \notin D
    BY DEF PgradVars, Call, SeamsAt, BeforeAdvection
  <1>2. set \in Settings /\ Confined(data, D)
    BY SeamsNow
  <1> HIDE DEF D
  <1>3. Confined(set2, T)
    BY <1>1, <1>2, ConfinedSetP2Etc
  <1> HIDE DEF set2
  <1>4. "theta" \notin T /\ "theta2" \notin T
    BY <1>1
  <1> HIDE DEF T
  <1>5. Confined(data', T)
    BY <1>1, <1>2, <1>3, <1>4, ConfinedPgrad, Names
  <1> QED BY <1>1, <1>5, SeamsKept

LEMMA DiagsSeams == ASSUME StepInv, SeamInv, UpdateDiags PROVE SeamInv'
  <1> DEFINE D == SeamsAt(call)
             T == D \ {"heat3"}
  <1>1. set' = set /\ T \subseteq SeamsAt(call') /\ data' = CalcHeating(StoreDiag(data))
    BY DEF UpdateDiags, Call, SeamsAt, BeforeAdvection
  <1>2. set \in Settings /\ Confined(data, D)
    BY SeamsNow
  <1> HIDE DEF D
  <1>3. Confined(data', T)
    BY <1>1, <1>2, ConfinedDiags
  <1> QED BY <1>1, <1>3, SeamsKept

LEMMA SeamStep == StepInv /\ SeamInv /\ [NextStep]_step_vars => SeamInv'
  <1> SUFFICES ASSUME StepInv, SeamInv, [NextStep]_step_vars PROVE SeamInv'
    OBVIOUS
  <1>0. set \in Settings /\ SettingsAssumption
    BY SettingsAssumption DEF StepInv
  <1>1. CASE UNCHANGED step_vars
    <2>1. set' = set /\ call' = call /\ data' = data
      BY <1>1 DEF step_vars
    <2> QED BY <2>1 DEF SeamInv, SeamsAt, Isentropic
  <1>2. CASE RestartFields
    <2>1. data'.seams \subseteq {"w3"} /\ call' = "top"
      BY <1>0, <1>2, ConfinedRestart DEF RestartFields, StepInv, FileIs
    <2> QED BY <2>1 DEF SeamInv, SeamsAt
  <1>3. CASE SourceSinkTurb
    <2>1. /\ data' = ChangeIf(Turbulent, data, "nu_turb") /\ set' = set
          /\ SeamsAt(call) \subseteq SeamsAt(call')
      BY <1>3 DEF SourceSinkTurb, Call, SeamsAt, BeforeAdvection
    <2> QED BY <1>0, <2>1, SeamsChanged, SettingsAre, Names
  <1>4. CASE UvTendencies
    <2>1. data' = data /\ set' = set /\ SeamsAt(call) \subseteq SeamsAt(call')
      BY <1>4 DEF UvTendencies, Call, SeamsAt, BeforeAdvection
    <2> QED BY <2>1, SeamsNow, SeamsKept
  <1>5. CASE MarchWinds \/ SmoothWinds \/ AdvanceTime
    <2>1. /\ set' = set /\ SeamsAt(call) \subseteq SeamsAt(call')
          /\ \/ data' = ChangeIf(TRUE, data, "uv")
             \/ data' = ChangeIf(TRUE, data, "model_time")
             \/ data' = ChangeIf(Turbulent \/ set.hyper \/ set.filter, data, "uv")
      BY <1>5 DEF MarchWinds, SmoothWinds, AdvanceTime, ChangeIf, Call, SeamsAt, BeforeAdvection
    <2> QED BY <1>0, <2>1, SeamsChanged, SettingsAre, Names
  <1> QED BY <1>1, <1>2, <1>3, <1>4, <1>5, SaveSeams, SourceSinkSeams, CalcWSeams, VerticalSeams,
             HorizontalSeams, AdvectionSeams, FilterSeams, PgradSeams, DiagsSeams DEF NextStep

LEMMA InitSeams == InitStep => SeamInv
  <1> SUFFICES ASSUME InitStep PROVE SeamInv
    OBVIOUS
  <1>1. set \in Settings /\ call = "top" /\ data = SyncDiagsOnly(FirstFile)
    BY DEF InitStep
  <1>2. FirstFile.finished \in Int
    BY DEF FirstFile
  <1>3. data.seams \subseteq {"w3"}
    BY <1>1, <1>2, ConfinedRestart
  <1> QED BY <1>1, <1>3 DEF SeamInv, SeamsAt

LEMMA InvSeams == StepInv /\ SeamInv => SeamsOfCloudsOnly
  <1> SUFFICES ASSUME StepInv, SeamInv PROVE SeamsOfCloudsOnly
    OBVIOUS
  <1>1. set.microphysics # "ACTIVE" => NoSeamRead
    BY DEF StepInv, FieldsAt, NoSeamRead
  <1>2. ReadAround \cap data.seams \subseteq {"w3", "theta"}
    <2>1. "heat3" \notin ReadAround
      BY DEF ReadAround
    <2>2. "theta2" \in ReadAround => call = "uv_pgrad"
      BY DEF ReadAround
    <2>3. call = "uv_pgrad" => "theta2" \notin data.seams
      BY DEF SeamInv, SeamsAt
    <2>4. data.seams \subseteq {"w3", "heat3", "theta", "theta2"}
      BY DEF SeamInv, SeamsAt
    <2> QED BY <2>1, <2>2, <2>3, <2>4
  <1>3. call = "top" => data.seams \subseteq {"w3"}
    BY DEF SeamInv, SeamsAt, BeforeAdvection
  <1> QED BY <1>1, <1>2, <1>3 DEF SeamsOfCloudsOnly

(* Without condensing clouds no call reads across a seam; with them, only  *)
(* those of W3 and THETA are read, and none but W3's outlives a timestep.  *)
THEOREM NoSeams == StepSpec => []SeamsOfCloudsOnly
  <1>1. StepSpec => []SeamInv
    BY InitSeams, SeamStep, StepInvariance, PTL DEF StepSpec
  <1> QED BY <1>1, StepInvariance, InvSeams, PTL

LEMMA InvDzdt == StepInv => DzdtFinishedOnce
  BY DEF StepInv, FieldsAt, FileIs, DzdtFinishedOnce, WithSecondPart

(* Whoever reads DZDT2 finds its second part added once, a save finds it not *)
(* yet added.                                                                *)
THEOREM DzdtOnce == StepSpec => []DzdtFinishedOnce
  BY StepInvariance, InvDzdt, PTL

LEMMA InvZ2 == StepInv => Z2DifferencesJoinWithoutAdjustment
  BY DEF StepInv, FieldsAt, Z2DifferencesJoinWithoutAdjustment

(* The differences of Z2 join from step to step, over saves and restarts,    *)
(* where no column is adjusted, no species are on and H is not at its floor. *)
THEOREM Z2Joins == StepSpec => []Z2DifferencesJoinWithoutAdjustment
  BY StepInvariance, InvZ2, PTL

LEMMA InvFrame == StepInv => FrameOfOneTime
  <1> SUFFICES ASSUME StepInv, call = "extract", NEW d \in Diagnostic
               PROVE  data.behind[d] \cap {"uv", "h", "model_time"} = {}
    BY DEF FrameOfOneTime
  <1>1. data.behind[d] \subseteq {"fpara", "q", "theta", "nu_turb"}
    BY DEF StepInv, FieldsAt, BehindAt, Bounded
  <1> QED BY <1>1

(* The diagnostic variables in a frame go with its winds, its thickness and *)
(* its time.                                                                *)
THEOREM FramesOfOneTime == StepSpec => []FrameOfOneTime
  BY StepInvariance, InvFrame, PTL

=============================================================================

----------------------------- MODULE WindPlanes -----------------------------
(***************************************************************************)
(* The time planes of the winds u and v and of their tendencies: which     *)
(* slot of var.u.value and var.u.tendency each part of timestep() reads    *)
(* and writes (core/epic_timestep.c), how the slots are cycled, and what   *)
(* of them a restart file keeps (core/epic_funcs_io.c).                    *)
(*                                                                         *)
(* A plane of winds stands for the time it holds, a tendency for the terms *)
(* that were added to it.  What no step has set yet holds FLOAT_MAX.  Time *)
(* counts steps since the file written by initial.                         *)
(***************************************************************************)
EXTENDS Integers, Sequences

CONSTANTS
  Schemes,     \* the values of grid.uv_timestep_scheme
  MaxTime,     \* bound: steps since the first file
  MaxRestarts  \* bound: runs after the first

ASSUME SchemesAssumption == Schemes \subseteq {"AdamsBashforth", "Leapfrog"}
ASSUME BoundsAssumption  == MaxTime \in Nat /\ MaxRestarts \in Nat

Winds == {"u", "v"}
Slots == 0 .. 2

VARIABLES
  scheme,
  pc,        \* the call timestep() makes next, "top" between timesteps
  now,       \* var.model_time, in timesteps
  slot,      \* IT_ZERO, IT_MINUS1 and IT_MINUS2
  it,        \* grid.it_uv, grid.it_uv_dis and grid.it_uv_tend
  value,     \* var.u.value and var.v.value
  tendency,  \* var.u.tendency and var.v.tendency
  file,      \* the newest restart file
  time, last,  \* observed: steps made by each wind, what the last was made from
  restarts

planes == <<value, tendency>>
seen   == <<time, last>>
vars   == <<scheme, pc, now, slot, it, planes, file, seen, restarts>>

(* A plane of winds: its time and what went over it, "smoothed" for the      *)
(* implicit vertical diffusion, hyperviscosity and zonal filter.             *)
FLOAT_MAX == -1
Plane(t, filters) == [time |-> t, filters |-> filters]
FlagPlane         == Plane(FLOAT_MAX, {})

Terms(terms) == [kind |-> "sum", terms |-> terms]
FlagTerms    == [kind |-> "FLOAT_MAX", terms |-> {}]

Part(twelfths, tend) == [twelfths |-> twelfths, terms |-> tend.terms]

FirstSlots == [zero |-> 0, minus1 |-> 1, minus2 |-> 2]

(* timeplane_bookkeeping() *)
Bookkeeping(s, v) ==
  IF scheme = "AdamsBashforth"
    THEN [uv |-> 0, dis |-> 0, tend |-> s.zero]
    ELSE [uv |-> s.zero, tend |-> 0,
          dis |-> IF v["u"][s.minus1] = FlagPlane THEN s.zero ELSE s.minus1]

(* The file initial writes: winds as set up, every older plane flagged. *)
InitialFile ==
  [time |-> 0, zero |-> [w \in Winds |-> Plane(0, {"smoothed"})],
   older |-> [w \in Winds |-> [minus1 |-> FlagPlane, dminus1 |-> FlagTerms, dminus2 |-> FlagTerms]]]

(* var_read(): with Adams-Bashforth the winds are in slot 0 and the two older *)
(* tendencies are read, with leapfrog the winds of two times are.             *)
ReadValue(f) ==
  [w \in Winds |-> [i \in 0 .. 1 |-> IF i = 0 THEN f.zero[w] ELSE f.older[w].minus1]]
ReadTendency(f) ==
  [w \in Winds |-> [i \in Slots |-> CASE i = 0 -> Terms({})
                                      [] i = 1 -> f.older[w].dminus1
                                      [] i = 2 -> f.older[w].dminus2]]

Init ==
  /\ scheme \in Schemes
  /\ pc = "top" /\ now = 0 /\ restarts = 0
  /\ slot = FirstSlots
  /\ file = InitialFile
  /\ value = ReadValue(InitialFile)
  /\ tendency = ReadTendency(InitialFile)
  /\ it = Bookkeeping(FirstSlots, value)
  /\ time = [w \in Winds |-> 0]
  /\ last = [w \in Winds |-> [base |-> 0, parts |-> << >>]]

(* A mistake to test against: the slots are taken to be where a run starts. *)
Save_FixedSlots ==
  /\ pc = "top"
  /\ file' = [time |-> now,
              zero |-> [w \in Winds |-> value[w][it.uv]],
              older |-> [w \in Winds |->
                [minus1  |-> IF scheme = "Leapfrog" THEN value[w][1] ELSE FlagPlane,
                 dminus1 |-> IF scheme = "Leapfrog" THEN FlagTerms ELSE tendency[w][1],
                 dminus2 |-> IF scheme = "Leapfrog" THEN FlagTerms ELSE tendency[w][2]]]]
  /\ UNCHANGED <<scheme, pc, now, slot, it, planes, seen, restarts>>

(* var_write() of a save or a backup, between two timesteps. *)
Save ==
  /\ pc = "top"
  /\ file' = [time |-> now,
              zero |-> [w \in Winds |-> value[w][it.uv]],
              older |-> [w \in Winds |->
                [minus1  |-> IF scheme = "Leapfrog" THEN value[w][slot.minus1] ELSE FlagPlane,
                 dminus1 |-> IF scheme = "Leapfrog" THEN FlagTerms ELSE tendency[w][slot.minus1],
                 dminus2 |-> IF scheme = "Leapfrog" THEN FlagTerms ELSE tendency[w][slot.minus2]]]]
  /\ UNCHANGED <<scheme, pc, now, slot, it, planes, seen, restarts>>

(* The run ends, anywhere in a timestep, and another is started from the file: *)
(* make_arrays() sets the slots, var_read() fills them.                        *)
Restart ==
  /\ restarts < MaxRestarts
  /\ restarts' = restarts + 1
  /\ pc' = "top"
  /\ now' = file.time
  /\ slot' = FirstSlots
  /\ value' = ReadValue(file)
  /\ tendency' = ReadTendency(file)
  /\ it' = Bookkeeping(FirstSlots, value')
  /\ time' = [w \in Winds |-> file.time]
  /\ UNCHANGED <<scheme, file, last>>

At(here, there) == pc = here /\ pc' = there

(* memset() of the tendencies of the current time, then source_sink() and *)
(* calc_w(), which leave the winds alone.                                 *)
Clear ==
  /\ At("top", "core")
  /\ now < MaxTime
  /\ tendency' = [w \in Winds |-> [tendency[w] EXCEPT ![it.tend] = Terms({})]]
  /\ UNCHANGED <<scheme, now, slot, it, value, file, seen, restarts>>

(* A term is added to the current tendencies of both winds. *)
Added(tend, term) == [tend EXCEPT !.terms = @ \cup {term}]

AddTerm(term) ==
  /\ tendency' = [w \in Winds |->
       [tendency[w] EXCEPT ![it.tend] = Added(@, term)]]
  /\ UNCHANGED <<scheme, now, slot, it, value, file, seen, restarts>>

TimesIn(i) == {value[w][i].time : w \in Winds}

UvCore   == At("core", "sponge")    /\ AddTerm(<<"core", TimesIn(it.uv)>>)
UvSponge == At("sponge", "pgrad")   /\ AddTerm(<<"sponge", TimesIn(it.dis)>>)

(* advection() has taken the scalars to the next time before uv_pgrad(). *)
UvPgrad  == At("pgrad", "subgrid")  /\ AddTerm(<<"pgrad", {now + 1}>>)

UvHorizontalSubgrid == At("subgrid", "march_u") /\ AddTerm(<<"subgrid", TimesIn(it.dis)>>)

(* The parts the Adams-Bashforth step combines. *)
AbParts(w) ==
  LET t0 == tendency[w][slot.zero]
      t1 == tendency[w][slot.minus1]
      t2 == tendency[w][slot.minus2]
  IN  IF t2 = FlagTerms
        THEN IF t1 = FlagTerms THEN << Part(12, t0) >>
                        ELSE << Part(18, t0), Part(-6, t1) >>
        ELSE << Part(23, t0), Part(-16, t1), Part(5, t2) >>

Observe(w, base, parts) ==
  /\ time' = [time EXCEPT ![w] = @ + 1]
  /\ last' = [last EXCEPT ![w] = [base |-> base, parts |-> parts]]

(* adams_bashforth_step(): in place. *)
AdamsBashforthStep(w) ==
  /\ scheme = "AdamsBashforth"
  /\ value' = [value EXCEPT ![w][it.uv] = Plane(@.time + 1, {})]
  /\ Observe(w, value[w][it.uv].time, AbParts(w))

(* leapfrog_step(): the new winds take the place of the oldest. *)
LeapfrogStep(w) ==
  LET old     == value[w][slot.minus1]
      present == value[w][slot.zero]
      current == tendency[w][it.tend]
  IN  /\ scheme = "Leapfrog"
      /\ IF old = FlagPlane
           THEN /\ value' = [value EXCEPT ![w][slot.minus1] = Plane(present.time + 1, {})]
                /\ Observe(w, present.time, << Part(12, current) >>)
           ELSE /\ value' = [value EXCEPT ![w][slot.minus1] = Plane(old.time + 2, {}),
                                          ![w][slot.zero].filters = @ \cup {"asselin"}]
                /\ Observe(w, old.time, << Part(24, current) >>)

March(w) ==
  /\ AdamsBashforthStep(w) \/ LeapfrogStep(w)
  /\ UNCHANGED <<scheme, now, slot, it, tendency, file, restarts>>

MarchU == At("march_u", "march_v") /\ March("u")
MarchV == At("march_v", "cycle") /\ March("v")

(* A mistake to test against: the three-way swap without its third variable. *)
Cycled_SwapLost ==
  IF scheme = "AdamsBashforth"
    THEN [zero |-> slot.minus1, minus1 |-> slot.zero, minus2 |-> slot.minus1]
    ELSE [slot EXCEPT !.zero = slot.minus1, !.minus1 = slot.zero]

(* The slots are cycled backwards, then timeplane_bookkeeping(). *)
Cycled ==
  IF scheme = "AdamsBashforth"
    THEN [zero |-> slot.minus2, minus1 |-> slot.zero, minus2 |-> slot.minus1]
    ELSE [slot EXCEPT !.zero = slot.minus1, !.minus1 = slot.zero]

Cycle ==
  /\ At("cycle", "smooth")
  /\ slot' = Cycled
  /\ it' = Bookkeeping(Cycled, value)
  /\ UNCHANGED <<scheme, now, planes, file, seen, restarts>>

(* A mistake to test against: the lagged plane is smoothed. *)
Smooth_Lagged ==
  /\ At("smooth", "top")
  /\ value' = [w \in Winds |-> [value[w] EXCEPT ![it.dis].filters = @ \cup {"smoothed"}]]
  /\ now' = now + 1
  /\ UNCHANGED <<scheme, slot, it, tendency, file, seen, restarts>>

(* uv_vertical_subgrid(), uv_hyperviscosity() and zonal_filter() go over the *)
(* new winds; the model time is advanced.                                    *)
Smooth ==
  /\ At("smooth", "top")
  /\ value' = [w \in Winds |-> [value[w] EXCEPT ![it.uv].filters = @ \cup {"smoothed"}]]
  /\ now' = now + 1
  /\ UNCHANGED <<scheme, slot, it, tendency, file, seen, restarts>>

Next ==
  \/ Save \/ Restart \/ Clear \/ UvCore \/ UvSponge \/ UvPgrad
  \/ UvHorizontalSubgrid \/ MarchU \/ MarchV \/ Cycle \/ Smooth

Spec == Init /\ [][Next]_vars

-----------------------------------------------------------------------------

Stages == {"top", "core", "sponge", "pgrad", "subgrid", "march_u", "march_v", "cycle", "smooth"}

(* Every variable has its type: the slots are a permutation, planes and *)
(* tendencies are what the constructors make.                           *)
PlaneType == [time : Nat, filters : SUBSET {"smoothed", "asselin"}] \cup {FlagPlane}
IsTend(t) == t = FlagTerms \/ (t.kind = "sum" /\ \A e \in t.terms : e[2] \subseteq Nat)

TypeOK ==
  /\ scheme \in Schemes
  /\ pc \in Stages
  /\ now \in 0 .. MaxTime /\ restarts \in 0 .. MaxRestarts
  /\ {slot.zero, slot.minus1, slot.minus2} = Slots
  /\ {it.uv, it.dis} \subseteq 0 .. 1 /\ it.tend \in Slots
  /\ value \in [Winds -> [0 .. 1 -> PlaneType]]
  /\ \A w \in Winds, i \in Slots : IsTend(tendency[w][i])
  /\ time \in [Winds -> Nat]

(* The winds a timestep starts from were smoothed after they were marched,   *)
(* and with leapfrog the older winds its dissipation is computed from, and   *)
(* the leap starts at, have been through the Asselin filter, except in the   *)
(* two steps at the start that have none.                                    *)
SmoothedAndFiltered ==
  pc = "core" => \A w \in Winds :
    /\ "smoothed" \in value[w][it.uv].filters
    /\ scheme = "Leapfrog" /\ now > 1 => value[w][it.dis].filters = {"smoothed", "asselin"}

(* The slots, the flags and the restart files together do what the schemes   *)
(* promise with a full history: whenever and wherever a run is stopped and   *)
(* started again, each step of each wind is made from the tendencies and     *)
(* from the winds of the steps it should be made from.                       *)
History == INSTANCE WindHistory
HistoryKept == History!Spec

=============================================================================

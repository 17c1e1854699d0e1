------------------------------ MODULE Timestep ------------------------------
(***************************************************************************)
(* The order of work inside timestep() (core/epic_timestep.c): which of    *)
(* the calls it makes changes a prognostic variable, which recalculates a  *)
(* diagnostic one and from what, and which exchanges the pads (the rows    *)
(* and columns of neighbouring subgrids kept around a subgrid, periodic    *)
(* images in a serial run).                                                *)
(*                                                                         *)
(* Values are left out.  What is kept of a field is whether it is behind,  *)
(* that is, which prognostic variables have changed since it was           *)
(* calculated or since something it was calculated from was, and whether   *)
(* it has a seam, that is, pads that differ from what their owner holds.   *)
(* The winds' time planes are in module WindPlanes; TimestepProofs proves  *)
(* about both, so no name here is one of that module.                      *)
(***************************************************************************)
EXTENDS Naturals

CONSTANTS
  Coordinates,   \* grid.coord_type
  Turbulences,   \* grid.turbulence_scheme
  Microphysics,  \* grid.cloud_microphysics, "OFF" for no species
  Switches       \* values of the on-off settings: fpara, hyperviscosity, filter, floor

ASSUME SettingsAssumption ==
  /\ Coordinates \subseteq {"isobaric", "isentropic", "hybrid"}
  /\ Turbulences \subseteq {"off", "on_vertical_only", "on"}
  /\ Microphysics \subseteq {"OFF", "STEADY", "PASSIVE", "ACTIVE"}
  /\ Switches \subseteq BOOLEAN

(* The settings a run is made with: with the hybrid coordinate the vertical *)
(* diffusion of scalars stops with "not yet implemented".  floor is not one *)
(* of the user: the run has values so low that restore_mass() raises them,  *)
(* a little more each time it is called.                                    *)
Settings ==
  {set \in [coord : Coordinates, turbulence : Turbulences, microphysics : Microphysics,
            fpara : Switches, hyper : Switches, filter : Switches, floor : Switches] :
     set.coord = "hybrid" => set.turbulence = "off"}

VARIABLES
  call,    \* the call that is made next, "top" between timesteps
  set,     \* the settings, fixed
  data,    \* the condition of the fields
  written  \* the condition in which they were last saved

step_vars == <<call, set, data, written>>

(* The winds, the other prognostic variables, and the model time. *)
Prognostic == {"uv", "h", "theta", "fpara", "q", "nu_turb", "model_time"}

(* X; P2, P3 and H3; HDRY and PDRY3; THETA2; T, RHO, EXNER, FGIBB, PHI, MONT *)
(* and Z; PV2 and DIV_UV2; RI2; DIFFUSION_COEF_*; HEAT3; W3.                 *)
Diagnostic == {"x", "p", "dry", "theta2", "pgrad_vars", "flow", "ri2", "coef", "heat3", "w3"}

Species     == set.microphysics # "OFF"
Transported == set.microphysics \notin {"OFF", "STEADY"}
Turbulent   == set.turbulence # "off"
IsobaricP   == set.coord = "isobaric"
Isentropic  == set.coord = "isentropic"

(* Each call of set_p2_etc() raises H. *)
HRaised == set.floor /\ ~IsobaricP

(* What each diagnostic variable is calculated from. *)
From == [
  x          |-> {"q"},
  p          |-> IF IsobaricP THEN {} ELSE {"h"},
  dry        |-> IF Species THEN {"p", "q", "x"} ELSE {},
  theta2     |-> IF Isentropic THEN {} ELSE {"theta"},
  pgrad_vars |-> {"p", "theta", "theta2"} \cup (IF set.fpara THEN {"fpara"} ELSE {})
                                          \cup (IF Species THEN {"x"} ELSE {}),
  flow       |-> {"uv", "h"},
  ri2        |-> {"uv", "pgrad_vars", "p"},
  coef       |-> IF Turbulent THEN {"uv", "nu_turb"} ELSE {},
  heat3      |-> {"p", "pgrad_vars", "model_time"} \cup (IF set.fpara THEN {"fpara"} ELSE {}),
  w3         |-> CASE set.coord = "isobaric"   -> {"flow", "p"}
                   [] set.coord = "isentropic" -> {"heat3", "pgrad_vars"}
                   [] set.coord = "hybrid"     -> {"heat3", "pgrad_vars", "flow", "p", "theta"}]

Roots[d \in Diagnostic] ==
  UNION {IF f \in Diagnostic THEN Roots[f] ELSE {f} : f \in From[d]}

-----------------------------------------------------------------------------
(* How a call changes the condition s of the fields. *)

(* A prognostic variable is changed and its pads are exchanged. *)
Change(s, p) ==
  [s EXCEPT !.seams = @ \ {p},
            !.behind = [d \in Diagnostic |-> IF p \in Roots[d] THEN @[d] \cup {p} ELSE @[d]]]

ChangeIf(condition, s, p) == IF condition THEN Change(s, p) ELSE s

Lag(s, fields) == UNION {s.behind[f] : f \in fields \cap Diagnostic}

Calculated(s, d) == [s EXCEPT !.behind[d] = Lag(s, From[d])]

(* A diagnostic variable is calculated on the pads too, from what is there,  *)
(* or in the interior with an exchange of its pads.                          *)
OverPads(s, d) ==
  [Calculated(s, d) EXCEPT !.seams = IF From[d] \cap @ = {} THEN @ \ {d} ELSE @ \cup {d}]

Exchanged(s, d) == [Calculated(s, d) EXCEPT !.seams = @ \ {d}]

SyncXToQ(s) == IF Species THEN OverPads(s, "x") ELSE s

(* set_p2_etc() begins with restore_mass() of H, on the pads as well. *)
SetP2Etc(s, update_theta) ==
  LET restored  == ChangeIf(HRaised, s, "h")
      pressures == OverPads(OverPads(restored, "p"), "dry")
  IN  IF update_theta THEN OverPads(pressures, "theta2") ELSE pressures

(* A mistake to test against: DZDT2 is not started. *)
StorePgradVars_NotStarted(s, stepping) ==
  [OverPads(s, "pgrad_vars") EXCEPT !.z2_kept = stepping]

(* store_pgrad_vars(): a timestep also starts DZDT2, whose first part is the *)
(* change of Z2 since the last call; z2_kept says that no other call set Z2  *)
(* in between, finished counts the times calc_w() has added its second part. *)
StorePgradVars(s, stepping) ==
  [OverPads(s, "pgrad_vars") EXCEPT
     !.z2_kept = stepping,
     !.finished = IF stepping THEN 0 ELSE @]

StoreDiag(s) ==
  LET flow_ri == Exchanged(Exchanged(s, "flow"), "ri2")
  IN  IF Turbulent THEN Exchanged(flow_ri, "coef") ELSE flow_ri

(* A mistake to test against: DZDT2 is finished whatever the action. *)
CalcW_Always(s, stepping) ==
  [OverPads(s, "w3") EXCEPT !.finished = @ + 1]

CalcW(s, stepping) ==
  LET w == OverPads(s, "w3")
  IN  IF stepping THEN [w EXCEPT !.finished = @ + 1] ELSE w

CalcHeating_Kept(s) == s  \* a mistake to test against: HEAT3 of the step before

CalcHeating(s) == Exchanged(s, "heat3")

(* var_read() of a file and timestep(SYNC_DIAGS_ONLY): the prognostic        *)
(* variables are those of the file, every diagnostic one is calculated.  Z2  *)
(* is the one DZDT2 was started with if nothing has changed since, nor does  *)
(* H now.                                                                    *)
SyncDiagsOnly(f) ==
  LET read == [behind   |-> [d \in Diagnostic |-> Roots[d]],
               seams    |-> {},
               z2_kept  |-> FALSE,
               finished |-> f.finished]
      synced == StorePgradVars(SetP2Etc(SyncXToQ(read), TRUE), FALSE)
  IN  [CalcW(CalcHeating(StoreDiag(synced)), FALSE) EXCEPT
         !.z2_kept = f.behind["pgrad_vars"] = {} /\ ~HRaised]

(* The file written by initial, with DZDT2 zero. *)
FirstFile == [behind |-> [d \in Diagnostic |-> {}], seams |-> {}, z2_kept |-> TRUE, finished |-> 0]

-----------------------------------------------------------------------------

InitStep ==
  /\ set \in Settings
  /\ call = "top"
  /\ written = FirstFile
  /\ data = SyncDiagsOnly(FirstFile)

(* main() saves: var_write() maps species at or below Q_MIN to zero for the *)
(* file, restores them in memory and synchronizes X.                        *)
SaveFields ==
  /\ call = "top"
  /\ data' = SyncXToQ(ChangeIf(Species, data, "q"))
  /\ written' = data'
  /\ UNCHANGED <<call, set>>

(* The run ends, anywhere in a timestep, and another starts from the file. *)
RestartFields ==
  /\ call' = "top"
  /\ data' = SyncDiagsOnly(written)
  /\ UNCHANGED <<set, written>>

Call(here, there) == call = here /\ call' = there /\ UNCHANGED <<set, written>>

(* cloud_microphysics(): what condenses or evaporates heats the interior. *)
CloudMicrophysics(s, active) ==
  LET moved == Change(s, "q")
  IN  SyncXToQ(IF active THEN [moved EXCEPT !.seams = @ \cup {"heat3"}] ELSE moved)

(* source_sink(): THETA is heated on the pads too. *)
SourceSink ==
  /\ Call("top", "calc_w")
  /\ \E active \in BOOLEAN :
       LET relaxed == ChangeIf(set.fpara, data, "fpara")
           clouds  == IF set.microphysics = "ACTIVE" THEN CloudMicrophysics(relaxed, active)
                                                     ELSE relaxed
           seam    == {"heat3", "pgrad_vars", "theta"} \cap clouds.seams # {}
           heated  == Change(clouds, "theta")
       IN  data' = IF Isentropic THEN clouds
                   ELSE IF seam THEN [heated EXCEPT !.seams = @ \cup {"theta"}]
                   ELSE heated

CalcWStep == Call("calc_w", "source_sink_turb") /\ data' = CalcW(data, TRUE)

(* Sweeps NU_TURB when the turbulence model is on. *)
SourceSinkTurb ==
  /\ Call("source_sink_turb", "extract")
  /\ data' = ChangeIf(Turbulent, data, "nu_turb")

(* A frame that holds species has X synchronized after each of them. *)
Extract ==
  /\ Call("extract", "uv_core")
  /\ \/ data' = data
     \/ data' = SyncXToQ(ChangeIf(Species, data, "q"))

(* The tendencies of the winds: Coriolis, advection and sponge. *)
UvTendencies == Call("uv_core", "scalar_vertical_subgrid") /\ UNCHANGED data

(* A mistake to test against: Z2 is set again, too. *)
VerticalDiffusion_StoresZ2(s) ==
  LET theta  == ChangeIf(IsobaricP, s, "theta")
      mixed  == IF Transported THEN SyncXToQ(Change(theta, "q")) ELSE theta
      scalar == SetP2Etc(ChangeIf(set.fpara, mixed, "fpara"), TRUE)
  IN  StorePgradVars(Change(scalar, "nu_turb"), FALSE)

(* scalar_vertical_diffusion() *)
VerticalDiffusion(s) ==
  LET theta  == ChangeIf(IsobaricP, s, "theta")
      mixed  == IF Transported THEN SyncXToQ(Change(theta, "q")) ELSE theta
      scalar == SetP2Etc(ChangeIf(set.fpara, mixed, "fpara"), TRUE)
  IN  Change(scalar, "nu_turb")

(* adiabatic_adjustment() of a model that has an unstable column somewhere. *)
AdiabaticAdjustment(s) ==
  LET mixed == IF Transported THEN SyncXToQ(Change(s, "q")) ELSE s
      theta == Change(ChangeIf(set.fpara, mixed, "fpara"), "theta")
  IN  StorePgradVars(SetP2Etc(theta, TRUE), FALSE)

ScalarVerticalSubgrid ==
  /\ Call("scalar_vertical_subgrid", "scalar_horizontal_subgrid")
  /\ \/ /\ Turbulent
        /\ data' = VerticalDiffusion(data)
     \/ /\ ~Turbulent /\ ~Isentropic
        /\ data' = AdiabaticAdjustment(data)
     \/ ~Turbulent /\ UNCHANGED data

(* scalar_horizontal_diffusion() *)
HorizontalDiffusion(s) ==
  LET theta == ChangeIf(~Isentropic, s, "theta")
      mixed == IF Transported THEN SyncXToQ(Change(theta, "q")) ELSE theta
  IN  Change(SetP2Etc(mixed, TRUE), "nu_turb")

(* A mistake to test against: pressures are not set again once H is smoothed. *)
Hyperviscosity_NoSet(s) ==
  LET mixed == IF Transported THEN SyncXToQ(ChangeIf(set.hyper, s, "q")) ELSE s
      thick == ChangeIf(set.hyper /\ ~IsobaricP, mixed, "h")
      theta == ChangeIf(set.hyper /\ ~Isentropic, thick, "theta")
      nu    == ChangeIf(set.hyper /\ Turbulent, theta, "nu_turb")
  IN  ChangeIf(set.hyper /\ set.fpara, nu, "fpara")

(* The hyperviscosity of the scalars; it does nothing if nu_order < 4. *)
Hyperviscosity(s) ==
  LET mixed == IF Transported THEN SyncXToQ(ChangeIf(set.hyper, s, "q")) ELSE s
      thick == SetP2Etc(ChangeIf(set.hyper /\ ~IsobaricP, mixed, "h"), TRUE)
      theta == ChangeIf(set.hyper /\ ~Isentropic, thick, "theta")
      nu    == ChangeIf(set.hyper /\ Turbulent, theta, "nu_turb")
  IN  ChangeIf(set.hyper /\ set.fpara, nu, "fpara")

ScalarHorizontalSubgrid ==
  /\ Call("scalar_horizontal_subgrid", "advection")
  /\ data' = Hyperviscosity(IF set.turbulence = "on" THEN HorizontalDiffusion(data) ELSE data)

Advection ==
  /\ Call("advection", "filter")
  /\ LET theta == ChangeIf(~Isentropic, data, "theta")
         para  == ChangeIf(set.fpara, theta, "fpara")
         nu    == ChangeIf(Turbulent, ChangeIf(Transported, para, "q"), "nu_turb")
         thick == ChangeIf(~IsobaricP, nu, "h")
     IN  data' = SetP2Etc(IF Transported THEN SyncXToQ(thick) ELSE thick, FALSE)

(* zonal_filter() and restore_mass() of every scalar that is on, the species *)
(* of a steady cloud included; H and THETA are constant along a latitude     *)
(* where they are the coordinate, and not near the floor.                    *)
Touched == set.filter \/ set.floor

Filter ==
  /\ Call("filter", "pgrad_vars")
  /\ LET thick == ChangeIf(Touched /\ ~IsobaricP, data, "h")
         theta == ChangeIf(Touched /\ ~Isentropic, thick, "theta")
         para  == ChangeIf(Touched /\ set.fpara, theta, "fpara")
         nu    == ChangeIf(Touched /\ Turbulent, para, "nu_turb")
     IN  data' = ChangeIf(Touched /\ Species, nu, "q")

PgradVars ==
  /\ Call("pgrad_vars", "uv_pgrad")
  /\ data' = StorePgradVars(SetP2Etc(data, TRUE), TRUE)

(* The tendencies of the winds: pressure gradient and horizontal subgrid; *)
(* then the step of the winds and the cycle of their time planes.         *)
MarchWinds == Call("uv_pgrad", "uv_vertical_subgrid") /\ data' = Change(data, "uv")

(* A mistake to test against: the winds are not exchanged after it. *)
SmoothWinds_NoExchange ==
  /\ Call("uv_vertical_subgrid", "model_time")
  /\ data' = IF Turbulent \/ set.hyper \/ set.filter
               THEN [Change(data, "uv") EXCEPT !.seams = @ \cup {"uv"}] ELSE data

(* uv_vertical_subgrid(), uv_hyperviscosity() and zonal_filter() *)
SmoothWinds ==
  /\ Call("uv_vertical_subgrid", "model_time")
  /\ data' = ChangeIf(Turbulent \/ set.hyper \/ set.filter, data, "uv")

AdvanceTime == Call("model_time", "store_diag") /\ data' = Change(data, "model_time")

(* A mistake to test against: PV2 and DIV_UV2 as they were before the step. *)
UpdateDiags_NoFlow ==
  /\ Call("store_diag", "top")
  /\ data' = CalcHeating(IF Turbulent THEN Exchanged(Exchanged(data, "ri2"), "coef")
                                      ELSE Exchanged(data, "ri2"))

UpdateDiags == Call("store_diag", "top") /\ data' = CalcHeating(StoreDiag(data))

NextStep ==
  \/ SaveFields \/ RestartFields \/ SourceSink \/ CalcWStep \/ SourceSinkTurb \/ Extract
  \/ UvTendencies \/ ScalarVerticalSubgrid \/ ScalarHorizontalSubgrid \/ Advection \/ Filter
  \/ PgradVars \/ MarchWinds \/ SmoothWinds \/ AdvanceTime \/ UpdateDiags

StepSpec == InitStep /\ [][NextStep]_step_vars

-----------------------------------------------------------------------------

StepCalls ==
  {"top", "calc_w", "source_sink_turb", "extract", "uv_core",
   "scalar_vertical_subgrid", "scalar_horizontal_subgrid", "advection", "filter",
   "pgrad_vars", "uv_pgrad", "uv_vertical_subgrid", "model_time", "store_diag"}

(* Every variable has its type. *)
StepTypeOK ==
  /\ call \in StepCalls /\ set \in Settings
  /\ \A s \in {data, written} :
       /\ DOMAIN s = {"behind", "seams", "z2_kept", "finished"}
       /\ s.behind \in [Diagnostic -> SUBSET Prognostic]
       /\ s.seams \subseteq Prognostic \cup Diagnostic
       /\ s.z2_kept \in BOOLEAN /\ s.finished \in 0 .. 1

(* The header of timestep() assumes "the diagnostic variables are all        *)
(* up-to-date upon entry".  They are, but for the last change of the species *)
(* and for W3, which calc_w() sets before it is read: in every setting, after *)
(* a restart and after a save as well.                                       *)
UpToDateButForSpecies ==
  call = "top" => \A d \in Diagnostic \ {"w3"} : data.behind[d] \subseteq {"q"}

(* Where the scheme needs it, what a call reads is of the present state: the  *)
(* thickness that weights what is advected is that of H; the vorticity and    *)
(* divergence uv_core() and calc_w() use go with the present winds and H; and *)
(* the pressure gradient, the implicit half of the economical explicit        *)
(* scheme, is that of the advected and filtered scalars, but for the species, *)
(* since X is not synchronized after the filter.                              *)
CallsSeePresentState ==
  /\ call = "advection" => data.behind["p"] = {}
  /\ call \in {"calc_w", "uv_core"} => Lag(data, {"flow", "p"}) = {}
  /\ call = "uv_pgrad" =>
       Lag(data, {"p", "theta2", "pgrad_vars"}) \subseteq (IF Species THEN {"q"} ELSE {})

(* What the next call reads at neighbouring points. *)
ReadAround ==
  CASE call = "calc_w"                    -> {"uv", "pgrad_vars"}
    [] call = "source_sink_turb"          -> {"uv", "nu_turb"}
    [] call = "uv_core"                   -> {"uv", "h", "flow", "w3"}
    [] call = "scalar_horizontal_subgrid" -> {"theta", "q", "h", "nu_turb", "fpara", "coef", "p",
                                           "pgrad_vars"}
    [] call = "advection"                 -> {"uv", "h", "theta", "fpara", "q", "nu_turb", "p"}
    [] call = "uv_pgrad"                  -> {"uv", "fpara", "theta2", "pgrad_vars", "coef"}
    [] call = "uv_vertical_subgrid"       -> {"uv", "pgrad_vars", "coef"}
    [] call = "store_diag"                -> {"uv", "h", "pgrad_vars"}
    [] OTHER                              -> {}

(* Fields that are calculated on the pads instead of exchanged, with the     *)
(* remark "No need to apply bc_lateral() here.", have no seam where another  *)
(* call reads them around a point; so the result does not depend on where    *)
(* the subgrids meet.                                                        *)
NoSeamRead == ReadAround \cap data.seams = {}

(***************************************************************************)
(* Without condensing clouds it holds in every setting.  With them, what   *)
(* they heat in the interior makes a seam in W3 and in THETA, which is     *)
(* read as far as the advection, and nowhere else; the next timestep, and  *)
(* a save, find one in W3 at most, which calc_w() calculates anew.         *)
(***************************************************************************)
SeamsOfCloudsOnly ==
  /\ set.microphysics # "ACTIVE" => NoSeamRead
  /\ ReadAround \cap data.seams \subseteq {"w3", "theta"}
  /\ call = "top" => data.seams \subseteq {"w3"}

(* DZDT2 is started in one timestep and finished in the next: whoever reads  *)
(* it finds its second part added once, a save finds it not yet added, and   *)
(* a restart neither loses it nor adds it twice.                             *)
DzdtFinishedOnce ==
  /\ call = "top" => data.finished = 0 /\ written.finished = 0
  /\ call \in {"source_sink_turb", "extract", "uv_core"} => data.finished = 1

(***************************************************************************)
(* "It would be wrong to call store_pgrad_vars() again in a timestep after *)
(* DZDT2 is finished": the Z2 a timestep takes the difference from is the  *)
(* one the last difference went to, after saves and restarts too.  Three   *)
(* things break this.  adiabatic_adjustment(), in models without a         *)
(* turbulence scheme, sets Z2 for the adjusted column, and a restart sets  *)
(* it for the species as the filter and the save have left them, and for   *)
(* an H raised once more.                                                  *)
(***************************************************************************)
Z2DifferencesJoinWithoutAdjustment ==
  call = "pgrad_vars" /\ (Turbulent \/ Isentropic) /\ ~Species /\ ~HRaised => data.z2_kept

(***************************************************************************)
(* The comment before an extract frame is written: "Diagnostic variables   *)
(* are now synchronized."  They are synchronized with the winds, the       *)
(* thickness and the time of the frame.  What source_sink() has just done  *)
(* to the scalars is in W3 at most.                                        *)
(***************************************************************************)
FrameOfOneTime ==
  call = "extract" =>
    \A d \in Diagnostic : data.behind[d] \cap {"uv", "h", "model_time"} = {}

=============================================================================

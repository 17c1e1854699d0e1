# TLA+ models and proofs for EPIC

EPIC is a C general circulation model of planetary atmospheres, run serially or
under MPI. Its physics is floating-point and out of a model checker's reach.
What can be modelled is everything around it: which file survives a failure,
which time plane a step is made from, which diagnostic is up to date when it is
read, who owns a row, what is in a pad. These are also what a run that "looks
reasonable" does not test: the repository has no tests, and a mistake here shows
up as noise.

- [1 The system](#1-the-system)
- [2 The modules](#2-the-modules)
- [3 What is checked](#3-what-is-checked)
- [4 What is proved](#4-what-is-proved)
- [5 Where code and comments disagree](#5-where-code-and-comments-disagree)
- [6 What is not modelled](#6-what-is-not-modelled)
- [7 How the project came about, and what could follow](#7-how-the-project-came-about-and-what-could-follow)

Paths below are relative to the repository's `src/`. `PROJECT.json` has the same
inventory in machine-readable form, with the lines each definition stands for
and one hazard per line of code where something can go wrong.

## 1 The system

Three programs share the sources: `initial` writes a first file, `change` edits
one, `epic` integrates from one. Everything of interest happens in `epic`.

| Component | State | Operations | Hard part |
|---|---|---|---|
| Run control, `core/epic_main.c` | `itime`, `itrun`, flags, `stop_request`; on disk: `epic<date>.nc`, `epic_back1/2.nc`, `extract.nc`, `epic_stop` | start, save, rotate and write a backup, look for `epic_stop`, last frame, step | failure between any two of them, several runs in one directory |
| Files, `core/epic_funcs_io.c` | the variables of a netCDF file, their ids, the next time plane | `var_write`, `var_read`, `define_netcdf`, `lookup_netcdf` | ids that are set as a side effect; a write that changes the species in memory |
| Arrays, same file | one subgrid per process, the whole on node 0 | `read_array`, `write_array`, `bcast_*` | all processes in the same branches, ranks of two communicators, mixing ratios changed by being written |
| Time marching, `core/epic_timestep.c` | time planes of U, V and of their tendencies, slots `IT_ZERO`, `IT_MINUS1`, `IT_MINUS2` | tendencies, Adams-Bashforth or leapfrog step, cycle, smoothing | start-up, restart, slots that move |
| Order of work, `timestep()` | prognostic and diagnostic fields, pads | about 25 calls per step | stale diagnostics, stale pads, work split over two steps |
| Diagnostics, `core/epic_funcs_diag.c` | pressures, potentials, vorticity, RI2, HEAT3, ... | `set_p2_etc`, `store_pgrad_vars`, `store_diag`, `calc_heating`, `source_sink`, `sync_x_to_q` | called from many places with different arguments, a static flag |
| Advection, `core/epic_flux.c` | W3, DZDT2, scalars | `calc_w`, `advection`, `uv_vertical_advection` | fields computed on the pads instead of exchanged |
| Subgrid, `subgrid/epic_subgrid.c` | diffusion coefficients, NU_TURB | hyperviscosity, diffusion, `adiabatic_adjustment`, `source_sink_SA` | loops that read what they update |
| Positivity, filter, `core/epic_adjust.c` | - | `restore_mass`, `zonal_filter` | not idempotent; collective calls inside loops |
| Clouds, `clouds/` | species by phase, budgets of a cell, tables of latent heat | `cloud_microphysics` and its rates, `enthalpy_change_*` | nine rates that use the same water; a table read by whoever needs it first |
| Decomposition, `mpi/m_epic_functions.c`, `mpi/mpg/map_decomp.c` | `para` (ranges, pads, communicators) | `mpispec_init`, `MPG_Cart_decomp` | primes, remainders, single rows at a pole |
| Halo exchange, `mpi/mpg/map_edge.c`, `single/s_epic_functions.c` | pads | `bc_lateral`, `MPG_Cart_edgeexch` | corners, mutual waiting, processes a call ahead |
| Table look-up, `core/epic_funcs_util.c` | the place found last, kept by the caller | `find_place_in_table`, `hunt_place_in_table` | ends of the table, bad guesses, a width that is not always set |
| Heating, radiative transfer, chemistry, thermodynamics, astronomy, the other utilities, set-up | tables | formulas | floating point |

How they interact. `main` reads a file (`var_read`), has `timestep` synchronize
the diagnostics once, then loops: save, backup, look for `epic_stop`, call
`timestep`. `timestep` heats, finishes DZDT2, writes an extract frame when one is
due, and returns there if it is the last; otherwise it sums the tendencies, mixes, advects and
filters the scalars, recalculates the diagnostics, adds the pressure gradient,
marches the winds, smooths them and synchronizes the diagnostics again. Each of
these parts calls `bc_lateral` for the pads of what it changed, or says "No need
to apply bc_lateral() here" and computes the pads itself. In a parallel run all
processes execute the same code on their subgrids, and meet in `bc_lateral`, in
collectives and when node 0 gathers or scatters an array.

What makes each part correct:

- run control: a failure costs at most one backup interval; the state a run ends
  with is kept; the extract file is one log, whichever runs wrote it; a request to
  stop is honoured;
- time marching: every step uses the tendencies and winds of the times the scheme
  prescribes, across restarts;
- order of work: what a call reads is of the state the scheme needs and does not
  depend on where subgrids meet; halves of a calculation are done once each;
- decomposition: every point has one owner and the loops over pads stay on the grid;
- halo exchange: the pads are those of a serial run, and every call returns;
- arrays: what one layout of processes saves another reads back; a save leaves the
  running model as good as unchanged; every process returns, or all are aborted;
- clouds: no process takes water another has taken, the heat given to a cell is
  that of its phase changes, saturation is approached and not passed; a table
  that one process needs is there without the others' help;
- table look-up: no read outside the table, the right interval, its width set,
  and an end, from whatever guess.

## 2 The modules

| Module | Models | Kind |
|---|---|---|
| `RunControl` | `main()`'s start and loop, the frame and the time advance of `timestep()`, the stages of `var_write()` | state machine with failures |
| `FrameLog` | what the extract file promises: one log of frames | abstract specification |
| `WindPlanes` | slots, flags, tendencies, smoothing, restart file of the winds | state machine |
| `WindHistory` | the two schemes with their whole history at hand | abstract specification |
| `Timestep` | order of the calls of `timestep()`, staleness and pads of the fields | state machine |
| `Subgrids` | `MPE_Decomp1d()`, ranges of a process, limits of the loops over J | operators |
| `CartDecomp` | `MPG_Cart_decomp()` as `mpispec_init()` calls it, loop by loop | state machine |
| `EdgeExchange`, `MCEdgeExchange` | `zonal_filter()` and `bc_lateral()` of every process; layouts for them | concurrent processes |
| `ArrayIO`, `MCArrayIO` | `var_write()` and `var_read()` of every process: loops over processes and variables, `write_array()`, `read_array()`, the mapping of mixing ratios | concurrent processes |
| `Microphysics` | `cloud_microphysics()` in one cell, process by process | state machine |
| `EnthalpyTables` | who joins the broadcasts of the tables of latent heat | concurrent processes |
| `Places` | `find_place_in_table()`, `hunt_place_in_table()` and their successive calls | state machine |
| `RunControlProofs`, `TimestepProofs`, `SubgridProofs`, `CartDecompProofs`, `EdgeExchangeProofs`, `ArrayIOProofs`, `MicrophysicsProofs`, `PlacesProofs` | theorems | proofs |

`RunControl` implements `FrameLog` and `WindPlanes` implements `WindHistory`;
`CartDecomp`, `EdgeExchange` and `ArrayIO` use `Subgrids`.

### RunControl

A history is a chain of runs in one directory. Each run starts from the newest
whole file. Time counts timesteps from the first file. `pc` is the place in the
loop; a backup is three steps (rename, create, close), an extract frame two, a save two,
because a failure in between leaves different things on disk. `Crash` stands for
everything that ends a process early: a crash, `epic_error()`, a write that
fails. It loses the file that is being written, or leaves a frame half written.
`RotateBackupError` is the `rename()` whose failure `main()` only reports.
`back1`, `back2` and `saves` are the files with the model time they hold,
`extract` the planes of the extract file. A flag that is absent is
`IntMax`, as in the code, and the defaults main() derives from other flags are derived.
As in the code, `epic_stop` is looked for, and removed, only after a save or a
backup. `ls_id` is whether defining a file has set the
netCDF id of L_s.

`FrameLog` is what the extract file promises: one plane for every multiple of the
interval, in order, as if the model had run without a stop. It knows failures
only as a number: a failure may cost the plane that was due and send the clock
back, not behind the last plane. The refinement mapping takes `clock` to the model
time and `planes` to the times of the whole planes of the file.

### WindPlanes and WindHistory

A plane of winds is modelled by its time and the filters that have gone over it,
a tendency by the terms added to it, each with the times of the fields it was
computed from. So an old slot, a slot not cleared, a lagged instead of a present
wind or a wrong Adams-Bashforth coefficient (kept in twelfths) all make a
different value. `Save` writes the planes as `var_write` does, `Restart` sets the
slots as `make_arrays` does and fills them as `var_read` does; it may happen
anywhere in a timestep. FLOAT_MAX is the flag of a plane no step has set.
`time` and `last` record what each step was made from.

`WindHistory` knows no slots. It says: step t of 3rd-order Adams-Bashforth uses
the tendencies of t, t-1 and t-2 (two for the second step, one for the first),
leapfrog goes from t-1 with dissipation lagged. Started again, a run goes on from
a time both winds have been at. The refinement mapping is the identity on
`scheme`, `time` and `last`.

### Timestep

Values are left out. For each diagnostic field, `behind` is the set of prognostic
variables that changed since it was calculated, or since something it was
calculated from was (`From`, read off the code, gives the dependencies). `seams`
are the fields whose pads differ from what their owner holds: a field calculated
over the pads inherits seams, `bc_lateral` removes them, and a change of the
interior only makes one. One action per call of `timestep()`, with the calls it
makes inside (`set_p2_etc` at the end of most, `sync_x_to_q`, `store_pgrad_vars`
in the adjustment). `call` is the call that comes next, `data` the condition of the
fields, `written` that of the newest file. DZDT2 is one bit and one counter: whether its Z2 is still the
one it was started from, and how often its second part was added. Settings that
do not change during a run are chosen at the start. A column may or may not need
adjustment and a cloud may or may not be active: those are choices. One setting, `floor`, is not the user's: such a
run has values so low that every `restore_mass()` raises them, those of `set_p2_etc()` and of the filter
loop too. `SaveFields` is `var_write()`,
with the `restore_mass()` in it; `RestartFields` may come at any call, and calculates again what
`sync_diags_only` does. (`TimestepProofs` extends `WindPlanes` too, so no name here is one of that module:
hence `StepSpec`, `step_vars`.)

### Subgrids, CartDecomp, EdgeExchange

`CartDecomp` runs the loops of `prime_factors()` and `balance()` for the
communicator of two dimensions and then, with the number of processes per axis
already chosen, for that of three, as `mpispec_init()` does. `abort` is
`MPI_Abort`; `mpi_error` is where MPI would refuse the dims.
`EdgeExchange` gives every process its own `pc`, call and array. `MPI_Sendrecv` is
a send and a receive that proceed side by side; it returns when its message has
been taken, or buffered. Messages between two processes on one communicator with one tag stay in
order, and calls on fields of two and three dimensions alternate, so a process may
be a call ahead. Fields of two dimensions go through `zonal_filter()` first: for
every row near a pole a process gives its part to an `MPI_Allreduce` of the
processes that share its rows, and waits for theirs. Which rows it goes over depends on
the process and on the grid the field is on, which is what could leave one waiting. The
model takes the processes to have the same coordinates in both communicators.

### ArrayIO

A run saves its fields, and the next one, on any number of processes, reads them.
Every process has its own place in the loops (`at`), what it was told of the
others' rows (`known`, from `setup_write_array()`), and its arrays with their pads (`mem`). One
row of the grid stands for its points, one variable for all that are written as
they are, and one for the mass mixing ratios, whose values are whole numbers of units so that
`.5*Q` is a division rounded down. A send either waits for its receiver or
is buffered; the root of a broadcast need not wait. `NetcdfError` is
`epic_error()`, called by node 0 wherever the netCDF library may fail, and
`MPI_Abort` ends all processes. `bc_lateral()` at the end of `var_read()` is one action here,
since `EdgeExchange` shows what it does.

What `var_write()` does to the mixing ratios is in the loop over processes: each
process, for each process of the run, maps its voids to zero and afterwards
calls `restore_mass()`, pads included, whether or not it had a part in that
`write_array()`. So a value between `Q_MIN` and `2*Q_MIN` is raised once per
process of the run, and what the file has of it depends on the number of the
process that has it. `FileShowsField` and `SaveAddsLittle` bound this.
After a restart voids are zero, since `var_read()` does not restore them; the
first call of `restore_mass()` does.

### Microphysics and EnthalpyTables

Cells and species exchange nothing within a call of `cloud_microphysics()`, so one
cell is enough. Mixing ratios are whole units. The nine finite rates are calculated
one after another from what the call found, each under the guards and limits of the
code, and applied together at the end; how fast a process is within its limits is a choice, so every
setting of temperature, fall speeds and collection efficiencies is in the model.
`supersat`, `subsat`, `av_liquid` and `av_ice` are the budgets the code keeps. `before` is
what the call was given. `ALPHA_RAUT*DT` is between 0 and 1 (slow) or 1 and 2 (`fast`).

`EnthalpyTables` leaves all of that out but one thing: `enthalpy_change_H_2O()` and
`enthalpy_change_NH_3()` read their table at their first use, on whichever process that is,
and the reading broadcasts on `para.comm`. The collectives of a communicator are matched in order;
one whose partners are in another call does not return.

### Places

A search is the loops of the two functions step by step: the ends, the hunt up or
down with doubled strides, the bisection. Of `x` and the table only the results of
`fcmp()` matter, so a table is `n`, whether it ascends, and `cmp`. `NextSearch` is the
next call on the same table, for another `x`, that hunts from the place found last, as the callers do;
the first guess is -2. `dx` is the interval whose width `*dx` holds, -1 until it is set.

## 3 What is checked

| Run | Question | Properties |
|---|---|---|
| `RC_chain` | what failures cost, are stopping and continuing invisible, does a request to stop end a run | `TypeOK`, `LossBounded`, `FramesOrdered`, `EndStateKept`, `OneLog` (refinement of `FrameLog`), `StopHonoured` (liveness) |
| `WP_planes` | does each step use the right planes | `TypeOK`, `SmoothedAndFiltered`, `HistoryKept` (refinement of `WindHistory`) |
| `TS_step` | is what a call, a frame or the next step reads current | `StepTypeOK`, `UpToDateButForSpecies`, `CallsSeePresentState`, `SeamsOfCloudsOnly`, `DzdtFinishedOnce`, `Z2DifferencesJoinWithoutAdjustment`, `FrameOfOneTime` |
| `PAR_decomp` | is the grid divided soundly | `TypeOK`, `FactorsCorrect`, `EveryPointOwnedOnce`, `PadLoopsReach`, `DividedAlike`, `Terminates` (liveness) |
| `PAR_exchange` | are pads and filtered rows those of a serial run | `TypeOK`, `PadsAsInSerialRun`, `AllCallsReturn` (liveness) |
| `IO_arrays` | is what was saved in the file, in memory and in the next run | `TypeOK`, `FileShowsField`, `SaveAddsLittle`, `PadsAgree`, `RestartHasFile`, `AllCallsReturn` (liveness) |
| `MP_cell` | do nine rates share the water of a cell | `TypeOK`, `MassKept`, `HeatMatchesPhases`, `SaturationCrossedByIceOnly` |
| `UT_places` | is the right interval found from any guess | `TypeOK`, `ReadsInTable`, `Bracketed`, `WidthSet`, `SearchEnds` (liveness) |
| `RC_always_good`, `RC_append`, `TS_seam`, `ET_lazy` | a statement of a comment that the code does not keep, see section 5 | one each, violated |

Every property has a mutation of the model in `PROJECT.json` that breaks it.
The mutated forms are the definitions with an underscore in their name, each
next to the one it replaces.

Bounds, and why they are enough:

- `RC_chain`: up to four runs, three failures and one fault of the rotation, which is
  what `LossBounded` and `OneLog` allow for; `ItSave` 4, `ItExtract` (hence `itback`) 2, `ItRun` 6.
  Backups and saves fall on the same step and apart; a run is lost before
  its first backup, between backups and in each stage of one, and a run ends by
  itself after others that failed. Time is bounded at 15, so that a run that starts at 12
  cannot come to its `itrun` and only the request ends it. 0.7 million states.
- `WP_planes`: six steps take the three slots of Adams-Bashforth twice around
  and the two of leapfrog three times; two restarts can be one after another, or
  fall into start-up again.
- `TS_step` has no bound: the fields' condition is finite, all 448 settings are
  explored, and a save may follow any step and a restart interrupt any call.
- `PAR_decomp`: 28 numbers of processes up to 49, so that squares of primes (4, 9, 25, 49), primes, powers, and
  products occur, on grids of 1 to 33 rows and 1 to 32 columns, in the three
  geometries; rows fewer than, equal to and more than the processes.
- `PAR_exchange`: three calls, so that both kinds of field occur, the first
  kind again, and with it filtered fields on the H- and on the V-grid; 2 by 2 processes periodic in both directions, 2 by
  2 on a globe with filtered rows at both poles, three along a filtered parallel, three along a
  meridian, and a process that is its own neighbour; with and without buffering.
- `IO_arrays`: one to three processes, saved by any of these numbers and read by any,
  so that node 0 writes its own rows, another's, and a third process has no part; five
  rows on a globe; with `Q_MIN` 4 units, mixing ratios below, at and just above `Q_MIN`, just below
  and at `2*Q_MIN`, and above; 5 becomes 6 in one round and 7 in the next.
- `MP_cell`: every mixture of up to five units in five phases: one for each phase, or
  enough in one or two of them to pass both thresholds (1 unit) with water left for the
  processes that follow. 7 and 1 as latent heats tell every exchange apart. 0.3 million states.
- `UT_places`: tables of 2 to 20 entries, so that a hunt doubles its stride up to
  four times before it falls off an end; `x` on every entry, in every gap and outside; every
  guess the search before can have left.

Fairness. `RunControl`'s `WF(Proceed)` says that a running process is scheduled;
nothing else, and in particular no failure, touch or restart, has to happen.
`CartDecomp` and `EdgeExchange` have `WF(Next)`: in the first there is one
sequential process; in the second, and in `ArrayIO` (`WF(Progress)`), it is the weakest there is, some process that can take a
step does, which holds for any scheduler and any MPI that makes progress.
`Places` has `WF(Search)`: a function that is called runs on; the next call need not come.
`EnthalpyTables` has weak fairness of each process and of the meeting, so that nobody waits only
because the scheduler forgot somebody. `Timestep`, `WindPlanes` and `Microphysics` have no
liveness property: a step is a straight line.

`CHECK_DEADLOCK FALSE` is given where the system really stops: a chain of runs at its bounds, the winds at
`MaxTime`, the division once made, the last call returned, the cell updated. `PAR_decomp`,
`PAR_exchange` and `IO_arrays` replace the check by a liveness property; in `ET_lazy` the deadlock is the
finding. `Timestep` and `Places` never stop and are checked for deadlock.

## 4 What is proved

TLAPS checks these for every value of the constants.

| Theorem | Says |
|---|---|
| `RunControlProofs!TypeCorrect` | `Spec => []TypeOK` |
| `RunControlProofs!LossTheorem` | `Spec => []LossBounded`: for all flags, any number of runs and failures |
| `RunControlProofs!EndState` | `EndsAtOutput => (Spec => []EndStateKept)`: if a save or a backup falls on `itrun`, or the run does not get there |
| `RunControlProofs!Ordered` | `AlignedFlags => (Spec => []FramesOrdered)`: any number of runs and failures, as long as the rotation has met at most one fault, if the outputs fall on frames |
| `RunControlProofs!Refinement` | `AlignedFlags /\ MaxWriteFaults <= 1 => (Spec => OneLog)`: `RunControl`, with its crashes and restarts, implements `FrameLog` |
| `RunControlProofs!StopLeads` | for all flags: a program asked to stop can go on until it ends, each of its steps leaves less to do, nothing gives it more, and `time` passes at most `itback + 1` more steps |
| `RunControlProofs!GoodBackup` | `Spec => [](write_faults <= 1 => AlwaysGoodBackup)`: for all flags, it takes two faults of the rotation to be without a good backup |
| `RunControlProofs!TimesStored` | `FileByFrame => (Spec => []FrameTimesAreTimes)`: frames have times, unless runs append and both saves and backups come less often than frames |
| `TimestepProofs!Refinement` | `Spec => HistoryKept`: `WindPlanes` implements `WindHistory` for any number of steps, saves and restarts |
| `TimestepProofs!Smoothed` | `Spec => []SmoothedAndFiltered` |
| `TimestepProofs!Invariance` | `Spec => []Inv`, what every slot holds in every stage |
| `TimestepProofs!TypeCorrect` | `Spec => []TypeOK`, from `Invariance` and the bounds on the time and the restarts |
| `TimestepProofs!StepInvariance` | `StepSpec => []StepInv`: before every call, for any set of settings, after any saves and restarts, what is behind and with what, whether there are seams, and how far DZDT2 is |
| `TimestepProofs!EntryUpToDate` | `UpToDateButForSpecies`: when a timestep begins every diagnostic but W3 goes with the prognostic variables as they are, except for the last change of the species |
| `TimestepProofs!ReadsPresentState` | `CallsSeePresentState`: the pressures at `advection()`, pressures, vorticity and divergence at `calc_w()` and `uv_core()`, and the pressure gradient at `uv_pgrad()`, the species there excepted, are calculated from the prognostic variables as they are at that call; these are different states, as the scheme has it |
| `TimestepProofs!FramesOfOneTime` | `FrameOfOneTime`: the diagnostics in a frame go with its winds, H and time; scalars may have changed since |
| `TimestepProofs!DzdtOnce`, `Z2Joins` | `DzdtFinishedOnce`, `Z2DifferencesJoinWithoutAdjustment`: the latter without species, where no column is adjusted and H is not at its floor |
| `TimestepProofs!NoSeams`, `StepTypeCorrect` | `SeamsOfCloudsOnly`, `StepTypeOK`: without condensing clouds no call reads across a seam; with them, only seams of W3 and THETA are read, and only one of W3 outlives a timestep |
| `SubgridProofs!Decomp1dPartitions` | `MPE_Decomp1d` gives every index to one process, none is empty, for any length and any number of processes up to it |
| `CartDecompProofs!OwnedOnce`, `PadLoops`, `Alike` | `EveryPointOwnedOnce`, `PadLoopsReach`, `DividedAlike` for any grid and any number of processes |
| `CartDecompProofs!FactorsAreCorrect`, `TypeCorrect` | `FactorsCorrect`, `TypeOK` (with it that MPI refuses no dims) for any number of processes |
| `CartDecompProofs!StepsLead` | `MPG_Cart_decomp()` can go on until it is done or aborts, and each step leaves less to do, of at most `10 * numproc + 13` |
| `EdgeExchangeProofs!PadsAsSerial`, `TypeCorrect` | `PadsAsInSerialRun`, `TypeOK` for any grid, any polar rows, any division, any number of calls and any pace, with and without buffering |
| `EdgeExchangeProofs!Invariance` | `Spec => []IInv`, which also says what every message on the way is |
| `EdgeExchangeProofs!NeverStuck`, `StepsLead` | until all calls have returned some process can go on; every step takes one process forward and none back, on a way of bounded length |
| `ArrayIOProofs!FileFaithful`, `SavesAddLittle`, `RestartFaithful`, `TypeCorrect` | `FileShowsField`, `SaveAddsLittle`, `RestartHasFile`, `TypeOK` for any grid, any fields, any number of processes before and after, any pace |
| `ArrayIOProofs!Invariance` | `Spec => []Inv`, which also has that no message ever has a wrong count |
| `ArrayIOProofs!PadsKept` | `PadsAgree` for any grid, any fields, any number of processes, any pace |
| `ArrayIOProofs!NeverStuck`, `StepsLead` | while a call is left some process can go on, or all are at `bc_lateral()`; every step takes a process forward and none back, on a way of bounded length |
| `MicrophysicsProofs!WaterMade` | `MassKept`: water is kept, but for a fast autoconversion (`ALPHA_RAUT*DT` between 1 and 2) in a warm cell, which makes at most what there is of it above twice the threshold, and leaves no liquid when it makes any |
| `MicrophysicsProofs!HeatOfPhases` | `HeatMatchesPhases`: the heating is the latent heat of the phase changes, what is made counted without heat, fast or not |
| `MicrophysicsProofs!SaturationIsCrossedByIceOnly`, `TypeCorrect` | `SaturationCrossedByIceOnly`, `TypeOK`; like the two above for any amounts, thresholds and latent heats |
| `PlacesProofs!InTable`, `RightInterval`, `WidthKnown`, `TypeCorrect` | `ReadsInTable`, `Bracketed`, `WidthSet`, `TypeOK` for tables of any length |
| `PlacesProofs!SearchLeads` | a search that has not returned can go on, and each step leaves less to do, of at most `2 * MaxN + 3`, for tables of any length and any guess |

Assumptions: the named ones in the modules, that flags are positive integers
(a flag of 0 divides by zero in `main()`), sizes are positive, schemes are the
two there are. Four theorems on `RunControl` have conditions on the flags in their
statement, and need them: TLC refutes `EndStateKept` with an `itsave` that passes
`itrun` by, and `OneLog` with an `itsave` that is no multiple of `itextract` (the next run starts
between two frames) or with two faults of the rotation (it starts before the last frame but one);
`RC_append` refutes `FrameTimesAreTimes` without `FileByFrame`, and `RC_always_good` `AlwaysGoodBackup` with two faults.

The arguments.

- `LossBounded` is not inductive: it speaks of the moment between runs only.
  `LossInv` adds what has to hold while one runs. Without a fault so far,
  `epic_back1.nc` is never partial outside of the writing of it; in the stages where
  `epic_back1.nc` is gone, a file other than it is at most `itback` behind; elsewhere the newest whole
  file is at most `Lag` behind, where `Lag` is `itime % itback`, or a whole interval
  just before the backup that is due. One fault can then cost what one rotation
  would have moved, no more. `OrderInv` says that no file is ahead of the model
  time.
- `EndStateKept`: `StateInv` says where in the loop `itime` and `itrun` can be
  (`ClockInv`), that a request to stop is pending only behind an output (`RequestInv`), and that from the
  output at `itrun` on, the newest whole file is the present state (`EndInv`).
- `FramesOrdered` and `OneLog`: `ChainInv` adds that all files, and the starts of runs, are at multiples of
  `itextract` (`GridInv`), so that nobody starts between two frames; `PlaneInv`, that a plane
  is no later than the model time and only the last may be half written; `LogInv`, that the
  planes are in order (`FrameOrder`), that the last of them is at most an interval, and one more per
  failure, behind the clock (`PaceInv`), and, with at most one fault, that no file a run may start from is older than
  the last whole plane (`BehindInv`). With it each action is a `Record`, `Tick`, `Fail` or
  `Resume` of `FrameLog`, or changes neither clock nor planes.
- `GoodBackup`: `BackupInv`, a run that was started from a backup has one, and while `epic_back1.nc`
  is replaced and no fault has come yet it is the other one. `LossInv` supplies that `epic_back1.nc` is not partial
  before the first fault, so what the rotation renames is whole. After one fault the next rotation may rename a
  partial file, and only a fault of that one leaves none.
- `TimesStored`: `IdInv`, in a run that appends and has not yet defined a file, the first save or the first
  backup is still ahead, and by `FileByFrame` no further than the first frame. With `main()`'s default for
  `itback` that is so for all other flags (`DefaultInTime`).
- `StopLeads`: `RoundsLeft` counts the times the loop still gets to its end: until `epic_stop` is seen, one
  and what is missing to the next multiple of `itback`; once it is seen, one, and at the top of the loop none,
  since `HeedInv` says that `itrun` was then put to `itime` and the loop is over.
  `ToStop` adds the stages of a round. A second `epic_stop`, or a save that comes before the backup, can only
  make it less.
- `WindPlanes`: `AbInv` and `LfInv` say what each slot holds, in terms of `now`
  and the place in the timestep: the flag as long as no step has set it, else
  the tendency or wind of a definite time. `FileInv` says the same of the file, and is what
  makes `Restart` preserve the invariant. With it a march is a step of
  `WindHistory`, `Restart` is its `Resume`, and all other actions stutter.
- `Timestep`: none of the properties is inductive, since each speaks of one place in the step.
  `StepInv` says it for every place: a timestep begins with all that `store_diag()` and `store_pgrad_vars()`
  calculate renewed but for the species (`BehindAt`); what the calls up to `uv_core()` change is then scalars only, and
  what the flow is calculated from (`Roots`, by `RootsBound`) is not among them, so `calc_w()` and `uv_core()` see
  the present winds and H; before the winds are marched, `store_pgrad_vars()` and what it depends on (`Renewed`) are
  calculated anew, and stay so. DZDT2 has its second part exactly from `calc_w()` to `pgrad_vars`
  (`WithSecondPart`). `FileIs` says what is so of the file, which makes a restart at any call keep the invariant.
  That a diagnostic is behind with nothing it is not calculated from (`Good`) has to be carried along, and needs that `Roots`,
  a recursive function, exists: the diagnostics have four levels, each calculated from
  lower ones (`FromLevels`, `RootsAre`). Each function of the code has one lemma on what it does to the
  condition of the fields (`SetP2EtcIs`, `StorePgradVarsIs`, `DiagsRenewed`, `SyncDiagsOnlyIs`); most of the calls are
  `Mild`, they leave DZDT2 alone and make no first seam. That there are no seams is part of `StepInv`
  without condensing clouds only. With them `SeamInv` says where one can be at every call (`SeamsAt`): the clouds
  heat the interior, `source_sink()` takes the seam of HEAT3 to THETA and `calc_w()` to W3, the advection
  ends that of THETA, and `set_p2_etc()` that of THETA2. `Confined` says that one function of the code keeps
  the seams within a set.
- `CartDecomp`: `FitInv`, `dims * copy <= length` on every axis that is being
  divided, is what the integer divisions of `balance()` keep; since `copy` is at
  least 1 where it does not abort, no axis gets more processes than points, and
  `Decomp1dPartitions` applies to each. `AlikeInv`: at the second call nothing is
  negative, so nothing is chosen again. `FactorInv`: what is left of the number times the product of
  the factors is the number; nothing below the trial divisor divides what is left, so a divisor that does is
  prime (`LeastDivisorPrime`), and what is left is prime once it is below `i * i` (`RestPrime`). The product does not
  change when the factors are sorted (`ProductPermuted`), and `dims` times the factors still to be dealt
  out is the number, so at the end MPI finds the dims it wants. `Product` is a recursive function
  over the places of a sequence; what it gives is proved by induction over
  a set (`SetInduction`), which is a minimum of its complement. That the
  steps lead to the end takes that every list can be sorted (`AllSortable`), that no divisor is larger than what it
  may divide, and that each factor found leaves less for the next (`PaceInv`).
- `EdgeExchange`: two things let a process be ahead of the others and still
  find the right values. Sums: `Future(p)` is the set of the sums p has not yet
  begun; `GivenInv` says that processes sharing rows that have given as much have the same
  future, that one which is ahead is so by one sum, the least of the other's future, and that what
  it gave is the row the other will ask for. So every sum is of one row of one call, though
  V-grid fields skip row 0 and every call has rows of its own. Messages: `QueueInv` says that between a
  sender and its receiver are exactly the strips of the calls, on that communicator, after the last one
  received up to the last one sent (`LastGot`, `LastSent`, `Count`, `Nth`), each with the
  values of its call; the oldest is therefore that of the call the receiver is at (`HeadExpected`).
  `FieldInv` says that a pad filled in the present call is right; since the meridional pads
  come first, a zonal strip takes the corners along (`StripExpected`). At the poles `NoSource` and
  the row `nj + 1` that the last process computes make up for the message that does not come.
  Nobody waits for ever: `Position` is how far a process has come, in sums, strips and calls. Who cannot
  step waits for a sum or a strip of one that is behind (`WaitsForBehind`, from `GivenInv` and
  `QueueInv`), so of those that have not returned the one that is least far can step. `Ready` spells out the guards of `Run`.
- `ArrayIO`: the difficulty is that processes are at different places of the same
  loops. `Past(p, n, i)` says that p has returned from the call for variable i of
  process n. `MemInv`: while p writes the mixing ratio, its array is `Shown` (voids
  zero), elsewhere `Kept` (voids untouched or `Q_MIN`); both are stable under
  another round, whatever the number of rounds (`MapVoidShows`, `RestoreMassKeeps`),
  so no count of the rounds is needed for what is in the file. `PadsAgree` does need one, because a pad and the
  point its owner has are put through their rounds by different processes at different times:
  `Orbit(x)` is what a value goes through, `Rounds(p)` how often p has done it (`RoundsInv`),
  and when all have returned everyone has done it `num_nodes` times. `MsgInv`: a message has the rows of its sender, all of them,
  because `KnownInv` says that both ends know the same range. `FileInv`: the rows
  of what node 0 is past are in the file. `ReadInv` is the same for reading. Every
  row is in the file at the end because `SubgridProofs` says every row has an owner.
  `MailInv`: a message is on the way exactly from when its sender has sent it until its receiver is past the call. With it
  who cannot step waits for one with a smaller `Place` (`WaitsForOther`), and the one with the smallest can step,
  unless it is at `bc_lateral()`; then all are.
- `Microphysics`: no property of a finished call is inductive; what is, is a ledger. At every
  stage each budget is what there was less what the rates so far take from it (`Ledger`), and what is
  left of it has a sign (`Limits`) that depends on how far the call is: the liquid may be overdrawn
  by autoconversion, by `Short` at most, the deficit by sublimation. Applied together the rates leave the liquid no
  further below zero than `Overdrawn`, which is what the fill-up can make (`Made`). `Heat` goes with every stage, and
  after the fill-up has the latent heat of what was made.
- `Places`: `Bounds`, `x` is at or past `il` and not past `iu`, where -1 and `n` stand for the
  outside; the bisection can then end only in the right interval, and since `Within` holds during a
  search that hunts, the two returns that leave `*dx` as it is are never reached. `Left` is the way over the table that a hunt can
  still make, and then the distance of the bounds, which every bisection makes smaller.

Only model-checked: liveness (`StopHonoured`, `Terminates`, `AllCallsReturn`, `SearchEnds`), as far as it is fairness and ENABLED, which
are out of the prover's reach. The rest of each is proved for every size: that somebody can go on (`CanProceed`,
`CanStep`, `Ready` and `CanSearch` are the guards of the actions, written out), and that every step leads
nearer to an end whose distance is bounded. Every invariant and both refinements of the passing runs are
theorems, some on `RunControl` under the conditions on the flags given above.

## 5 Where code and comments disagree

- `RC_append`: with `-append`, a frame written before the run has defined any file stores
  L_s under id 0, which is the time coordinate (`core/epic_funcs_io.c:1804`);
  "Write time in days since var.start_time". `TimesStored` says with which flags that cannot be.
- `RC_always_good`: the rotation renames `epic_back1.nc` even if it was only half written. A
  run restarted from `epic_back2.nc` therefore replaces it by the partial file before it
  has written its own (`core/epic_main.c:403`); "always have a good one". A
  second failure there leaves none. `GoodBackup` and `LossBounded` state what does hold.
- `TS_seam`: with condensing clouds W3 on the pads lacks the latent heat its owner has
  added, and `uv_core` reads it there (`core/epic_flux.c:197`); "No need to apply bc_lateral() here". A parallel run then
  differs from a serial one. `SeamsOfCloudsOnly` says which fields are read there.
- `ET_lazy`: the tables of latent heat are read by the first process that needs them
  (`clouds/epic_microphysics_funcs.c:521`), in broadcasts all processes have to join; one
  without a warm cell goes on to `bc_lateral()`, and neither returns; "Allocate memory for data tables and read in values".

Met while modelling, and not runs of their own:

- `core/epic_timestep.c:143`, "Diagnostic variables are now synchronized": when a frame is
  written, THETA and the species have been changed by `source_sink` since. `FrameOfOneTime` is what does hold.
- The note in `timestep()` says it would be wrong to call `store_pgrad_vars` again after DZDT2 is
  finished; `adiabatic_adjustment` does (`subgrid/epic_subgrid.c:1830`), and
  `Z2DifferencesJoinWithoutAdjustment` leaves it out, and what a restart changes before it sets Z2: the species,
  and an H at its floor, which `set_p2_etc()` raises once more.
- "We would still avoid using more than the available amount of moisture": autoconversion is not
  limited by the liquid there is (`clouds/epic_microphysics.c:391`). With `ALPHA_RAUT*DT` above 1 liquid turns
  negative and `restore_mass_min()` makes water; `MassKept` bounds how much, and says that no liquid is left then.
- Sublimation is limited by the ice and not by the deficit (`clouds/epic_microphysics.c:369`), so it may take
  vapour past saturation in one step; `SaturationCrossedByIceOnly` says nothing else does.
- The hunt's two returns that do not set `*dx` are never taken (`WidthKnown`).

## 6 What is not modelled

- The numbers: fluxes, diffusion, radiative transfer, thermodynamics, astronomy,
  chemistry, splines, linear algebra, FFT. Each is a formula on floating-point values;
  the models keep when it is applied and to what.
- The dialogue of `initial` and `change`, the set-up of planets, data files.
- Of the reading and writing of arrays: `stretch_ni`, extracts of mole fractions, header variables.
- The exchange of layers of a column in `adiabatic_adjustment` and the sweep of `source_sink_SA`: what they do
  depends on floating-point comparisons at every step, and no text of the repository says what they should leave.
- Of the filter: its coefficients, and the cases where it does nothing (a cartesian plane; a number of
  columns that is no power of two).
- `mpi/mpg` routines without a caller in the model (parallel read, write, slabs), vendored netCDF and
  CDISORT, analysis tools.

Measured in lines this is most of the repository: two copies of netCDF and CDISORT, retired code in
`attic`, data and tools are nine tenths of it, and most of the rest is numerics. What the modules cover is
the code that decides what is done, when, by whom and to what.

Abstractions that matter when reading a result. Directories and paths are not
modelled, so neither is the `-append` path that is opened before `chdir()` and
written after it. A failed process loses what it was writing but no file
closed before. `Timestep` does not tell the rows of a field apart, so loops that
read neighbours they have just updated are invisible in it. The parallel models
take ranks to be the same in both communicators although `MPI_Cart_create` is
allowed to reorder them.

## 7 How the project came about, and what could follow

The order was that of importance: `RunControl`, `WindPlanes` with its refinement, `Timestep`,
decomposition, halo exchange and arrays first; then the rows of the filter in `EdgeExchange`,
failures in `FrameLog`, `Microphysics`, `EnthalpyTables` and `Places`, and with them the theorems on the
chain of runs, the cell and the searches.

Then the theorems on the factors of the decomposition and on the pads of a save, those that nobody waits for ever,
and those on the order of work in a timestep.

What could follow: a column on quantized values for
`adiabatic_adjustment`; `WindPlanes` with the layer above the model, and `Timestep` from the very first
`set_p2_etc`.

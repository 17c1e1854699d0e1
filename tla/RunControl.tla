----------------------------- MODULE RunControl -----------------------------
(***************************************************************************)
(* The output and restart control of the program epic: the WHILE loop of   *)
(* main() in core/epic_main.c, the extract frames and the advance of the   *)
(* model time in timestep() (core/epic_timestep.c), and the stages of      *)
(* var_write() (core/epic_funcs_io.c) that a failure can fall between.     *)
(*                                                                         *)
(* A history is a chain of runs in one directory.  A run ends by itself,   *)
(* because epic_stop was seen, or by a failure (a crash, epic_error() or a *)
(* write to disk that fails); the next run starts from the newest file     *)
(* that is whole.  Model time counts timesteps since the first file, the   *)
(* one the program initial wrote, which is never overwritten.              *)
(***************************************************************************)
EXTENDS Integers, Sequences

CONSTANTS
  ItBack, ItSave, ItExtract, ItRun,  \* flags, IntMax where the flag is absent
  ExtractOn,                         \* some variable is marked for extraction
  AppendOnRestart,                   \* later runs are given -append extract.nc
  RenameMayFail,                     \* rename() may fail though the file exists
  MaxStarts,                         \* bound: runs in the chain
  MaxCrashes,                        \* bound: runs that end by a failure
  MaxWriteFaults,                    \* bound: faults of the backup rotation
  MaxTime                            \* bound: model time

IntMax == 2147483647

ASSUME FlagsAssumption ==
  /\ {ItBack, ItSave, ItExtract} \subseteq 1 .. IntMax
  /\ ItRun \in 0 .. IntMax
  /\ {ExtractOn, AppendOnRestart, RenameMayFail} \subseteq BOOLEAN

ASSUME BoundsAssumption == {MaxStarts, MaxCrashes, MaxWriteFaults, MaxTime} \subseteq Nat

(* The defaults main() derives from one flag for another. *)
itback == IF ItExtract < IntMax /\ ItBack = IntMax THEN ItExtract ELSE ItBack

itsave == IF ItRun < IntMax /\ ItSave = IntMax
            THEN (IF ItRun < 1 THEN 1 ELSE ItRun)
            ELSE ItSave

(* What a solar longitude leaves behind when it is stored where a time belongs. *)
NotATime == -1

VARIABLES
  pc,           \* where in the loop the run is, "off" between runs
  itime, itrun, \* grid.itime, grid.itrun
  time,         \* var.model_time, in timesteps
  start,        \* model time of the run's input file
  stop_request,
  append,       \* the run was given -append
  next_frame,   \* var.extract_time_index
  ls_id,        \* var.l_s.info.id is the id of L_s and not its initial 0
  back1, back2, \* epic_back1.nc, epic_back2.nc
  saves,        \* model times of the whole epic<date>.nc
  extract,      \* the time planes of extract.nc
  epic_stop,    \* the file epic_stop exists
  starts, crashes, write_faults

run_vars   == <<itime, itrun, start, stop_request, append>>
file_vars  == <<back1, back2, saves>>
frame_vars == <<next_frame, extract>>
tally_vars == <<starts, crashes, write_faults>>
vars == <<pc, time, run_vars, ls_id, file_vars, frame_vars, epic_stop, tally_vars>>

Stages == {"off", "top", "save", "save_check", "back", "create", "backup",
           "back_check", "stop", "frame", "extract", "advance"}

File == [kind : {"absent", "partial", "whole"}, time : Nat]

Absent   == [kind |-> "absent",  time |-> 0]
Partial  == [kind |-> "partial", time |-> 0]
Whole(t) == [kind |-> "whole",   time |-> t]

(* A time plane of extract.nc: what its time coordinate holds, and whether all *)
(* of it was written.                                                         *)
Frame == [time : Nat \cup {NotATime}, closed : BOOLEAN]

(* The model times of the files a run can be started from. *)
WholeTime(f) == IF f.kind = "whole" THEN {f.time} ELSE {}

Recoverable == {0} \cup saves \cup WholeTime(back1) \cup WholeTime(back2)

Due(n) == itime > 0 /\ itime % n = 0

Goto(from, to) == pc = from /\ pc' = to

Running == pc # "off"

-----------------------------------------------------------------------------

Init ==
  /\ pc = "off"
  /\ itime = 0 /\ itrun = 0 /\ time = 0 /\ start = 0
  /\ stop_request = FALSE
  /\ append = FALSE
  /\ next_frame = 0
  /\ ls_id = FALSE
  /\ back1 = Absent /\ back2 = Absent
  /\ saves = {}
  /\ extract = << >>
  /\ epic_stop = FALSE
  /\ starts = 0 /\ crashes = 0 /\ write_faults = 0

(* What -append reads from the file it is given; the variant takes the index of *)
(* the last plane for their number.                                           *)
PlanesStored_LastIndex == Len(extract) - 1

PlanesStored == Len(extract)

(***************************************************************************)
(* Everything before the loop.  The first run, and every run without       *)
(* -append, writes the header of a new extract.nc, and defining that file  *)
(* sets the ids of its variables; -append only counts the planes of the    *)
(* file it is given.                                                       *)
(***************************************************************************)
Start ==
  /\ Goto("off", "top")
  /\ starts < MaxStarts
  /\ \E t \in Recoverable :
       /\ \A r \in Recoverable : r <= t
       /\ t < MaxTime
       /\ time' = t /\ start' = t
  /\ itime' = 0 /\ itrun' = ItRun
  /\ stop_request' = FALSE
  /\ append' = (AppendOnRestart /\ starts > 0)
  /\ extract' = IF ExtractOn /\ ~append' THEN << >> ELSE extract
  /\ next_frame' = IF append' THEN PlanesStored ELSE 0
  /\ ls_id' = (ExtractOn /\ ~append')
  /\ starts' = starts + 1
  /\ UNCHANGED <<file_vars, epic_stop, crashes, write_faults>>

(* The save of the loop: nc_create() truncates a file of the same model time. *)
BeginSave ==
  /\ Goto("top", "save")
  /\ itime <= itrun
  /\ Due(itsave)
  /\ saves' = saves \ {time}
  /\ ls_id' = TRUE
  /\ UNCHANGED <<time, run_vars, back1, back2, frame_vars, epic_stop, tally_vars>>

EndSave ==
  /\ Goto("save", "save_check")
  /\ saves' = saves \cup {time}
  /\ UNCHANGED <<time, run_vars, ls_id, back1, back2, frame_vars, epic_stop, tally_vars>>

NoSave ==
  /\ Goto("top", "back")
  /\ itime <= itrun
  /\ ~Due(itsave)
  /\ UNCHANGED <<time, run_vars, ls_id, file_vars, frame_vars, epic_stop, tally_vars>>

(* A seen epic_stop is removed at once; the request is kept. *)
CheckStop ==
  /\ stop_request' = (stop_request \/ epic_stop)
  /\ epic_stop' = FALSE
  /\ UNCHANGED <<time, itime, itrun, start, append, ls_id, file_vars, frame_vars, tally_vars>>

CheckStopAfterSave   == Goto("save_check", "back") /\ CheckStop
CheckStopAfterBackup == Goto("back_check", "stop") /\ CheckStop

(***************************************************************************)
(* The backup of the loop, in three steps: rename epic_back1.nc, create    *)
(* its successor, close it.  A rename that fails for another reason than   *)
(* ENOENT is reported by perror() and otherwise ignored.                   *)
(***************************************************************************)
RotateBackup_InPlace ==  \* variant: the old backup is simply written over
  /\ Goto("back", "create")
  /\ Due(itback)
  /\ UNCHANGED <<time, run_vars, ls_id, file_vars, frame_vars, epic_stop, tally_vars>>

RotateBackup ==
  /\ Goto("back", "create")
  /\ Due(itback)
  /\ back2' = IF back1.kind = "absent" THEN back2 ELSE back1
  /\ back1' = Absent
  /\ UNCHANGED <<time, run_vars, ls_id, saves, frame_vars, epic_stop, tally_vars>>

RotateBackupError ==
  /\ Goto("back", "create")
  /\ Due(itback)
  /\ RenameMayFail
  /\ back1.kind # "absent"
  /\ write_faults < MaxWriteFaults
  /\ write_faults' = write_faults + 1
  /\ UNCHANGED <<time, run_vars, ls_id, file_vars, frame_vars, epic_stop, starts, crashes>>

CreateBackup ==
  /\ Goto("create", "backup")
  /\ back1' = Partial
  /\ ls_id' = TRUE
  /\ UNCHANGED <<time, run_vars, back2, saves, frame_vars, epic_stop, tally_vars>>

EndBackup ==
  /\ Goto("backup", "back_check")
  /\ back1' = Whole(time)
  /\ UNCHANGED <<time, run_vars, ls_id, back2, saves, frame_vars, epic_stop, tally_vars>>

NoBackup_Looks ==  \* variant: epic_stop is looked for at every step
  /\ Goto("back", "back_check")
  /\ ~Due(itback)
  /\ UNCHANGED <<time, run_vars, ls_id, file_vars, frame_vars, epic_stop, tally_vars>>

NoBackup ==
  /\ Goto("back", "stop")
  /\ ~Due(itback)
  /\ UNCHANGED <<time, run_vars, ls_id, file_vars, frame_vars, epic_stop, tally_vars>>

HeedStop_Forgotten ==  \* variant: itrun is left as it was
  /\ Goto("stop", "frame")
  /\ UNCHANGED <<time, run_vars, ls_id, file_vars, frame_vars, epic_stop, tally_vars>>

(* A stop request makes the present step the last. *)
HeedStop ==
  /\ Goto("stop", "frame")
  /\ itrun' = IF stop_request THEN itime ELSE itrun
  /\ UNCHANGED <<time, itime, start, stop_request, append, ls_id, file_vars, frame_vars,
                 epic_stop, tally_vars>>

FrameDue_FirstToo ==  \* variant: a run that appends writes its first frame too
  ExtractOn /\ itime % ItExtract = 0

(* timestep(): a run that appends leaves out the frame of its first step. *)
FrameDue == ExtractOn /\ itime % ItExtract = 0 /\ (append => itime > 0)

BeginFrame ==
  /\ Goto("frame", "extract")
  /\ FrameDue
  /\ UNCHANGED <<time, run_vars, ls_id, file_vars, frame_vars, epic_stop, tally_vars>>

NoFrame ==
  /\ Goto("frame", "advance")
  /\ ~FrameDue
  /\ UNCHANGED <<time, run_vars, ls_id, file_vars, frame_vars, epic_stop, tally_vars>>

(* Plane n+1 of the sequence is plane n of the file.  L_s is put second. *)
PutFrame(closed) ==
  extract' = SubSeq(extract, 1, next_frame) \o
             << [time |-> IF ls_id THEN time ELSE NotATime, closed |-> closed] >> \o
             SubSeq(extract, next_frame + 2, Len(extract))

EndFrame ==
  /\ Goto("extract", "advance")
  /\ PutFrame(TRUE)
  /\ next_frame' = next_frame + 1
  /\ UNCHANGED <<time, run_vars, ls_id, file_vars, epic_stop, tally_vars>>

Advance_NoReturn ==  \* variant: the step at itrun is integrated as well
  /\ Goto("advance", "top")
  /\ time < MaxTime
  /\ time' = time + 1
  /\ itime' = itime + 1
  /\ UNCHANGED <<itrun, start, stop_request, append, ls_id, file_vars, frame_vars,
                 epic_stop, tally_vars>>

(***************************************************************************)
(* The rest of timestep() and the increment of itime.  With extracts on,   *)
(* the call at itime = itrun returns before anything is integrated.        *)
(***************************************************************************)
Advance ==
  /\ Goto("advance", "top")
  /\ time < MaxTime
  /\ time' = IF ExtractOn /\ itime = itrun THEN time ELSE time + 1
  /\ itime' = itime + 1
  /\ UNCHANGED <<itrun, start, stop_request, append, ls_id, file_vars, frame_vars,
                 epic_stop, tally_vars>>

EndRun ==
  /\ Goto("top", "off")
  /\ itime > itrun
  /\ UNCHANGED <<time, run_vars, ls_id, file_vars, frame_vars, epic_stop, tally_vars>>

(***************************************************************************)
(* The process is lost.  What it was writing stays as it is; a frame being *)
(* written may or may not have reached the file.                           *)
(***************************************************************************)
Crash ==
  /\ Running
  /\ crashes < MaxCrashes
  /\ pc' = "off"
  /\ crashes' = crashes + 1
  /\ IF pc \in {"create", "backup"}
       THEN write_faults < MaxWriteFaults /\ write_faults' = write_faults + 1
       ELSE UNCHANGED write_faults
  /\ IF pc = "extract" THEN PutFrame(FALSE) \/ UNCHANGED extract ELSE UNCHANGED extract
  /\ UNCHANGED <<time, run_vars, ls_id, file_vars, next_frame, epic_stop, starts>>

(* Someone types "touch epic_stop" to stop the program that is running. *)
Touch ==
  /\ Running
  /\ ~epic_stop
  /\ epic_stop' = TRUE
  /\ UNCHANGED <<pc, time, run_vars, ls_id, file_vars, frame_vars, tally_vars>>

(* One step of a running program. *)
Proceed ==
  \/ BeginSave \/ EndSave \/ NoSave \/ CheckStopAfterSave
  \/ RotateBackup \/ RotateBackupError \/ CreateBackup \/ EndBackup \/ NoBackup
  \/ CheckStopAfterBackup \/ HeedStop
  \/ BeginFrame \/ NoFrame \/ EndFrame \/ Advance \/ EndRun

Next == Start \/ Proceed \/ Crash \/ Touch

Spec == Init /\ [][Next]_vars

(* A process that is running is scheduled; nothing else is promised. *)
FairSpec == Spec /\ WF_vars(Proceed)

-----------------------------------------------------------------------------

(* Every variable holds a value of its type: the loop's counters, the states of *)
(* the two backup files and the planes of the extract file.                    *)
TypeOK ==
  /\ pc \in Stages
  /\ {itime, itrun, time, start, next_frame, starts, crashes, write_faults} \subseteq Nat
  /\ {stop_request, append, ls_id, epic_stop} \subseteq BOOLEAN
  /\ {back1, back2} \subseteq File
  /\ saves \subseteq Nat
  /\ extract \in Seq(Frame)

(***************************************************************************)
(* A failure costs at most the work of one backup interval: whenever no    *)
(* process runs, some whole file is at most itback steps behind the model  *)
(* time that had been reached.  Rotating by rename before writing is what  *)
(* gives this, as long as the rotation has met no more than one fault.     *)
(***************************************************************************)
LossBounded ==
  pc = "off" /\ write_faults <= 1 => \E r \in Recoverable : time - r <= itback

(***************************************************************************)
(* "Always have a good one" (epic_main.c) and "always having a good backup *)
(* should a write to disk fail" (epic_main.help): a run that was itself    *)
(* started from a backup does not end without leaving a whole one.         *)
(* Stated for chains that write no epic<date>.nc.                          *)
(***************************************************************************)
AlwaysGoodBackup ==
  pc = "off" /\ start > 0 /\ saves = {} => "whole" \in {back1.kind, back2.kind}

(***************************************************************************)
(* A run that ends by itself, at itrun or at a request to stop, leaves its *)
(* last state in a whole file: the check for epic_stop comes after a save  *)
(* or a backup of the same step, and the default of itsave is itrun.       *)
(***************************************************************************)
EndStateKept ==
  pc = "off" /\ itime > itrun => start + itrun \in Recoverable

(***************************************************************************)
(* The planes of the extract file are in order of time whatever run of the *)
(* chain wrote them, without repeats, and every crash can cost at most the *)
(* one plane that was due when it struck, as long as the backup rotation   *)
(* has met no more than one fault.                                         *)
(***************************************************************************)
FramesOrdered ==
  write_faults <= 1 =>
    \A n \in 1 .. Len(extract) - 1 :
      /\ extract[n].time < extract[n + 1].time
      /\ extract[n + 1].time - extract[n].time <= (1 + crashes) * ItExtract

(* "Write time in days since var.start_time" (epic_funcs_io.c): the time *)
(* coordinate of every plane of the extract file is a time.              *)
FrameTimesAreTimes ==
  \A n \in 1 .. Len(extract) : extract[n].time # NotATime

(* "Stop a run at the next scheduled save or backup" (epic_main.help): the  *)
(* process ends even where itrun does not end it.  MaxTime leaves room.    *)
StopHonoured ==
  (epic_stop /\ Running /\ time + itback < MaxTime) ~> ~Running

(***************************************************************************)
(* Stopping and starting again is invisible in the extract file: the chain *)
(* implements a single log of frames, one per ItExtract steps.  A failure  *)
(* sends the model back, but not behind the last frame, and costs at most  *)
(* the one that was due.  Stated for runs that end at a multiple of        *)
(* ItExtract and rotations that meet at most one fault.                    *)
(***************************************************************************)
Frames == INSTANCE FrameLog WITH
  Interval <- ItExtract,
  clock    <- time,
  failures <- crashes,
  planes   <- [n \in 1 .. Len(extract) |-> extract[n].time]

OneLog == Frames!Spec

=============================================================================

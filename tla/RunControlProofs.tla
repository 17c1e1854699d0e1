-------------------------- MODULE RunControlProofs --------------------------
(***************************************************************************)
(* For every value of the flags and of the bounds: the loop of epic keeps  *)
(* its types, a failure costs at most one backup interval, the frames of   *)
(* a chain of runs are in order, and a request to stop is heeded within    *)
(* one backup interval.  Last, what is left of two statements of comments  *)
(* that the code does not keep in full: when there is always a good        *)
(* backup, and when the frames have times.                                 *)
(***************************************************************************)
EXTENDS RunControl, SequenceTheorems, TLAPS

(* The interval of a flag that is absent, and the intervals derived from the flags are positive. *)
LEMMA IntMaxNat == IntMax \in Nat \ {0}
  BY SMT DEF IntMax

LEMMA Intervals == itback \in Nat \ {0} /\ itsave \in Nat \ {0} /\ ItExtract \in Nat \ {0}
  BY FlagsAssumption, IntMaxNat DEF itback, itsave

(* The next plane to be written is one that exists or the one after them. *)
FrameIndex == next_frame <= Len(extract)

(* Writing plane n leaves a sequence of planes that includes plane n. *)
LEMMA PutFrameType ==
  ASSUME TypeOK, FrameIndex, NEW closed \in BOOLEAN, PutFrame(closed)
  PROVE  extract' \in Seq(Frame) /\ next_frame + 1 <= Len(extract')
  <1> DEFINE rec    == [time |-> IF ls_id THEN time ELSE NotATime, closed |-> closed]
             before == SubSeq(extract, 1, next_frame)
             after  == SubSeq(extract, next_frame + 2, Len(extract))
  <1>1. extract \in Seq(Frame) /\ next_frame \in Nat /\ time \in Nat /\ Len(extract) \in Nat
    BY DEF TypeOK, Frame
  <1>2. << rec >> \in Seq(Frame) /\ Len(<< rec >>) = 1
    BY <1>1 DEF Frame
  <1>3. \A i \in 1 .. Len(extract) : extract[i] \in Frame
    BY <1>1
  <1>4. before \in Seq(Frame) /\ Len(before) = next_frame
    <2>1. \A i \in 1 .. next_frame : extract[i] \in Frame
      BY <1>1, <1>3 DEF FrameIndex
    <2> QED BY <1>1, <2>1, SubSeqProperties
  <1>5. after \in Seq(Frame) /\ Len(after) \in Nat
    <2>1. \A i \in next_frame + 2 .. Len(extract) : extract[i] \in Frame
      BY <1>1, <1>3
    <2>2. after \in Seq(Frame)
      BY <1>1, <2>1, SubSeqProperties
    <2> QED BY <2>2, LenProperties
  <1>6. before \o << rec >> \in Seq(Frame) /\ Len(before \o << rec >>) = next_frame + 1
    BY <1>2, <1>4, ConcatProperties
  <1>7. /\ (before \o << rec >>) \o after \in Seq(Frame)
        /\ Len((before \o << rec >>) \o after) = next_frame + 1 + Len(after)
    BY <1>5, <1>6, ConcatProperties
  <1>8. extract' = (before \o << rec >>) \o after
    BY DEF PutFrame
  <1> HIDE DEF before, after, rec
  <1> QED BY <1>1, <1>5, <1>7, <1>8

(* Types and the position of the next plane, together inductive. *)
TypeInv == TypeOK /\ FrameIndex

(* A whole file stands at a natural model time. *)
LEMMA RecoverableType == TypeOK => \A r \in Recoverable : r \in Nat
  <1>1. \A f \in File : f.time \in Nat
    BY DEF File
  <1>2. ASSUME NEW f \in File PROVE \A r \in WholeTime(f) : r \in Nat
    BY <1>1 DEF WholeTime
  <1>3. ASSUME TypeOK PROVE back1 \in File /\ back2 \in File /\ \A r \in saves : r \in Nat
    BY <1>3 DEF TypeOK
  <1>4. ASSUME TypeOK, NEW r \in {0} \cup saves \cup WholeTime(back1) \cup WholeTime(back2)
        PROVE  r \in Nat
    <2>1. CASE r = 0
      BY <2>1
    <2>2. CASE r \in saves
      BY <1>3, <1>4, <2>2
    <2>3. CASE r \in WholeTime(back1)
      BY <1>2, <1>3, <1>4, <2>3
    <2>4. CASE r \in WholeTime(back2)
      BY <1>2, <1>3, <1>4, <2>4
    <2> QED BY <1>4, <2>1, <2>2, <2>3, <2>4
  <1> QED BY <1>4 DEF Recoverable

LEMMA TypeInvStep == TypeInv /\ [Next]_vars => TypeInv'
  <1> SUFFICES ASSUME TypeInv, [Next]_vars PROVE TypeInv'
    OBVIOUS
  <1> USE DEF TypeInv
  <1>1. CASE Start
    <2>1. time' \in Nat /\ start' = time'
      BY <1>1, RecoverableType DEF Start
    <2>2. Len(extract) \in Nat /\ Len(<< >>) = 0
      BY DEF TypeOK
    <2>3. extract' \in Seq(Frame) /\ next_frame' \in Nat /\ next_frame' <= Len(extract')
      BY <1>1, <2>2, FlagsAssumption DEF Start, PlanesStored, TypeOK, Frame
    <2>4. {itime', itrun', starts', crashes', write_faults'} \subseteq Nat
      BY <1>1, FlagsAssumption, IntMaxNat DEF Start, TypeOK
    <2>5. {stop_request', append', ls_id', epic_stop'} \subseteq BOOLEAN
      BY <1>1, FlagsAssumption DEF Start, TypeOK
    <2>6. pc' \in Stages /\ UNCHANGED <<back1, back2, saves>>
      BY <1>1 DEF Start, Goto, Stages, file_vars
    <2> QED BY <2>1, <2>3, <2>4, <2>5, <2>6 DEF TypeOK, FrameIndex
  <1>2. CASE BeginSave \/ EndSave \/ NoSave
    BY <1>2 DEF BeginSave, EndSave, NoSave, Goto, TypeOK, FrameIndex, Stages,
                run_vars, file_vars, frame_vars, tally_vars
  <1>3. CASE CheckStopAfterSave \/ CheckStopAfterBackup
    BY <1>3 DEF CheckStopAfterSave, CheckStopAfterBackup, CheckStop, Goto, TypeOK, FrameIndex,
                Stages, file_vars, frame_vars, tally_vars
  <1>4. CASE RotateBackup \/ RotateBackupError \/ CreateBackup \/ EndBackup \/ NoBackup
    <2>1. Absent \in File /\ Partial \in File /\ Whole(time) \in File
      BY DEF TypeOK, File, Absent, Partial, Whole
    <2>2. {back1', back2'} \subseteq File
      BY <1>4, <2>1 DEF RotateBackup, RotateBackupError, CreateBackup, EndBackup, NoBackup, TypeOK,
                        file_vars
    <2>3. pc' \in Stages
      BY <1>4 DEF RotateBackup, RotateBackupError, CreateBackup, EndBackup, NoBackup, Goto, Stages
    <2>4. UNCHANGED <<time, run_vars, saves, frame_vars, epic_stop, starts, crashes>>
      BY <1>4 DEF RotateBackup, RotateBackupError, CreateBackup, EndBackup, NoBackup,
                  file_vars, tally_vars
    <2>5. write_faults' \in {write_faults, write_faults + 1} /\ (ls_id' = ls_id \/ ls_id' = TRUE)
      BY <1>4 DEF RotateBackup, RotateBackupError, CreateBackup, EndBackup, NoBackup, tally_vars
    <2>6. write_faults' \in Nat
      BY <2>5 DEF TypeOK
    <2>8. ls_id' \in BOOLEAN
      BY <2>5 DEF TypeOK
    <2>7. FrameIndex'
      BY <2>4 DEF FrameIndex, frame_vars
    <2> QED BY <2>2, <2>3, <2>4, <2>6, <2>7, <2>8 DEF TypeOK, run_vars, frame_vars
  <1>5. CASE HeedStop \/ BeginFrame \/ NoFrame \/ EndRun
    BY <1>5 DEF HeedStop, BeginFrame, NoFrame, EndRun, Goto, TypeOK, FrameIndex, Stages,
                run_vars, file_vars, frame_vars, tally_vars
  <1>6. CASE EndFrame
    <2>1. extract' \in Seq(Frame) /\ next_frame' <= Len(extract')
      BY <1>6, PutFrameType DEF EndFrame
    <2> QED BY <1>6, <2>1 DEF EndFrame, Goto, TypeOK, FrameIndex, Frame, Stages,
                run_vars, file_vars, tally_vars
  <1>7. CASE Advance
    BY <1>7 DEF Advance, Goto, TypeOK, FrameIndex, Stages, file_vars, frame_vars, tally_vars
  <1>8. CASE Crash
    <2>1. extract' \in Seq(Frame) /\ next_frame <= Len(extract')
      <3>1. CASE PutFrame(FALSE)
        <4>1. next_frame + 1 <= Len(extract') /\ extract' \in Seq(Frame)
          BY <3>1, PutFrameType
        <4>2. Len(extract') \in Nat /\ next_frame \in Nat
          BY <4>1, LenProperties DEF TypeOK
        <4> QED BY <4>1, <4>2
      <3>2. CASE UNCHANGED extract
        BY <3>2 DEF TypeOK, FrameIndex, Frame
      <3> QED BY <1>8, <3>1, <3>2 DEF Crash
    <2>2. /\ UNCHANGED <<time, run_vars, file_vars, next_frame, epic_stop>>
          /\ pc' \in Stages /\ crashes' = crashes + 1
      BY <1>8 DEF Crash, Stages
    <2>3. starts' = starts /\ write_faults' \in {write_faults, write_faults + 1} /\ ls_id' = ls_id
      BY <1>8 DEF Crash
    <2>4. crashes' \in Nat /\ write_faults' \in Nat
      BY <2>2, <2>3 DEF TypeOK
    <2> QED BY <2>1, <2>2, <2>3, <2>4 DEF TypeOK, FrameIndex, run_vars, file_vars
  <1>9. CASE Touch
    BY <1>9 DEF Touch, TypeOK, FrameIndex, Stages, run_vars, file_vars, frame_vars, tally_vars
  <1>10. CASE UNCHANGED vars
    BY <1>10 DEF vars, TypeOK, FrameIndex, run_vars, file_vars, frame_vars, tally_vars
  <1> QED BY <1>1, <1>2, <1>3, <1>4, <1>5, <1>6, <1>7, <1>8, <1>9, <1>10 DEF Next, Proceed

LEMMA InitTypeInv == Init => TypeInv
  <1>1. Absent \in File /\ << >> \in Seq(Frame) /\ Len(<< >>) = 0
    BY DEF File, Absent
  <1>2. Init => FrameIndex /\ extract \in Seq(Frame)
    BY <1>1 DEF Init, FrameIndex
  <1>3. Init => pc \in Stages
    BY DEF Init, Stages
  <1>4. Init => {itime, itrun, time, start, next_frame, starts, crashes, write_faults} \subseteq Nat
    BY DEF Init
  <1>5. Init => {stop_request, append, ls_id, epic_stop} \subseteq BOOLEAN
    BY DEF Init
  <1>6. Init => {back1, back2} \subseteq File /\ saves \subseteq Nat
    BY <1>1 DEF Init
  <1> QED BY <1>2, <1>3, <1>4, <1>5, <1>6 DEF TypeInv, TypeOK

(* Every state of every chain of runs is of the declared types.  It takes   *)
(* FrameIndex: the planes of the extract file are written without a hole. *)
THEOREM TypeCorrect == Spec => []TypeOK
  <1>1. Init => TypeInv
    BY InitTypeInv
  <1>2. TypeInv /\ [Next]_vars => TypeInv'
    BY TypeInvStep
  <1>3. TypeInv => TypeOK
    BY DEF TypeInv
  <1> QED BY <1>1, <1>2, <1>3, PTL DEF Spec

-----------------------------------------------------------------------------

(***************************************************************************)
(* The bound on lost work.  LossBounded speaks only of the moments between *)
(* two runs; what makes it inductive is how far behind the newest whole    *)
(* file is at each stage of the loop (Lag), that the backups are in order  *)
(* of time, and which files survive while a backup is being replaced.      *)
(***************************************************************************)

(* One step short of a multiple, the remainder is one less. *)
LEMMA ModPred ==
  ASSUME NEW b \in Nat \ {0}, NEW i \in Nat, i % b # 0
  PROVE  i > 0 /\ ((i - 1) % b) + 1 = i % b
  <1> DEFINE q == i \div b
             r == i % b
  <1>1. i = (b * q) + r /\ r \in 1 .. b - 1 /\ q \in Int
    OBVIOUS
  <1>2. 0 % b = 0
    OBVIOUS
  <1>3. i > 0
    BY <1>2
  <1>4. \A t \in 0 .. b - 1 : ((b * q) + t) % b = t
    BY <1>1
  <1>5. i - 1 = (b * q) + (r - 1) /\ r - 1 \in 0 .. b - 1
    BY <1>1
  <1> HIDE DEF q
  <1>6. (i - 1) % b = r - 1
    BY <1>4, <1>5
  <1> QED BY <1>1, <1>3, <1>6

LEMMA ModRange ==
  ASSUME NEW b \in Nat \ {0}, NEW i \in Nat
  PROVE  i % b \in 0 .. b - 1
  OBVIOUS

(* The stages at which the backup of the present step is still to come. *)
BeforeBackup == {"top", "save", "save_check", "back"}

LagAt(p, i) ==
  IF p \in BeforeBackup
    THEN (IF i = 0 THEN 0 ELSE ((i - 1) % itback) + 1)
    ELSE i % itback

Lag == LagAt(pc, itime)

(* Files that the writing of epic_back1.nc does not touch. *)
Kept == {0} \cup saves \cup WholeTime(back2)

(* No whole file is ahead of the run, and the two backups are in order. *)
OrderInv ==
  /\ \A r \in Recoverable : r <= time
  /\ pc = "top" /\ 0 < itime /\ itime <= itrun => time \notin saves
  /\ back1.kind = "whole" /\ back2.kind = "whole" => back2.time <= back1.time

LossInv ==
  /\ write_faults = 0 /\ pc # "backup" => back1.kind # "partial"
  /\ write_faults = 0 /\ pc \in {"create", "backup"} => \E r \in Kept : time - r <= itback
  /\ write_faults <= 1 /\ pc = "off" => \E r \in Recoverable : time - r <= itback
  /\ write_faults <= 1 /\ pc \notin {"off", "create", "backup"} =>
       \E r \in Recoverable : time - r <= Lag

LEMMA OrderStep == TypeInv /\ TypeInv' /\ OrderInv /\ [Next]_vars => OrderInv'
  <1> SUFFICES ASSUME TypeInv, TypeInv', OrderInv, [Next]_vars PROVE OrderInv'
    OBVIOUS
  <1>0. /\ {time, time', itime, itrun} \subseteq Nat /\ saves \subseteq Nat
        /\ \A r \in Recoverable : r \in Nat /\ r <= time
    BY RecoverableType DEF TypeInv, TypeOK, OrderInv
  <1>1. CASE Start
    BY <1>0, <1>1 DEF Start, OrderInv, Recoverable, Goto, file_vars
  <1>2. CASE BeginSave
    BY <1>0, <1>2 DEF BeginSave, OrderInv, Recoverable, Goto
  <1>3. CASE EndSave
    BY <1>0, <1>3 DEF EndSave, OrderInv, Recoverable, Goto
  <1>4. CASE NoSave \/ NoBackup \/ RotateBackupError \/ BeginFrame \/ NoFrame \/ EndFrame \/ EndRun
    BY <1>4 DEF NoSave, NoBackup, RotateBackupError, BeginFrame, NoFrame, EndFrame, EndRun,
                OrderInv, Recoverable, Goto, file_vars
  <1>5. CASE CheckStopAfterSave \/ CheckStopAfterBackup
    BY <1>5 DEF CheckStopAfterSave, CheckStopAfterBackup, CheckStop, OrderInv, Recoverable, Goto,
                file_vars
  <1>6. CASE RotateBackup
    BY <1>0, <1>6 DEF RotateBackup, OrderInv, Recoverable, WholeTime, Absent, Goto
  <1>7. CASE CreateBackup
    BY <1>0, <1>7 DEF CreateBackup, OrderInv, Recoverable, WholeTime, Partial, Goto
  <1>8. CASE EndBackup
    <2>1. /\ pc' # "top" /\ UNCHANGED <<time, back2, saves>>
          /\ back1' = Whole(time)
      BY <1>8 DEF EndBackup, Goto
    <2>2. \A r \in Recoverable' : r = time \/ r \in Recoverable
      BY <2>1 DEF Recoverable, WholeTime, Whole
    <2>3. back2.kind = "whole" => back2.time <= time
      BY <1>0 DEF Recoverable, WholeTime
    <2>4. back1'.kind = "whole" /\ back1'.time = time
      BY <2>1 DEF Whole
    <2> QED BY <1>0, <2>1, <2>2, <2>3, <2>4 DEF OrderInv
  <1>9. CASE HeedStop
    BY <1>9 DEF HeedStop, OrderInv, Recoverable, Goto, file_vars
  <1>10. CASE Advance
    BY <1>0, <1>10 DEF Advance, OrderInv, Recoverable, Goto, file_vars
  <1>11. CASE Crash
    BY <1>11 DEF Crash, OrderInv, Recoverable, file_vars
  <1>12. CASE Touch
    BY <1>12 DEF Touch, OrderInv, Recoverable, run_vars, file_vars
  <1>13. CASE UNCHANGED vars
    BY <1>13 DEF vars, OrderInv, Recoverable, run_vars, file_vars
  <1> QED BY <1>1, <1>2, <1>3, <1>4, <1>5, <1>6, <1>7, <1>8, <1>9, <1>10, <1>11, <1>12, <1>13
    DEF Next, Proceed

(* At most one interval passes between two backups. *)
LEMMA LagRange == \A p : \A i \in Nat : LagAt(p, i) \in 0 .. itback
  <1> SUFFICES ASSUME NEW p, NEW i \in Nat PROVE LagAt(p, i) \in 0 .. itback
    OBVIOUS
  <1>1. itback \in Nat \ {0}
    BY Intervals
  <1>2. CASE i = 0
    <2>1. 0 % itback = 0
      BY <1>1
    <2> QED BY <1>1, <1>2, <2>1 DEF LagAt
  <1>3. CASE i # 0
    <2>1. i - 1 \in Nat
      BY <1>3
    <2>2. (i - 1) % itback \in 0 .. itback - 1 /\ i % itback \in 0 .. itback - 1
      BY <1>1, <2>1, ModRange
    <2> QED BY <1>1, <1>3, <2>2 DEF LagAt
  <1> QED BY <1>2, <1>3

LEMMA LossStep ==
  TypeInv /\ TypeInv' /\ OrderInv /\ OrderInv' /\ LossInv /\ [Next]_vars => LossInv'
  <1> SUFFICES ASSUME TypeInv, TypeInv', OrderInv, OrderInv', LossInv, [Next]_vars
               PROVE  LossInv'
    OBVIOUS
  <1>0. /\ time \in Nat /\ time' \in Nat /\ itime \in Nat /\ write_faults \in Nat
        /\ itback \in Nat \ {0} /\ Lag \in Nat /\ Lag <= itback /\ Lag' \in Nat
        /\ \A r \in Recoverable : r \in Nat /\ r <= time
    <2>1. time \in Nat /\ time' \in Nat /\ itime \in Nat /\ itime' \in Nat /\ write_faults \in Nat
      BY DEF TypeInv, TypeOK
    <2>2. \A r \in Recoverable : r \in Nat /\ r <= time
      BY RecoverableType DEF TypeInv, OrderInv
    <2>3. itback \in Nat \ {0}
      BY Intervals
    <2>4. Lag \in 0 .. itback /\ Lag' \in 0 .. itback
      BY <2>1, LagRange DEF Lag
    <2>5. Lag \in Nat /\ Lag <= itback /\ Lag' \in Nat
      BY <2>3, <2>4
    <2> QED BY <2>1, <2>2, <2>3, <2>5
  <1>1. CASE Start
    <2>1. pc' = "top" /\ time' \in Recoverable /\ itime' = 0 /\ UNCHANGED <<back1, back2, saves>>
      BY <1>1 DEF Start, Goto, file_vars
    <2>2. pc = "off" /\ UNCHANGED write_faults
      BY <1>1 DEF Start, Goto
    <2>3. time' \in Recoverable'
      BY <2>1 DEF Recoverable, WholeTime
    <2>4. \A t, d \in Nat : t - t <= d
      OBVIOUS
    <2>5. time' - time' <= Lag'
      BY <1>0, <2>4
    <2>6. \E r \in Recoverable' : time' - r <= Lag'
      BY <2>3, <2>5
    <2> QED BY <2>1, <2>2, <2>6 DEF LossInv
  (* Steps that leave the files and the clock alone, on one side of the backup. *)
  <1>2. ASSUME UNCHANGED <<time, itime, write_faults, back1, back2, saves>>,
               {pc, pc'} \cap {"off", "create", "backup"} = {},
               pc \in BeforeBackup <=> pc' \in BeforeBackup
        PROVE  LossInv'
    <2>1. Lag' = Lag
      BY <1>2 DEF Lag, LagAt
    <2>2. Recoverable' = Recoverable
      BY <1>2 DEF Recoverable, WholeTime
    <2>3. back1'.kind = back1.kind /\ time' = time /\ write_faults' = write_faults
      BY <1>2
    <2>4. pc \notin {"off", "create", "backup"} /\ pc' \notin {"off", "create", "backup"}
      BY <1>2
    <2> QED BY <2>1, <2>2, <2>3, <2>4 DEF LossInv
  <1>3. CASE NoSave \/ CheckStopAfterSave \/ CheckStopAfterBackup \/ HeedStop
                \/ BeginFrame \/ NoFrame \/ EndFrame
    <2>1. UNCHANGED <<time, itime, write_faults, back1, back2, saves>>
      BY <1>3 DEF NoSave, CheckStopAfterSave, CheckStopAfterBackup, CheckStop, HeedStop, BeginFrame,
                  NoFrame, EndFrame, run_vars, file_vars, tally_vars
    <2>2. <<pc, pc'>> \in {<<"top", "back">>, <<"save_check", "back">>, <<"back_check", "stop">>,
                           <<"stop", "frame">>, <<"frame", "extract">>, <<"frame", "advance">>,
                           <<"extract", "advance">>}
      BY <1>3 DEF NoSave, CheckStopAfterSave, CheckStopAfterBackup, HeedStop, BeginFrame, NoFrame,
                  EndFrame, Goto
    <2> QED BY <1>2, <2>1, <2>2 DEF BeforeBackup
  <1>4. CASE BeginSave
    <2>1. /\ pc = "top" /\ pc' = "save" /\ saves' = saves \ {time}
          /\ UNCHANGED <<time, itime, write_faults, back1, back2>>
      BY <1>4 DEF BeginSave, Goto, run_vars, tally_vars
    <2>2. time \notin saves
      BY <1>0, <1>4, <2>1 DEF BeginSave, Due, OrderInv
    <2>3. saves' = saves
      BY <2>1, <2>2
    <2> QED BY <1>2, <2>1, <2>3 DEF BeforeBackup
  <1>5. CASE EndSave
    <2>1. /\ pc = "save" /\ pc' = "save_check" /\ saves' = saves \cup {time}
          /\ UNCHANGED <<time, itime, write_faults, back1, back2>>
      BY <1>5 DEF EndSave, Goto, run_vars, tally_vars
    <2>2. Lag' = Lag
      BY <2>1 DEF Lag, LagAt, BeforeBackup
    <2>3. \A r \in Recoverable : r \in Recoverable'
      BY <2>1 DEF Recoverable, WholeTime
    <2>4. back1'.kind = back1.kind
      BY <2>1
    <2> QED BY <2>1, <2>2, <2>3, <2>4 DEF LossInv
  <1>6. CASE RotateBackup
    <2>1. /\ pc = "back" /\ pc' = "create" /\ back1' = Absent
          /\ back2' = (IF back1.kind = "absent" THEN back2 ELSE back1)
          /\ UNCHANGED <<time, itime, write_faults, saves>>
      BY <1>6 DEF RotateBackup, Goto, run_vars, tally_vars
    <2>2. ASSUME write_faults = 0 PROVE \E r \in Kept' : time' - r <= itback
      <3>1. PICK r \in Recoverable : time - r <= Lag
        BY <2>1, <2>2 DEF LossInv
      <3>2. time - r <= itback /\ r \in Nat /\ r <= time
        BY <1>0, <3>1
      <3>3. CASE r \in {0} \cup saves
        BY <2>1, <3>2, <3>3 DEF Kept
      <3>4. CASE r \in WholeTime(back1)
        <4>1. back1.kind = "whole" /\ back1.time = r
          BY <3>4 DEF WholeTime
        <4>2. back2' = back1
          BY <2>1, <4>1
        <4> QED BY <2>1, <3>2, <4>1, <4>2 DEF Kept, WholeTime
      <3>5. CASE r \in WholeTime(back2) /\ back1.kind = "absent"
        <4>1. back2' = back2
          BY <2>1, <3>5
        <4> QED BY <2>1, <3>2, <3>5, <4>1 DEF Kept, WholeTime
      <3>6. CASE r \in WholeTime(back2) /\ back1.kind # "absent"
        <4>1. back2' = back1 /\ back2.kind = "whole" /\ back2.time = r
          BY <2>1, <3>6 DEF WholeTime
        <4>2. back1.kind = "whole"
          <5>1. back1.kind # "partial" /\ back1 \in File
            BY <2>1, <2>2 DEF LossInv, TypeInv, TypeOK
          <5> QED BY <3>6, <5>1 DEF File
        <4>3. back1.time \in Recoverable /\ r <= back1.time
          BY <4>1, <4>2 DEF OrderInv, Recoverable, WholeTime
        <4>4. time - back1.time <= itback
          <5>1. \A t, u, v, d \in Nat : t - u <= d /\ u <= v => t - v <= d
            OBVIOUS
          <5>2. back1.time \in Nat /\ itback \in Nat /\ time \in Nat
            BY <1>0, <4>3
          <5> QED BY <3>2, <4>3, <5>1, <5>2
        <4>5. back1.time \in Kept'
          BY <4>1, <4>2 DEF Kept, WholeTime
        <4> QED BY <2>1, <4>4, <4>5
      <3> QED BY <3>1, <3>3, <3>4, <3>5, <3>6 DEF Recoverable
    <2>3. back1'.kind # "partial"
      BY <2>1 DEF Absent
    <2> QED BY <2>1, <2>2, <2>3 DEF LossInv
  <1>7. CASE RotateBackupError
    <2>1. /\ pc = "back" /\ pc' = "create" /\ write_faults' = write_faults + 1
      BY <1>7 DEF RotateBackupError, Goto
    <2>2. write_faults' # 0
      BY <1>0, <2>1
    <2> QED BY <2>1, <2>2 DEF LossInv
  <1>8. CASE CreateBackup
    <2>1. /\ pc = "create" /\ pc' = "backup"
          /\ UNCHANGED <<time, back2, saves, write_faults>>
      BY <1>8 DEF CreateBackup, Goto, tally_vars
    <2>2. Kept' = Kept
      BY <2>1 DEF Kept, WholeTime
    <2> QED BY <2>1, <2>2 DEF LossInv
  <1>9. CASE EndBackup
    <2>1. /\ pc' = "back_check" /\ back1' = Whole(time) /\ time' = time
      BY <1>9 DEF EndBackup, Goto
    <2>2. back1'.kind = "whole" /\ back1'.time = time'
      BY <2>1 DEF Whole
    <2>3. time' \in Recoverable'
      BY <2>2 DEF Recoverable, WholeTime
    <2>4. \A t, d \in Nat : t - t <= d
      OBVIOUS
    <2>5. time' - time' <= Lag'
      BY <1>0, <2>4
    <2> QED BY <2>1, <2>2, <2>3, <2>5 DEF LossInv
  <1>10. CASE NoBackup
    <2>1. /\ pc = "back" /\ pc' = "stop" /\ ~Due(itback)
          /\ UNCHANGED <<time, itime, write_faults, back1, back2, saves>>
      BY <1>10 DEF NoBackup, Goto, run_vars, file_vars, tally_vars
    <2>2. Lag' = Lag
      <3>1. CASE itime = 0
        <4>1. 0 % itback = 0
          BY <1>0
        <4> QED BY <2>1, <3>1, <4>1 DEF Lag, LagAt, BeforeBackup
      <3>2. CASE itime # 0
        <4>1. itime > 0
          BY <1>0, <3>2
        <4>2. itime % itback # 0
          BY <2>1, <4>1 DEF Due
        <4>3. ((itime - 1) % itback) + 1 = itime % itback
          BY <1>0, <4>2, ModPred
        <4> QED BY <2>1, <3>2, <4>3 DEF Lag, LagAt, BeforeBackup
      <3> QED BY <3>1, <3>2
    <2>3. Recoverable' = Recoverable /\ back1'.kind = back1.kind
      BY <2>1 DEF Recoverable, WholeTime
    <2> QED BY <2>1, <2>2, <2>3 DEF LossInv
  <1>11. CASE Advance
    <2>1. /\ pc = "advance" /\ pc' = "top" /\ time' \in {time, time + 1} /\ itime' = itime + 1
          /\ UNCHANGED <<write_faults, back1, back2, saves>>
      BY <1>11 DEF Advance, Goto, file_vars, tally_vars
    <2>2. Lag' = Lag + 1
      <3>1. itime + 1 # 0 /\ (itime + 1) - 1 = itime
        BY <1>0
      <3> QED BY <2>1, <3>1 DEF Lag, LagAt, BeforeBackup
    <2>3. Recoverable' = Recoverable /\ back1'.kind = back1.kind
      BY <2>1 DEF Recoverable, WholeTime
    <2>4. ASSUME write_faults <= 1 PROVE \E r \in Recoverable' : time' - r <= Lag'
      <3>1. PICK r \in Recoverable : time - r <= Lag
        BY <2>1, <2>4 DEF LossInv
      <3>2. r \in Nat /\ time \in Nat /\ Lag \in Nat
        BY <1>0
      <3>3. \A t, u, d \in Nat : t - u <= d => t - u <= d + 1 /\ (t + 1) - u <= d + 1
        OBVIOUS
      <3>4. time - r <= Lag + 1 /\ (time + 1) - r <= Lag + 1
        BY <3>1, <3>2, <3>3
      <3>5. time' - r <= Lag'
        BY <2>1, <2>2, <3>4
      <3> QED BY <2>3, <3>5
    <2> QED BY <2>1, <2>3, <2>4 DEF LossInv
  <1>12. CASE EndRun
    <2>1. /\ pc = "top" /\ pc' = "off"
          /\ UNCHANGED <<time, write_faults, back1, back2, saves>>
      BY <1>12 DEF EndRun, Goto, file_vars, tally_vars
    <2>2. Recoverable' = Recoverable /\ back1'.kind = back1.kind
      BY <2>1 DEF Recoverable, WholeTime
    <2>3. ASSUME write_faults <= 1 PROVE \E r \in Recoverable : time - r <= itback
      <3>1. PICK r \in Recoverable : time - r <= Lag
        BY <2>1, <2>3 DEF LossInv
      <3>2. r \in Nat /\ time \in Nat /\ Lag \in Nat /\ itback \in Nat /\ Lag <= itback
        BY <1>0
      <3>3. time - r <= itback
        BY <3>1, <3>2
      <3> QED BY <3>3
    <2> QED BY <2>1, <2>2, <2>3 DEF LossInv
  <1>13. CASE Crash
    <2>1. pc # "off" /\ pc' = "off" /\ UNCHANGED <<time, back1, back2, saves>>
      BY <1>13 DEF Crash, Running, file_vars
    <2>2. IF pc \in {"create", "backup"}
            THEN write_faults' = write_faults + 1
            ELSE write_faults' = write_faults
      BY <1>13 DEF Crash
    <2>3. Recoverable' = Recoverable /\ Kept \subseteq Recoverable /\ back1'.kind = back1.kind
      BY <2>1 DEF Recoverable, Kept, WholeTime
    <2>4. ASSUME write_faults' <= 1 PROVE \E r \in Recoverable : time - r <= itback
      <3>1. CASE pc \in {"create", "backup"}
        <4>1. write_faults = 0
          BY <1>0, <2>2, <2>4, <3>1
        <4> QED BY <2>3, <3>1, <4>1 DEF LossInv
      <3>2. CASE pc \notin {"create", "backup"}
        <4>1. PICK r \in Recoverable : time - r <= Lag
          BY <2>1, <2>2, <2>4, <3>2 DEF LossInv
        <4>2. r \in Nat /\ time \in Nat /\ Lag \in Nat /\ itback \in Nat /\ Lag <= itback
          BY <1>0
        <4>3. time - r <= itback
          BY <4>1, <4>2
        <4> QED BY <4>3
      <3> QED BY <3>1, <3>2
    <2>5. write_faults' = 0 => pc \notin {"create", "backup"} /\ write_faults = 0
      BY <1>0, <2>2
    <2>6. write_faults' = 0 => back1'.kind # "partial"
      BY <2>3, <2>5 DEF LossInv
    <2> QED BY <2>1, <2>3, <2>4, <2>6 DEF LossInv
  <1>14. CASE Touch \/ UNCHANGED vars
    <2>1. UNCHANGED <<pc, time, itime, write_faults, back1, back2, saves>>
      BY <1>14 DEF Touch, vars, run_vars, file_vars, tally_vars
    <2>2. Lag' = Lag /\ Recoverable' = Recoverable /\ Kept' = Kept /\ back1'.kind = back1.kind
      BY <2>1 DEF Lag, LagAt, Recoverable, Kept, WholeTime
    <2> QED BY <2>1, <2>2 DEF LossInv
  <1> QED BY <1>1, <1>3, <1>4, <1>5, <1>6, <1>7, <1>8, <1>9, <1>10, <1>11, <1>12, <1>13, <1>14
    DEF Next, Proceed

LEMMA InitLoss == Init => OrderInv /\ LossInv
  <1> SUFFICES ASSUME Init PROVE OrderInv /\ LossInv
    OBVIOUS
  <1>1. time = 0 /\ pc = "off" /\ back1.kind = "absent" /\ back2.kind = "absent" /\ saves = {}
    BY DEF Init, Absent
  <1>2. Recoverable = {0}
    BY <1>1 DEF Recoverable, WholeTime
  <1>3. OrderInv
    BY <1>1, <1>2 DEF OrderInv
  <1>4. time - 0 <= itback /\ 0 \in Recoverable
    BY <1>1, <1>2, Intervals
  <1> QED BY <1>1, <1>3, <1>4 DEF LossInv

(***************************************************************************)
(* Whatever the flags are, and wherever a chain of runs is interrupted, a  *)
(* whole file is at most itback steps behind, as long as the rotation of   *)
(* the backups has met no more than one fault.                             *)
(***************************************************************************)
THEOREM LossTheorem == Spec => []LossBounded
  <1> DEFINE IInv == TypeInv /\ OrderInv /\ LossInv
  <1>1. Init => TypeInv
    BY InitTypeInv
  <1>2. Init => OrderInv /\ LossInv
    BY InitLoss
  <1>3. IInv /\ [Next]_vars => IInv'
    BY TypeInvStep, OrderStep, LossStep
  <1>4. IInv => LossBounded
    BY DEF LossInv, LossBounded
  <1> QED BY <1>1, <1>2, <1>3, <1>4, PTL DEF Spec

-----------------------------------------------------------------------------

(***************************************************************************)
(* The state a run ends with.  It is in a file only if the flags make a    *)
(* save or a backup fall on the last step: main() sees to it by the        *)
(* default of itsave, but flags that are given may not divide itrun.       *)
(***************************************************************************)
EndsAtOutput ==
  ItRun = 0 \/ ItRun % itsave = 0 \/ ItRun % itback = 0 \/ ItRun > MaxTime

(* The state the run is in has a file that the rest of its step leaves alone. *)
SavedNow == time \in saves \/ back1 = Whole(time)

LEMMA SavedRecoverable == SavedNow => time \in Recoverable
  BY DEF SavedNow, Recoverable, WholeTime, Whole

(* The stages after the look at stop_request. *)
Ending == {"frame", "extract", "advance"}

(* The clocks agree until the last step has been made. *)
ClockInv ==
  /\ time <= MaxTime
  /\ pc \notin {"off", "top"} => itime <= itrun
  /\ pc # "off" /\ itime <= itrun => time = start + itime
  /\ pc # "off" /\ itime = 0 => start \in Recoverable
  /\ pc # "off" /\ itime < itrun => itrun = ItRun
  /\ pc \notin Ending \cup {"off"} /\ itime = itrun => itrun = ItRun

(* A request is made in a step whose state is in a file. *)
RequestInv ==
  /\ pc \in {"top", "save", "save_check"} /\ itime <= itrun => ~stop_request
  /\ pc = "save_check" => time \in saves
  /\ pc = "back_check" => back1 = Whole(time)
  /\ pc \in {"back", "create", "backup"} /\ stop_request => time \in saves
  /\ pc = "stop" /\ stop_request => SavedNow

(* So is the state at itrun, if a save or a backup falls on it. *)
EndInv ==
  /\ pc \in {"save", "save_check"} => Due(itsave)
  /\ pc \in {"create", "backup", "back_check"} => Due(itback)
  /\ pc \in {"back", "create", "backup", "back_check", "stop"} /\ Due(itsave) => time \in saves
  /\ pc = "stop" /\ Due(itback) => SavedNow
  /\ pc \in Ending /\ stop_request => itime = itrun
  /\ pc \in Ending /\ itime = itrun => start + itrun \in Recoverable
  /\ pc \in {"top", "off"} /\ itime > itrun => start + itrun \in Recoverable

StateInv == ClockInv /\ RequestInv /\ EndInv

LEMMA StateStep ==
  EndsAtOutput /\ TypeInv /\ TypeInv' /\ StateInv /\ [Next]_vars => StateInv'
  <1> SUFFICES ASSUME EndsAtOutput, TypeInv, TypeInv', StateInv, [Next]_vars
               PROVE  StateInv'
    OBVIOUS
  <1>0. /\ {time, time', itime, itime', itrun, itrun', start, start', ItRun} \subseteq Nat
        /\ stop_request \in BOOLEAN
    BY FlagsAssumption, IntMaxNat DEF TypeInv, TypeOK
  <1> USE DEF StateInv
  <1>1. CASE Start
    <2>1. /\ pc' = "top" /\ time' = start' /\ itime' = 0 /\ itrun' = ItRun /\ ~stop_request'
          /\ start' \in Recoverable /\ time' <= MaxTime /\ UNCHANGED <<back1, back2, saves>>
      BY <1>0, <1>1, BoundsAssumption DEF Start, Goto, file_vars
    <2>2. start' \in Recoverable'
      BY <2>1 DEF Recoverable, WholeTime
    <2>3. time' = start' + itime'
      BY <1>0, <2>1
    <2>4. ClockInv'
      BY <1>0, <2>1, <2>2, <2>3 DEF ClockInv, Ending
    <2>5. ~(itime' > itrun')
      BY <1>0, <2>1
    <2> QED BY <2>1, <2>4, <2>5 DEF RequestInv, EndInv, Ending
  (* Steps of the first half of the loop do not touch the clocks, and keep the files. *)
  <1>2. ASSUME UNCHANGED <<time, itime, itrun, start>>,
               pc # "off", pc' \notin Ending \cup {"off", "top"}, pc \notin Ending,
               itime <= itrun,
               itime = 0 => Recoverable \subseteq Recoverable'
        PROVE  ClockInv'
    <2>1. pc' # "top" /\ pc' # "off" /\ pc' \notin Ending
      BY <1>2
    <2> QED BY <1>0, <1>2, <2>1 DEF ClockInv
  <1>3. CASE BeginSave
    <2>1. /\ pc = "top" /\ pc' = "save" /\ itime <= itrun /\ Due(itsave)
          /\ UNCHANGED <<time, itime, itrun, start, stop_request>>
      BY <1>3 DEF BeginSave, Goto, run_vars
    <2>2. itime # 0 /\ Due(itsave)'
      BY <1>0, <2>1 DEF Due
    <2>3. ClockInv'
      BY <1>2, <2>1, <2>2 DEF Ending
    <2> QED BY <2>1, <2>2, <2>3 DEF RequestInv, EndInv, Ending
  <1>4. CASE EndSave
    <2>1. /\ pc = "save" /\ pc' = "save_check" /\ saves' = saves \cup {time}
          /\ UNCHANGED <<time, itime, itrun, start, stop_request, back1, back2>>
      BY <1>4 DEF EndSave, Goto, run_vars
    <2>2. Recoverable \subseteq Recoverable' /\ Due(itsave)' /\ itime <= itrun
      BY <2>1 DEF Recoverable, WholeTime, EndInv, Due, ClockInv
    <2>3. ClockInv'
      BY <1>2, <2>1, <2>2 DEF Ending
    <2> QED BY <2>1, <2>2, <2>3 DEF RequestInv, EndInv, Ending
  <1>5. CASE NoSave
    <2>1. /\ pc = "top" /\ pc' = "back" /\ itime <= itrun /\ ~Due(itsave)
          /\ UNCHANGED <<time, itime, itrun, start, stop_request, back1, back2, saves>>
      BY <1>5 DEF NoSave, Goto, run_vars, file_vars
    <2>2. Recoverable \subseteq Recoverable' /\ ~Due(itsave)'
      BY <2>1 DEF Recoverable, WholeTime, Due
    <2>3. ClockInv'
      BY <1>2, <2>1, <2>2 DEF Ending
    <2>4. ~stop_request'
      BY <2>1 DEF RequestInv
    <2> QED BY <2>1, <2>2, <2>3, <2>4 DEF RequestInv, EndInv, Ending
  <1>6. CASE CheckStopAfterSave \/ CheckStopAfterBackup
    <2>1. /\ \/ pc = "save_check" /\ pc' = "back"
             \/ pc = "back_check" /\ pc' = "stop"
          /\ UNCHANGED <<time, itime, itrun, start, back1, back2, saves>>
      BY <1>6 DEF CheckStopAfterSave, CheckStopAfterBackup, CheckStop, Goto, file_vars
    <2>2. /\ Recoverable \subseteq Recoverable' /\ itime <= itrun
          /\ Due(itsave)' = Due(itsave) /\ Due(itback)' = Due(itback)
      BY <2>1 DEF Recoverable, WholeTime, Due, ClockInv
    <2>3. ClockInv'
      BY <1>2, <2>1, <2>2 DEF Ending
    <2>4. CASE pc = "save_check" /\ pc' = "back"
      <3>1. time' \in saves'
        BY <2>1, <2>4 DEF RequestInv
      <3> QED BY <2>3, <2>4, <3>1 DEF RequestInv, EndInv, Ending
    <2>5. CASE pc = "back_check" /\ pc' = "stop"
      <3>1. SavedNow'
        BY <2>1, <2>5 DEF RequestInv, SavedNow, Whole
      <3>2. Due(itsave)' => time' \in saves'
        BY <2>1, <2>2, <2>5 DEF EndInv
      <3> QED BY <2>3, <2>5, <3>1, <3>2 DEF RequestInv, EndInv, Ending
    <2> QED BY <2>1, <2>4, <2>5
  <1>7. CASE RotateBackup \/ RotateBackupError \/ CreateBackup \/ EndBackup
    <2>1. /\ \/ pc = "back" /\ pc' = "create" /\ Due(itback)
             \/ pc = "create" /\ pc' = "backup"
             \/ pc = "backup" /\ pc' = "back_check"
          /\ UNCHANGED <<time, itime, itrun, start, stop_request, saves>>
      BY <1>7 DEF RotateBackup, RotateBackupError, CreateBackup, EndBackup, Goto, run_vars, file_vars
    <2>2. /\ Due(itback) /\ itime <= itrun
          /\ Due(itsave)' = Due(itsave) /\ Due(itback)' = Due(itback)
      BY <2>1 DEF EndInv, Due, ClockInv
    <2>3. itime # 0
      BY <1>0, <2>2 DEF Due
    <2>4. ClockInv'
      BY <1>2, <2>1, <2>2, <2>3 DEF Ending
    <2>5. pc' = "back_check" => back1' = Whole(time)'
      <3>1. pc' = "back_check" => back1' = Whole(time)
        BY <1>7 DEF RotateBackup, RotateBackupError, CreateBackup, EndBackup, Goto
      <3> QED BY <2>1, <3>1 DEF Whole
    <2>6. Due(itsave)' => time' \in saves'
      BY <2>1, <2>2 DEF EndInv
    <2>7. stop_request' /\ pc' # "back_check" => time' \in saves'
      BY <2>1 DEF RequestInv
    <2>8. RequestInv'
      BY <2>1, <2>5, <2>7 DEF RequestInv
    <2> QED BY <2>1, <2>2, <2>4, <2>6, <2>8 DEF EndInv, Ending
  <1>8. CASE NoBackup
    <2>1. /\ pc = "back" /\ pc' = "stop" /\ ~Due(itback)
          /\ UNCHANGED <<time, itime, itrun, start, stop_request, back1, back2, saves>>
      BY <1>8 DEF NoBackup, Goto, run_vars, file_vars
    <2>2. /\ Recoverable \subseteq Recoverable' /\ itime <= itrun
          /\ Due(itsave)' = Due(itsave) /\ ~Due(itback)'
      BY <2>1 DEF Recoverable, WholeTime, Due, ClockInv
    <2>3. ClockInv'
      BY <1>2, <2>1, <2>2 DEF Ending
    <2>4. stop_request' => SavedNow'
      BY <2>1 DEF RequestInv, SavedNow
    <2>5. Due(itsave)' => time' \in saves'
      BY <2>1, <2>2 DEF EndInv
    <2> QED BY <2>1, <2>2, <2>3, <2>4, <2>5 DEF RequestInv, EndInv, Ending
  <1>9. CASE HeedStop
    <2>1. /\ pc = "stop" /\ pc' = "frame"
          /\ itrun' = IF stop_request THEN itime ELSE itrun
          /\ UNCHANGED <<time, itime, start, stop_request, back1, back2, saves>>
      BY <1>9 DEF HeedStop, Goto, file_vars
    <2>2. Recoverable' = Recoverable
      BY <2>1 DEF Recoverable, WholeTime
    <2>3. itime <= itrun /\ time = start + itime
      BY <2>1 DEF ClockInv
    <2>4. time \in Recoverable \/ (~stop_request /\ itime < itrun)
      <3>1. CASE stop_request
        BY <2>1, <3>1, SavedRecoverable DEF RequestInv
      <3>2. CASE ~stop_request /\ itime = itrun
        <4>1. itime = ItRun
          BY <2>1, <3>2 DEF ClockInv, Ending
        <4>2. CASE ItRun = 0
          <5>1. time = start
            BY <1>0, <2>3, <4>1, <4>2
          <5> QED BY <2>1, <4>1, <4>2, <5>1 DEF ClockInv
        <4>3. CASE ItRun # 0 /\ ItRun % itsave = 0
          <5>1. Due(itsave)
            BY <1>0, <4>1, <4>3 DEF Due
          <5>2. SavedNow
            BY <2>1, <5>1 DEF EndInv, SavedNow
          <5> QED BY <5>2, SavedRecoverable
        <4>4. CASE ItRun # 0 /\ ItRun % itback = 0
          <5>1. Due(itback)
            BY <1>0, <4>1, <4>4 DEF Due
          <5> QED BY <2>1, <5>1, SavedRecoverable DEF EndInv
        <4>5. ~(ItRun > MaxTime)
          BY <1>0, <2>1, <2>3, <4>1, BoundsAssumption DEF ClockInv
        <4> QED BY <4>2, <4>3, <4>4, <4>5 DEF EndsAtOutput
      <3> QED BY <1>0, <2>3, <3>1, <3>2
    <2>5. itime' = itrun' => start' + itrun' \in Recoverable'
      BY <1>0, <2>1, <2>2, <2>3, <2>4
    <2>6. ClockInv'
      BY <1>0, <2>1, <2>2, <2>3 DEF ClockInv, Ending
    <2>7. stop_request' => itime' = itrun'
      BY <2>1
    <2> QED BY <2>1, <2>5, <2>6, <2>7 DEF RequestInv, EndInv, Ending
  <1>10. CASE BeginFrame \/ NoFrame \/ EndFrame
    <2>1. /\ pc \in Ending /\ pc' \in Ending
          /\ UNCHANGED <<time, itime, itrun, start, stop_request, back1, back2, saves>>
      BY <1>10 DEF BeginFrame, NoFrame, EndFrame, Goto, Ending, run_vars, file_vars
    <2>2. Recoverable' = Recoverable
      BY <2>1 DEF Recoverable, WholeTime
    <2>3. pc \notin {"off", "top"} /\ pc' \notin {"off", "top"}
      BY <2>1 DEF Ending
    <2>4. ClockInv'
      BY <2>1, <2>2, <2>3 DEF ClockInv
    <2>5. RequestInv'
      BY <2>1 DEF RequestInv, Ending
    <2>6. EndInv'
      BY <2>1, <2>2 DEF EndInv, Ending
    <2> QED BY <2>4, <2>5, <2>6
  <1>11. CASE Advance
    <2>1. /\ pc = "advance" /\ pc' = "top" /\ itime' = itime + 1
          /\ time' = (IF ExtractOn /\ itime = itrun THEN time ELSE time + 1)
          /\ time < MaxTime
          /\ UNCHANGED <<itrun, start, stop_request, back1, back2, saves>>
      BY <1>11 DEF Advance, Goto, file_vars
    <2>2. itime <= itrun /\ time = start + itime
      BY <2>1 DEF ClockInv
    <2>3. Recoverable' = Recoverable
      BY <2>1 DEF Recoverable, WholeTime
    <2>4. ClockInv'
      BY <1>0, <2>1, <2>2, BoundsAssumption DEF ClockInv, Ending
    <2>5. itime' <= itrun' => ~stop_request'
      BY <1>0, <2>1 DEF EndInv, Ending
    <2>6. itime' > itrun' => start' + itrun' \in Recoverable'
      <3>1. itime' > itrun' => itime = itrun
        BY <1>0, <2>1, <2>2
      <3> QED BY <2>1, <2>3, <3>1 DEF EndInv, Ending
    <2> QED BY <2>1, <2>4, <2>5, <2>6 DEF RequestInv, EndInv, Ending
  <1>12. CASE EndRun \/ Crash
    <2>1. /\ pc # "off" /\ pc' = "off"
          /\ UNCHANGED <<time, itime, itrun, start, back1, back2, saves>>
      BY <1>12 DEF EndRun, Crash, Running, Goto, run_vars, file_vars
    <2>2. Recoverable' = Recoverable
      BY <2>1 DEF Recoverable, WholeTime
    <2>3. itime > itrun => pc = "top"
      BY <1>0, <2>1 DEF ClockInv
    <2>4. itime' > itrun' => start' + itrun' \in Recoverable'
      BY <2>1, <2>2, <2>3 DEF EndInv
    <2> QED BY <2>1, <2>4 DEF ClockInv, RequestInv, EndInv, Ending
  <1>13. CASE Touch \/ UNCHANGED vars
    <2>1. UNCHANGED <<pc, time, itime, itrun, start, stop_request, back1, back2, saves>>
      BY <1>13 DEF Touch, vars, run_vars, file_vars
    <2>2. /\ Recoverable' = Recoverable /\ SavedNow' = SavedNow
          /\ Due(itsave)' = Due(itsave) /\ Due(itback)' = Due(itback)
      BY <2>1 DEF Recoverable, WholeTime, SavedNow, Whole, Due
    <2>3. ClockInv'
      BY <2>1, <2>2 DEF ClockInv
    <2>4. RequestInv'
      BY <2>1, <2>2 DEF RequestInv, Whole
    <2>5. EndInv'
      BY <2>1, <2>2 DEF EndInv
    <2> QED BY <2>3, <2>4, <2>5
  <1> QED BY <1>1, <1>3, <1>4, <1>5, <1>6, <1>7, <1>8, <1>9, <1>10, <1>11, <1>12, <1>13
    DEF Next, Proceed

LEMMA InitState == Init => StateInv
  <1> SUFFICES ASSUME Init PROVE StateInv
    OBVIOUS
  <1>1. pc = "off" /\ itime = 0 /\ itrun = 0 /\ time = 0
    BY DEF Init
  <1> QED BY <1>1, BoundsAssumption DEF StateInv, ClockInv, RequestInv, EndInv, Ending

(***************************************************************************)
(* A run that ends by itself, at itrun or at a request to stop, leaves its *)
(* last state in a whole file, if a save or a backup falls on itrun.  No   *)
(* number of failures before it, in other runs, changes that.              *)
(***************************************************************************)
THEOREM EndState == EndsAtOutput => (Spec => []EndStateKept)
  <1> SUFFICES ASSUME EndsAtOutput PROVE Spec => []EndStateKept
    OBVIOUS
  <1> DEFINE IInv == TypeInv /\ StateInv
  <1>1. Init => IInv
    BY InitTypeInv, InitState
  <1>2. IInv /\ [Next]_vars => IInv'
    BY TypeInvStep, StateStep
  <1>3. IInv => EndStateKept
    BY DEF StateInv, EndInv, EndStateKept
  <1> QED BY <1>1, <1>2, <1>3, PTL DEF Spec

-----------------------------------------------------------------------------

(***************************************************************************)
(* The extract file as one log.  It takes flags that agree: a backup on    *)
(* the steps of the frames, as main() sets it by default, and saves and    *)
(* the end of a run on some of these steps.                                *)
(***************************************************************************)
AlignedFlags ==
  /\ ExtractOn /\ AppendOnRestart
  /\ itback = ItExtract
  /\ ItRun % ItExtract = 0 \/ ItRun > MaxTime
  /\ itsave % ItExtract = 0 \/ itsave > MaxTime

OnFrame(t) == t % ItExtract = 0

(* Runs start from frames, and end on one. *)
GridInv ==
  /\ \A r \in Recoverable : OnFrame(r)
  /\ OnFrame(start)
  /\ pc \in Ending /\ itime = itrun => OnFrame(time)
  /\ pc = "top" /\ itime > itrun => time = start + itrun

(* Planes are appended, under ids that have been set. *)
PlaneInv ==
  /\ pc # "off" => next_frame = Len(extract)
  /\ starts = 0 => pc = "off" /\ extract = << >> /\ time = 0
  /\ pc # "off" /\ ~append => ls_id
  /\ pc \in {"backup", "back_check"} => ls_id
  /\ pc \in {"stop", "frame", "extract"} /\ Due(itback) => ls_id /\ back1 = Whole(time)
  /\ pc = "extract" => FrameDue
  /\ pc \notin {"off", "advance"} /\ ~append /\ itime = 0 => extract = << >>

Newest == extract[Len(extract)].time

NewestUpTo(t) == extract # << >> => Newest <= t

Slack == (1 + crashes) * ItExtract

(* Frames!Reach, the time by which the next plane is due. *)
Horizon == (IF extract = << >> THEN -ItExtract ELSE Newest) + Slack

FrameOrder ==
  \A n \in 1 .. Len(extract) - 1 :
    /\ extract[n].time < extract[n + 1].time
    /\ extract[n + 1].time - extract[n].time <= Slack

(* Where the run is in relation to the newest plane. *)
PaceInv ==
  /\ extract # << >> => Newest \in Nat /\ OnFrame(Newest) /\ Newest <= time
  /\ pc # "off" => time <= Horizon
  /\ pc # "off" /\ append => start + ItExtract <= Horizon
  /\ pc \notin {"off", "advance"} /\ 0 < itime /\ itime <= itrun /\ extract # << >> => Newest < time
  /\ pc = "advance" /\ OnFrame(time) /\ (append => itime > 0) => extract # << >> /\ Newest = time
  /\ pc = "top" /\ itime > itrun => time + ItExtract <= Horizon
  /\ pc = "off" /\ starts > 0 => time + ItExtract <= Horizon

(* No run is started behind the newest plane. *)
BehindInv ==
  /\ write_faults = 0 /\ pc \in {"create", "backup"} => \E r \in Kept : NewestUpTo(r)
  /\ pc \notin {"create", "backup"} => \E r \in Recoverable : NewestUpTo(r)
  /\ pc = "off" /\ crashes = 0 => time \in Recoverable

LogInv == write_faults <= 1 => FrameOrder /\ PaceInv /\ BehindInv

LEMMA FrameStep == ItExtract \in Nat \ {0}
  BY Intervals

(* Sums and differences of multiples are multiples, and these lie ItExtract apart. *)
LEMMA FrameSum ==
  ASSUME NEW a \in Int, NEW b \in Int, OnFrame(a), OnFrame(b)
  PROVE  OnFrame(a + b) /\ OnFrame(a - b) /\ (a < b => a + ItExtract <= b)
  <1> DEFINE m == a \div ItExtract
             n == b \div ItExtract
  <1>1. ItExtract \in Nat \ {0}
    BY FrameStep
  <1>2. a = ItExtract * m /\ b = ItExtract * n /\ m \in Int /\ n \in Int
    BY <1>1 DEF OnFrame
  <1> HIDE DEF m, n
  <1>3. \A k \in Int : (ItExtract * k) % ItExtract = 0
    BY <1>1
  <1>4. a + b = ItExtract * (m + n) /\ a - b = ItExtract * (m - n)
    BY <1>1, <1>2
  <1>5. OnFrame(a + b) /\ OnFrame(a - b)
    BY <1>2, <1>3, <1>4 DEF OnFrame
  <1>6. ASSUME a < b PROVE a + ItExtract <= b
    <2>1. b - a = ItExtract * (n - m) /\ n - m \in Int
      BY <1>1, <1>2
    <2>2. n - m >= 1
      <3>1. ASSUME n - m <= 0 PROVE FALSE
        <4>1. ItExtract * (n - m) <= 0
          BY <1>1, <1>2, <3>1
        <4> QED BY <1>6, <2>1, <4>1
      <3> QED BY <1>2, <3>1
    <2>3. ItExtract * (n - m) >= ItExtract
      BY <1>1, <1>2, <2>2
    <2> QED BY <1>1, <2>1, <2>3
  <1> QED BY <1>5, <1>6

LEMMA FrameMultiple ==
  ASSUME NEW m \in Nat \ {0}, OnFrame(m), NEW i \in Nat, i % m = 0
  PROVE  OnFrame(i)
  <1> DEFINE k == m \div ItExtract
             j == i \div m
  <1>1. ItExtract \in Nat \ {0}
    BY FrameStep
  <1>2. m = ItExtract * k /\ k \in Int
    BY <1>1 DEF OnFrame
  <1>3. i = m * j /\ j \in Int
    OBVIOUS
  <1> HIDE DEF j, k
  <1>4. i = ItExtract * (k * j) /\ k * j \in Int
    BY <1>1, <1>2, <1>3
  <1>5. \A n \in Int : (ItExtract * n) % ItExtract = 0
    BY <1>1
  <1> QED BY <1>4, <1>5 DEF OnFrame

LEMMA FrameZero == OnFrame(0)
  BY FrameStep DEF OnFrame

(* A failure gives one interval more. *)
LEMMA SlackIs ==
  /\ crashes \in Nat => Slack \in Nat /\ OnFrame(Slack) /\ Slack >= ItExtract
  /\ crashes \in Nat /\ crashes' = crashes + 1 => Slack' = Slack + ItExtract
  <1>1. ItExtract \in Nat \ {0}
    BY FrameStep
  <1>2. \A k \in Nat : (k * ItExtract) % ItExtract = 0
    BY <1>1
  <1>3. ASSUME crashes \in Nat PROVE Slack \in Nat /\ OnFrame(Slack) /\ Slack >= ItExtract
    <2>1. 1 + crashes \in Nat /\ (1 + crashes) * ItExtract \in Nat
      BY <1>1, <1>3
    <2>2. (1 + crashes) * ItExtract >= ItExtract
      BY <1>1, <1>3
    <2> QED BY <1>2, <2>1, <2>2 DEF Slack, OnFrame
  <1>4. ASSUME crashes \in Nat, crashes' = crashes + 1 PROVE Slack' = Slack + ItExtract
    <2>1. (1 + (crashes + 1)) * ItExtract = ((1 + crashes) * ItExtract) + ItExtract
      BY <1>1, <1>4
    <2> QED BY <1>4, <2>1 DEF Slack
  <1> QED BY <1>3, <1>4

LEMMA FramesAlign == AlignedFlags => EndsAtOutput
  BY DEF AlignedFlags, EndsAtOutput

(* The step of a save or a backup is one of a frame. *)
LEMMA OutputOnFrame ==
  ASSUME AlignedFlags, TypeInv, ClockInv, GridInv, pc # "off", itime <= itrun,
         Due(itsave) \/ Due(itback)
  PROVE  OnFrame(itime) /\ OnFrame(time)
  <1>1. {itime, start, time} \subseteq Nat
    BY DEF TypeInv, TypeOK
  <1>2. time = start + itime /\ time <= MaxTime /\ OnFrame(start)
    BY DEF ClockInv, GridInv
  <1>3. OnFrame(itime)
    <2>1. CASE Due(itback)
      BY <2>1 DEF Due, AlignedFlags, OnFrame
    <2>2. CASE Due(itsave)
      <3>1. itime > 0 /\ itime % itsave = 0
        BY <2>2 DEF Due
      <3>2. ~(itsave > MaxTime)
        <4>1. ASSUME itsave > MaxTime PROVE itime % itsave = itime
          BY <1>1, <1>2, <4>1, Intervals, BoundsAssumption
        <4> QED BY <1>1, <3>1, <4>1
      <3>3. OnFrame(itsave)
        BY <3>2 DEF AlignedFlags, OnFrame
      <3> QED BY <1>1, <3>1, <3>3, FrameMultiple, Intervals
    <2> QED BY <2>1, <2>2
  <1> QED BY <1>1, <1>2, <1>3, FrameSum

LEMMA GridStep ==
  AlignedFlags /\ TypeInv /\ TypeInv' /\ StateInv /\ GridInv /\ [Next]_vars => GridInv'
  <1> SUFFICES ASSUME AlignedFlags, TypeInv, TypeInv', StateInv, GridInv, [Next]_vars
               PROVE  GridInv'
    OBVIOUS
  <1>0. /\ {time, time', itime, itime', itrun, itrun', start, start', ItRun} \subseteq Nat
        /\ stop_request \in BOOLEAN
    BY FlagsAssumption, IntMaxNat DEF TypeInv, TypeOK
  <1> USE DEF StateInv
  (* Steps that keep the clocks, and write no file but of a state on a frame. *)
  <1>1. ASSUME UNCHANGED <<time, itime, itrun, start>>,
               \A r \in Recoverable' : r \in Recoverable \/ (r = time /\ OnFrame(time)),
               pc' \in Ending => pc \in Ending, pc' # "top"
        PROVE  GridInv'
    BY <1>1 DEF GridInv, OnFrame
  <1>2. CASE Start
    <2>1. /\ pc' = "top" /\ itime' = 0 /\ start' \in Recoverable
          /\ UNCHANGED <<back1, back2, saves>>
      BY <1>2 DEF Start, Goto, file_vars
    <2>2. Recoverable' = Recoverable
      BY <2>1 DEF Recoverable, WholeTime
    <2>3. ~(itime' > itrun') /\ pc' \notin Ending
      BY <1>0, <2>1 DEF Ending
    <2> QED BY <2>1, <2>2, <2>3 DEF GridInv, OnFrame
  <1>3. CASE BeginSave \/ NoSave
    <2>1. /\ pc' \in {"save", "back"} /\ saves' \subseteq saves
          /\ UNCHANGED <<time, itime, itrun, start, back1, back2>>
      BY <1>3 DEF BeginSave, NoSave, Goto, run_vars, file_vars
    <2> QED BY <1>1, <2>1 DEF Recoverable, WholeTime, Ending
  <1>4. CASE EndSave
    <2>1. /\ pc = "save" /\ pc' = "save_check" /\ saves' = saves \cup {time}
          /\ UNCHANGED <<time, itime, itrun, start, back1, back2>>
      BY <1>4 DEF EndSave, Goto, run_vars
    <2>2. OnFrame(time)
      BY <2>1, OutputOnFrame DEF EndInv, ClockInv
    <2> QED BY <1>1, <2>1, <2>2 DEF Recoverable, WholeTime, Ending
  <1>5. CASE CheckStopAfterSave \/ CheckStopAfterBackup
    <2>1. /\ pc' \in {"back", "stop"}
          /\ UNCHANGED <<time, itime, itrun, start, back1, back2, saves>>
      BY <1>5 DEF CheckStopAfterSave, CheckStopAfterBackup, CheckStop, Goto, file_vars
    <2> QED BY <1>1, <2>1 DEF Recoverable, WholeTime, Ending
  <1>6. CASE RotateBackup
    <2>1. /\ pc' = "create" /\ back1' = Absent /\ back2' \in {back1, back2}
          /\ UNCHANGED <<time, itime, itrun, start, saves>>
      BY <1>6 DEF RotateBackup, Goto, run_vars
    <2> QED BY <1>1, <2>1 DEF Recoverable, WholeTime, Absent, Ending
  <1>7. CASE CreateBackup
    <2>1. /\ pc' = "backup" /\ back1' = Partial
          /\ UNCHANGED <<time, itime, itrun, start, back2, saves>>
      BY <1>7 DEF CreateBackup, Goto, run_vars
    <2> QED BY <1>1, <2>1 DEF Recoverable, WholeTime, Partial, Ending
  <1>8. CASE EndBackup
    <2>1. /\ pc = "backup" /\ pc' = "back_check" /\ back1' = Whole(time)
          /\ UNCHANGED <<time, itime, itrun, start, back2, saves>>
      BY <1>8 DEF EndBackup, Goto, run_vars
    <2>2. OnFrame(time)
      BY <2>1, OutputOnFrame DEF EndInv, ClockInv
    <2> QED BY <1>1, <2>1, <2>2 DEF Recoverable, WholeTime, Whole, Ending
  <1>9. CASE RotateBackupError \/ NoBackup
    <2>1. /\ pc' \in {"create", "stop"}
          /\ UNCHANGED <<time, itime, itrun, start, back1, back2, saves>>
      BY <1>9 DEF RotateBackupError, NoBackup, Goto, run_vars, file_vars
    <2> QED BY <1>1, <2>1 DEF Recoverable, WholeTime, Ending
  <1>10. CASE HeedStop
    <2>1. /\ pc = "stop" /\ pc' = "frame"
          /\ itrun' = IF stop_request THEN itime ELSE itrun
          /\ UNCHANGED <<time, itime, start, back1, back2, saves>>
      BY <1>10 DEF HeedStop, Goto, file_vars
    <2>2. Recoverable' = Recoverable
      BY <2>1 DEF Recoverable, WholeTime
    <2>3. itime <= itrun /\ time = start + itime /\ time <= MaxTime
      BY <2>1 DEF ClockInv
    <2>4. ASSUME itime' = itrun' PROVE OnFrame(time)
      <3>1. CASE stop_request
        <4>1. time \in Recoverable
          BY <2>1, <3>1, SavedRecoverable DEF RequestInv
        <4> QED BY <4>1 DEF GridInv
      <3>2. CASE ~stop_request
        <4>1. itime = ItRun
          BY <2>1, <2>4, <3>2 DEF ClockInv, Ending
        <4>2. OnFrame(itime)
          <5>1. ~(ItRun > MaxTime)
            BY <1>0, <2>3, <4>1, BoundsAssumption
          <5> QED BY <4>1, <5>1 DEF AlignedFlags, OnFrame
        <4> QED BY <1>0, <2>3, <4>2, FrameSum DEF GridInv
      <3> QED BY <1>0, <3>1, <3>2
    <2> QED BY <2>1, <2>2, <2>4 DEF GridInv, OnFrame
  <1>11. CASE BeginFrame \/ NoFrame \/ EndFrame
    <2>1. /\ pc \in Ending /\ pc' # "top"
          /\ UNCHANGED <<time, itime, itrun, start, back1, back2, saves>>
      BY <1>11 DEF BeginFrame, NoFrame, EndFrame, Goto, Ending, run_vars, file_vars
    <2> QED BY <1>1, <2>1 DEF Recoverable, WholeTime
  <1>12. CASE Advance
    <2>1. /\ pc = "advance" /\ pc' = "top" /\ itime' = itime + 1
          /\ itime = itrun => time' = time
          /\ UNCHANGED <<itrun, start, back1, back2, saves>>
      BY <1>12 DEF Advance, Goto, file_vars, AlignedFlags
    <2>2. Recoverable' = Recoverable
      BY <2>1 DEF Recoverable, WholeTime
    <2>3. itime <= itrun /\ time = start + itime
      BY <2>1 DEF ClockInv
    <2>4. itime' > itrun' => time' = start' + itrun'
      BY <1>0, <2>1, <2>3
    <2> QED BY <2>1, <2>2, <2>4 DEF GridInv, OnFrame, Ending
  <1>13. CASE EndRun \/ Crash
    <2>1. /\ pc' = "off" /\ UNCHANGED <<time, itime, itrun, start, back1, back2, saves>>
      BY <1>13 DEF EndRun, Crash, Goto, run_vars, file_vars
    <2> QED BY <1>1, <2>1 DEF Recoverable, WholeTime, Ending
  <1>14. CASE Touch \/ UNCHANGED vars
    <2>1. UNCHANGED <<pc, time, itime, itrun, start, back1, back2, saves>>
      BY <1>14 DEF Touch, vars, run_vars, file_vars
    <2>2. Recoverable' = Recoverable
      BY <2>1 DEF Recoverable, WholeTime
    <2> QED BY <2>1, <2>2 DEF GridInv, OnFrame
  <1> QED BY <1>2, <1>3, <1>4, <1>5, <1>6, <1>7, <1>8, <1>9, <1>10, <1>11, <1>12, <1>13, <1>14
    DEF Next, Proceed

(* The plane of the present time is put behind the others. *)
Appended ==
  /\ Len(extract') = Len(extract) + 1
  /\ \A n \in 1 .. Len(extract) : extract'[n] = extract[n]
  /\ extract'[Len(extract) + 1].time = time

LEMMA PutFrameAppends ==
  ASSUME TypeInv, NEW closed \in BOOLEAN, PutFrame(closed), next_frame = Len(extract), ls_id
  PROVE  Appended
  <1> DEFINE rec    == [time |-> time, closed |-> closed]
             before == SubSeq(extract, 1, Len(extract))
             after  == SubSeq(extract, Len(extract) + 2, Len(extract))
             both   == before \o << rec >>
  <1>1. extract \in Seq(Frame) /\ time \in Nat /\ Len(extract) \in Nat
    BY DEF TypeInv, TypeOK, Frame
  <1>2. extract' = both \o after
    BY DEF PutFrame
  <1>3. \A n \in 1 .. Len(extract) : extract[n] \in Frame
    BY <1>1
  <1>4. /\ before \in Seq(Frame) /\ Len(before) = Len(extract)
        /\ \A n \in 1 .. Len(extract) : before[n] = extract[n]
    <2>1. \A n \in 1 .. Len(extract) : extract[n] \in Frame
      BY <1>3
    <2>2. before \in Seq(Frame) /\ Len(before) = Len(extract)
      BY <1>1, <2>1, SubSeqProperties
    <2>3. \A n \in 1 .. Len(extract) : before[n] = extract[n]
      <3>1. \A n \in 1 .. (Len(extract) - 1) + 1 : before[n] = extract[1 + n - 1]
        BY <1>1, <2>1, SubSeqProperties
      <3> QED BY <1>1, <3>1
    <2> QED BY <2>2, <2>3
  <1>5. after \in Seq(Frame) /\ Len(after) = 0
    <2>1. \A n \in Len(extract) + 2 .. Len(extract) : extract[n] \in Frame
      BY <1>1
    <2> QED BY <1>1, <2>1, SubSeqProperties
  <1>6. << rec >> \in Seq(Frame) /\ Len(<< rec >>) = 1 /\ << rec >>[1] = rec
    BY <1>1 DEF Frame
  <1> HIDE DEF before, after
  <1>7. /\ both \in Seq(Frame) /\ Len(both) = Len(extract) + 1
        /\ \A n \in 1 .. Len(extract) : both[n] = extract[n]
        /\ both[Len(extract) + 1] = rec
    <2>1. /\ both \in Seq(Frame) /\ Len(both) = Len(before) + 1
          /\ \A n \in 1 .. Len(before) + 1 :
               both[n] = IF n <= Len(before) THEN before[n] ELSE << rec >>[n - Len(before)]
      BY <1>4, <1>6, ConcatProperties
    <2>2. both[Len(extract) + 1] = rec
      <3>1. Len(extract) + 1 \in 1 .. Len(before) + 1 /\ (Len(extract) + 1) - Len(before) = 1
        BY <1>1, <1>4
      <3>2. ~(Len(extract) + 1 <= Len(before))
        BY <1>1, <1>4
      <3> QED BY <1>6, <2>1, <3>1, <3>2
    <2>3. \A n \in 1 .. Len(extract) : both[n] = before[n]
      BY <1>1, <1>4, <2>1
    <2> QED BY <1>4, <2>1, <2>2, <2>3
  <1> HIDE DEF both
  <1>8. /\ Len(extract') = Len(extract) + 1
        /\ \A n \in 1 .. Len(extract) + 1 : extract'[n] = both[n]
    <2>1. /\ Len(both \o after) = Len(both) + Len(after)
          /\ \A n \in 1 .. Len(both) + Len(after) :
               (both \o after)[n] = IF n <= Len(both) THEN both[n] ELSE after[n - Len(both)]
      BY <1>5, <1>7, ConcatProperties
    <2> QED BY <1>1, <1>2, <1>5, <1>7, <2>1
  <1>9. extract'[Len(extract) + 1].time = time
    <2>1. Len(extract) + 1 \in 1 .. Len(extract) + 1
      BY <1>1
    <2> QED BY <1>7, <1>8, <2>1 DEF rec
  <1>10. \A n \in 1 .. Len(extract) : extract'[n] = extract[n]
    BY <1>1, <1>7, <1>8
  <1> QED BY <1>8, <1>9, <1>10 DEF Appended

(* What a plane put at the end changes for the log. *)
LEMMA AppendedNewest ==
  ASSUME TypeInv, Appended
  PROVE  extract' # << >> /\ Newest' = time /\ Len(extract') \in Nat
  <1>1. Len(extract) \in Nat
    BY DEF TypeInv, TypeOK
  <1>2. Len(<< >>) = 0
    OBVIOUS
  <1>3. extract' # << >>
    <2>1. Len(extract') # 0
      BY <1>1 DEF Appended
    <2> QED BY <1>2, <2>1
  <1>4. Newest' = time
    BY DEF Newest, Appended
  <1> QED BY <1>1, <1>3, <1>4 DEF Appended

LEMMA PlaneStep ==
  AlignedFlags /\ TypeInv /\ TypeInv' /\ StateInv /\ PlaneInv /\ [Next]_vars => PlaneInv'
  <1> SUFFICES ASSUME AlignedFlags, TypeInv, TypeInv', StateInv, PlaneInv, [Next]_vars
               PROVE  PlaneInv'
    OBVIOUS
  <1>0. /\ {time, time', itime, itime', itrun, itrun', starts, starts', next_frame, Len(extract)} \subseteq Nat
        /\ {append, ls_id} \subseteq BOOLEAN
        /\ ExtractOn /\ AppendOnRestart
    BY DEF TypeInv, TypeOK, AlignedFlags
  <1>1. CASE Start
    <2>1. /\ pc' = "top" /\ itime' = 0 /\ starts' = starts + 1 /\ append' = (starts > 0)
          /\ extract' = (IF append' THEN extract ELSE << >>)
          /\ next_frame' = (IF append' THEN Len(extract) ELSE 0)
          /\ ls_id' = ~append'
      BY <1>0, <1>1 DEF Start, Goto, PlanesStored
    <2>2. Len(<< >>) = 0
      OBVIOUS
    <2>3. next_frame' = Len(extract')
      BY <2>1, <2>2
    <2>4. ~append' => extract' = << >>
      BY <2>1
    <2>5. starts' # 0
      BY <1>0, <2>1
    <2> QED BY <2>1, <2>3, <2>4, <2>5 DEF PlaneInv
  (* Steps that only go on in the loop. *)
  <1>2. ASSUME UNCHANGED <<time, itime, append, starts, extract, next_frame>>,
               pc # "off", pc' \notin {"off", "extract"},
               pc' = "advance" \/ pc # "advance",
               ls_id => ls_id',
               pc' \in {"backup", "back_check"} => ls_id',
               pc' \in {"stop", "frame"} /\ Due(itback) => ls_id' /\ back1' = Whole(time)
        PROVE  PlaneInv'
    <2>1. Due(itback)' = Due(itback) /\ Whole(time)' = Whole(time)
      BY <1>2 DEF Due, Whole
    <2>2. ~append => ls_id'
      <3>1. ~append => ls_id
        BY <1>2 DEF PlaneInv
      <3> QED BY <1>2, <3>1
    <2>3. starts # 0 /\ next_frame = Len(extract)
      BY <1>2 DEF PlaneInv
    <2>4. pc' \notin {"off", "advance"} /\ ~append /\ itime = 0 => extract = << >>
      BY <1>2 DEF PlaneInv
    <2> QED BY <1>2, <2>1, <2>2, <2>3, <2>4 DEF PlaneInv
  <1>3. CASE BeginSave \/ EndSave \/ NoSave
    <2>1. /\ pc \in {"top", "save"} /\ pc' \in {"save", "save_check", "back"}
          /\ ls_id => ls_id'
          /\ UNCHANGED <<time, itime, append, starts, extract, next_frame>>
      BY <1>3 DEF BeginSave, EndSave, NoSave, Goto, run_vars, frame_vars, tally_vars
    <2> QED BY <1>2, <2>1
  <1>4. CASE CheckStopAfterSave \/ CheckStopAfterBackup
    <2>1. /\ \/ pc = "save_check" /\ pc' = "back"
             \/ pc = "back_check" /\ pc' = "stop"
          /\ UNCHANGED <<time, itime, append, starts, extract, next_frame, ls_id, back1>>
      BY <1>4 DEF CheckStopAfterSave, CheckStopAfterBackup, CheckStop, Goto, file_vars, frame_vars,
                  tally_vars
    <2>2. pc' = "stop" => ls_id' /\ back1' = Whole(time)
      BY <2>1 DEF PlaneInv, StateInv, RequestInv
    <2> QED BY <1>2, <2>1, <2>2
  <1>5. CASE RotateBackup \/ RotateBackupError \/ CreateBackup \/ EndBackup
    <2>1. /\ \/ pc = "back" /\ pc' = "create" /\ ls_id' = ls_id
             \/ pc = "create" /\ pc' = "backup" /\ ls_id'
             \/ pc = "backup" /\ pc' = "back_check" /\ ls_id' = ls_id
          /\ UNCHANGED <<time, itime, append, starts, extract, next_frame>>
      BY <1>5 DEF RotateBackup, RotateBackupError, CreateBackup, EndBackup, Goto, run_vars, frame_vars,
                  tally_vars
    <2>2. pc' \in {"backup", "back_check"} => ls_id'
      BY <2>1 DEF PlaneInv
    <2> QED BY <1>2, <2>1, <2>2
  <1>6. CASE NoBackup
    <2>1. /\ pc = "back" /\ pc' = "stop" /\ ls_id' = ls_id /\ ~Due(itback)
          /\ UNCHANGED <<time, itime, append, starts, extract, next_frame>>
      BY <1>6 DEF NoBackup, Goto, run_vars, frame_vars, tally_vars
    <2> QED BY <1>2, <2>1
  <1>7. CASE HeedStop \/ NoFrame
    <2>1. /\ \/ pc = "stop" /\ pc' = "frame"
             \/ pc = "frame" /\ pc' = "advance"
          /\ UNCHANGED <<time, itime, append, starts, extract, next_frame, ls_id, back1>>
      BY <1>7 DEF HeedStop, NoFrame, Goto, run_vars, file_vars, frame_vars, tally_vars
    <2>2. pc' = "frame" /\ Due(itback) => ls_id' /\ back1' = Whole(time)
      BY <2>1 DEF PlaneInv
    <2> QED BY <1>2, <2>1, <2>2
  <1>8. CASE BeginFrame
    <2>1. /\ pc = "frame" /\ pc' = "extract" /\ FrameDue
          /\ UNCHANGED <<time, itime, append, starts, extract, next_frame, ls_id, back1>>
      BY <1>8 DEF BeginFrame, Goto, run_vars, file_vars, frame_vars, tally_vars
    <2>2. FrameDue' /\ Due(itback)' = Due(itback) /\ Whole(time)' = Whole(time)
      BY <2>1 DEF FrameDue, Due, Whole
    <2> QED BY <2>1, <2>2 DEF PlaneInv
  <1>9. CASE EndFrame
    <2>1. /\ pc = "extract" /\ pc' = "advance" /\ PutFrame(TRUE) /\ next_frame' = next_frame + 1
          /\ UNCHANGED <<time, itime, append, starts, ls_id, back1>>
      BY <1>9 DEF EndFrame, Goto, run_vars, file_vars, tally_vars
    <2>2. FrameDue /\ next_frame = Len(extract) /\ starts # 0
      BY <2>1 DEF PlaneInv
    <2>3. ls_id
      <3>1. CASE append
        <4>1. Due(itback)
          BY <1>0, <2>2, <3>1 DEF FrameDue, Due, AlignedFlags
        <4> QED BY <2>1, <4>1 DEF PlaneInv
      <3>2. CASE ~append
        BY <2>1, <3>2 DEF PlaneInv
      <3> QED BY <3>1, <3>2
    <2>4. Len(extract') = Len(extract) + 1
      BY <2>1, <2>2, <2>3, PutFrameAppends DEF Appended
    <2> QED BY <1>0, <2>1, <2>2, <2>3, <2>4 DEF PlaneInv
  <1>10. CASE Advance
    <2>1. /\ pc = "advance" /\ pc' = "top" /\ itime' = itime + 1
          /\ UNCHANGED <<append, starts, extract, next_frame, ls_id>>
      BY <1>10 DEF Advance, Goto, frame_vars, tally_vars
    <2>2. itime' # 0
      BY <1>0, <2>1
    <2> QED BY <2>1, <2>2 DEF PlaneInv
  <1>11. CASE EndRun \/ Crash
    <2>1. /\ pc # "off" /\ pc' = "off" /\ UNCHANGED starts
      BY <1>11 DEF EndRun, Crash, Running, Goto, tally_vars
    <2> QED BY <2>1 DEF PlaneInv
  <1>12. CASE Touch \/ UNCHANGED vars
    <2>1. UNCHANGED <<pc, time, itime, append, starts, extract, next_frame, ls_id, back1>>
      BY <1>12 DEF Touch, vars, run_vars, file_vars, frame_vars, tally_vars
    <2>2. Due(itback)' = Due(itback) /\ Whole(time)' = Whole(time) /\ FrameDue' = FrameDue
      BY <2>1 DEF Due, Whole, FrameDue
    <2> QED BY <2>1, <2>2 DEF PlaneInv
  <1> QED BY <1>1, <1>3, <1>4, <1>5, <1>6, <1>7, <1>8, <1>9, <1>10, <1>11, <1>12
    DEF Next, Proceed

(* The log grows by a plane of the present time, which is in a file. *)
Recording ==
  /\ Appended /\ OnFrame(time) /\ time \in Recoverable
  /\ extract # << >> => Newest < time
  /\ time <= Horizon

LEMMA FrameRecorded ==
  ASSUME AlignedFlags, TypeInv, StateInv, GridInv, PlaneInv, PaceInv, pc = "extract",
         NEW closed \in BOOLEAN, PutFrame(closed)
  PROVE  Recording /\ (append => itime > 0)
  <1>0. {time, itime, itrun, start} \subseteq Nat /\ append \in BOOLEAN
    BY DEF TypeInv, TypeOK
  <1>1. FrameDue /\ next_frame = Len(extract)
    BY DEF PlaneInv
  <1>2. itime % ItExtract = 0 /\ (append => itime > 0)
    BY <1>1 DEF FrameDue
  <1>3. itime <= itrun /\ time = start + itime
    BY DEF StateInv, ClockInv
  <1>4. OnFrame(time)
    <2>1. OnFrame(itime) /\ OnFrame(start)
      BY <1>2 DEF OnFrame, GridInv
    <2> QED BY <1>0, <1>3, <2>1, FrameSum
  <1>5. itime > 0 => ls_id /\ time \in Recoverable
    <2>1. ASSUME itime > 0 PROVE ls_id /\ back1 = Whole(time)
      <3>1. Due(itback)
        BY <1>2, <2>1 DEF Due, AlignedFlags
      <3> QED BY <3>1 DEF PlaneInv
    <2> QED BY <2>1 DEF Recoverable, WholeTime, Whole
  <1>6. itime = 0 => time \in Recoverable
    <2>1. itime = 0 => time = start
      BY <1>0, <1>3
    <2> QED BY <2>1 DEF StateInv, ClockInv
  <1>7. ls_id
    <2>1. ~append => ls_id
      BY DEF PlaneInv
    <2> QED BY <1>0, <1>2, <1>5, <2>1
  <1>8. Appended
    BY <1>1, <1>7, PutFrameAppends
  <1>9. extract # << >> => Newest < time
    <2>1. CASE itime = 0
      <3>1. ~append
        BY <1>2, <2>1
      <3> QED BY <2>1, <3>1 DEF PlaneInv
    <2>2. CASE itime > 0
      BY <1>3, <2>2 DEF PaceInv
    <2> QED BY <1>0, <2>1, <2>2
  <1>10. time <= Horizon
    BY DEF PaceInv
  <1>11. time \in Recoverable
    BY <1>0, <1>5, <1>6
  <1> QED BY <1>2, <1>4, <1>8, <1>9, <1>10, <1>11 DEF Recording

(* Neither a plane nor a failure brings the next plane's time nearer, and the order is kept. *)
LEMMA HorizonMoves ==
  ASSUME TypeInv, TypeInv', PaceInv, FrameOrder, time' = time,
         extract' = extract \/ Recording,
         crashes' = crashes \/ crashes' = crashes + 1
  PROVE  /\ FrameOrder'
         /\ Horizon \in Int /\ Horizon' \in Int /\ Horizon <= Horizon'
         /\ crashes' = crashes + 1 => Horizon + ItExtract <= Horizon'
         /\ extract' # extract => extract' # << >> /\ Newest' = time /\ Horizon' = time + Slack'
  <1>0. /\ time \in Nat /\ crashes \in Nat /\ crashes' \in Nat /\ Len(extract) \in Nat
        /\ ItExtract \in Nat \ {0} /\ Len(<< >>) = 0
        /\ extract \in Seq(Frame)
    BY FrameStep DEF TypeInv, TypeOK
  <1>1. /\ Slack \in Nat /\ Slack' \in Nat /\ Slack <= Slack'
        /\ crashes' = crashes + 1 => Slack' = Slack + ItExtract
    <2>1. CASE crashes' = crashes
      <3>1. Slack' = Slack
        BY <2>1 DEF Slack
      <3>2. Slack \in Nat /\ crashes' # crashes + 1
        BY <1>0, <2>1, SlackIs
      <3> QED BY <3>1, <3>2
    <2>2. CASE crashes' = crashes + 1
      <3>1. Slack \in Nat /\ Slack' = Slack + ItExtract
        BY <1>0, <2>2, SlackIs
      <3> QED BY <1>0, <3>1
    <2> QED BY <2>1, <2>2
  <1>2. time \in Nat /\ ItExtract \in Nat
    BY <1>0
  <1>3. \A b, t \in Int : \A d, d2, e \in Nat : b <= t /\ d <= d2 =>
           /\ b + d <= t + d2
           /\ b + d \in Int /\ t + d2 \in Int
           /\ d2 = d + e => (b + d) + e <= t + d2
    OBVIOUS
  <1> DEFINE base  == IF extract = << >> THEN -ItExtract ELSE Newest
             base2 == IF extract' = << >> THEN -ItExtract ELSE Newest'
  <1>4. Horizon = base + Slack /\ Horizon' = base2 + Slack'
    BY DEF Horizon
  <1>5. base \in Int
    BY <1>0 DEF PaceInv
  <1>6. CASE extract' = extract
    <2>1. base2 = base
      BY <1>6 DEF Newest
    <2>2. FrameOrder'
      <3> SUFFICES ASSUME NEW n \in 1 .. Len(extract) - 1
                   PROVE  /\ extract[n].time < extract[n + 1].time
                          /\ extract[n + 1].time - extract[n].time <= Slack'
        BY <1>6 DEF FrameOrder
      <3>1. /\ extract[n].time < extract[n + 1].time
            /\ extract[n + 1].time - extract[n].time <= Slack
        BY DEF FrameOrder
      <3>2. {extract[n].time, extract[n + 1].time} \subseteq Int
        <4>1. n \in 1 .. Len(extract) /\ n + 1 \in 1 .. Len(extract)
          BY <1>0
        <4>2. extract[n] \in Frame /\ extract[n + 1] \in Frame
          BY <1>0, <4>1
        <4> QED BY <4>2 DEF Frame, NotATime
      <3> QED BY <1>1, <3>1, <3>2
    <2>3. base2 \in Int /\ base <= base2
      <3> HIDE DEF base, base2
      <3> QED BY <1>5, <2>1
    <2> HIDE DEF base, base2
    <2>4. /\ Horizon \in Int /\ Horizon' \in Int /\ Horizon <= Horizon'
          /\ Slack' = Slack + ItExtract => Horizon + ItExtract <= Horizon'
      BY <1>1, <1>4, <1>5, <1>2, <1>3, <2>3
    <2> QED BY <1>1, <1>6, <2>2, <2>4
  <1>7. CASE Recording
    <2>1. extract' # << >> /\ Newest' = time
      BY <1>7, AppendedNewest DEF Recording
    <2>2. base2 = time
      BY <2>1
    <2>3. base <= time
      BY <1>0, <1>7 DEF Recording, PaceInv
    <2>4. FrameOrder'
      <3> SUFFICES ASSUME NEW n \in 1 .. Len(extract') - 1
                   PROVE  /\ extract'[n].time < extract'[n + 1].time
                          /\ extract'[n + 1].time - extract'[n].time <= Slack'
        BY DEF FrameOrder
      <3>1. /\ n \in 1 .. Len(extract) /\ Len(extract') - 1 = Len(extract)
            /\ extract'[n] = extract[n]
        BY <1>0, <1>7 DEF Recording, Appended
      <3>2. CASE n = Len(extract)
        <4>1. extract # << >>
          BY <1>0, <3>1, <3>2
        <4>2. extract'[n].time = Newest /\ extract'[n + 1].time = time
          BY <1>7, <3>1, <3>2 DEF Newest, Recording, Appended
        <4>3. Newest < time /\ time <= Newest + Slack /\ Newest \in Nat
          BY <1>4, <1>7, <4>1 DEF Recording, PaceInv
        <4> QED BY <1>0, <1>1, <4>2, <4>3
      <3>3. CASE n # Len(extract)
        <4>1. n \in 1 .. Len(extract) - 1 /\ n + 1 \in 1 .. Len(extract)
          BY <1>0, <3>1, <3>3
        <4>2. extract'[n + 1] = extract[n + 1]
          BY <1>7, <4>1 DEF Recording, Appended
        <4>3. /\ extract[n].time < extract[n + 1].time
              /\ extract[n + 1].time - extract[n].time <= Slack
          BY <4>1 DEF FrameOrder
        <4>4. {extract[n].time, extract[n + 1].time} \subseteq Int
          <5>1. extract[n] \in Frame /\ extract[n + 1] \in Frame
            BY <1>0, <3>1, <4>1
          <5> QED BY <5>1 DEF Frame, NotATime
        <4> QED BY <1>1, <3>1, <4>2, <4>3, <4>4
      <3> QED BY <3>2, <3>3
    <2>5. Horizon' = time + Slack'
      BY <1>4, <2>2
    <2> HIDE DEF base, base2
    <2>6. /\ Horizon \in Int /\ Horizon' \in Int /\ Horizon <= Horizon'
          /\ Slack' = Slack + ItExtract => Horizon + ItExtract <= Horizon'
      <3>1. base2 \in Int /\ base <= base2
        BY <1>2, <2>2, <2>3
      <3> QED BY <1>1, <1>4, <1>5, <1>2, <1>3, <3>1
    <2> QED BY <1>1, <2>1, <2>4, <2>5, <2>6
  <1> QED BY <1>6, <1>7

(* A step that leaves the clock and the planes alone leaves the log alone. *)
LEMMA LogKept ==
  ASSUME UNCHANGED <<extract, crashes>>
  PROVE  /\ Horizon' = Horizon /\ Newest' = Newest
         /\ FrameOrder => FrameOrder'
         /\ \A t : NewestUpTo(t)' = NewestUpTo(t)
  BY DEF Horizon, Newest, Slack, FrameOrder, NewestUpTo

LEMMA PaceStep ==
  ASSUME AlignedFlags, TypeInv, TypeInv', OrderInv, StateInv, StateInv', GridInv, GridInv', PlaneInv,
         PlaneInv', FrameOrder, PaceInv, BehindInv, [Next]_vars, write_faults <= 1
  PROVE  FrameOrder' /\ PaceInv'
  <1>0. /\ {time, time', itime, itime', itrun, itrun', start, start', starts, crashes, crashes'} \subseteq Nat
        /\ append \in BOOLEAN
        /\ ItExtract \in Nat \ {0} /\ ExtractOn /\ AppendOnRestart /\ itback = ItExtract
    BY FrameStep DEF TypeInv, TypeOK, AlignedFlags
  <1>1. Horizon \in Int
    <2>1. Slack \in Nat
      BY <1>0, SlackIs
    <2>2. Newest \in Nat \/ extract = << >>
      BY DEF PaceInv
    <2>3. -ItExtract \in Int
      BY <1>0
    <2> QED BY <2>1, <2>2, <2>3 DEF Horizon
  <1>2. CASE Start
    <2>0. append' <=> starts # 0
      <3>1. append' = (AppendOnRestart /\ starts > 0)
        BY <1>2 DEF Start
      <3>2. starts > 0 <=> starts # 0
        BY <1>0
      <3> QED BY <1>0, <3>1, <3>2, Zenon
    <2>1. /\ pc = "off" /\ pc' = "top" /\ itime' = 0
          /\ time' \in Recoverable /\ start' = time' /\ crashes' = crashes
          /\ \A r \in Recoverable : r <= time'
          /\ UNCHANGED <<back1, back2, saves>>
      BY <1>0, <1>2 DEF Start, Goto, file_vars
    <2>2. extract' = extract
      <3>1. extract' = IF ExtractOn /\ ~append' THEN << >> ELSE extract
        BY <1>2 DEF Start
      <3>2. starts = 0 => extract = << >>
        BY DEF PlaneInv
      <3> QED BY <1>0, <2>0, <3>1, <3>2
    <2>3. Horizon' = Horizon /\ Newest' = Newest /\ FrameOrder'
      BY <2>1, <2>2, LogKept
    <2>4. time' <= time /\ time' \in Recoverable
      BY <2>1 DEF OrderInv
    <2>5. extract # << >> => Newest <= time'
      <3>1. PICK r \in Recoverable : NewestUpTo(r)
        BY <2>1 DEF BehindInv
      <3>2. r <= time' /\ r \in Nat
        BY <2>1, <3>1, RecoverableType DEF TypeInv
      <3> QED BY <1>0, <3>1, <3>2 DEF NewestUpTo, PaceInv
    <2>6. append' => time' + ItExtract <= Horizon
      <3>1. append' => time + ItExtract <= Horizon
        BY <1>0, <2>0, <2>1 DEF PaceInv
      <3> QED BY <1>0, <1>1, <2>4, <3>1
    <2>7. time' <= Horizon
      <3>1. CASE append'
        BY <1>0, <1>1, <2>6, <3>1
      <3>2. CASE ~append'
        <4>1. starts = 0
          BY <2>0, <3>2
        <4>2. extract = << >> /\ time = 0
          BY <4>1 DEF PlaneInv
        <4>3. Slack \in Nat /\ Slack >= ItExtract
          BY <1>0, SlackIs
        <4>4. Horizon = -ItExtract + Slack
          BY <4>2 DEF Horizon
        <4>5. time' = 0
          BY <1>0, <2>4, <4>2
        <4> QED BY <1>0, <4>3, <4>4, <4>5
      <3> QED BY <3>1, <3>2
    <2>8. ~(0 < itime') /\ itime' <= itrun'
      BY <1>0, <2>1
    <2>9. extract' # << >> => Newest' \in Nat /\ OnFrame(Newest') /\ Newest' <= time'
      BY <2>2, <2>3, <2>5 DEF PaceInv
    <2> QED BY <1>0, <2>1, <2>3, <2>6, <2>7, <2>8, <2>9 DEF PaceInv, OnFrame
  (* Steps on the way to the frame. *)
  <1>3. ASSUME UNCHANGED <<time, itime, start, append, extract, crashes>>,
               pc \notin {"off", "advance"}, pc' \notin {"off", "advance", "top"}, itime <= itrun
        PROVE  FrameOrder' /\ PaceInv'
    <2>1. Horizon' = Horizon /\ Newest' = Newest /\ FrameOrder'
      BY <1>3, LogKept
    <2>2. OnFrame(Newest)' = OnFrame(Newest)
      BY <2>1 DEF OnFrame
    <2> QED BY <1>3, <2>1, <2>2 DEF PaceInv
  <1>4. CASE BeginSave \/ EndSave \/ NoSave \/ CheckStopAfterSave \/ CheckStopAfterBackup
    <2>1. /\ pc \in {"top", "save", "save_check", "back_check"}
          /\ pc' \in {"save", "save_check", "back", "stop"}
          /\ UNCHANGED <<time, itime, start, append, extract, crashes>>
          /\ pc = "top" => itime <= itrun
      BY <1>4 DEF BeginSave, EndSave, NoSave, CheckStopAfterSave, CheckStopAfterBackup, CheckStop, Goto,
                  run_vars, frame_vars, tally_vars
    <2>2. itime <= itrun
      BY <2>1 DEF StateInv, ClockInv
    <2> QED BY <1>3, <2>1, <2>2
  <1>5. CASE RotateBackup \/ RotateBackupError \/ CreateBackup \/ EndBackup \/ NoBackup
    <2>1. /\ pc \in {"back", "create", "backup"}
          /\ pc' \in {"create", "backup", "back_check", "stop"}
          /\ UNCHANGED <<time, itime, start, append, extract, crashes>>
      BY <1>5 DEF RotateBackup, RotateBackupError, CreateBackup, EndBackup, NoBackup, Goto,
                  run_vars, frame_vars, tally_vars
    <2>2. itime <= itrun
      BY <2>1 DEF StateInv, ClockInv
    <2> QED BY <1>3, <2>1, <2>2
  <1>6. CASE HeedStop \/ BeginFrame
    <2>1. /\ pc \in {"stop", "frame"} /\ pc' \in {"frame", "extract"}
          /\ UNCHANGED <<time, itime, start, append, extract, crashes>>
      BY <1>6 DEF HeedStop, BeginFrame, Goto, run_vars, frame_vars, tally_vars
    <2>2. itime <= itrun
      BY <2>1 DEF StateInv, ClockInv
    <2> QED BY <1>3, <2>1, <2>2
  <1>7. CASE NoFrame
    <2>1. /\ pc = "frame" /\ pc' = "advance" /\ ~FrameDue
          /\ UNCHANGED <<time, itime, start, append, extract, crashes>>
      BY <1>7 DEF NoFrame, Goto, run_vars, frame_vars, tally_vars
    <2>2. Horizon' = Horizon /\ Newest' = Newest /\ FrameOrder'
      BY <2>1, LogKept
    <2>3. time = start + itime /\ OnFrame(start)
      BY <2>1 DEF StateInv, ClockInv, GridInv
    <2>4. ~(OnFrame(time) /\ (append => itime > 0))
      <3>1. OnFrame(time) => OnFrame(time - start)
        BY <1>0, <2>3, FrameSum
      <3>2. time - start = itime
        BY <1>0, <2>3
      <3> QED BY <1>0, <2>1, <3>1, <3>2 DEF FrameDue, OnFrame
    <2>5. OnFrame(Newest)' = OnFrame(Newest) /\ OnFrame(time)' = OnFrame(time)
      BY <2>1, <2>2 DEF OnFrame
    <2> QED BY <2>1, <2>2, <2>4, <2>5 DEF PaceInv
  <1>8. CASE EndFrame
    <2>1. /\ pc = "extract" /\ pc' = "advance" /\ PutFrame(TRUE)
          /\ UNCHANGED <<time, itime, start, append, crashes>>
      BY <1>8 DEF EndFrame, Goto, run_vars, tally_vars
    <2>2. Recording /\ (append => itime > 0)
      BY <2>1, FrameRecorded
    <2>3. /\ FrameOrder' /\ Horizon \in Int /\ Horizon' \in Int /\ Horizon <= Horizon'
      BY <2>1, <2>2, HorizonMoves
    <2>4. extract' # << >> /\ Newest' = time
      BY <2>2, AppendedNewest DEF Recording
    <2>5. time <= Horizon /\ OnFrame(time)
      BY <2>2 DEF Recording
    <2>6. append => start + ItExtract <= Horizon
      BY <2>1 DEF PaceInv
    <2>7. time' <= Horizon' /\ (append' => start' + ItExtract <= Horizon')
      BY <1>0, <2>1, <2>3, <2>5, <2>6
    <2>8. Newest' \in Nat /\ OnFrame(Newest') /\ Newest' <= time' /\ Newest' = time'
      BY <1>0, <2>1, <2>4, <2>5
    <2> QED BY <2>1, <2>3, <2>4, <2>7, <2>8 DEF PaceInv, OnFrame
  <1>9. CASE Advance
    <2>1. /\ pc = "advance" /\ pc' = "top" /\ itime' = itime + 1
          /\ time' = (IF itime = itrun THEN time ELSE time + 1)
          /\ UNCHANGED <<itrun, start, append, extract, crashes>>
      BY <1>0, <1>9 DEF Advance, Goto, frame_vars, tally_vars
    <2>2. Horizon' = Horizon /\ Newest' = Newest /\ FrameOrder'
      BY <2>1, LogKept
    <2>3. itime <= itrun /\ time = start + itime
      BY <2>1 DEF StateInv, ClockInv
    <2>4. /\ time <= Horizon
          /\ append => start + ItExtract <= Horizon
          /\ extract # << >> => Newest \in Nat /\ OnFrame(Newest) /\ Newest <= time
          /\ OnFrame(time) /\ (append => itime > 0) => extract # << >> /\ Newest = time
      BY <2>1 DEF PaceInv
    <2>5. Slack \in Nat /\ OnFrame(Slack) /\ Slack >= ItExtract
      BY <1>0, SlackIs
    <2>6. OnFrame(time) => time + ItExtract <= Horizon
      <3> SUFFICES ASSUME OnFrame(time) PROVE time + ItExtract <= Horizon
        OBVIOUS
      <3>1. CASE append => itime > 0
        <4>1. Horizon = time + Slack
          BY <2>4, <3>1 DEF Horizon
        <4> QED BY <1>0, <2>5, <4>1
      <3>2. CASE append /\ itime = 0
        <4>1. time = start
          BY <1>0, <2>3, <3>2
        <4> QED BY <2>4, <3>2, <4>1
      <3> QED BY <1>0, <3>1, <3>2
    <2>7. ~OnFrame(time) => time < Horizon
      <3>1. OnFrame(Horizon)
        <4>1. CASE extract = << >>
          <5>1. Horizon = (0 - ItExtract) + Slack /\ 0 - ItExtract \in Int /\ ItExtract \in Int
            BY <1>0, <2>5, <4>1 DEF Horizon
          <5>2. OnFrame(ItExtract)
            BY <1>0 DEF OnFrame
          <5>3. OnFrame(0 - ItExtract)
            BY <5>1, <5>2, FrameZero, FrameSum
          <5> QED BY <2>5, <5>1, <5>3, FrameSum
        <4>2. CASE extract # << >>
          <5>1. Horizon = Newest + Slack
            BY <4>2 DEF Horizon
          <5> QED BY <2>4, <2>5, <4>2, <5>1, FrameSum
        <4> QED BY <4>1, <4>2
      <3>2. ~OnFrame(time) => time # Horizon
        BY <3>1
      <3> QED BY <1>0, <1>1, <2>4, <3>2
    <2>8. time' <= Horizon'
      <3>1. time + 1 <= Horizon
        BY <1>0, <1>1, <2>6, <2>7
      <3> QED BY <1>0, <1>1, <2>1, <2>2, <3>1
    <2>9. itime' > itrun' => time' + ItExtract <= Horizon'
      <3> SUFFICES ASSUME itime' > itrun' PROVE time' + ItExtract <= Horizon'
        OBVIOUS
      <3>1. itime = itrun
        BY <1>0, <2>1, <2>3
      <3>2. OnFrame(time)
        BY <2>1, <3>1 DEF GridInv, Ending
      <3> QED BY <2>1, <2>2, <2>6, <3>1, <3>2
    <2>10. /\ extract # << >> => Newest <= time'
           /\ itime' <= itrun' /\ extract # << >> => Newest < time'
      BY <1>0, <2>1, <2>3, <2>4
    <2>11. append' => start' + ItExtract <= Horizon'
      BY <2>1, <2>2, <2>4
    <2>12. OnFrame(Newest)' = OnFrame(Newest)
      BY <2>2 DEF OnFrame
    <2> QED BY <2>1, <2>2, <2>4, <2>8, <2>9, <2>10, <2>11, <2>12 DEF PaceInv
  <1>10. CASE EndRun
    <2>1. /\ pc = "top" /\ pc' = "off" /\ itime > itrun
          /\ UNCHANGED <<time, extract, crashes>>
      BY <1>10 DEF EndRun, Goto, frame_vars, tally_vars
    <2>2. Horizon' = Horizon /\ Newest' = Newest /\ FrameOrder'
      BY <2>1, LogKept
    <2>3. OnFrame(Newest)' = OnFrame(Newest)
      BY <2>2 DEF OnFrame
    <2> QED BY <2>1, <2>2, <2>3 DEF PaceInv
  <1>11. CASE Crash
    <2>1. /\ pc # "off" /\ pc' = "off" /\ time' = time /\ crashes' = crashes + 1
          /\ extract' = extract \/ (pc = "extract" /\ PutFrame(FALSE))
      BY <1>11 DEF Crash, Running
    <2>2. extract' = extract \/ Recording
      BY <2>1, FrameRecorded
    <2>3. /\ FrameOrder' /\ Horizon + ItExtract <= Horizon'
          /\ Horizon' \in Int
          /\ extract' # extract => extract' # << >> /\ Newest' = time
      BY <2>1, <2>2, HorizonMoves
    <2>4. time <= Horizon
      BY <2>1 DEF PaceInv
    <2>5. time' + ItExtract <= Horizon'
      BY <1>0, <1>1, <2>1, <2>3, <2>4
    <2>6. extract' # << >> => Newest' \in Nat /\ OnFrame(Newest') /\ Newest' <= time'
      <3>1. CASE extract' = extract
        <4>1. Newest' = Newest
          BY <3>1 DEF Newest
        <4> QED BY <2>1, <3>1, <4>1 DEF PaceInv
      <3>2. CASE extract' # extract
        <4>1. Newest' = time /\ OnFrame(time)
          BY <2>2, <2>3, <3>2 DEF Recording
        <4> QED BY <1>0, <2>1, <4>1
      <3> QED BY <3>1, <3>2
    <2> QED BY <2>1, <2>3, <2>5, <2>6 DEF PaceInv, OnFrame
  <1>12. CASE Touch \/ UNCHANGED vars
    <2>1. UNCHANGED <<pc, time, itime, itrun, start, append, extract, crashes, starts>>
      BY <1>12 DEF Touch, vars, run_vars, frame_vars, tally_vars
    <2>2. Horizon' = Horizon /\ Newest' = Newest /\ FrameOrder'
      BY <2>1, LogKept
    <2>3. OnFrame(Newest)' = OnFrame(Newest) /\ OnFrame(time)' = OnFrame(time)
      BY <2>1, <2>2 DEF OnFrame
    <2> QED BY <2>1, <2>2, <2>3 DEF PaceInv
  <1> QED BY <1>2, <1>4, <1>5, <1>6, <1>7, <1>8, <1>9, <1>10, <1>11, <1>12
    DEF Next, Proceed

LEMMA BehindStep ==
  ASSUME AlignedFlags, TypeInv, TypeInv', OrderInv, OrderInv', StateInv, GridInv, PlaneInv,
         LossInv, PaceInv, BehindInv, [Next]_vars, write_faults' <= 1
  PROVE  BehindInv'
  <1>0. /\ {time, itime, itrun, start, starts, crashes, write_faults} \subseteq Nat
        /\ \A r \in Recoverable : r \in Nat /\ r <= time
        /\ Kept \subseteq Recoverable
    <2>1. {time, itime, itrun, start, starts, crashes, write_faults} \subseteq Nat
      BY DEF TypeInv, TypeOK
    <2>2. \A r \in Recoverable : r \in Nat /\ r <= time
      BY RecoverableType DEF TypeInv, OrderInv
    <2> QED BY <2>1, <2>2 DEF Kept, Recoverable
  (* Steps that lose no file, in a run and not in the writing of a backup. *)
  <1>1. ASSUME UNCHANGED extract, Recoverable \subseteq Recoverable',
               pc \notin {"create", "backup"}, pc' \notin {"off", "create", "backup"}
        PROVE  BehindInv'
    <2>1. PICK r \in Recoverable : NewestUpTo(r)
      BY <1>1 DEF BehindInv
    <2>2. r \in Recoverable' /\ NewestUpTo(r)'
      BY <1>1, <2>1 DEF NewestUpTo, Newest
    <2> QED BY <1>1, <2>2 DEF BehindInv, NewestUpTo
  (* The present time is in a file. *)
  <1>2. ASSUME time' \in Recoverable', extract' # << >> => Newest' <= time',
               pc' \notin {"off", "create", "backup"}
        PROVE  BehindInv'
    <2>1. NewestUpTo(time)'
      BY <1>2 DEF NewestUpTo
    <2> QED BY <1>2, <2>1 DEF BehindInv, NewestUpTo
  <1>3. CASE Start
    <2>1. /\ pc = "off" /\ pc' = "top"
          /\ extract' = extract \/ extract' = << >>
          /\ UNCHANGED <<back1, back2, saves>>
      BY <1>3 DEF Start, Goto, file_vars
    <2>2. Recoverable' = Recoverable
      BY <2>1 DEF Recoverable, WholeTime
    <2>3. PICK r \in Recoverable : NewestUpTo(r)
      BY <2>1 DEF BehindInv
    <2>4. extract' # << >> => Newest' <= r
      <3>1. CASE extract' = extract
        BY <2>3, <3>1 DEF NewestUpTo, Newest
      <3>2. CASE extract' = << >>
        BY <3>2
      <3> QED BY <2>1, <3>1, <3>2
    <2> QED BY <2>1, <2>2, <2>4 DEF BehindInv, NewestUpTo
  <1>4. CASE BeginSave
    <2>1. /\ pc = "top" /\ pc' = "save" /\ saves' = saves \ {time} /\ itime > 0 /\ itime <= itrun
          /\ UNCHANGED <<extract, back1, back2>>
      BY <1>4 DEF BeginSave, Goto, Due, frame_vars
    <2>2. time \notin saves
      BY <1>0, <2>1 DEF OrderInv
    <2>3. Recoverable \subseteq Recoverable'
      BY <2>1, <2>2 DEF Recoverable, WholeTime
    <2> QED BY <1>1, <2>1, <2>3
  <1>5. CASE EndSave
    <2>1. /\ pc = "save" /\ pc' = "save_check" /\ saves' = saves \cup {time}
          /\ UNCHANGED <<extract, back1, back2>>
      BY <1>5 DEF EndSave, Goto, frame_vars
    <2> QED BY <1>1, <2>1 DEF Recoverable, WholeTime
  <1>6. CASE NoSave \/ CheckStopAfterSave \/ CheckStopAfterBackup \/ NoBackup \/ HeedStop
             \/ BeginFrame \/ NoFrame \/ Advance
    <2>1. /\ pc \in {"top", "save_check", "back_check", "back", "stop", "frame", "advance"}
          /\ pc' \in {"back", "stop", "frame", "extract", "advance", "top"}
          /\ UNCHANGED <<extract, back1, back2, saves>>
      BY <1>6 DEF NoSave, CheckStopAfterSave, CheckStopAfterBackup, CheckStop, NoBackup, HeedStop,
                  BeginFrame, NoFrame, Advance, Goto, file_vars, frame_vars
    <2> QED BY <1>1, <2>1 DEF Recoverable, WholeTime
  <1>7. CASE RotateBackup
    <2>1. /\ pc = "back" /\ pc' = "create" /\ back1' = Absent
          /\ back2' = (IF back1.kind = "absent" THEN back2 ELSE back1)
          /\ UNCHANGED <<extract, write_faults, saves>>
      BY <1>7 DEF RotateBackup, Goto, frame_vars, tally_vars
    <2>2. ASSUME write_faults = 0 PROVE \E r \in Kept' : NewestUpTo(r)'
      <3>1. PICK r \in Recoverable : NewestUpTo(r)
        BY <2>1 DEF BehindInv
      <3>2. NewestUpTo(r)' /\ r \in Nat
        BY <1>0, <2>1, <3>1 DEF NewestUpTo, Newest
      <3>3. CASE r \in {0} \cup saves
        BY <2>1, <3>2, <3>3 DEF Kept, NewestUpTo
      <3>4. CASE r \in WholeTime(back1)
        <4>1. back1.kind = "whole" /\ back1.time = r
          BY <3>4 DEF WholeTime
        <4>2. back2' = back1
          BY <2>1, <4>1
        <4> QED BY <2>1, <3>2, <4>1, <4>2 DEF Kept, WholeTime, NewestUpTo
      <3>5. CASE r \in WholeTime(back2) /\ back1.kind = "absent"
        <4>1. back2' = back2
          BY <2>1, <3>5
        <4> QED BY <2>1, <3>2, <3>5, <4>1 DEF Kept, WholeTime, NewestUpTo
      <3>6. CASE r \in WholeTime(back2) /\ back1.kind # "absent"
        <4>1. back2' = back1 /\ back2.kind = "whole" /\ back2.time = r
          BY <2>1, <3>6 DEF WholeTime
        <4>2. back1.kind = "whole"
          <5>1. back1.kind # "partial" /\ back1 \in File
            BY <2>1, <2>2 DEF LossInv, TypeInv, TypeOK
          <5> QED BY <3>6, <5>1 DEF File
        <4>3. back1.time \in Recoverable /\ r <= back1.time
          BY <4>1, <4>2 DEF OrderInv, Recoverable, WholeTime
        <4>4. extract' # << >> => Newest' <= back1.time
          <5>1. extract' # << >> => Newest' \in Nat
            BY <2>1 DEF PaceInv, Newest
          <5>2. back1.time \in Nat
            BY <1>0, <4>3
          <5> QED BY <3>2, <4>3, <5>1, <5>2 DEF NewestUpTo
        <4>5. back1.time \in Kept'
          BY <4>1, <4>2 DEF Kept, WholeTime
        <4> QED BY <4>4, <4>5 DEF NewestUpTo
      <3> QED BY <3>1, <3>3, <3>4, <3>5, <3>6 DEF Recoverable
    <2> QED BY <2>1, <2>2 DEF BehindInv
  <1>8. CASE RotateBackupError
    <2>1. pc' = "create" /\ write_faults' # 0
      BY <1>0, <1>8 DEF RotateBackupError, Goto
    <2> QED BY <2>1 DEF BehindInv
  <1>9. CASE CreateBackup
    <2>1. /\ pc = "create" /\ pc' = "backup"
          /\ UNCHANGED <<extract, back2, saves, write_faults>>
      BY <1>9 DEF CreateBackup, Goto, frame_vars, tally_vars
    <2>2. Kept' = Kept /\ (\A r : NewestUpTo(r)' = NewestUpTo(r))
      BY <2>1 DEF Kept, WholeTime, NewestUpTo, Newest
    <2> QED BY <2>1, <2>2 DEF BehindInv, NewestUpTo
  <1>10. CASE EndBackup
    <2>1. pc' = "back_check" /\ back1' = Whole(time) /\ UNCHANGED <<time, extract>>
      BY <1>10 DEF EndBackup, Goto, frame_vars
    <2>2. time' \in Recoverable'
      BY <2>1 DEF Recoverable, WholeTime, Whole
    <2>3. extract' # << >> => Newest' <= time'
      BY <2>1 DEF PaceInv, Newest
    <2> QED BY <1>2, <2>1, <2>2, <2>3
  <1>11. CASE EndFrame
    <2>1. /\ pc = "extract" /\ pc' = "advance" /\ PutFrame(TRUE)
          /\ UNCHANGED <<time, back1, back2, saves>>
      BY <1>11 DEF EndFrame, Goto, file_vars
    <2>2. Recording
      BY <2>1, FrameRecorded
    <2>3. time' \in Recoverable' /\ Newest' <= time'
      BY <1>0, <2>1, <2>2, AppendedNewest DEF Recording, Recoverable, WholeTime
    <2> QED BY <1>2, <2>1, <2>3
  <1>12. CASE EndRun
    <2>1. /\ pc = "top" /\ pc' = "off" /\ itime > itrun
          /\ UNCHANGED <<time, extract, back1, back2, saves>>
      BY <1>12 DEF EndRun, Goto, frame_vars, file_vars
    <2>2. Recoverable' = Recoverable
      BY <2>1 DEF Recoverable, WholeTime
    <2>3. time \in Recoverable
      BY <2>1 DEF StateInv, EndInv, GridInv
    <2>4. extract' # << >> => Newest' <= time'
      BY <2>1 DEF PaceInv, Newest
    <2>5. NewestUpTo(time)'
      BY <2>4 DEF NewestUpTo
    <2> QED BY <2>1, <2>2, <2>3, <2>5 DEF BehindInv, NewestUpTo
  <1>13. CASE Crash
    <2>1. /\ pc # "off" /\ pc' = "off" /\ crashes' = crashes + 1
          /\ extract' = extract \/ (pc = "extract" /\ PutFrame(FALSE))
          /\ pc \in {"create", "backup"} => write_faults' = write_faults + 1
          /\ UNCHANGED <<time, back1, back2, saves>>
      BY <1>13 DEF Crash, Running, file_vars
    <2>2. Recoverable' = Recoverable /\ crashes' # 0
      BY <1>0, <2>1 DEF Recoverable, WholeTime
    <2>3. CASE extract' = extract
      <3>1. PICK r \in Recoverable : NewestUpTo(r)
        <4>1. CASE pc \in {"create", "backup"}
          <5>1. write_faults = 0
            BY <1>0, <2>1, <4>1
          <5> QED BY <1>0, <4>1, <5>1 DEF BehindInv
        <4>2. CASE pc \notin {"create", "backup"}
          BY <4>2 DEF BehindInv
        <4> QED BY <4>1, <4>2
      <3>2. extract' # << >> => Newest' <= r
        BY <2>3, <3>1 DEF NewestUpTo, Newest
      <3> QED BY <2>1, <2>2, <3>2 DEF BehindInv, NewestUpTo
    <2>4. CASE pc = "extract" /\ PutFrame(FALSE)
      <3>1. Recording
        BY <2>4, FrameRecorded
      <3>2. Newest' <= time /\ time \in Recoverable
        BY <1>0, <3>1, AppendedNewest DEF Recording
      <3> QED BY <2>1, <2>2, <3>2 DEF BehindInv, NewestUpTo
    <2> QED BY <2>1, <2>3, <2>4
  <1>14. CASE Touch \/ UNCHANGED vars
    <2>1. UNCHANGED <<pc, time, extract, crashes, write_faults, back1, back2, saves>>
      BY <1>14 DEF Touch, vars, run_vars, file_vars, frame_vars, tally_vars
    <2>2. Recoverable' = Recoverable /\ Kept' = Kept /\ Newest' = Newest
      BY <2>1 DEF Recoverable, Kept, WholeTime, Newest
    <2> QED BY <2>1, <2>2 DEF BehindInv, NewestUpTo
  <1> QED BY <1>3, <1>4, <1>5, <1>6, <1>7, <1>8, <1>9, <1>10, <1>11, <1>12, <1>13, <1>14
    DEF Next, Proceed

(* Everything a history of runs with aligned flags keeps. *)
ChainInv == TypeInv /\ OrderInv /\ LossInv /\ StateInv /\ GridInv /\ PlaneInv /\ LogInv

LEMMA ChainStep == AlignedFlags /\ ChainInv /\ [Next]_vars => ChainInv'
  <1> SUFFICES ASSUME AlignedFlags, ChainInv, [Next]_vars PROVE ChainInv'
    OBVIOUS
  <1>1. /\ TypeInv /\ OrderInv /\ LossInv /\ StateInv /\ GridInv /\ PlaneInv
        /\ EndsAtOutput
    BY FramesAlign DEF ChainInv
  <1>2. TypeInv' /\ OrderInv'
    BY <1>1, TypeInvStep, OrderStep
  <1>3. LossInv' /\ StateInv' /\ GridInv' /\ PlaneInv'
    BY <1>1, <1>2, LossStep, StateStep, GridStep, PlaneStep
  <1>4. write_faults \in Nat /\ (write_faults' = write_faults \/ write_faults' = write_faults + 1)
    <2>1. write_faults \in Nat
      BY <1>1 DEF TypeInv, TypeOK
    <2>2. write_faults' = write_faults \/ write_faults' = write_faults + 1
      BY DEF Next, Proceed, Start, BeginSave, EndSave, NoSave, CheckStopAfterSave, CheckStop,
             RotateBackup, RotateBackupError, CreateBackup, EndBackup, NoBackup, CheckStopAfterBackup,
             HeedStop, BeginFrame, NoFrame, EndFrame, Advance, EndRun, Crash, Touch, vars, tally_vars
    <2> QED BY <2>1, <2>2
  <1>5. ASSUME write_faults' <= 1 PROVE FrameOrder' /\ PaceInv' /\ BehindInv'
    <2>1. write_faults <= 1
      BY <1>4, <1>5
    <2>2. FrameOrder /\ PaceInv /\ BehindInv
      BY <2>1 DEF ChainInv, LogInv
    <2> QED BY <1>1, <1>2, <1>3, <1>5, <2>1, <2>2, PaceStep, BehindStep
  <1> QED BY <1>2, <1>3, <1>5 DEF ChainInv, LogInv

LEMMA InitChain == Init => ChainInv
  <1> SUFFICES ASSUME Init PROVE ChainInv
    OBVIOUS
  <1>1. /\ time = 0 /\ start = 0 /\ pc = "off" /\ itime = 0 /\ itrun = 0 /\ starts = 0 /\ extract = << >>
        /\ back1.kind = "absent" /\ back2.kind = "absent" /\ saves = {}
    BY DEF Init, Absent
  <1>2. Recoverable = {0} /\ Len(<< >>) = 0
    BY <1>1 DEF Recoverable, WholeTime
  <1>3. TypeInv /\ OrderInv /\ LossInv /\ StateInv
    BY InitTypeInv, InitLoss, InitState
  <1>4. GridInv
    BY <1>1, <1>2, FrameZero DEF GridInv, Ending
  <1>5. PlaneInv
    BY <1>1 DEF PlaneInv
  <1>6. FrameOrder
    BY <1>1, <1>2 DEF FrameOrder
  <1>7. PaceInv
    BY <1>1 DEF PaceInv
  <1>8. BehindInv
    <2>1. 0 \in Recoverable /\ NewestUpTo(0)
      BY <1>1, <1>2 DEF NewestUpTo
    <2> QED BY <1>1, <2>1 DEF BehindInv
  <1> QED BY <1>3, <1>4, <1>5, <1>6, <1>7, <1>8 DEF ChainInv, LogInv

LEMMA Chain == AlignedFlags => (Spec => []ChainInv)
  <1> SUFFICES ASSUME AlignedFlags PROVE Spec => []ChainInv
    OBVIOUS
  <1>1. Init => ChainInv
    BY InitChain
  <1>2. ChainInv /\ [Next]_vars => ChainInv'
    BY ChainStep
  <1> QED BY <1>1, <1>2, PTL DEF Spec

(***************************************************************************)
(* With aligned flags the planes of the extract file are in order of time, *)
(* and no further apart than an interval and one more for each failure,    *)
(* however many runs wrote them and wherever these were lost.              *)
(***************************************************************************)
THEOREM Ordered == AlignedFlags => (Spec => []FramesOrdered)
  <1> SUFFICES ASSUME AlignedFlags PROVE Spec => []FramesOrdered
    OBVIOUS
  <1>1. ChainInv => FramesOrdered
    BY DEF ChainInv, LogInv, FrameOrder, Slack, FramesOrdered
  <1> QED BY <1>1, Chain, PTL

-----------------------------------------------------------------------------

(* The refinement: what FrameLog sees of a chain of runs. *)

Planes == [n \in 1 .. Len(extract) |-> extract[n].time]

PlanesTyped == Planes \in Seq(Int) /\ Len(Planes) = Len(extract)

LEMMA PlanesAre ==
  TypeInv => /\ Planes \in Seq(Int) /\ Len(Planes) = Len(extract)
             /\ Planes = << >> <=> extract = << >>
             /\ extract # << >> => Planes[Len(Planes)] = Newest
  <1> SUFFICES ASSUME TypeInv
               PROVE  /\ Planes \in Seq(Int) /\ Len(Planes) = Len(extract)
                      /\ Planes = << >> <=> extract = << >>
                      /\ extract # << >> => Planes[Len(Planes)] = Newest
    OBVIOUS
  <1>1. extract \in Seq(Frame) /\ Len(extract) \in Nat
    BY DEF TypeInv, TypeOK
  <1>2. \A n \in 1 .. Len(extract) : extract[n].time \in Int
    <2>1. \A n \in 1 .. Len(extract) : extract[n] \in Frame
      BY <1>1
    <2> QED BY <2>1 DEF Frame, NotATime
  <1>3. Planes \in Seq(Int) /\ Len(Planes) = Len(extract)
    BY <1>1, <1>2 DEF Planes
  <1>4. Planes = << >> <=> extract = << >>
    <2>1. Len(Planes) = 0 <=> Planes = << >>
      BY <1>3, EmptySeq
    <2>2. Len(extract) = 0 <=> extract = << >>
      BY <1>1, EmptySeq
    <2> QED BY <1>3, <2>1, <2>2
  <1>5. extract # << >> => Len(extract) \in 1 .. Len(extract)
    <2>1. extract # << >> => Len(extract) # 0
      BY <1>1, EmptySeq
    <2> QED BY <1>1, <2>1
  <1> QED BY <1>3, <1>4, <1>5 DEF Planes, Newest

LEMMA PlanesType == TypeInv => PlanesTyped
  BY PlanesAre DEF PlanesTyped

LEMMA LogState ==
  TypeInv => /\ Frames!Stored <=> extract # << >> /\ Newest = time
             /\ Frames!Reach = Horizon
  <1> SUFFICES ASSUME TypeInv
               PROVE  /\ Frames!Stored <=> extract # << >> /\ Newest = time
                      /\ Frames!Reach = Horizon
    OBVIOUS
  <1>1. /\ Planes = << >> <=> extract = << >>
        /\ extract # << >> => Planes[Len(Planes)] = Newest
    BY PlanesAre
  <1>2. Frames!Stored <=> Planes # << >> /\ Planes[Len(Planes)] = time
    BY DEF Frames!Stored, Frames!Last, Planes
  <1>3. Frames!Reach = (IF Planes = << >> THEN -ItExtract ELSE Planes[Len(Planes)]) + Slack
    BY DEF Frames!Reach, Frames!Last, Planes, Slack
  <1>4. Frames!Reach = (IF extract = << >> THEN -ItExtract ELSE Newest) + Slack
    BY <1>1, <1>3
  <1> QED BY <1>1, <1>2, <1>4 DEF Horizon

LEMMA LogPut ==
  ASSUME TypeInv, TypeInv', Recording
  PROVE  Frames!Put
  <1>1. /\ Planes \in Seq(Int) /\ Len(Planes) = Len(extract)
        /\ Planes' \in Seq(Int) /\ Len(Planes') = Len(extract')
    <2>1. TypeInv' => PlanesTyped'
      BY PlanesType, PTL
    <2> QED BY <2>1, PlanesType DEF PlanesTyped
  <1>2. time \in Int /\ Len(extract) \in Nat /\ Len(extract') = Len(extract) + 1
    BY DEF TypeInv, TypeOK, Recording, Appended
  <1>3. Planes' = Append(Planes, time)
    <2> DEFINE longer == Append(Planes, time)
    <2>1. /\ longer \in Seq(Int) /\ Len(longer) = Len(Planes) + 1
          /\ \A i \in 1 .. Len(Planes) : longer[i] = Planes[i]
          /\ longer[Len(Planes) + 1] = time
      BY <1>1, <1>2, AppendProperties
    <2> HIDE DEF longer
    <2>2. \A i \in 1 .. Len(extract) : Planes'[i] = Planes[i]
      BY <1>2 DEF Planes, Recording, Appended
    <2>3. Planes'[Len(extract) + 1] = time
      BY <1>2 DEF Planes, Recording, Appended
    <2>4. \A i \in 1 .. Len(Planes') : Planes'[i] = longer[i]
      <3> SUFFICES ASSUME NEW i \in 1 .. Len(Planes') PROVE Planes'[i] = longer[i]
        OBVIOUS
      <3>1. CASE i = Len(extract) + 1
        BY <1>1, <2>1, <2>3, <3>1
      <3>2. CASE i # Len(extract) + 1
        <4>1. i \in 1 .. Len(extract)
          BY <1>1, <1>2, <3>2
        <4> QED BY <1>1, <2>1, <2>2, <4>1
      <3> QED BY <3>1, <3>2
    <2>5. Len(Planes') = Len(longer)
      BY <1>1, <1>2, <2>1
    <2>6. Planes' = longer
      BY <1>1, <2>1, <2>4, <2>5, SeqEqual
    <2> QED BY <2>6 DEF longer
  <1>4. ~Frames!Stored
    <2>1. extract # << >> => Newest # time
      <3>1. extract # << >> => Newest < time
        BY DEF Recording
      <3>2. \A m : m \in Int /\ m < time => m # time
        BY <1>2
      <3>3. extract # << >> => Newest \in Int
        <4>1. extract \in Seq(Frame) /\ Len(extract) \in Nat /\ Len(<< >>) = 0
          BY DEF TypeInv, TypeOK
        <4>2. extract # << >> => Len(extract) # 0
          BY <4>1, EmptySeq
        <4>3. extract # << >> => extract[Len(extract)] \in Frame
          BY <4>1, <4>2
        <4> QED BY <4>3 DEF Newest, Frame, NotATime
      <3> QED BY <3>1, <3>2, <3>3
    <2> QED BY <2>1, LogState
  <1> QED BY <1>3, <1>4 DEF Frames!Put, Planes, Recording, OnFrame

LEMMA LogNext ==
  ASSUME AlignedFlags, ChainInv, ChainInv', write_faults <= 1, [Next]_vars
  PROVE  [Frames!Next]_<<time, [n \in 1 .. Len(extract) |-> extract[n].time], crashes>>
  <1>0. /\ {time, time', itime, itrun, start, starts, crashes} \subseteq Nat
        /\ ItExtract \in Nat \ {0} /\ ExtractOn /\ AppendOnRestart
        /\ TypeInv /\ TypeInv' /\ OrderInv /\ StateInv /\ GridInv /\ PlaneInv /\ PaceInv /\ BehindInv
    <2>1. TypeInv /\ TypeInv' /\ OrderInv /\ StateInv /\ GridInv /\ PlaneInv /\ PaceInv /\ BehindInv
      BY DEF ChainInv, LogInv
    <2> QED BY <2>1, FrameStep DEF TypeInv, TypeOK, AlignedFlags
  <1> DEFINE shown == <<time, [n \in 1 .. Len(extract) |-> extract[n].time], crashes>>
  <1>1. ASSUME UNCHANGED <<time, extract, crashes>> PROVE UNCHANGED shown
    BY <1>1
  <1>2. CASE Start
    <2>1. /\ pc = "off" /\ UNCHANGED crashes /\ time' \in Recoverable
          /\ \A r \in Recoverable : r <= time'
      BY <1>2 DEF Start, Goto
    <2>2. append' <=> starts # 0
      <3>1. append' = (AppendOnRestart /\ starts > 0)
        BY <1>2 DEF Start
      <3>2. starts > 0 <=> starts # 0
        BY <1>0
      <3> QED BY <1>0, <3>1, <3>2, Zenon
    <2>3. extract' = IF ExtractOn /\ ~append' THEN << >> ELSE extract
      BY <1>2 DEF Start
    <2>4. extract' = extract
      BY <1>0, <2>2, <2>3 DEF PlaneInv
    <2>5. time' <= time
      BY <1>0, <2>1 DEF OrderInv
    <2>6. CASE crashes = 0
      <3>1. time \in Recoverable
        BY <1>0, <2>1, <2>6 DEF BehindInv
      <3>2. time' = time
        BY <1>0, <2>1, <2>5, <3>1
      <3> QED BY <1>1, <2>1, <2>4, <3>2
    <2>7. CASE crashes # 0
      <3>1. extract # << >> => Newest <= time'
        <4>1. PICK r \in Recoverable : NewestUpTo(r)
          BY <1>0, <2>1 DEF BehindInv
        <4>2. r <= time' /\ r \in Nat
          BY <1>0, <2>1, <4>1, RecoverableType DEF TypeInv
        <4> QED BY <1>0, <4>1, <4>2 DEF NewestUpTo, PaceInv
      <3>2. Planes # << >> => Planes[Len(Planes)] <= time'
        BY <1>0, <3>1, PlanesAre
      <3>3. Planes' = Planes
        BY <2>4 DEF Planes
      <3>4. crashes > 0 /\ time' \in 0 .. time
        BY <1>0, <2>5, <2>7
      <3>5. Frames!Resume
        BY <2>1, <3>2, <3>3, <3>4 DEF Frames!Resume, Frames!Last, Planes
      <3> QED BY <3>5 DEF Frames!Next
    <2> QED BY <2>6, <2>7
  <1>3. CASE BeginSave \/ EndSave \/ NoSave \/ CheckStopAfterSave \/ CheckStopAfterBackup
             \/ RotateBackup \/ RotateBackupError \/ CreateBackup \/ EndBackup \/ NoBackup
             \/ HeedStop \/ BeginFrame \/ NoFrame \/ EndRun
    <2>1. UNCHANGED <<time, extract, crashes>>
      BY <1>3 DEF BeginSave, EndSave, NoSave, CheckStopAfterSave, CheckStopAfterBackup, CheckStop,
                  RotateBackup, RotateBackupError, CreateBackup, EndBackup, NoBackup, HeedStop,
                  BeginFrame, NoFrame, EndRun, frame_vars, tally_vars
    <2> QED BY <1>1, <2>1
  <1>4. CASE EndFrame
    <2>1. pc = "extract" /\ PutFrame(TRUE) /\ UNCHANGED <<time, crashes>>
      BY <1>4 DEF EndFrame, Goto, tally_vars
    <2>2. Frames!Put
      BY <1>0, <2>1, FrameRecorded, LogPut
    <2> QED BY <2>1, <2>2 DEF Frames!Next, Frames!Record
  <1>5. CASE Advance
    <2>1. /\ pc = "advance" /\ pc' = "top"
          /\ time' = (IF itime = itrun THEN time ELSE time + 1)
          /\ UNCHANGED <<extract, crashes, write_faults>>
      BY <1>0, <1>5 DEF Advance, Goto, frame_vars, tally_vars
    <2>2. CASE time' = time
      BY <1>1, <2>1, <2>2
    <2>3. CASE time' = time + 1
      <3>1. time' <= Horizon'
        BY <2>1 DEF ChainInv, LogInv, PaceInv
      <3>2. Horizon' = Horizon
        BY <2>1, LogKept
      <3>3. Horizon \in Int
        <4>1. Slack \in Nat /\ -ItExtract \in Int
          BY <1>0, SlackIs
        <4>2. extract # << >> => Newest \in Nat
          BY <1>0 DEF PaceInv
        <4> QED BY <4>1, <4>2 DEF Horizon
      <3>4. time < Frames!Reach
        BY <1>0, <2>3, <3>1, <3>2, <3>3, LogState
      <3>5. Planes' = Planes
        BY <2>1 DEF Planes
      <3>6. Frames!Tick
        BY <2>1, <2>3, <3>4, <3>5 DEF Frames!Tick, Planes
      <3> QED BY <3>6 DEF Frames!Next
    <2> QED BY <2>1, <2>2, <2>3
  <1>6. CASE Crash
    <2>1. /\ time' = time /\ crashes' = crashes + 1
          /\ extract' = extract \/ (pc = "extract" /\ PutFrame(FALSE))
      BY <1>6 DEF Crash
    <2>2. Frames!Put \/ Planes' = Planes
      <3>1. CASE extract' = extract
        BY <3>1 DEF Planes
      <3>2. CASE pc = "extract" /\ PutFrame(FALSE)
        BY <1>0, <3>2, FrameRecorded, LogPut
      <3> QED BY <2>1, <3>1, <3>2
    <2>3. Frames!Fail
      BY <2>1, <2>2 DEF Frames!Fail, Planes
    <2> QED BY <2>3 DEF Frames!Next
  <1>7. CASE Touch \/ UNCHANGED vars
    <2>1. UNCHANGED <<time, extract, crashes>>
      BY <1>7 DEF Touch, vars, frame_vars, tally_vars
    <2> QED BY <1>1, <2>1
  <1> QED BY <1>2, <1>3, <1>4, <1>5, <1>6, <1>7 DEF Next, Proceed

(* The rotation has met no more faults than the chain has. *)
LEMMA FaultsBounded == Spec => [](write_faults \in 0 .. MaxWriteFaults)
  <1> DEFINE Bounded == write_faults \in 0 .. MaxWriteFaults
  <1>1. Init => Bounded
    BY BoundsAssumption DEF Init
  <1>2. Bounded /\ [Next]_vars => Bounded'
    <2> SUFFICES ASSUME Bounded, [Next]_vars PROVE Bounded'
      OBVIOUS
    <2>1. write_faults' = write_faults \/ (write_faults < MaxWriteFaults /\ write_faults' = write_faults + 1)
      BY DEF Next, Proceed, Start, BeginSave, EndSave, NoSave, CheckStopAfterSave, CheckStop,
             RotateBackup, RotateBackupError, CreateBackup, EndBackup, NoBackup, CheckStopAfterBackup,
             HeedStop, BeginFrame, NoFrame, EndFrame, Advance, EndRun, Crash, Touch, vars, tally_vars
    <2> QED BY <2>1, BoundsAssumption
  <1> QED BY <1>1, <1>2, PTL DEF Spec

LEMMA LogInit == Init => Frames!Init
  <1> SUFFICES ASSUME Init PROVE Frames!Init
    OBVIOUS
  <1>1. time = 0 /\ crashes = 0 /\ extract = << >>
    BY DEF Init
  <1>2. Planes = << >>
    BY <1>1, InitTypeInv, PlanesAre
  <1> QED BY <1>1, <1>2 DEF Frames!Init, Planes

(***************************************************************************)
(* Stopping, failing and starting again are invisible in the extract file: *)
(* with aligned flags, and a rotation that meets at most one fault, every  *)
(* chain of runs implements the one log of FrameLog.                       *)
(***************************************************************************)
THEOREM Refinement == AlignedFlags /\ MaxWriteFaults <= 1 => (Spec => OneLog)
  <1> SUFFICES ASSUME AlignedFlags, MaxWriteFaults <= 1 PROVE Spec => OneLog
    OBVIOUS
  <1>1. write_faults \in 0 .. MaxWriteFaults => write_faults <= 1
    BY BoundsAssumption
  <1>2. ChainInv /\ ChainInv' /\ write_faults \in 0 .. MaxWriteFaults /\ [Next]_vars
          => [Frames!Next]_<<time, [n \in 1 .. Len(extract) |-> extract[n].time], crashes>>
    BY <1>1, LogNext
  <1> QED BY <1>2, LogInit, Chain, FaultsBounded, PTL DEF Spec, OneLog, Frames!Spec

-----------------------------------------------------------------------------

(***************************************************************************)
(* A request to stop.  epic_stop is looked for after a save or a backup;   *)
(* until then the loop goes round at most once for every step to the next  *)
(* backup, and once it is seen the loop is not entered again.              *)
(***************************************************************************)

(* Someone asked the running program to stop. *)
Asked == Running /\ (epic_stop \/ stop_request)

(* How far the run is from the end of a round of the loop. *)
StagesLeft ==
  CASE pc = "top"        -> 11
    [] pc = "save"       -> 10
    [] pc = "save_check" -> 9
    [] pc = "back"       -> 8
    [] pc = "create"     -> 7
    [] pc = "backup"     -> 6
    [] pc = "back_check" -> 5
    [] pc = "stop"       -> 4
    [] pc = "frame"      -> 3
    [] pc = "extract"    -> 2
    [] pc = "advance"    -> 1
    [] pc = "off"        -> 0

(* epic_stop is looked for in this round. *)
LooksNow ==
  \/ pc \in {"save", "save_check", "create", "backup", "back_check"}
  \/ pc \in {"top", "back"} /\ Due(itback)

(* The times the loop still gets to its end, at most. *)
RoundsLeft ==
  IF stop_request THEN IF pc = "top" THEN 0 ELSE 1
  ELSE IF LooksNow THEN 1 ELSE 1 + (itback - (itime % itback))

ToStop == IF Running THEN 11 * RoundsLeft + StagesLeft ELSE 0

(* A request that was seen ends the loop at its next test. *)
HeedInv ==
  /\ stop_request /\ pc = "top" => itime > itrun
  /\ stop_request /\ pc \in Ending => itrun = itime

(* The guards of Proceed. *)
CanProceed == Running /\ (pc = "advance" => time < MaxTime)

(* A run goes on, and one that is asked to stop has a bounded way to go. *)
StopsSoon ==
  /\ Running => CanProceed \/ (pc = "advance" /\ time >= MaxTime)
  /\ Asked => RoundsLeft \in 0 .. itback + 1 /\ ToStop \in 1 .. 11 * (itback + 2)

LEMMA InitHeed == Init => HeedInv
  BY DEF Init, HeedInv, Ending

LEMMA HeedStep == TypeInv /\ HeedInv /\ [Next]_vars => HeedInv'
  <1> SUFFICES ASSUME TypeInv, HeedInv, [Next]_vars PROVE HeedInv'
    OBVIOUS
  <1>1. itime \in Nat /\ itrun \in Nat /\ stop_request \in BOOLEAN
    BY DEF TypeInv, TypeOK
  <1>2. CASE Start
    <2>1. stop_request' = FALSE
      BY <1>2 DEF Start
    <2> QED BY <2>1 DEF HeedInv
  <1>3. CASE BeginSave \/ NoSave \/ EndSave
    <2>1. pc' \in {"save", "back", "save_check"}
      BY <1>3 DEF BeginSave, NoSave, EndSave, Goto
    <2> QED BY <2>1 DEF HeedInv, Ending
  <1>4. CASE CheckStopAfterSave \/ CheckStopAfterBackup
    <2>1. pc' \in {"back", "stop"}
      BY <1>4 DEF CheckStopAfterSave, CheckStopAfterBackup, Goto
    <2> QED BY <2>1 DEF HeedInv, Ending
  <1>5. CASE RotateBackup \/ RotateBackupError \/ CreateBackup \/ EndBackup \/ NoBackup
    <2>1. pc' \in {"create", "backup", "back_check", "stop"}
      BY <1>5 DEF RotateBackup, RotateBackupError, CreateBackup, EndBackup, NoBackup, Goto
    <2> QED BY <2>1 DEF HeedInv, Ending
  <1>6. CASE HeedStop
    <2>1. pc' = "frame" /\ itime' = itime /\ stop_request' = stop_request
          /\ itrun' = IF stop_request THEN itime ELSE itrun
      BY <1>6 DEF HeedStop, Goto
    <2> QED BY <2>1 DEF HeedInv
  <1>7. CASE BeginFrame \/ NoFrame \/ EndFrame
    <2>1. pc \in Ending /\ pc' \in Ending /\ UNCHANGED <<itime, itrun, stop_request>>
      BY <1>7 DEF BeginFrame, NoFrame, EndFrame, Goto, run_vars, Ending
    <2> QED BY <2>1 DEF HeedInv, Ending
  <1>8. CASE Advance
    <2>1. pc = "advance" /\ pc' = "top" /\ itime' = itime + 1 /\ UNCHANGED <<itrun, stop_request>>
      BY <1>8 DEF Advance, Goto
    <2> QED BY <1>1, <2>1 DEF HeedInv, Ending
  <1>9. CASE EndRun \/ Crash
    <2>1. pc' = "off"
      BY <1>9 DEF EndRun, Crash, Goto
    <2> QED BY <2>1 DEF HeedInv, Ending
  <1>10. CASE Touch \/ UNCHANGED vars
    <2>1. UNCHANGED <<pc, itime, itrun, stop_request>>
      BY <1>10 DEF Touch, vars, run_vars
    <2> QED BY <2>1 DEF HeedInv
  <1> QED BY <1>2, <1>3, <1>4, <1>5, <1>6, <1>7, <1>8, <1>9, <1>10 DEF Next, Proceed

LEMMA Heed == Spec => [](TypeInv /\ HeedInv)
  BY InitTypeInv, TypeInvStep, InitHeed, HeedStep, PTL DEF Spec

(* The measure, stage by stage. *)
ByStage ==
  /\ pc = "off" => ToStop = 0
  /\ pc = "top" => ToStop = 11 * RoundsLeft + 11
  /\ pc = "save" => ToStop = 11 * RoundsLeft + 10
  /\ pc = "save_check" => ToStop = 11 * RoundsLeft + 9
  /\ pc = "back" => ToStop = 11 * RoundsLeft + 8
  /\ pc = "create" => ToStop = 11 * RoundsLeft + 7
  /\ pc = "backup" => ToStop = 11 * RoundsLeft + 6
  /\ pc = "back_check" => ToStop = 11 * RoundsLeft + 5
  /\ pc = "stop" => ToStop = 11 * RoundsLeft + 4
  /\ pc = "frame" => ToStop = 11 * RoundsLeft + 3
  /\ pc = "extract" => ToStop = 11 * RoundsLeft + 2
  /\ pc = "advance" => ToStop = 11 * RoundsLeft + 1

LEMMA ByStageIs == ByStage
  <1>1. CASE pc = "off"
    BY <1>1 DEF ByStage, ToStop, Running
  <1>2. ASSUME pc = "top" PROVE ToStop = 11 * RoundsLeft + 11
    BY <1>2 DEF ToStop, StagesLeft, Running
  <1>3. ASSUME pc = "save" PROVE ToStop = 11 * RoundsLeft + 10
    BY <1>3 DEF ToStop, StagesLeft, Running
  <1>4. ASSUME pc = "save_check" PROVE ToStop = 11 * RoundsLeft + 9
    BY <1>4 DEF ToStop, StagesLeft, Running
  <1>5. ASSUME pc = "back" PROVE ToStop = 11 * RoundsLeft + 8
    BY <1>5 DEF ToStop, StagesLeft, Running
  <1>6. ASSUME pc = "create" PROVE ToStop = 11 * RoundsLeft + 7
    BY <1>6 DEF ToStop, StagesLeft, Running
  <1>7. ASSUME pc = "backup" PROVE ToStop = 11 * RoundsLeft + 6
    BY <1>7 DEF ToStop, StagesLeft, Running
  <1>8. ASSUME pc = "back_check" PROVE ToStop = 11 * RoundsLeft + 5
    BY <1>8 DEF ToStop, StagesLeft, Running
  <1>9. ASSUME pc = "stop" PROVE ToStop = 11 * RoundsLeft + 4
    BY <1>9 DEF ToStop, StagesLeft, Running
  <1>10. ASSUME pc = "frame" PROVE ToStop = 11 * RoundsLeft + 3
    BY <1>10 DEF ToStop, StagesLeft, Running
  <1>11. ASSUME pc = "extract" PROVE ToStop = 11 * RoundsLeft + 2
    BY <1>11 DEF ToStop, StagesLeft, Running
  <1>12. ASSUME pc = "advance" PROVE ToStop = 11 * RoundsLeft + 1
    BY <1>12 DEF ToStop, StagesLeft, Running
  <1> QED BY <1>1, <1>2, <1>3, <1>4, <1>5, <1>6, <1>7, <1>8, <1>9, <1>10, <1>11, <1>12 DEF ByStage

(* The rounds, case by case. *)
ByRound ==
  /\ stop_request /\ pc = "top" => RoundsLeft = 0
  /\ stop_request /\ pc # "top" => RoundsLeft = 1
  /\ ~stop_request /\ LooksNow => RoundsLeft = 1
  /\ ~stop_request /\ ~LooksNow => RoundsLeft = 1 + (itback - (itime % itback))

LEMMA ByRoundIs == ByRound
  BY DEF ByRound, RoundsLeft

(* While the clock stands, the backup stays due or not. *)
LEMMA RoundsRange ==
  TypeInv =>
    /\ itback \in Nat \ {0} /\ itime % itback \in 0 .. itback - 1
    /\ RoundsLeft \in 0 .. itback + 1
    /\ ~(stop_request /\ pc = "top") => RoundsLeft >= 1
    /\ ~stop_request /\ ~LooksNow => RoundsLeft >= 2
  <1> SUFFICES ASSUME TypeInv
               PROVE  /\ itback \in Nat \ {0} /\ itime % itback \in 0 .. itback - 1
                      /\ RoundsLeft \in 0 .. itback + 1
                      /\ ~(stop_request /\ pc = "top") => RoundsLeft >= 1
                      /\ ~stop_request /\ ~LooksNow => RoundsLeft >= 2
    OBVIOUS
  <1>1. itback \in Nat \ {0} /\ itime \in Nat
    BY Intervals DEF TypeInv, TypeOK
  <1>2. itime % itback \in 0 .. itback - 1
    BY <1>1, ModRange
  <1> DEFINE r == itime % itback
  <1>3. ByRound
    BY ByRoundIs
  <1>4. r \in 0 .. itback - 1 /\ (~stop_request /\ ~LooksNow => RoundsLeft = 1 + (itback - r))
    BY <1>2, <1>3 DEF ByRound
  <1> HIDE DEF r
  <1>5. RoundsLeft \in 0 .. itback + 1 /\ (~stop_request /\ ~LooksNow => RoundsLeft >= 2)
    <2>1. CASE ~stop_request /\ ~LooksNow
      BY <1>1, <1>4, <2>1
    <2>2. CASE stop_request \/ LooksNow
      <3>1. RoundsLeft = 0 \/ RoundsLeft = 1
        BY <1>3, <2>2 DEF ByRound
      <3> QED BY <1>1, <2>2, <3>1
    <2> QED BY <2>1, <2>2
  <1>6. ~(stop_request /\ pc = "top") => RoundsLeft >= 1
    <2>1. CASE ~stop_request /\ ~LooksNow
      BY <1>5, <2>1
    <2>2. CASE stop_request \/ LooksNow
      BY <1>3, <2>2 DEF ByRound
    <2> QED BY <2>1, <2>2
  <1> QED BY <1>1, <1>2, <1>5, <1>6

LEMMA GoesOn == TypeInv => StopsSoon
  <1> SUFFICES ASSUME TypeInv PROVE StopsSoon
    OBVIOUS
  <1>1. pc \in Stages /\ time \in Nat /\ MaxTime \in Nat
    BY BoundsAssumption DEF TypeInv, TypeOK
  <1>2. itback \in Nat \ {0} /\ RoundsLeft \in 0 .. itback + 1
    BY RoundsRange
  <1>3. ByStage
    BY ByStageIs
  <1>4. Asked => ToStop \in 1 .. 11 * (itback + 2)
    <2> SUFFICES ASSUME Asked PROVE ToStop \in 1 .. 11 * (itback + 2)
      OBVIOUS
    <2>1. \E k \in 1 .. 11 : ToStop = 11 * RoundsLeft + k
      BY <1>1, <1>3 DEF Asked, Running, Stages, ByStage
    <2> QED BY <1>2, <2>1
  <1>5. Running => CanProceed \/ (pc = "advance" /\ time >= MaxTime)
    BY <1>1 DEF CanProceed
  <1> QED BY <1>2, <1>4, <1>5 DEF StopsSoon

(* One more step towards the next backup. *)
LEMMA NextRound ==
  ASSUME NEW b \in Nat \ {0}, NEW k \in Nat
  PROVE  IF (k + 1) % b = 0 THEN TRUE ELSE (k + 1) % b = (k % b) + 1
  <1>1. CASE (k + 1) % b # 0
    <2>1. k + 1 \in Nat /\ (k + 1) - 1 = k
      OBVIOUS
    <2>2. (((k + 1) - 1) % b) + 1 = (k + 1) % b
      BY <1>1, <2>1, ModPred
    <2> QED BY <1>1, <2>1, <2>2
  <1> QED BY <1>1

(* A round is more than its stages. *)
LEMMA RoundsWeigh ==
  /\ \A r, s \in Int : \A a, b \in 1 .. 11 : s <= r /\ b < a => 11 * s + b < 11 * r + a
  /\ \A r, s \in Int : s <= r - 1 => 11 * s + 11 < 11 * r + 1
  /\ \A r, s \in Int : \A t \in Int : s <= r => t + s <= t + r
  /\ \A r, s \in Int : \A t, u \in Int : s <= r - 1 /\ u <= t + 1 => u + s <= t + r
  OBVIOUS

LEMMA ProceedEndsSooner ==
  ASSUME TypeInv, TypeInv', HeedInv, Asked, Proceed
  PROVE  /\ ToStop' < ToStop
         /\ Running' => Asked' /\ time' + RoundsLeft' <= time + RoundsLeft
  <1>1. /\ itime \in Nat /\ itrun \in Nat /\ time \in Nat /\ time' \in Nat
        /\ stop_request \in BOOLEAN /\ stop_request' \in BOOLEAN
        /\ pc \in Stages /\ pc # "off"
    BY DEF TypeInv, TypeOK, Asked, Running
  <1>2. /\ itback \in Nat \ {0}
        /\ RoundsLeft \in 0 .. itback + 1
        /\ ~(stop_request /\ pc = "top") => RoundsLeft >= 1
        /\ ~stop_request /\ ~LooksNow => RoundsLeft >= 2
    BY RoundsRange
  <1>3. RoundsLeft' \in Nat
    <2>1. (/\ itback \in Nat \ {0} /\ itime % itback \in 0 .. itback - 1
           /\ RoundsLeft \in 0 .. itback + 1
           /\ ~(stop_request /\ pc = "top") => RoundsLeft >= 1
           /\ ~stop_request /\ ~LooksNow => RoundsLeft >= 2)'
      BY RoundsRange, PTL
    <2> QED BY <1>2, <2>1
  <1>4. ByStage /\ ByStage' /\ ByRound /\ ByRound'
    BY ByStageIs, ByRoundIs, PTL
  (* Within a round it is enough that the rounds do not get more. *)
  <1>5. ASSUME RoundsLeft' <= RoundsLeft, time' = time, Asked',
               NEW a \in 1 .. 11, NEW b \in 1 .. 11, b < a,
               ToStop = 11 * RoundsLeft + a, ToStop' = 11 * RoundsLeft' + b
        PROVE  /\ ToStop' < ToStop
               /\ Running' => Asked' /\ time' + RoundsLeft' <= time + RoundsLeft
    <2>1. RoundsLeft \in Int /\ RoundsLeft' \in Int /\ RoundsLeft' <= RoundsLeft
      BY <1>2, <1>3, <1>5
    <2>2. ToStop' < ToStop
      BY <1>5, <2>1, RoundsWeigh
    <2>3. time' + RoundsLeft' <= time + RoundsLeft
      <3>1. time \in Int /\ time' = time
        BY <1>1, <1>5
      <3> QED BY <2>1, <3>1, RoundsWeigh
    <2> QED BY <1>5, <2>2, <2>3
  <1>6. CASE BeginSave
    <2>1. /\ pc = "top" /\ pc' = "save" /\ itime <= itrun /\ time' = time
          /\ UNCHANGED <<epic_stop, stop_request>>
      BY <1>6 DEF BeginSave, Goto, run_vars
    <2>2. ~stop_request
      BY <1>1, <2>1 DEF HeedInv
    <2>3. RoundsLeft' = 1 /\ RoundsLeft >= 1
      BY <1>2, <1>4, <2>1, <2>2 DEF ByRound, LooksNow
    <2>4. Asked' /\ ToStop = 11 * RoundsLeft + 11 /\ ToStop' = 11 * RoundsLeft' + 10
      BY <1>4, <2>1 DEF ByStage, Asked, Running
    <2> QED BY <1>2, <1>5, <2>1, <2>3, <2>4
  <1>7. CASE EndSave \/ CreateBackup \/ EndBackup
    <2>1. /\ \/ pc = "save" /\ pc' = "save_check"
             \/ pc = "create" /\ pc' = "backup"
             \/ pc = "backup" /\ pc' = "back_check"
          /\ time' = time /\ UNCHANGED <<epic_stop, stop_request>>
      BY <1>7 DEF EndSave, CreateBackup, EndBackup, Goto, run_vars
    <2>2. RoundsLeft' = 1 /\ RoundsLeft = 1
      BY <1>4, <2>1 DEF ByRound, LooksNow
    <2>3. /\ Asked'
          /\ \/ ToStop = 11 * RoundsLeft + 10 /\ ToStop' = 11 * RoundsLeft' + 9
             \/ ToStop = 11 * RoundsLeft + 7 /\ ToStop' = 11 * RoundsLeft' + 6
             \/ ToStop = 11 * RoundsLeft + 6 /\ ToStop' = 11 * RoundsLeft' + 5
      BY <1>4, <2>1 DEF ByStage, Asked, Running
    <2> QED BY <1>1, <2>1, <2>2, <2>3
  <1>8. CASE NoSave \/ NoBackup \/ HeedStop \/ BeginFrame \/ NoFrame \/ EndFrame
    <2>1. /\ \/ pc = "top" /\ pc' = "back"
             \/ pc = "back" /\ pc' = "stop" /\ ~Due(itback)
             \/ pc = "stop" /\ pc' = "frame"
             \/ pc = "frame" /\ pc' = "extract"
             \/ pc = "frame" /\ pc' = "advance"
             \/ pc = "extract" /\ pc' = "advance"
          /\ time' = time /\ itime' = itime /\ UNCHANGED <<epic_stop, stop_request>>
      BY <1>8 DEF NoSave, NoBackup, HeedStop, BeginFrame, NoFrame, EndFrame, Goto, run_vars
    <2>2. stop_request => pc # "top"
      <3>1. CASE NoSave
        <4>1. itime <= itrun
          BY <3>1 DEF NoSave
        <4> QED BY <1>1, <4>1 DEF HeedInv
      <3>2. CASE ~NoSave
        BY <1>8, <3>2 DEF NoBackup, HeedStop, BeginFrame, NoFrame, EndFrame, Goto
      <3> QED BY <3>1, <3>2
    <2>3. LooksNow' <=> LooksNow
      BY <2>1 DEF LooksNow, Due
    <2>4. RoundsLeft' = RoundsLeft
      <3>1. CASE stop_request
        BY <1>4, <2>1, <2>2, <3>1 DEF ByRound
      <3>2. CASE ~stop_request
        BY <1>4, <2>1, <2>3, <3>2 DEF ByRound
      <3> QED BY <3>1, <3>2
    <2>5. /\ Asked'
          /\ \E a \in 1 .. 11, b \in 1 .. 11 :
               b < a /\ ToStop = 11 * RoundsLeft + a /\ ToStop' = 11 * RoundsLeft' + b
      BY <1>4, <2>1 DEF ByStage, Asked, Running
    <2> QED BY <1>2, <1>5, <2>1, <2>4, <2>5
  <1>9. CASE CheckStopAfterSave \/ CheckStopAfterBackup
    <2>1. /\ \/ pc = "save_check" /\ pc' = "back"
             \/ pc = "back_check" /\ pc' = "stop"
          /\ time' = time /\ stop_request'
      BY <1>9 DEF CheckStopAfterSave, CheckStopAfterBackup, CheckStop, Goto, Asked
    <2>2. RoundsLeft' = 1 /\ RoundsLeft = 1
      BY <1>4, <2>1 DEF ByRound, LooksNow
    <2>3. /\ Asked'
          /\ \/ ToStop = 11 * RoundsLeft + 9 /\ ToStop' = 11 * RoundsLeft' + 8
             \/ ToStop = 11 * RoundsLeft + 5 /\ ToStop' = 11 * RoundsLeft' + 4
      BY <1>4, <2>1 DEF ByStage, Asked, Running
    <2> QED BY <1>1, <2>1, <2>2, <2>3
  <1>10. CASE RotateBackup \/ RotateBackupError
    <2>1. /\ pc = "back" /\ pc' = "create" /\ Due(itback)
          /\ time' = time /\ UNCHANGED <<epic_stop, stop_request>>
      BY <1>10 DEF RotateBackup, RotateBackupError, Goto, run_vars
    <2>2. RoundsLeft' = 1 /\ RoundsLeft = 1
      BY <1>4, <2>1 DEF ByRound, LooksNow
    <2>3. Asked' /\ ToStop = 11 * RoundsLeft + 8 /\ ToStop' = 11 * RoundsLeft' + 7
      BY <1>4, <2>1 DEF ByStage, Asked, Running
    <2> QED BY <1>1, <2>1, <2>2, <2>3
  <1>11. CASE Advance
    <2>1. /\ pc = "advance" /\ pc' = "top" /\ itime' = itime + 1 /\ time' <= time + 1
          /\ UNCHANGED <<epic_stop, stop_request>>
      BY <1>1, <1>11 DEF Advance, Goto
    <2>2. Asked' /\ ToStop = 11 * RoundsLeft + 1 /\ ToStop' = 11 * RoundsLeft' + 11
      BY <1>4, <2>1 DEF ByStage, Asked, Running
    <2>3. RoundsLeft' <= RoundsLeft - 1
      <3>1. CASE stop_request
        <4>1. RoundsLeft = 1 /\ RoundsLeft' = 0
          BY <1>4, <2>1, <3>1 DEF ByRound
        <4> QED BY <4>1
      <3>2. CASE ~stop_request /\ (itime + 1) % itback = 0
        <4>1. RoundsLeft >= 2
          BY <1>2, <2>1, <3>2 DEF LooksNow
        <4>2. Due(itback)'
          BY <1>1, <2>1, <3>2 DEF Due
        <4>3. RoundsLeft' = 1
          BY <1>4, <2>1, <3>2, <4>2 DEF ByRound, LooksNow
        <4> QED BY <1>2, <4>1, <4>3
      <3>3. CASE ~stop_request /\ (itime + 1) % itback # 0
        <4> DEFINE r == itime % itback
        <4>1. ~Due(itback)'
          BY <2>1, <3>3 DEF Due
        <4>2. RoundsLeft' = 1 + (itback - ((itime + 1) % itback))
          BY <1>4, <2>1, <3>3, <4>1 DEF ByRound, LooksNow
        <4>3. (itime + 1) % itback = r + 1
          BY <1>1, <1>2, <3>3, NextRound
        <4>4. RoundsLeft = 1 + (itback - r)
          BY <1>4, <2>1, <3>3 DEF ByRound, LooksNow
        <4>5. r \in Int
          BY <1>1, <1>2, ModRange
        <4>6. RoundsLeft' = 1 + (itback - (r + 1))
          BY <4>2, <4>3
        <4> HIDE DEF r
        <4> QED BY <1>2, <4>4, <4>5, <4>6
      <3> QED BY <3>1, <3>2, <3>3
    <2>4. RoundsLeft \in Int /\ RoundsLeft' \in Int
      BY <1>2, <1>3
    <2>5. ToStop' < ToStop
      BY <2>2, <2>3, <2>4, RoundsWeigh
    <2>6. time' + RoundsLeft' <= time + RoundsLeft
      <3>1. time \in Int /\ time' \in Int /\ time' <= time + 1
        BY <1>1, <2>1
      <3> QED BY <2>3, <2>4, <3>1, RoundsWeigh
    <2> QED BY <2>2, <2>5, <2>6
  <1>12. CASE EndRun
    <2>1. pc = "top" /\ pc' = "off"
      BY <1>12 DEF EndRun, Goto
    <2>2. ToStop' = 0 /\ ToStop = 11 * RoundsLeft + 11 /\ ~Running'
      BY <1>4, <2>1 DEF ByStage, Running
    <2> QED BY <1>2, <2>2
  <1> QED BY <1>6, <1>7, <1>8, <1>9, <1>10, <1>11, <1>12 DEF Proceed

(* A step that is none of the program's does not take a request back. *)
LEMMA RequestStays ==
  ASSUME TypeInv, Asked, Next, ~Proceed
  PROVE  ~Running' \/ (Asked' /\ ToStop' <= ToStop /\ time' + RoundsLeft' <= time + RoundsLeft)
  <1>1. CASE Start
    BY <1>1 DEF Start, Goto, Asked, Running
  <1>2. CASE Crash
    BY <1>2 DEF Crash, Running
  <1>3. CASE Touch
    <2>1. UNCHANGED <<pc, time, itime, stop_request>> /\ epic_stop' = TRUE
      BY <1>3 DEF Touch, run_vars
    <2>2. RoundsLeft' = RoundsLeft /\ ToStop' = ToStop
      BY <2>1 DEF RoundsLeft, ToStop, StagesLeft, LooksNow, Due, Running
    <2>3. Asked'
      BY <2>1 DEF Asked, Running
    <2>4. StopsSoon /\ time \in Nat /\ itback \in Nat
      BY GoesOn, RoundsRange DEF TypeInv, TypeOK
    <2>5. RoundsLeft \in Int /\ ToStop \in Int /\ time \in Int
      BY <2>4 DEF StopsSoon
    <2> QED BY <2>1, <2>2, <2>3, <2>5
  <1> QED BY <1>1, <1>2, <1>3 DEF Next

(***************************************************************************)
(* For all flags, a program that is asked to stop goes on to nothing but   *)
(* its end: as long as it runs it can go on, each of its steps leaves less *)
(* of at most 11 * (itback + 2), nothing from outside gives it more, and   *)
(* the model time does not pass itback + 1 further steps.  This is what    *)
(* StopHonoured has in it but the fairness.                                *)
(***************************************************************************)
THEOREM StopLeads ==
  Spec => /\ []StopsSoon
          /\ [][Asked /\ Proceed => ToStop' < ToStop]_vars
          /\ [][Asked => ~Running' \/ /\ Asked' /\ ToStop' <= ToStop
                                      /\ time' + RoundsLeft' <= time + RoundsLeft]_vars
  <1>1. TypeInv /\ HeedInv /\ (TypeInv /\ HeedInv)' /\ [Next]_vars
          => [Asked /\ Proceed => ToStop' < ToStop]_vars
    BY ProceedEndsSooner
  <1>2. TypeInv /\ HeedInv /\ (TypeInv /\ HeedInv)' /\ [Next]_vars
          => [Asked => ~Running' \/ /\ Asked' /\ ToStop' <= ToStop
                                    /\ time' + RoundsLeft' <= time + RoundsLeft]_vars
    <2> SUFFICES ASSUME TypeInv, HeedInv, TypeInv', HeedInv', Next, Asked, Running'
                 PROVE  Asked' /\ ToStop' <= ToStop /\ time' + RoundsLeft' <= time + RoundsLeft
      OBVIOUS
    <2>1. CASE Proceed
      <3>1. /\ ToStop' < ToStop
            /\ Running' => Asked' /\ time' + RoundsLeft' <= time + RoundsLeft
        BY <2>1, ProceedEndsSooner
      <3>2. ToStop \in Int
        BY GoesOn DEF StopsSoon
      <3>3. ToStop' \in Int
        <4>1. StopsSoon'
          BY GoesOn, PTL
        <4> QED BY <3>1, <4>1 DEF StopsSoon
      <3> QED BY <3>1, <3>2, <3>3
    <2>2. CASE ~Proceed
      BY <2>2, RequestStays
    <2> QED BY <2>1, <2>2
  <1> QED BY <1>1, <1>2, Heed, GoesOn, PTL DEF Spec

-----------------------------------------------------------------------------
(***************************************************************************)
(* What is so of two statements that the code does not keep for all flags  *)
(* and failures: that there is always a good backup, and that every plane  *)
(* of the extract file has a time.                                         *)
(***************************************************************************)

(* The clocks of a run, whether or not its end falls on an output. *)
LoopInv ==
  /\ pc \notin {"off", "top"} => itime <= itrun
  /\ pc # "off" /\ itime <= itrun => time = start + itime

(* An epic<date>.nc that a run which starts from it, or later, leaves alone. *)
OldSave == \E s \in saves : s <= start

HaveBackup == "whole" \in {back1.kind, back2.kind}

(***************************************************************************)
(* A run that was started from a backup has one; while epic_back1.nc is    *)
(* replaced, it is the other, as long as no fault has come before.         *)
(***************************************************************************)
BackupInv ==
  start > 0 /\ ~OldSave /\ write_faults <= 1 =>
    /\ pc \notin {"create", "backup"} => HaveBackup
    /\ pc \in {"create", "backup"} /\ write_faults = 0 => back2.kind = "whole"

LEMMA LoopStep == TypeInv /\ TypeInv' /\ LoopInv /\ [Next]_vars => LoopInv'
  <1> SUFFICES ASSUME TypeInv, TypeInv', LoopInv, [Next]_vars PROVE LoopInv'
    OBVIOUS
  <1>0. {time, time', itime, itime', itrun, itrun', start, start', ItRun} \subseteq Nat
    BY FlagsAssumption, IntMaxNat DEF TypeInv, TypeOK
  <1>1. CASE Start
    <2>1. pc' = "top" /\ itime' = 0 /\ time' = start'
      BY <1>1 DEF Start, Goto
    <2> QED BY <1>0, <2>1 DEF LoopInv
  <1>2. CASE BeginSave \/ EndSave \/ NoSave
    <2>1. /\ pc # "off" /\ pc' \notin {"off", "top"} /\ itime <= itrun
          /\ UNCHANGED <<time, itime, itrun, start>>
      BY <1>2 DEF BeginSave, EndSave, NoSave, Goto, LoopInv, run_vars
    <2> QED BY <2>1 DEF LoopInv
  <1>3. CASE CheckStopAfterSave \/ CheckStopAfterBackup
    <2>1. pc \notin {"off", "top"} /\ pc' \notin {"off", "top"} /\ UNCHANGED <<time, itime, itrun, start>>
      BY <1>3 DEF CheckStopAfterSave, CheckStopAfterBackup, CheckStop, Goto
    <2> QED BY <2>1 DEF LoopInv
  <1>4. CASE RotateBackup \/ RotateBackupError \/ CreateBackup \/ EndBackup \/ NoBackup
    <2>1. pc \notin {"off", "top"} /\ pc' \notin {"off", "top"} /\ UNCHANGED <<time, itime, itrun, start>>
      BY <1>4 DEF RotateBackup, RotateBackupError, CreateBackup, EndBackup, NoBackup, Goto, run_vars
    <2> QED BY <2>1 DEF LoopInv
  <1>5. CASE HeedStop
    <2>1. /\ pc = "stop" /\ pc' = "frame" /\ itrun' = (IF stop_request THEN itime ELSE itrun)
          /\ UNCHANGED <<time, itime, start>>
      BY <1>5 DEF HeedStop, Goto
    <2> QED BY <1>0, <2>1 DEF LoopInv
  <1>6. CASE BeginFrame \/ NoFrame \/ EndFrame
    <2>1. pc \notin {"off", "top"} /\ pc' \notin {"off", "top"} /\ UNCHANGED <<time, itime, itrun, start>>
      BY <1>6 DEF BeginFrame, NoFrame, EndFrame, Goto, run_vars
    <2> QED BY <2>1 DEF LoopInv
  <1>7. CASE Advance
    <2>1. /\ pc = "advance" /\ pc' = "top" /\ itime' = itime + 1
          /\ time' = (IF ExtractOn /\ itime = itrun THEN time ELSE time + 1)
          /\ UNCHANGED <<itrun, start>>
      BY <1>7 DEF Advance, Goto
    <2> QED BY <1>0, <2>1 DEF LoopInv
  <1>8. CASE EndRun \/ Crash
    <2>1. pc' = "off"
      BY <1>8 DEF EndRun, Crash, Goto
    <2> QED BY <2>1 DEF LoopInv
  <1>9. CASE Touch \/ UNCHANGED vars
    <2>1. UNCHANGED <<pc, time, itime, itrun, start>>
      BY <1>9 DEF Touch, vars, run_vars
    <2> QED BY <2>1 DEF LoopInv
  <1> QED BY <1>1, <1>2, <1>3, <1>4, <1>5, <1>6, <1>7, <1>8, <1>9 DEF Next, Proceed

LEMMA BackupStep ==
  TypeInv /\ TypeInv' /\ OrderInv /\ LossInv /\ LoopInv /\ BackupInv /\ [Next]_vars => BackupInv'
  <1> SUFFICES ASSUME TypeInv, TypeInv', OrderInv, LossInv, LoopInv, BackupInv, [Next]_vars
               PROVE  BackupInv'
    OBVIOUS
  <1>0. /\ {time, time', itime, start, start', write_faults, write_faults'} \subseteq Nat
        /\ saves \subseteq Nat
    BY DEF TypeInv, TypeOK
  <1>1. CASE Start
    <2>1. /\ pc' = "top" /\ start' \in Recoverable /\ UNCHANGED <<back1, back2, saves>>
      BY <1>1 DEF Start, Goto, file_vars
    <2>2. ASSUME start' > 0, ~OldSave' PROVE HaveBackup
      <3>1. start' \notin saves
        BY <1>0, <2>1, <2>2 DEF OldSave
      <3>2. start' \in WholeTime(back1) \cup WholeTime(back2)
        BY <1>0, <2>1, <2>2, <3>1 DEF Recoverable
      <3> QED BY <3>2 DEF WholeTime, HaveBackup
    <2> QED BY <2>1, <2>2 DEF BackupInv, HaveBackup
  (* The save of the loop is later than the file the run was started from. *)
  <1>2. CASE BeginSave
    <2>1. /\ pc = "top" /\ pc' = "save" /\ itime <= itrun /\ itime > 0 /\ saves' = saves \ {time}
          /\ UNCHANGED <<start, back1, back2, write_faults>>
      BY <1>2 DEF BeginSave, Goto, Due, run_vars, tally_vars
    <2>2. time > start
      BY <1>0, <2>1 DEF LoopInv
    <2>3. OldSave => OldSave'
      BY <1>0, <2>1, <2>2 DEF OldSave
    <2> QED BY <2>1, <2>3 DEF BackupInv, HaveBackup
  <1>3. CASE EndSave
    <2>1. /\ pc = "save" /\ pc' = "save_check" /\ saves' = saves \cup {time}
          /\ UNCHANGED <<start, back1, back2, write_faults>>
      BY <1>3 DEF EndSave, Goto, run_vars, tally_vars
    <2>2. OldSave => OldSave'
      BY <2>1 DEF OldSave
    <2> QED BY <2>1, <2>2 DEF BackupInv, HaveBackup
  <1>4. ASSUME UNCHANGED <<saves, start, back1, back2, write_faults>>,
               pc \notin {"create", "backup"}, pc' \notin {"create", "backup"}
        PROVE  BackupInv'
    BY <1>4 DEF BackupInv, HaveBackup, OldSave
  <1>5. CASE NoSave \/ CheckStopAfterSave \/ CheckStopAfterBackup \/ NoBackup \/ HeedStop
    <2>1. /\ UNCHANGED <<saves, start, back1, back2, write_faults>>
          /\ pc \notin {"create", "backup"} /\ pc' \notin {"create", "backup"}
      BY <1>5 DEF NoSave, CheckStopAfterSave, CheckStopAfterBackup, CheckStop, NoBackup, HeedStop, Goto,
                  run_vars, file_vars, tally_vars
    <2> QED BY <1>4, <2>1
  <1>6. CASE BeginFrame \/ NoFrame \/ EndFrame \/ Advance \/ EndRun
    <2>1. /\ UNCHANGED <<saves, start, back1, back2, write_faults>>
          /\ pc \notin {"create", "backup"} /\ pc' \notin {"create", "backup"}
      BY <1>6 DEF BeginFrame, NoFrame, EndFrame, Advance, EndRun, Goto, run_vars, file_vars, tally_vars
    <2> QED BY <1>4, <2>1
  (* The rotation: without a fault before, epic_back1.nc is whole or not there. *)
  <1>7. CASE RotateBackup
    <2>1. /\ pc = "back" /\ pc' = "create" /\ UNCHANGED <<saves, start, write_faults>>
          /\ back2' = (IF back1.kind = "absent" THEN back2 ELSE back1)
      BY <1>7 DEF RotateBackup, Goto, run_vars, tally_vars
    <2>2. ASSUME start > 0, ~OldSave, write_faults = 0 PROVE back2'.kind = "whole"
      <3>1. back1.kind \in {"absent", "whole"}
        BY <2>1, <2>2 DEF LossInv, TypeInv, TypeOK, File
      <3>2. back1.kind = "whole" \/ back2.kind = "whole"
        BY <1>0, <2>1, <2>2 DEF BackupInv, HaveBackup
      <3> QED BY <2>1, <3>1, <3>2
    <2> QED BY <2>1, <2>2 DEF BackupInv, OldSave
  <1>8. CASE RotateBackupError
    <2>1. pc' = "create" /\ write_faults' = write_faults + 1
      BY <1>8 DEF RotateBackupError, Goto
    <2>2. write_faults' # 0
      BY <1>0, <2>1
    <2> QED BY <2>1, <2>2 DEF BackupInv
  <1>9. CASE CreateBackup
    <2>1. pc = "create" /\ pc' = "backup" /\ UNCHANGED <<saves, start, back2, write_faults>>
      BY <1>9 DEF CreateBackup, Goto, run_vars, tally_vars
    <2> QED BY <1>0, <2>1 DEF BackupInv, OldSave
  <1>10. CASE EndBackup
    <2>1. pc' = "back_check" /\ back1'.kind = "whole"
      BY <1>10 DEF EndBackup, Goto, Whole
    <2> QED BY <2>1 DEF BackupInv, HaveBackup
  (* A failure in the rotation is a fault; if it is the first, the other backup is there. *)
  <1>11. CASE Crash
    <2>1. /\ pc' = "off" /\ UNCHANGED <<saves, start, back1, back2>>
          /\ write_faults' = IF pc \in {"create", "backup"} THEN write_faults + 1 ELSE write_faults
      BY <1>11 DEF Crash, run_vars, file_vars
    <2>2. ASSUME start > 0, ~OldSave, write_faults' <= 1 PROVE HaveBackup
      <3>1. pc \in {"create", "backup"} => write_faults = 0
        BY <1>0, <2>1, <2>2
      <3>2. write_faults <= 1
        BY <1>0, <2>1, <2>2
      <3> QED BY <2>2, <3>1, <3>2 DEF BackupInv, HaveBackup
    <2> QED BY <2>1, <2>2 DEF BackupInv, HaveBackup, OldSave
  <1>12. CASE Touch \/ UNCHANGED vars
    <2>1. UNCHANGED <<pc, saves, start, back1, back2, write_faults>>
      BY <1>12 DEF Touch, vars, run_vars, file_vars, tally_vars
    <2> QED BY <2>1 DEF BackupInv, HaveBackup, OldSave
  <1> QED BY <1>1, <1>2, <1>3, <1>5, <1>6, <1>7, <1>8, <1>9, <1>10, <1>11, <1>12 DEF Next, Proceed

(***************************************************************************)
(* There is a good backup after any failure, as long as the rotation has   *)
(* met no more than one fault: it takes a second one, in the run after the *)
(* first, to lose both.                                                    *)
(***************************************************************************)
THEOREM GoodBackup == Spec => [](write_faults <= 1 => AlwaysGoodBackup)
  <1> DEFINE IInv == TypeInv /\ OrderInv /\ LossInv /\ LoopInv /\ BackupInv
             Good == write_faults <= 1 => AlwaysGoodBackup
  <1>1. Init => IInv
    <2>1. Init => LoopInv /\ BackupInv
      BY DEF Init, LoopInv, BackupInv
    <2> QED BY <2>1, InitTypeInv, InitLoss
  <1>2. IInv /\ [Next]_vars => IInv'
    BY TypeInvStep, OrderStep, LossStep, LoopStep, BackupStep
  <1>3. IInv => Good
    <2> SUFFICES ASSUME IInv, write_faults <= 1, pc = "off", start > 0, saves = {}
                 PROVE  "whole" \in {back1.kind, back2.kind}
      BY DEF AlwaysGoodBackup
    <2>1. ~OldSave
      BY DEF OldSave
    <2> QED BY <2>1 DEF BackupInv, HaveBackup
  <1> HIDE DEF IInv, Good
  <1>4. Spec => []Good
    BY <1>1, <1>2, <1>3, PTL DEF Spec
  <1> QED BY <1>4 DEF Good

-----------------------------------------------------------------------------
(***************************************************************************)
(* The times of the planes.  A run that writes a new extract.nc sets the   *)
(* id of L_s with it; a run that appends has defined a file, and with it   *)
(* the id, by its first frame if a save or a backup comes no later.        *)
(***************************************************************************)
FileByFrame == ~AppendOnRestart \/ itsave <= ItExtract \/ itback <= ItExtract

(* The save or the backup that comes first is still ahead. *)
SaveAhead == itime < itsave \/ (itime = itsave /\ pc = "top")

BackupAhead == itime < itback \/ (itime = itback /\ pc \in BeforeBackup \cup {"create"})

IdInv ==
  /\ append => AppendOnRestart
  /\ pc = "extract" => FrameDue
  /\ Running /\ ExtractOn /\ ~ls_id =>
       /\ append
       /\ (itsave <= ItExtract /\ SaveAhead) \/ (itback <= ItExtract /\ BackupAhead)

(* A frame of a time added to planes that have times. *)
LEMMA PutFrameTimed ==
  ASSUME TypeOK, FrameIndex, FrameTimesAreTimes, ls_id, NEW closed \in BOOLEAN, PutFrame(closed)
  PROVE  FrameTimesAreTimes'
  <1> DEFINE Timed  == {f \in Frame : f.time # NotATime}
             rec    == [time |-> time, closed |-> closed]
             before == SubSeq(extract, 1, next_frame)
             after  == SubSeq(extract, next_frame + 2, Len(extract))
  <1>1. /\ extract \in Seq(Frame) /\ next_frame \in Nat /\ time \in Nat /\ Len(extract) \in Nat
        /\ next_frame <= Len(extract)
    BY DEF TypeOK, Frame, FrameIndex
  <1>2. \A i \in 1 .. Len(extract) : extract[i] \in Timed
    <2>1. \A i \in 1 .. Len(extract) : extract[i] \in Frame
      BY <1>1
    <2> QED BY <2>1 DEF FrameTimesAreTimes
  <1>3. rec \in Timed
    BY <1>1 DEF Frame, NotATime
  <1>4. extract' = (before \o << rec >>) \o after
    BY DEF PutFrame
  <1> HIDE DEF Timed, rec
  <1>5. before \in Seq(Timed)
    <2>1. \A i \in 1 .. next_frame : extract[i] \in Timed
      BY <1>1, <1>2
    <2> QED BY <1>1, <2>1, SubSeqProperties
  <1>6. after \in Seq(Timed)
    <2>1. \A i \in next_frame + 2 .. Len(extract) : extract[i] \in Timed
      BY <1>1, <1>2
    <2> QED BY <1>1, <2>1, SubSeqProperties
  <1> HIDE DEF before, after
  <1>7. << rec >> \in Seq(Timed)
    BY <1>3
  <1>8. (before \o << rec >>) \o after \in Seq(Timed)
    BY <1>5, <1>6, <1>7, ConcatProperties
  <1>9. \A i \in 1 .. Len(extract') : extract'[i] \in Timed
    BY <1>4, <1>8
  <1> QED BY <1>9 DEF FrameTimesAreTimes, Timed

LEMMA IdStep ==
  FileByFrame /\ TypeInv /\ TypeInv' /\ IdInv /\ [Next]_vars => IdInv'
  <1> SUFFICES ASSUME FileByFrame, TypeInv, TypeInv', IdInv, [Next]_vars PROVE IdInv'
    OBVIOUS
  <1>0. /\ {itime, itime', itrun} \subseteq Nat /\ {append, ls_id} \subseteq BOOLEAN
        /\ itback \in Nat \ {0} /\ itsave \in Nat \ {0} /\ ItExtract \in Nat \ {0}
    BY Intervals DEF TypeInv, TypeOK
  <1>1. CASE Start
    <2>1. /\ pc' = "top" /\ itime' = 0 /\ append' = (AppendOnRestart /\ starts > 0)
          /\ ls_id' = (ExtractOn /\ ~append')
      BY <1>1 DEF Start, Goto
    <2>2. SaveAhead' /\ BackupAhead'
      BY <1>0, <2>1 DEF SaveAhead, BackupAhead
    <2>3. \/ ~append'
          \/ (itsave <= ItExtract /\ SaveAhead') \/ (itback <= ItExtract /\ BackupAhead')
      BY <2>1, <2>2 DEF FileByFrame
    <2> QED BY <2>1, <2>3 DEF IdInv
  (* Steps within a loop, which leave the outputs ahead or have made them. *)
  <1>2. ASSUME UNCHANGED <<itime, append>>, pc # "off", pc' # "extract",
               ls_id => ls_id', SaveAhead => ls_id' \/ SaveAhead', BackupAhead => ls_id' \/ BackupAhead'
        PROVE  IdInv'
    <2>1. ASSUME ExtractOn, ~ls_id'
          PROVE  append /\ ((itsave <= ItExtract /\ SaveAhead) \/ (itback <= ItExtract /\ BackupAhead))
      BY <1>2, <2>1 DEF IdInv, Running
    <2>2. append => AppendOnRestart
      BY DEF IdInv
    <2> QED BY <1>2, <2>1, <2>2 DEF IdInv
  <1>3. CASE BeginSave
    <2>1. pc = "top" /\ pc' = "save" /\ ls_id' = TRUE /\ UNCHANGED <<itime, append>>
      BY <1>3 DEF BeginSave, Goto, run_vars
    <2> QED BY <1>2, <2>1
  <1>4. CASE NoSave
    <2>1. /\ pc = "top" /\ pc' = "back" /\ ~Due(itsave) /\ UNCHANGED <<itime, append, ls_id>>
      BY <1>4 DEF NoSave, Goto, run_vars
    <2>2. itime # itsave
      <3>1. itsave % itsave = 0
        BY <1>0
      <3> QED BY <1>0, <2>1, <3>1 DEF Due
    <2>3. SaveAhead => SaveAhead'
      BY <2>1, <2>2 DEF SaveAhead
    <2>4. BackupAhead => BackupAhead'
      BY <2>1 DEF BackupAhead, BeforeBackup
    <2> QED BY <1>2, <2>1, <2>3, <2>4
  <1>5. CASE NoBackup
    <2>1. pc = "back" /\ pc' = "stop" /\ ~Due(itback) /\ UNCHANGED <<itime, append, ls_id>>
      BY <1>5 DEF NoBackup, Goto, run_vars
    <2>2. itime # itback
      <3>1. itback % itback = 0
        BY <1>0
      <3> QED BY <1>0, <2>1, <3>1 DEF Due
    <2>3. SaveAhead => SaveAhead'
      BY <2>1 DEF SaveAhead
    <2>4. BackupAhead => BackupAhead'
      BY <2>1, <2>2 DEF BackupAhead
    <2> QED BY <1>2, <2>1, <2>3, <2>4
  <1>6. CASE CreateBackup
    <2>1. pc = "create" /\ pc' = "backup" /\ ls_id' = TRUE /\ UNCHANGED <<itime, append>>
      BY <1>6 DEF CreateBackup, Goto, run_vars
    <2> QED BY <1>2, <2>1
  <1>7. CASE EndSave \/ CheckStopAfterSave \/ RotateBackup \/ RotateBackupError
    <2>1. /\ pc \in {"save", "save_check", "back"} /\ pc' \in {"save_check", "back", "create"}
          /\ UNCHANGED <<itime, append, ls_id>>
      BY <1>7 DEF EndSave, CheckStopAfterSave, CheckStop, RotateBackup, RotateBackupError, Goto, run_vars
    <2>2. SaveAhead => SaveAhead'
      BY <2>1 DEF SaveAhead
    <2>3. BackupAhead => BackupAhead'
      BY <2>1 DEF BackupAhead, BeforeBackup
    <2> QED BY <1>2, <2>1, <2>2, <2>3
  <1>8. CASE EndBackup \/ CheckStopAfterBackup \/ HeedStop \/ NoFrame \/ EndFrame
    <2>1. /\ pc \in {"backup", "back_check", "stop", "frame", "extract"}
          /\ pc' \in {"back_check", "stop", "frame", "advance"}
          /\ UNCHANGED <<itime, append, ls_id>>
      BY <1>8 DEF EndBackup, CheckStopAfterBackup, CheckStop, HeedStop, NoFrame, EndFrame, Goto, run_vars
    <2>2. SaveAhead => SaveAhead'
      BY <2>1 DEF SaveAhead
    <2>3. BackupAhead => BackupAhead'
      BY <2>1 DEF BackupAhead, BeforeBackup
    <2> QED BY <1>2, <2>1, <2>2, <2>3
  <1>9. CASE BeginFrame
    <2>1. pc = "frame" /\ pc' = "extract" /\ FrameDue /\ UNCHANGED <<itime, append, ls_id>>
      BY <1>9 DEF BeginFrame, Goto, run_vars
    <2>2. FrameDue'
      BY <2>1 DEF FrameDue
    <2>3. SaveAhead => SaveAhead'
      BY <2>1 DEF SaveAhead
    <2>4. BackupAhead => BackupAhead'
      BY <2>1 DEF BackupAhead, BeforeBackup
    <2> QED BY <2>1, <2>2, <2>3, <2>4 DEF IdInv, Running
  <1>10. CASE Advance
    <2>1. pc = "advance" /\ pc' = "top" /\ itime' = itime + 1 /\ UNCHANGED <<append, ls_id>>
      BY <1>10 DEF Advance, Goto
    <2>2. SaveAhead => SaveAhead'
      BY <1>0, <2>1 DEF SaveAhead
    <2>3. BackupAhead => BackupAhead'
      BY <1>0, <2>1 DEF BackupAhead, BeforeBackup
    <2> QED BY <2>1, <2>2, <2>3 DEF IdInv, Running
  <1>11. CASE EndRun \/ Crash
    <2>1. pc' = "off" /\ UNCHANGED append
      BY <1>11 DEF EndRun, Crash, Goto, run_vars
    <2> QED BY <2>1 DEF IdInv, Running
  <1>12. CASE Touch \/ UNCHANGED vars
    <2>1. UNCHANGED <<pc, itime, append, ls_id>>
      BY <1>12 DEF Touch, vars, run_vars
    <2> QED BY <2>1 DEF IdInv, Running, SaveAhead, BackupAhead, FrameDue
  <1> QED BY <1>1, <1>3, <1>4, <1>5, <1>6, <1>7, <1>8, <1>9, <1>10, <1>11, <1>12 DEF Next, Proceed

(* A frame is written with the id set. *)
LEMMA IdSet ==
  ASSUME TypeInv, IdInv, pc = "extract" PROVE ls_id
  <1>0. /\ itime \in Nat /\ {append, ls_id} \subseteq BOOLEAN
        /\ itback \in Nat \ {0} /\ itsave \in Nat \ {0} /\ ItExtract \in Nat \ {0}
    BY Intervals DEF TypeInv, TypeOK
  <1>1. ExtractOn /\ itime % ItExtract = 0 /\ (append => itime > 0)
    BY DEF IdInv, FrameDue
  <1>2. itime > 0 => itime >= ItExtract
    <2>1. 0 < itime /\ itime < ItExtract => itime % ItExtract = itime
      BY <1>0
    <2> QED BY <1>0, <1>1, <2>1
  <1>3. ~SaveAhead \/ ~(itsave <= ItExtract) \/ ~append
    BY <1>0, <1>1, <1>2 DEF SaveAhead
  <1>4. ~BackupAhead \/ ~(itback <= ItExtract) \/ ~append
    BY <1>0, <1>1, <1>2 DEF BackupAhead, BeforeBackup
  <1> QED BY <1>0, <1>1, <1>3, <1>4 DEF IdInv, Running

LEMMA TimesStep ==
  TypeInv /\ IdInv /\ FrameTimesAreTimes /\ [Next]_vars => FrameTimesAreTimes'
  <1> SUFFICES ASSUME TypeInv, IdInv, FrameTimesAreTimes, [Next]_vars PROVE FrameTimesAreTimes'
    OBVIOUS
  <1>1. CASE UNCHANGED extract
    BY <1>1 DEF FrameTimesAreTimes
  <1>2. CASE pc = "extract" /\ (PutFrame(TRUE) \/ PutFrame(FALSE))
    BY <1>2, IdSet, PutFrameTimed DEF TypeInv
  <1>3. CASE extract' = << >>
    BY <1>3 DEF FrameTimesAreTimes
  <1>4. CASE Start \/ Crash \/ Touch \/ UNCHANGED vars
    BY <1>1, <1>2, <1>3, <1>4 DEF Start, Crash, Touch, vars, frame_vars
  <1>5. CASE Proceed
    BY <1>1, <1>2, <1>5
    DEF Proceed, BeginSave, EndSave, NoSave, CheckStopAfterSave, RotateBackup, RotateBackupError,
        CreateBackup, EndBackup, NoBackup, CheckStopAfterBackup, CheckStop, HeedStop, BeginFrame, NoFrame,
        EndFrame, Advance, EndRun, Goto, frame_vars
  <1> QED BY <1>4, <1>5 DEF Next

(* The intervals main() derives where no flag gives itback are such. *)
LEMMA DefaultInTime == ItBack = IntMax => FileByFrame
  <1>1. ItExtract \in 1 .. IntMax /\ IntMax \in Nat
    BY FlagsAssumption, IntMaxNat
  <1>2. ItExtract < IntMax \/ ItExtract = IntMax
    BY <1>1
  <1>3. ItBack = IntMax => itback = ItExtract
    BY <1>2 DEF itback
  <1> QED BY <1>1, <1>3 DEF FileByFrame

(***************************************************************************)
(* The time coordinate of the extract file holds times, unless runs append *)
(* and both saves and backups come less often than frames.                 *)
(***************************************************************************)
THEOREM TimesStored == FileByFrame => (Spec => []FrameTimesAreTimes)
  <1> SUFFICES ASSUME FileByFrame PROVE Spec => []FrameTimesAreTimes
    OBVIOUS
  <1> DEFINE IInv == TypeInv /\ IdInv /\ FrameTimesAreTimes
  <1>1. Init => IInv
    <2> SUFFICES ASSUME Init PROVE IInv
      OBVIOUS
    <2>1. pc = "off" /\ ~append /\ extract = << >>
      BY DEF Init
    <2> QED BY <2>1, InitTypeInv DEF IdInv, Running, FrameTimesAreTimes
  <1>2. IInv /\ [Next]_vars => IInv'
    BY TypeInvStep, IdStep, TimesStep
  <1>3. IInv => FrameTimesAreTimes
    OBVIOUS
  <1> HIDE DEF IInv
  <1> QED BY <1>1, <1>2, <1>3, PTL DEF Spec

=============================================================================

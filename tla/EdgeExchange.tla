---------------------------- MODULE EdgeExchange ----------------------------
(***************************************************************************)
(* bc_lateral() of a parallel run: MPG_Cart_edgeexch() (mpi/mpg/map_edge.c) *)
(* fills the pads around each process's subgrid with two MPI_Sendrecv()    *)
(* calls per axis, the meridional axis before the zonal one, so that the   *)
(* corners come from the diagonal neighbours without a message of their    *)
(* own.  The processes run at their own pace.                              *)
(*                                                                         *)
(* A point holds the number of the call its value was computed for and the *)
(* indices it belongs to.  Successive calls take a field of two dimensions *)
(* (on comm_ij) and one of three (on comm_ijk) in turn; the vertical axis  *)
(* of the latter has one process and no neighbours.                        *)
(*                                                                         *)
(* Fields of two dimensions are put through zonal_filter()                 *)
(* (core/epic_adjust.c) first: one MPI_Allreduce() for each row near a     *)
(* pole gathers the row on all processes that share it, which transform it *)
(* and take back their part.  H-grid and V-grid fields alternate.          *)
(***************************************************************************)
EXTENDS Integers, Sequences, Subgrids

CONSTANTS
  Layouts,  \* records: geometry, ni and nj, the processes pi and pj of each axis, and
            \* polar, the rows poleward of LAT0
  Calls     \* bound: the calls of bc_lateral()

ASSUME LayoutsAssumption ==
  \A l \in Layouts : /\ l.geometry \in Geometries
                     /\ {l.ni, l.nj} \subseteq Nat
                     /\ l.pi \in 1 .. l.ni /\ l.pj \in 1 .. l.nj
                     /\ l.geometry = "f-plane cartesian" => l.polar = {}
ASSUME CallsAssumption == Calls \in Nat

VARIABLES
  layout,
  buffered,  \* whether MPI keeps messages, so that a send need not wait for its receiver
  pc,        \* per process: "compute", or where its MPI_Sendrecv() is
  call,      \* per process: calls of bc_lateral() it has made
  step,      \* per process: which of the four MPI_Sendrecv() calls it is at
  row,       \* per process: the row zonal_filter() is at
  given,     \* per process: what it has given to the MPI_Allreduce() calls of comm_JLO
  field,     \* per process: the array with its pads
  sent       \* messages on the way, by sender, call of MPI_Sendrecv() and communicator

vars == <<layout, buffered, pc, call, step, row, given, field, sent>>

Steps == 0 .. 3
Comms == {"ij", "ijk"}

Processes(l) == (0 .. l.pi - 1) \X (0 .. l.pj - 1)
Process      == Processes(layout)

Comm(p) == IF call[p] % 2 = 1 THEN "ij" ELSE "ijk"

-----------------------------------------------------------------------------
(* The subgrid of process p under layout l: p[1] is its place along a        *)
(* parallel, p[2] along a meridian.                                          *)

ILO(l, p) == MyLo(1, l.ni, l.pi, p[1])
IHI(l, p) == MyHi(1, l.ni, l.pi, p[1])
Row0(l)   == JStart(l.geometry)
JLO(l, p) == MyLo(Row0(l), l.nj - Row0(l) + 1, l.pj, p[2])
JHI(l, p) == MyHi(Row0(l), l.nj - Row0(l) + 1, l.pj, p[2])

PaddedRows(l, p) == JLO(l, p) - JPAD .. JHI(l, p) + JPAD
PaddedCols(l, p) == ILO(l, p) - IPAD .. IHI(l, p) + IPAD

(* The rows a process computes: without periodicity V and PV also have a row *)
(* nj + 1, which is the business of the last process.                        *)
ComputedRows(l, p) ==
  JLO(l, p) .. JHI(l, p) + (IF ~Wrap(l.geometry) /\ JHI(l, p) = l.nj THEN 1 ELSE 0)

(* MPI_Cart_shift(): the next process along an axis, if there is one.        *)
Beyond(p, axis, by) ==
  LET size == IF axis = 0 THEN layout.pi ELSE layout.pj
      at   == p[axis + 1] + by
      wrap == axis = 0 \/ Wrap(layout.geometry)
  IN  IF ~wrap /\ at \notin 0 .. size - 1 THEN {}
      ELSE {[p EXCEPT ![axis + 1] = at % size]}

(* The four calls: axis 1 down and up, then axis 0 down and up.  What goes   *)
(* down is the low strip, to lo; it arrives in the high pad, from hi.        *)
Axis(s) == IF s < 2 THEN 1 ELSE 0
Down(s) == s % 2 = 0
Dest(p, s)   == Beyond(p, Axis(s), IF Down(s) THEN -1 ELSE 1)
Source(p, s) == Beyond(p, Axis(s), IF Down(s) THEN 1 ELSE -1)

(* A mistake to test against: the strip is as long as the interior.          *)
Strip_NoPads(p, s) ==
  IF Axis(s) = 1
    THEN LET j == IF Down(s) THEN JLO(layout, p) ELSE JHI(layout, p)
         IN  [i \in ILO(layout, p) .. IHI(layout, p) |-> field[p][j, i]]
    ELSE LET i == IF Down(s) THEN ILO(layout, p) ELSE IHI(layout, p)
         IN  [j \in JLO(layout, p) .. JHI(layout, p) |-> field[p][j, i]]

(* stride[idim] at *_offset_src: the outermost interior row or column, with   *)
(* the pads at its ends.                                                     *)
Strip(p, s) ==
  IF Axis(s) = 1
    THEN LET j == IF Down(s) THEN JLO(layout, p) ELSE JHI(layout, p)
         IN  [i \in PaddedCols(layout, p) |-> field[p][j, i]]
    ELSE LET i == IF Down(s) THEN ILO(layout, p) ELSE IHI(layout, p)
         IN  [j \in PaddedRows(layout, p) |-> field[p][j, i]]

(* A mistake to test against: hi_offset_rcv is a pad too far. *)
Placed_TooFar(p, s, strip) ==
  IF Axis(s) = 1
    THEN LET j == IF Down(s) THEN JHI(layout, p) + 2 * JPAD ELSE JLO(layout, p) - JPAD
         IN  [x \in (DOMAIN field[p]) \cup ({j} \X (DOMAIN strip)) |->
                IF x[1] = j THEN strip[x[2]] ELSE field[p][x]]
    ELSE LET i == IF Down(s) THEN IHI(layout, p) + 2 * IPAD ELSE ILO(layout, p) - IPAD
         IN  [x \in (DOMAIN field[p]) \cup ((DOMAIN strip) \X {i}) |->
                IF x[2] = i THEN strip[x[1]] ELSE field[p][x]]

(* stride[idim] at *_offset_rcv: the pad opposite to the one the strip left.  *)
Placed(p, s, strip) ==
  IF Axis(s) = 1
    THEN LET j == IF Down(s) THEN JHI(layout, p) + JPAD ELSE JLO(layout, p) - JPAD
         IN  [x \in DOMAIN field[p] |->
                IF x[1] = j /\ x[2] \in DOMAIN strip THEN strip[x[2]] ELSE field[p][x]]
    ELSE LET i == IF Down(s) THEN IHI(layout, p) + IPAD ELSE ILO(layout, p) - IPAD
         IN  [x \in DOMAIN field[p] |->
                IF x[2] = i /\ x[1] \in DOMAIN strip THEN strip[x[1]] ELSE field[p][x]]

-----------------------------------------------------------------------------

Init ==
  /\ layout \in Layouts /\ buffered \in BOOLEAN
  /\ pc = [p \in Process |-> "compute"]
  /\ call = [p \in Process |-> 0]
  /\ step = [p \in Process |-> 0]
  /\ row = [p \in Process |-> -1]
  /\ given = [p \in Process |-> << >>]
  /\ field = [p \in Process |->
       [x \in PaddedRows(layout, p) \X PaddedCols(layout, p) |-> <<0, 0, 0>>]]
  /\ sent = [p \in Process |-> [s \in Steps |-> [c \in Comms |-> << >>]]]

Goto(p, here, there) == pc[p] = here /\ pc' = [pc EXCEPT ![p] = there]

(* zonal_filter() goes over the rows JLO .. JHI of an H-grid field, and    *)
(* JFIRST .. JHI of a V-grid field; rows away from the poles are passed by. *)
HGrid(c) == c % 4 = 1

FirstRow(p) ==
  IF HGrid(call[p]) THEN JLO(layout, p) ELSE JFIRST(layout.geometry, JLO(layout, p))

FilteredAfter(p, j) ==
  IF Comm(p) = "ij" THEN {k \in FirstRow(p) .. JHI(layout, p) : k > j /\ k \in layout.polar}
                    ELSE {}

(* The model computes a field on its subgrid. *)
Compute(p) ==
  /\ Goto(p, "compute", "rows")
  /\ call[p] < Calls
  /\ call' = [call EXCEPT ![p] = @ + 1]
  /\ step' = [step EXCEPT ![p] = 0]
  /\ row' = [row EXCEPT ![p] = -1]
  /\ field' = [field EXCEPT ![p] =
       [x \in DOMAIN @ |->
          IF x[1] \in ComputedRows(layout, p) /\ x[2] \in ILO(layout, p) .. IHI(layout, p)
            THEN <<call[p] + 1, x[1], x[2]>> ELSE @[x]]]
  /\ UNCHANGED <<layout, buffered, given, sent>>

(* MPI_Comm_split() by JLO. *)
CommJLO(p) == {q \in Process : JLO(layout, q) = JLO(layout, p)}

(* MPI_Allreduce() begins with the next row to filter. *)
NextRow(p) ==
  /\ Goto(p, "rows", "allreduce")
  /\ \E j \in FilteredAfter(p, row[p]) :
       /\ \A k \in FilteredAfter(p, row[p]) : j <= k
       /\ row' = [row EXCEPT ![p] = j]
       /\ given' = [given EXCEPT ![p] = Append(@,
            [i \in ILO(layout, p) .. IHI(layout, p) |-> field[p][j, i]])]
  /\ UNCHANGED <<layout, buffered, call, step, field, sent>>

(* It returns the sum of the rows of all, each zero where it has no points:  *)
(* what the others gave to the same call of MPI_Allreduce().                 *)
Summed(p) ==
  [i \in 1 .. layout.ni |->
     LET q == CHOOSE q \in CommJLO(p) : i \in ILO(layout, q) .. IHI(layout, q)
     IN  given[q][Len(given[p])][i]]

(* A filtered value depends on its whole row. *)
FilteredRow(p) ==
  /\ Goto(p, "allreduce", "rows")
  /\ \A q \in CommJLO(p) : Len(given[q]) >= Len(given[p])
  /\ field' = [field EXCEPT ![p] =
       [x \in DOMAIN @ |->
          IF x[1] = row[p] /\ x[2] \in ILO(layout, p) .. IHI(layout, p)
            THEN <<-call[p], Summed(p), x[2]>> ELSE @[x]]]
  /\ UNCHANGED <<layout, buffered, call, step, row, given, sent>>

(* The last row is done: bc_lateral(). *)
RowsDone(p) ==
  /\ Goto(p, "rows", "sendrecv")
  /\ FilteredAfter(p, row[p]) = {}
  /\ UNCHANGED <<layout, buffered, call, step, row, given, field, sent>>

(* MPI_Sendrecv() begins: its send and its receive proceed side by side.     *)
Send(p) ==
  /\ Goto(p, "sendrecv", "wait")
  /\ sent' = IF Dest(p, step[p]) = {} THEN sent
             ELSE [sent EXCEPT ![p][step[p]][Comm(p)] = Append(@, Strip(p, step[p]))]
  /\ UNCHANGED <<layout, buffered, call, step, row, given, field>>

Delivered(p) == Dest(p, step[p]) = {} \/ sent[p][step[p]][Comm(p)] = << >>

(* A mistake to test against: MPI_Send(), then MPI_Recv(). *)
Receive_AfterSend(p) ==
  /\ Goto(p, "wait", "arrived")
  /\ buffered \/ Delivered(p)
  /\ \E q \in Source(p, step[p]) :
       LET queue == sent[q][step[p]][Comm(p)]
       IN  /\ queue # << >>
           /\ field' = [field EXCEPT ![p] = Placed(p, step[p], Head(queue))]
           /\ sent' = [sent EXCEPT ![q][step[p]][Comm(p)] = Tail(@)]
  /\ UNCHANGED <<layout, buffered, call, step, row, given>>

(* The oldest message of its sender, tag and communicator is received. *)
Receive(p) ==
  /\ Goto(p, "wait", "arrived")
  /\ \E q \in Source(p, step[p]) :
       LET queue == sent[q][step[p]][Comm(p)]
       IN  /\ queue # << >>
           /\ field' = [field EXCEPT ![p] = Placed(p, step[p], Head(queue))]
           /\ sent' = [sent EXCEPT ![q][step[p]][Comm(p)] = Tail(@)]
  /\ UNCHANGED <<layout, buffered, call, step, row, given>>

(* Beyond the edge of the grid is MPI_PROC_NULL. *)
ReceiveNothing(p) ==
  /\ Goto(p, "wait", "arrived")
  /\ Source(p, step[p]) = {}
  /\ UNCHANGED <<layout, buffered, call, step, row, given, field, sent>>

Return(p) ==
  /\ buffered \/ Delivered(p)
  /\ IF step[p] = 3 THEN Goto(p, "arrived", "compute") ELSE Goto(p, "arrived", "sendrecv")
  /\ step' = [step EXCEPT ![p] = (@ + 1) % 4]
  /\ UNCHANGED <<layout, buffered, call, row, given, field, sent>>

Run(p) ==
  \/ Compute(p) \/ NextRow(p) \/ FilteredRow(p) \/ RowsDone(p)
  \/ Send(p) \/ Receive(p) \/ ReceiveNothing(p) \/ Return(p)

Next == \E p \in Process : Run(p)

(* MPI makes progress on messages that match and the processes are scheduled: *)
(* as long as any can take a step, some does.                                *)
Spec     == Init /\ [][Next]_vars
FairSpec == Spec /\ WF_vars(Next)

-----------------------------------------------------------------------------
(* bc_lateral() of a serial run (single/s_epic_functions.c) on the array of  *)
(* the whole grid: the columns in every row, then the rows if they wrap.     *)

Whole(l) == (0 .. l.nj + 1) \X (0 .. l.ni + 1)

SerialBcLateral(l, buff) ==
  LET zonal == [x \in Whole(l) |->
        CASE x[2] = 0        -> buff[x[1], l.ni]
          [] x[2] = l.ni + 1 -> buff[x[1], 1]
          [] OTHER           -> buff[x]]
  IN  IF ~Wrap(l.geometry) THEN zonal
      ELSE [x \in Whole(l) |->
        CASE x[1] = 0        -> zonal[l.nj, x[2]]
          [] x[1] = l.nj + 1 -> zonal[1, x[2]]
          [] OTHER           -> zonal[x]]

(* What a serial run computes for a call, before and after bc_lateral(). *)
Computed(l, c) ==
  [x \in Whole(l) |->
     IF x[1] \in Row0(l) .. (IF Wrap(l.geometry) THEN l.nj ELSE l.nj + 1) /\ x[2] \in 1 .. l.ni
       THEN IF c % 2 = 1 /\ x[1] \in l.polar /\ x[1] \in (IF HGrid(c) THEN Row0(l) ELSE 1) .. l.nj
              THEN <<-c, [i \in 1 .. l.ni |-> <<c, x[1], i>>], x[2]>>
              ELSE <<c, x[1], x[2]>>
       ELSE <<0, 0, 0>>]
Serial(l, c) == SerialBcLateral(l, Computed(l, c))

(* Every variable has its type: what is received stays within the array,     *)
(* nobody is more than one sum ahead of those it shares rows with, and unless *)
(* MPI buffers there is at most one message on the way between two processes. *)
TypeOK ==
  /\ layout \in Layouts /\ buffered \in BOOLEAN
  /\ pc \in [Process -> {"compute", "rows", "allreduce", "sendrecv", "wait", "arrived"}]
  /\ call \in [Process -> 0 .. Calls] /\ step \in [Process -> Steps]
  /\ \A p \in Process :
       /\ row[p] \in -1 .. layout.nj
       /\ \A q \in CommJLO(p) : Len(given[p]) <= Len(given[q]) + 1
       /\ DOMAIN field[p] = PaddedRows(layout, p) \X PaddedCols(layout, p)
       /\ \A s \in Steps, c \in Comms : Len(sent[p][s][c]) <= IF buffered THEN Calls ELSE 1

(* Where the subgrids meet makes no difference: when bc_lateral() returns in  *)
(* a process, whatever the others are at, its subgrid and its pads are those  *)
(* a serial run has at the same place, corners, poles and filtered rows       *)
(* included.                                                                 *)
PadsAsInSerialRun ==
  \A p \in Process : pc[p] = "compute" /\ call[p] > 0 =>
    \A x \in (DOMAIN field[p]) \cap Whole(layout) : field[p][x] = Serial(layout, call[p])[x]

(* Nobody waits forever, even if MPI does not buffer a single message: every *)
(* process returns from every call, and no process waits in a sum for a row   *)
(* that another of its parallel passes by.                                   *)
AllCallsReturn == <>(\A p \in Process : call[p] = Calls /\ pc[p] = "compute")

=============================================================================

--------------------------- MODULE EnthalpyTables ---------------------------
(***************************************************************************)
(* The tables of latent heat in a parallel run.  enthalpy_change_H_2O()    *)
(* and enthalpy_change_NH_3() (clouds/epic_microphysics_funcs.c) read      *)
(* theirs when a process first uses it.  Node 0 opens the file and         *)
(* broadcasts the number of lines and then the values, on para.comm, which *)
(* all processes have to join.  Whether a process uses the table in a call *)
(* of cloud_microphysics() depends on whether it has a warm cell with      *)
(* vapour to condense, or liquid or rain.  After its cells a process meets *)
(* its neighbours in bc_lateral(), and later all others in a collective of *)
(* para.comm: the MPI_Allreduce() of adiabatic_adjustment() or the         *)
(* MPI_Bcast() of stop_request.                                            *)
(***************************************************************************)
EXTENDS Naturals, Sequences

CONSTANTS
  NPROCS,
  Buffered  \* the root of a broadcast need not wait for the others

Nodes == 0 .. NPROCS - 1

NODE0 == 0

VARIABLES
  pc,           \* where each process is
  initialized,  \* the flag of its enthalpy_change_H_2O()
  entered       \* the calls of collectives on para.comm since the last meeting

vars == <<pc, initialized, entered>>

Init ==
  /\ pc = [n \in Nodes |-> "cells"]
  /\ initialized = [n \in Nodes |-> FALSE]
  /\ entered = [n \in Nodes |-> << >>]

Goto(n, here, there) == pc[n] = here /\ pc' = [pc EXCEPT ![n] = there]

Enter(n, collective) == entered' = [entered EXCEPT ![n] = Append(@, collective)]

(* The collectives of a communicator are matched in the order of the calls.  *)
(* One whose partners are at another call does not return.                   *)
InCall(m, k, collective) == Len(entered[m]) >= k /\ entered[m][k] = collective

BcastReturns(n) ==
  LET k == Len(entered[n])
  IN  IF n = NODE0
        THEN Buffered \/ \A m \in Nodes : InCall(m, k, entered[n][k])
        ELSE InCall(NODE0, k, entered[n][k])

(* No cell of the process needs a latent heat, or the table is there. *)
CellsDone(n) ==
  /\ Goto(n, "cells", "bc_lateral")
  /\ UNCHANGED <<initialized, entered>>

FirstUse(n) ==
  /\ Goto(n, "cells", "ndat")
  /\ ~initialized[n]
  /\ Enter(n, "ndat")
  /\ UNCHANGED initialized

NdatKnown(n) ==
  /\ Goto(n, "ndat", "values")
  /\ BcastReturns(n)
  /\ Enter(n, "values")
  /\ UNCHANGED initialized

(* The table is filled in; the process goes on with its cells. *)
ValuesKnown(n) ==
  /\ Goto(n, "values", "cells")
  /\ BcastReturns(n)
  /\ initialized' = [initialized EXCEPT ![n] = TRUE]
  /\ UNCHANGED entered

(* MPI_Sendrecv() with the neighbours needs them to have come here, too. *)
BcLateral(n) ==
  /\ Goto(n, "bc_lateral", "meeting")
  /\ \A m \in {n - 1, n + 1} \cap Nodes : pc[m] \in {"bc_lateral", "meeting"}
  /\ Enter(n, "meeting")
  /\ UNCHANGED initialized

(* The collective of all processes between two calls of cloud_microphysics(). *)
Meet ==
  /\ \A n \in Nodes : pc[n] = "meeting" /\ entered[n] = entered[NODE0]
  /\ pc' = [n \in Nodes |-> "cells"]
  /\ entered' = [n \in Nodes |-> << >>]
  /\ UNCHANGED initialized

Step(n) == CellsDone(n) \/ FirstUse(n) \/ NdatKnown(n) \/ ValuesKnown(n) \/ BcLateral(n)

Next == Meet \/ \E n \in Nodes : Step(n)

(* The processes run; a call that can return does. *)
Spec == Init /\ [][Next]_vars /\ WF_vars(Meet) /\ \A n \in Nodes : WF_vars(Step(n))

-----------------------------------------------------------------------------

(* "Allocate memory for data tables and read in values"                    *)
(* (read_enthalpy_change_data()): a process that asks for the table of a   *)
(* species gets it.                                                        *)
TablesAreRead == \A n \in Nodes : pc[n] = "ndat" ~> initialized[n]

=============================================================================

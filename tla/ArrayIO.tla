------------------------------ MODULE ArrayIO ------------------------------
(***************************************************************************)
(* The fields of a restart file in a parallel run (core/epic_funcs_io.c):  *)
(* var_write() collects each variable from one process after another with  *)
(* write_array() at NODE0, which alone has the file; var_read() of the     *)
(* next run, on as many processes as it likes, has NODE0 deal it out with  *)
(* read_array() and fills the pads with bc_lateral().  The processes run   *)
(* at their own pace and meet in messages and broadcasts only.             *)
(*                                                                         *)
(* A row of the grid stands for its points: the zonal axis is dealt with   *)
(* like the meridional one.  A mass mixing ratio is a whole number of      *)
(* units, which is what .5*Q is rounded down to.                           *)
(***************************************************************************)
EXTENDS Integers, Sequences, Subgrids

CONSTANTS
  Geometry, NJ,  \* the meridional axis
  Q_MIN,         \* a mixing ratio up to which a point is void
  Fields,        \* what may be written: of each variable its values on the rows
  NetcdfMayFail, \* opening, reading or writing the file may fail
  MaxNodes       \* bound: processes of a run

Row0 == JStart(Geometry)
Rows == Row0 .. NJ

(* One variable for all that are written as they are, one mass mixing ratio. *)
Variables == <<"theta", "q">>
Names     == {"theta", "q"}
Species   == {"q"}

ASSUME GridAssumption   == Geometry \in Geometries /\ NJ \in Nat /\ NJ >= Row0
ASSUME Q_MINAssumption  == Q_MIN \in Nat \ {0}
ASSUME FieldsAssumption == Fields \subseteq [Names -> [Rows -> Nat]]
ASSUME BoundsAssumption == MaxNodes \in 1 .. NJ - Row0 + 1
ASSUME FailAssumption   == NetcdfMayFail \in BOOLEAN

VARIABLES
  job,       \* "write" or "read"
  field,     \* the fields when var_write() was called
  num_nodes, \* processes of the run
  buffered,  \* whether MPI keeps messages, so that a send need not wait for its receiver
  at,        \* per process: its stage, and the node and the variable its loops are at
  known,     \* per process: the subgrids get_jlohi() has been told of
  mem,       \* per process: its arrays with their pads
  file,
  msgs,      \* messages on the way
  status     \* "running", or why MPI_Abort() was called

layout_vars == <<job, field, num_nodes, buffered>>
vars == <<layout_vars, at, known, mem, file, msgs, status>>

NODE0 == 0
Nodes == 0 .. num_nodes - 1

Stages == {"open", "setup", "array", "sending", "edges", "done"}

-----------------------------------------------------------------------------
(* The rows of process n of a run on size processes. *)

JLO(size, n) == MyLo(Row0, NJ - Row0 + 1, size, n)
JHI(size, n) == MyHi(Row0, NJ - Row0 + 1, size, n)
Owned(size, n)  == JLO(size, n) .. JHI(size, n)
Padded(size, n) == JLOPAD(Geometry, JLO(size, n)) .. JHIPAD(Geometry, NJ, JHI(size, n))

(* The row a pad row is a copy of. *)
Image(j) == IF Wrap(Geometry) THEN ((j - 1) % NJ) + 1 ELSE j

(* A mistake to test against: Q_MIN itself is not taken for a void. *)
MapVoid_Below(x) == IF x < Q_MIN THEN 0 ELSE x

(* var_write(): "Map Q <= Q_MIN -> 0.0". *)
MapVoid(x) == IF x <= Q_MIN THEN 0 ELSE x

(* restore_mass() of a species, where Q is not negative. *)
RestoreMass(x) == IF x < 2 * Q_MIN THEN Q_MIN + x \div 2 ELSE x

(* What becomes of the arrays m before and after a variable is written. *)
BeforeWrite(v, m) == IF v \in Species THEN [m EXCEPT ![v] = [j \in DOMAIN @ |-> MapVoid(@[j])]] ELSE m

(* A mistake to test against: the voids are left at zero. *)
AfterWrite_NoRestore(v, p, m) == m

(* A mistake to test against: restore_mass() leaves the pads out. *)
AfterWrite_NoPads(v, p, m) ==
  IF v \in Species
    THEN [m EXCEPT ![v] = [j \in DOMAIN @ |->
            IF j \in Owned(num_nodes, p) THEN RestoreMass(@[j]) ELSE @[j]]]
    ELSE m

AfterWrite(v, p, m) ==
  IF v \in Species THEN [m EXCEPT ![v] = [j \in DOMAIN @ |-> RestoreMass(@[j])]] ELSE m

-----------------------------------------------------------------------------

Begin(size) ==
  [at    |-> [p \in 0 .. size - 1 |-> [stage |-> "open", node |-> 0, var |-> 1]],
   known |-> [p \in 0 .. size - 1 |-> [n \in 0 .. size - 1 |-> {}]]]

(* A run calls var_write(); its pads are up to date. *)
Init ==
  /\ job = "write"
  /\ field \in Fields
  /\ num_nodes \in 1 .. MaxNodes
  /\ buffered \in BOOLEAN
  /\ at = Begin(num_nodes).at /\ known = Begin(num_nodes).known
  /\ mem = [p \in Nodes |-> [v \in Names |->
             [j \in Padded(num_nodes, p) |-> field[v][Image(j)]]]]
  /\ file = [v \in Names |-> [j \in Rows |-> 0]]
  /\ msgs = {}
  /\ status = "running"

(* A mistake to test against: the loop over the nodes goes one too far. *)
LastNode_TooFar == num_nodes

LastNode == num_nodes - 1

(* The next call of read_array() or write_array(): the variables of a node, *)
(* then the next node.                                                      *)
NextCall(a) ==
  IF a.var < Len(Variables) THEN [stage |-> "array", node |-> a.node, var |-> a.var + 1]
  ELSE IF a.node < LastNode THEN [stage |-> "array", node |-> a.node + 1, var |-> 1]
  ELSE [a EXCEPT !.stage = IF job = "write" THEN "done" ELSE "edges"]

Proceed(p) == at' = [at EXCEPT ![p] = NextCall(@)]

(* The file is opened by NODE0.  In var_read() the others learn in           *)
(* lookup_netcdf(), by a broadcast, what is in it.                           *)
Open(p) ==
  /\ status = "running"
  /\ at[p].stage = "open"
  /\ job = "read" /\ p # NODE0 => at[NODE0].stage # "open"
  /\ at' = [at EXCEPT ![p].stage = "setup"]
  /\ UNCHANGED <<layout_vars, known, mem, file, msgs, status>>

(* setup_read_array() and setup_write_array(): each process in turn tells   *)
(* its rows to all.  The one that tells need not wait.                      *)
Setup(p) ==
  LET n == at[p].node IN
  /\ status = "running"
  /\ at[p].stage = "setup"
  /\ at[n].stage # "open"
  /\ at[n].stage = "setup" => at[n].node >= n
  /\ known' = [known EXCEPT ![p][n] = Owned(num_nodes, n)]
  /\ at' = [at EXCEPT ![p] = IF n < num_nodes - 1 THEN [@ EXCEPT !.node = n + 1]
                             ELSE [stage |-> "array", node |-> 0, var |-> 1]]
  /\ UNCHANGED <<layout_vars, mem, file, msgs, status>>

-----------------------------------------------------------------------------
(* The call of write_array() or read_array() that process p is at. *)

Here(p) == status = "running" /\ at[p].stage = "array"
Node(p) == at[p].node
Var(p)  == Variables[at[p].var]

(* A mistake to test against: NODE0 returns as those who have no part do. *)
Participates_NodeOnly(p) == p = Node(p)

Participates(p) == p = Node(p) \/ p = NODE0

Message(p, a) ==
  [node |-> Node(p), var |-> Var(p), rows |-> [j \in known[p][Node(p)] |-> a[j]]]
Matching(p) == {m \in msgs : m.node = Node(p) /\ m.var = Var(p)}

(* A mistake to test against: the rows of a node are looked for from the *)
(* beginning of the file.                                                *)
FileRow_FromStart(p, j) == j - JLO(num_nodes, Node(p)) + Row0

(* nc_start: a row has its place in the file whoever has it. *)
FileRow(p, j) == j

Put(p, rows) ==
  file' = [file EXCEPT ![Var(p)] = [j \in Rows |-> IF j \in DOMAIN rows THEN rows[j] ELSE @[j]]]
Get(p) == [j \in Rows |-> file[Var(p)][FileRow(p, j)]]

Mapped(p) == BeforeWrite(Var(p), mem[p])
Written(p, m) == mem' = [mem EXCEPT ![p] = AfterWrite(Var(p), p, m)]

(* A process that has no part in a call has its mixing ratios mapped to zero *)
(* and restored all the same.                                                *)
WriteArrayAside(p) ==
  /\ job = "write" /\ Here(p)
  /\ ~Participates(p)
  /\ Written(p, Mapped(p))
  /\ Proceed(p)
  /\ UNCHANGED <<layout_vars, known, file, msgs, status>>

WriteArraySend(p) ==
  /\ job = "write" /\ Here(p)
  /\ p = Node(p) /\ p # NODE0
  /\ mem' = [mem EXCEPT ![p] = Mapped(p)]
  /\ msgs' = msgs \cup {Message(p, Mapped(p)[Var(p)])}
  /\ at' = [at EXCEPT ![p].stage = "sending"]
  /\ UNCHANGED <<layout_vars, known, file, status>>

(* NODE0 verifies how many values have come. *)
WriteArrayReceive(p) ==
  /\ job = "write" /\ Here(p)
  /\ Participates(p) /\ p # Node(p)
  /\ \E m \in Matching(p) :
       /\ msgs' = msgs \ {m}
       /\ IF DOMAIN m.rows = known[p][Node(p)]
            THEN Put(p, m.rows) /\ UNCHANGED status
            ELSE status' = "bad count" /\ UNCHANGED file
  /\ Written(p, Mapped(p))
  /\ Proceed(p)
  /\ UNCHANGED <<layout_vars, known>>

WriteArrayOwn(p) ==
  /\ job = "write" /\ Here(p)
  /\ p = Node(p) /\ p = NODE0
  /\ Put(p, Message(p, Mapped(p)[Var(p)]).rows)
  /\ Written(p, Mapped(p))
  /\ Proceed(p)
  /\ UNCHANGED <<layout_vars, known, msgs, status>>

ReadArrayAside(p) ==
  /\ job = "read" /\ Here(p)
  /\ ~Participates(p)
  /\ Proceed(p)
  /\ UNCHANGED <<layout_vars, known, mem, file, msgs, status>>

Store(p, rows) ==
  mem' = [mem EXCEPT ![p][Var(p)] =
            [j \in DOMAIN @ |-> IF j \in DOMAIN rows THEN rows[j] ELSE @[j]]]

ReadArrayOwn(p) ==
  /\ job = "read" /\ Here(p)
  /\ p = Node(p) /\ p = NODE0
  /\ Store(p, Message(p, Get(p)).rows)
  /\ Proceed(p)
  /\ UNCHANGED <<layout_vars, known, file, msgs, status>>

ReadArraySend(p) ==
  /\ job = "read" /\ Here(p)
  /\ Participates(p) /\ p # Node(p)
  /\ msgs' = msgs \cup {Message(p, Get(p))}
  /\ at' = [at EXCEPT ![p].stage = "sending"]
  /\ UNCHANGED <<layout_vars, known, mem, file, status>>

ReadArrayReceive(p) ==
  /\ job = "read" /\ Here(p)
  /\ p = Node(p) /\ p # NODE0
  /\ \E m \in Matching(p) :
       /\ msgs' = msgs \ {m}
       /\ IF DOMAIN m.rows = known[p][Node(p)]
            THEN Store(p, m.rows) /\ UNCHANGED status
            ELSE status' = "bad count" /\ UNCHANGED mem
  /\ Proceed(p)
  /\ UNCHANGED <<layout_vars, known, file>>

(* MPI_Send() returns, and so does the call. *)
SendReturns(p) ==
  /\ status = "running"
  /\ at[p].stage = "sending"
  /\ buffered \/ Matching(p) = {}
  /\ IF job = "write" THEN Written(p, mem[p]) ELSE UNCHANGED mem
  /\ Proceed(p)
  /\ UNCHANGED <<layout_vars, known, file, msgs, status>>

(* epic_error() at NODE0: MPI_Abort() ends every process, those that wait in *)
(* a broadcast or for a message included.                                    *)
NetcdfError ==
  /\ NetcdfMayFail /\ status = "running"
  /\ \/ at[NODE0].stage = "open"
     \/ at[NODE0].stage = "array" /\ (job = "write" /\ Node(NODE0) # NODE0 => Matching(NODE0) # {})
  /\ status' = "netcdf error"
  /\ UNCHANGED <<layout_vars, at, known, mem, file, msgs>>

(* bc_lateral(), in which every process takes part (module EdgeExchange). *)
BcLateral ==
  /\ status = "running"
  /\ \A p \in Nodes : at[p].stage = "edges"
  /\ mem' = [p \in Nodes |-> [v \in Names |-> [j \in Padded(num_nodes, p) |->
       LET owner == CHOOSE n \in Nodes : Image(j) \in Owned(num_nodes, n)
       IN  mem[owner][v][Image(j)]]]]
  /\ at' = [p \in Nodes |-> [at[p] EXCEPT !.stage = "done"]]
  /\ UNCHANGED <<layout_vars, known, file, msgs, status>>

AllDone == status = "running" /\ \A p \in Nodes : at[p].stage = "done"

(* The next run, on any number of processes, allocates its arrays and calls *)
(* var_read().                                                              *)
NextRun ==
  /\ job = "write" /\ AllDone
  /\ job' = "read"
  /\ num_nodes' \in 1 .. MaxNodes
  /\ at' = Begin(num_nodes').at /\ known' = Begin(num_nodes').known
  /\ mem' = [p \in 0 .. num_nodes' - 1 |-> [v \in Names |->
              [j \in Padded(num_nodes', p) |-> 0]]]
  /\ msgs' = {}
  /\ UNCHANGED <<field, buffered, file, status>>

Run(p) ==
  \/ Open(p) \/ Setup(p)
  \/ WriteArrayAside(p) \/ WriteArraySend(p) \/ WriteArrayReceive(p) \/ WriteArrayOwn(p)
  \/ ReadArrayAside(p) \/ ReadArraySend(p) \/ ReadArrayReceive(p) \/ ReadArrayOwn(p)
  \/ SendReturns(p)

Progress == (\E p \in Nodes : Run(p)) \/ BcLateral

Next == Progress \/ NetcdfError \/ NextRun

Spec     == Init /\ [][Next]_vars
(* As long as some process or message can go on, one does. *)
FairSpec == Spec /\ WF_vars(Progress)

-----------------------------------------------------------------------------

(* Every variable has its type: the loops stay within the nodes and variables, *)
(* and the arrays keep their extent.                                           *)
TypeOK ==
  /\ job \in {"write", "read"} /\ field \in Fields
  /\ num_nodes \in 1 .. MaxNodes /\ buffered \in BOOLEAN
  /\ at \in [Nodes -> [stage : Stages, node : Nodes, var : 1 .. Len(Variables)]]
  /\ DOMAIN known = Nodes
  /\ \A p, n \in Nodes : known[p][n] \subseteq Rows
  /\ DOMAIN mem = Nodes
  /\ \A p \in Nodes, v \in Names : mem[p][v] \in [Padded(num_nodes, p) -> Nat]
  /\ file \in [Names -> [Rows -> Nat]]
  /\ \A m \in msgs : m.node \in Nodes /\ m.var \in Names
  /\ status \in {"running", "netcdf error", "bad count"}

(***************************************************************************)
(* The file var_write() leaves shows the fields as they were, whatever the *)
(* number of processes and their pace: a variable as it is, and of a       *)
(* mixing ratio zero exactly where there is a void.  Otherwise the loop    *)
(* over the nodes, which maps and restores the mixing ratios once per      *)
(* node, has raised them, by less than Q_MIN and only below 2*Q_MIN.       *)
(***************************************************************************)
FileShowsField ==
  job = "read" \/ AllDone => \A j \in Rows :
    /\ file["theta"][j] = field["theta"][j]
    /\ file["q"][j] = 0 <=> field["q"][j] <= Q_MIN
    /\ field["q"][j] > Q_MIN => file["q"][j] \in field["q"][j] .. field["q"][j] + Q_MIN - 1
    /\ field["q"][j] >= 2 * Q_MIN => file["q"][j] = field["q"][j]

(* A run that goes on after it has saved: no mixing ratio is below Q_MIN, and *)
(* none has gained more than Q_MIN from being written.                        *)
SaveAddsLittle ==
  job = "write" /\ AllDone => \A p \in Nodes : \A j \in Padded(num_nodes, p) :
    /\ mem[p]["q"][j] \in field["q"][Image(j)] .. field["q"][Image(j)] + Q_MIN
    /\ mem[p]["q"][j] >= Q_MIN

(* "No need to apply bc_lateral() here" (epic_funcs_io.c): what var_write() *)
(* does to the pads of a process its neighbours do to the rows they have.   *)
PadsAgree ==
  AllDone => \A p, n \in Nodes : \A j \in Padded(num_nodes, p) :
    Image(j) \in Owned(num_nodes, n) => \A v \in Names : mem[p][v][j] = mem[n][v][Image(j)]

(* A restart has what the file has, on any number of processes: in each *)
(* subgrid and in its pads.                                              *)
RestartHasFile ==
  job = "read" /\ AllDone => \A p \in Nodes : \A j \in Padded(num_nodes, p) :
    \A v \in Names : mem[p][v][j] = file[v][Image(j)]

(* No process waits forever for a message or in a broadcast, even if MPI keeps *)
(* no message: var_write() and var_read() return everywhere, unless the netCDF *)
(* library fails, which ends all processes.                                    *)
AllCallsReturn ==
  <>(status = "netcdf error" \/ (AllDone /\ job = "write")) /\
  (job = "read" ~> (status = "netcdf error" \/ AllDone))

=============================================================================

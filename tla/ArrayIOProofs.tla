--------------------------- MODULE ArrayIOProofs ---------------------------
(***************************************************************************)
(* What holds of var_write() and var_read() for every grid, every number   *)
(* of processes and every pace: the file shows the fields, a run that goes *)
(* on has gained little, its pads are what their owners have, a restart    *)
(* has what the file has, and never does everybody wait for another.       *)
(***************************************************************************)
EXTENDS ArrayIO, SubgridProofs

(* A mixing ratio m that was x: as it is kept in memory by a process that *)
(* writes, and as it is put into the file.                                *)
Raised(x, m) ==
  /\ x > Q_MIN => m >= x /\ m <= x + Q_MIN - 1
  /\ x > Q_MIN /\ x < 2 * Q_MIN => m < 2 * Q_MIN
  /\ x >= 2 * Q_MIN => m = x
Kept(x, m)  == Raised(x, m) /\ (x <= Q_MIN => m = x \/ m = Q_MIN)
Shown(x, m) == Raised(x, m) /\ (x <= Q_MIN => m = 0)

(* The row j of the file shows variable v. *)
RowShown(v, j, x) == IF v = "q" THEN Shown(field[v][j], x) ELSE x = field[v][j]

(* Process p has returned from the call for variable i of node n. *)
Past(p, n, i) ==
  \/ at[p].stage \in {"edges", "done"}
  \/ at[p].stage \in {"array", "sending"} /\ (n < at[p].node \/ (n = at[p].node /\ i < at[p].var))

Arrays == UNION {[Padded(num_nodes, p) -> Nat] : p \in Nodes}

States == [stage : Stages, node : Nodes, var : 1 .. 2]

Scalars ==
  /\ job \in {"write", "read"} /\ field \in Fields
  /\ num_nodes \in 1 .. MaxNodes /\ buffered \in BOOLEAN
  /\ status \in {"running", "netcdf error"}
AtType    == at \in [Nodes -> States]
KnownType == known \in [Nodes -> [Nodes -> SUBSET Rows]]
MemTypes ==
  /\ mem \in [Nodes -> [Names -> Arrays]]
  /\ \A p \in Nodes, v \in Names : mem[p][v] \in [Padded(num_nodes, p) -> Nat]
FileType  == file \in [Names -> [Rows -> Nat]]

Types == Scalars /\ AtType /\ KnownType /\ MemTypes /\ FileType

(* What the processes know of each other. *)
KnownInv ==
  \A p, n \in Nodes :
    at[p].stage \notin {"open", "setup"} \/ (at[p].stage = "setup" /\ n < at[p].node) =>
      known[p][n] = Owned(num_nodes, n)

(* Who sends what, and when a process is past it. *)
StageInv ==
  \A p \in Nodes :
    /\ at[p].stage = "open" => at[p].node = 0
    /\ at[p].stage = "sending" /\ job = "write" => p = at[p].node /\ p # NODE0
    /\ at[p].stage = "sending" /\ job = "read" => p = NODE0 /\ at[p].node # NODE0
    /\ job = "write" => at[p].stage # "edges"

MsgInv ==
  \A m \in msgs :
    /\ m.node \in Nodes /\ m.node # NODE0 /\ m.var \in Names
    /\ m.rows \in [Owned(num_nodes, m.node) -> Nat]
    /\ job = "write" => \A j \in Owned(num_nodes, m.node) : RowShown(m.var, j, m.rows[j])
    /\ job = "read"  => \A j \in Owned(num_nodes, m.node) : m.rows[j] = file[m.var][j]

(* Memory while the file is written. *)
MemInv ==
  job = "write" => \A p \in Nodes : \A j \in Padded(num_nodes, p) :
    /\ mem[p]["theta"][j] = field["theta"][Image(j)]
    /\ IF at[p].stage = "sending" /\ at[p].var = 2
         THEN Shown(field["q"][Image(j)], mem[p]["q"][j])
         ELSE /\ Kept(field["q"][Image(j)], mem[p]["q"][j])
              /\ Past(p, 0, 2) => mem[p]["q"][j] >= Q_MIN

(* The file while it is written and afterwards. *)
FileInv ==
  \A n \in Nodes, i \in 1 .. 2 : \A j \in Owned(num_nodes, n) :
    job = "write" /\ Past(NODE0, n, i) => RowShown(Variables[i], j, file[Variables[i]][j])

FileDone == job = "read" => \A v \in Names : \A j \in Rows : RowShown(v, j, file[v][j])

(* Memory while the file is read. *)
ReadInv ==
  job = "read" => \A p \in Nodes :
    /\ \A i \in 1 .. 2 : \A j \in Owned(num_nodes, p) :
         Past(p, p, i) => mem[p][Variables[i]][j] = file[Variables[i]][j]
    /\ at[p].stage = "done" => \A v \in Names : \A j \in Padded(num_nodes, p) :
         mem[p][v][j] = file[v][Image(j)]

Inv == Types /\ KnownInv /\ StageInv /\ MsgInv /\ MemInv /\ FileInv /\ FileDone /\ ReadInv

-----------------------------------------------------------------------------
(* The list of the variables. *)
LEMMA VariablesAre ==
  /\ Len(Variables) = 2
  /\ Variables[1] = "theta" /\ Variables[2] = "q"
  /\ \A i \in 1 .. 2 : Variables[i] \in Names /\ (Variables[i] = "q" <=> i = 2)
                       /\ (Variables[i] = "theta" <=> i = 1)
  <1>1. Len(Variables) = 2 /\ Variables[1] = "theta" /\ Variables[2] = "q"
    BY DEF Variables
  <1>2. \A i \in 1 .. 2 : i = 1 \/ i = 2
    OBVIOUS
  <1> QED BY <1>1, <1>2 DEF Names

(* The meridional axis begins at 0 or 1. *)
LEMMA RowsAre ==
  /\ Row0 \in {0, 1} /\ (Wrap(Geometry) <=> Row0 = 1)
  /\ NJ \in Nat /\ Row0 <= NJ /\ NJ - Row0 + 1 \in Nat \ {0}
  BY GridAssumption DEF Row0, JStart

(* The rows of the processes, and those of their pads. *)
LEMMA OwnedRows ==
  ASSUME NEW size \in 1 .. MaxNodes
  PROVE  /\ \A n \in 0 .. size - 1 : /\ JLO(size, n) \in Int /\ JHI(size, n) \in Int
                                     /\ Row0 <= JLO(size, n) /\ JLO(size, n) <= JHI(size, n)
                                     /\ JHI(size, n) <= NJ
         /\ \A j \in Rows : \E n \in 0 .. size - 1 : j \in Owned(size, n)
  <1> DEFINE len == NJ - Row0 + 1
  <1>1. len \in Nat \ {0} /\ size \in 1 .. len /\ Row0 \in {0, 1} /\ NJ \in Nat
    BY RowsAre, BoundsAssumption
  <1>2. ASSUME NEW n \in 0 .. size - 1
        PROVE  /\ JLO(size, n) \in Int /\ JHI(size, n) \in Int
               /\ Row0 <= JLO(size, n) /\ JLO(size, n) <= JHI(size, n) /\ JHI(size, n) <= NJ
    <2>1. /\ MPE_Decomp1d(len, size, n).s \in Nat \ {0}
          /\ MPE_Decomp1d(len, size, n).e \in Nat
          /\ MPE_Decomp1d(len, size, n).s <= MPE_Decomp1d(len, size, n).e
          /\ MPE_Decomp1d(len, size, n).e <= len
      BY <1>1, BlocksInOrder
    <2> QED BY <2>1, <1>1 DEF JLO, JHI, MyLo, MyHi
  <1>3. ASSUME NEW j \in Rows
        PROVE  \E n \in 0 .. size - 1 : j \in Owned(size, n)
    <2>1. j - Row0 + 1 \in 1 .. len /\ j \in Int
      BY <1>1 DEF Rows
    <2>2. PICK n \in 0 .. size - 1 :
            /\ MPE_Decomp1d(len, size, n).s <= j - Row0 + 1
            /\ j - Row0 + 1 <= MPE_Decomp1d(len, size, n).e
      BY <1>1, <2>1, EveryIndexOwned
    <2>3. MPE_Decomp1d(len, size, n).s \in Nat /\ MPE_Decomp1d(len, size, n).e \in Nat
      BY <1>1, BlocksInOrder
    <2>4. JLO(size, n) <= j /\ j <= JHI(size, n) /\ JLO(size, n) \in Int /\ JHI(size, n) \in Int
      BY <2>1, <2>2, <2>3, <1>1 DEF JLO, JHI, MyLo, MyHi
    <2> QED BY <2>1, <2>4 DEF Owned
  <1> QED BY <1>2, <1>3

(* A pad row is a copy of a row of the grid, and a row of its own. *)
LEMMA ImageIs ==
  /\ \A j \in Rows : Image(j) = j
  /\ \A j \in Int : Wrap(Geometry) => Image(j) \in Rows
  <1>1. /\ Row0 \in {0, 1} /\ (Wrap(Geometry) <=> Row0 = 1) /\ NJ \in Nat /\ Row0 <= NJ
    BY RowsAre
  <1>2. \A j \in Rows : Image(j) = j
    <2> SUFFICES ASSUME NEW j \in Rows, Wrap(Geometry) PROVE ((j - 1) % NJ) + 1 = j
      BY DEF Image
    <2>1. j \in Int /\ j - 1 \in 0 .. NJ - 1 /\ NJ \in Nat \ {0}
      BY <1>1 DEF Rows
    <2>2. (j - 1) % NJ = j - 1
      BY <2>1, SMT
    <2> QED BY <2>1, <2>2
  <1>3. ASSUME NEW j \in Int, Wrap(Geometry) PROVE ((j - 1) % NJ) + 1 \in Rows
    <2>1. NJ \in Nat \ {0} /\ Row0 = 1
      BY <1>1, <1>3
    <2>2. (j - 1) % NJ \in 0 .. NJ - 1
      BY <2>1, SMT
    <2> HIDE DEF Rows
    <2>3. ((j - 1) % NJ) + 1 \in 1 .. NJ
      BY <2>1, <2>2
    <2> QED BY <2>1, <2>3 DEF Rows
  <1> QED BY <1>2, <1>3 DEF Image

LEMMA PaddedRows ==
  ASSUME NEW size \in 1 .. MaxNodes, NEW n \in 0 .. size - 1
  PROVE  /\ Owned(size, n) \subseteq Rows
         /\ Owned(size, n) \subseteq Padded(size, n)
         /\ \A j \in Padded(size, n) : Image(j) \in Rows
  <1> DEFINE lo == JLO(size, n)
             hi == JHI(size, n)
  <1>1. /\ lo \in Int /\ hi \in Int /\ Row0 <= lo /\ lo <= hi /\ hi <= NJ
    BY OwnedRows
  <1>2. /\ Row0 \in {0, 1} /\ (Wrap(Geometry) <=> Row0 = 1) /\ NJ \in Nat /\ Row0 = JStart(Geometry)
    BY RowsAre DEF Row0
  <1>3. /\ JLOPAD(Geometry, lo) \in Int /\ JHIPAD(Geometry, NJ, hi) \in Int
        /\ JLOPAD(Geometry, lo) <= lo /\ hi <= JHIPAD(Geometry, NJ, hi)
        /\ ~Wrap(Geometry) => Row0 <= JLOPAD(Geometry, lo) /\ JHIPAD(Geometry, NJ, hi) <= NJ
    <2> HIDE DEF lo, hi
    <2> QED BY <1>1, <1>2 DEF JLOPAD, JHIPAD, JFIRST, JLAST, JPAD
  <1>4. Owned(size, n) = lo .. hi /\ Padded(size, n) = JLOPAD(Geometry, lo) .. JHIPAD(Geometry, NJ, hi)
    BY DEF Owned, Padded
  <1> HIDE DEF lo, hi
  <1>5. Owned(size, n) \subseteq Rows /\ Owned(size, n) \subseteq Padded(size, n)
    BY <1>1, <1>2, <1>3, <1>4 DEF Rows
  <1>6. ASSUME NEW j \in Padded(size, n) PROVE Image(j) \in Rows
    <2>1. j \in Int /\ (~Wrap(Geometry) => j \in Rows)
      BY <1>2, <1>3, <1>4, <1>6 DEF Rows
    <2> QED BY <2>1, ImageIs
  <1> QED BY <1>5, <1>6

(* What writing does to a mixing ratio. *)
LEMMA MapVoidShows ==
  ASSUME NEW x \in Nat, NEW m \in Nat, Kept(x, m)
  PROVE  MapVoid(m) \in Nat /\ Shown(x, MapVoid(m))
  BY Q_MINAssumption DEF MapVoid, Kept, Shown, Raised

LEMMA RestoreMassKeeps ==
  ASSUME NEW x \in Nat, NEW m \in Nat, Shown(x, m)
  PROVE  RestoreMass(m) \in Nat /\ Kept(x, RestoreMass(m)) /\ RestoreMass(m) >= Q_MIN
  <1> DEFINE h == m \div 2
  <1>1. h \in Nat /\ 2 * h <= m /\ m <= 2 * h + 1
    BY SMT
  <1>2. RestoreMass(m) = IF m < 2 * Q_MIN THEN Q_MIN + h ELSE m
    BY DEF RestoreMass
  <1> HIDE DEF h
  <1> QED BY <1>1, <1>2, Q_MINAssumption DEF Kept, Shown, Raised

-----------------------------------------------------------------------------
(* The loops. *)

LEMMA NodesAre ==
  ASSUME num_nodes \in 1 .. MaxNodes
  PROVE  num_nodes \in Nat \ {0} /\ Nodes = 0 .. num_nodes - 1 /\ NODE0 \in Nodes
  <1>1. MaxNodes \in Nat
    BY BoundsAssumption, RowsAre
  <1> QED BY <1>1 DEF Nodes, NODE0

(* A call that returns: the process is past it and nothing else. *)
LEMMA ProceedIs ==
  ASSUME Types, NEW p \in Nodes, at[p].stage \in {"array", "sending"}, Proceed(p)
  PROVE  /\ at' \in [Nodes -> States]
         /\ at'[p].stage \in {"array", "edges", "done"}
         /\ at'[p].stage = "edges" => job = "read"
         /\ at'[p].stage = "done" => job = "write"
         /\ \A q \in Nodes : q # p => at'[q] = at[q]
         /\ \A q \in Nodes : at[q].stage \in {"open", "setup"} => at'[q] = at[q]
         /\ \A q \in Nodes : at'[q].stage \in {"open", "setup"} => at'[q] = at[q]
         /\ \A q, n \in Nodes, i \in 1 .. 2 :
              Past(q, n, i)' => Past(q, n, i) \/ (q = p /\ n = at[p].node /\ i = at[p].var)
  <1> DEFINE a == at[p]
  <1>1. /\ at \in [Nodes -> States] /\ num_nodes \in Nat \ {0} /\ job \in {"write", "read"}
        /\ Nodes = 0 .. num_nodes - 1
    <2>1. num_nodes \in 1 .. MaxNodes /\ job \in {"write", "read"}
      BY DEF Types, Scalars
    <2>2. at \in [Nodes -> States]
      BY DEF Types, AtType
    <2> QED BY <2>1, <2>2, NodesAre
  <1>2. /\ a \in States /\ a.node \in Nodes /\ a.var \in 1 .. 2 /\ a.stage \in Stages
        /\ a.node \in 0 .. num_nodes - 1
    BY <1>1 DEF States
  <1>3. at' = [at EXCEPT ![p] = NextCall(a)]
    BY DEF Proceed
  <1>4. \/ /\ a.var = 1
           /\ NextCall(a) = [stage |-> "array", node |-> a.node, var |-> 2]
        \/ /\ a.var = 2 /\ a.node < num_nodes - 1
           /\ NextCall(a) = [stage |-> "array", node |-> a.node + 1, var |-> 1]
        \/ /\ a.var = 2 /\ a.node = num_nodes - 1
           /\ NextCall(a) = [stage |-> IF job = "write" THEN "done" ELSE "edges",
                             node |-> a.node, var |-> 2]
    <2> HIDE DEF a
    <2>1. NextCall(a) =
            IF a.var < 2 THEN [stage |-> "array", node |-> a.node, var |-> a.var + 1]
            ELSE IF a.node < num_nodes - 1
              THEN [stage |-> "array", node |-> a.node + 1, var |-> 1]
              ELSE [a EXCEPT !.stage = IF job = "write" THEN "done" ELSE "edges"]
      BY VariablesAre DEF NextCall, LastNode
    <2>3. [a EXCEPT !.stage = IF job = "write" THEN "done" ELSE "edges"]
            = [stage |-> IF job = "write" THEN "done" ELSE "edges", node |-> a.node, var |-> a.var]
      BY <1>2 DEF States
    <2>4. CASE a.var = 1
      <3>1. NextCall(a) = [stage |-> "array", node |-> a.node, var |-> a.var + 1]
        BY <2>1, <2>4
      <3> QED BY <3>1, <2>4
    <2>5. CASE a.var = 2 /\ a.node < num_nodes - 1
      BY <2>1, <2>5
    <2>6. CASE a.var = 2 /\ a.node = num_nodes - 1
      BY <2>1, <2>3, <2>6, <1>1
    <2> QED BY <2>4, <2>5, <2>6, <1>1, <1>2
  <1>5. NextCall(a) \in States
    <2>1. \A s \in Stages, n \in Nodes, i \in 1 .. 2 : [stage |-> s, node |-> n, var |-> i] \in States
      BY DEF States
    <2>2. a.node < num_nodes - 1 => a.node + 1 \in Nodes
      BY <1>1, <1>2
    <2>3. /\ "array" \in Stages /\ (IF job = "write" THEN "done" ELSE "edges") \in Stages
          /\ 1 \in 1 .. 2 /\ 2 \in 1 .. 2
      BY DEF Stages
    <2> HIDE DEF a
    <2> QED BY <1>2, <1>4, <2>1, <2>2, <2>3
  <1>6. at' \in [Nodes -> States] /\ at'[p] = NextCall(a) /\ \A q \in Nodes : q # p => at'[q] = at[q]
    BY <1>1, <1>3, <1>5
  <1>7. /\ at'[p].stage \in {"array", "edges", "done"}
        /\ at'[p].stage = "edges" => job = "read"
        /\ at'[p].stage = "done" => job = "write"
    <2> HIDE DEF a
    <2> QED BY <1>1, <1>4, <1>6
  <1>8. \A q \in Nodes : at[q].stage \in {"open", "setup"} => at'[q] = at[q]
    BY <1>6
  <1>9. \A q \in Nodes : at'[q].stage \in {"open", "setup"} => at'[q] = at[q]
    BY <1>6, <1>7
  <1>10. ASSUME NEW q \in Nodes, NEW n \in Nodes, NEW i \in 1 .. 2, Past(q, n, i)'
         PROVE  Past(q, n, i) \/ (q = p /\ n = a.node /\ i = a.var)
    <2>1. CASE q # p
      BY <2>1, <1>6, <1>10 DEF Past
    <2>2. CASE q = p
      <3>1. n \in 0 .. num_nodes - 1
        BY <1>1
      <3>2. \/ at'[p].stage \in {"edges", "done"}
            \/ n < at'[p].node \/ (n = at'[p].node /\ i < at'[p].var)
        BY <1>10, <2>2 DEF Past
      <3>3. n < a.node \/ (n = a.node /\ i < a.var) \/ (n = a.node /\ i = a.var)
        <4> HIDE DEF a
        <4> QED BY <1>1, <1>2, <1>4, <1>6, <3>1, <3>2
      <3> QED BY <2>2, <3>3 DEF Past
    <2> QED BY <2>1, <2>2
  <1> QED BY <1>6, <1>7, <1>8, <1>9, <1>10

(* An array of mem is an array of its process. *)
LEMMA ArraysAre ==
  ASSUME NEW p \in Nodes, NEW a \in [Padded(num_nodes, p) -> Nat]
  PROVE  a \in Arrays
  BY DEF Arrays

(* The processes are those the lemmas on subgrids speak of. *)
LEMMA NodeRows ==
  ASSUME Types
  PROVE  /\ \A n \in Nodes : /\ Owned(num_nodes, n) \subseteq Rows
                             /\ Owned(num_nodes, n) \subseteq Padded(num_nodes, n)
                             /\ \A j \in Padded(num_nodes, n) : Image(j) \in Rows
         /\ \A j \in Rows : \E n \in Nodes : j \in Owned(num_nodes, n)
         /\ \A j \in Rows : Image(j) = j
         /\ \A v \in Names, j \in Rows : field[v][j] \in Nat
  <1>1. num_nodes \in 1 .. MaxNodes /\ field \in [Names -> [Rows -> Nat]]
    BY FieldsAssumption DEF Types, Scalars
  <1>2. Nodes = 0 .. num_nodes - 1
    BY DEF Nodes
  <1>3. \A n \in Nodes : /\ Owned(num_nodes, n) \subseteq Rows
                         /\ Owned(num_nodes, n) \subseteq Padded(num_nodes, n)
                         /\ \A j \in Padded(num_nodes, n) : Image(j) \in Rows
    BY <1>1, <1>2, PaddedRows
  <1>4. \A j \in Rows : \E n \in Nodes : j \in Owned(num_nodes, n)
    BY <1>1, <1>2, OwnedRows
  <1> QED BY <1>1, <1>3, <1>4, ImageIs

-----------------------------------------------------------------------------
(* Memory while the file is written. *)

(* The arrays m of a process p that writes, at a variable i: mixing ratios *)
(* are mapped while i is the mixing ratio.                                 *)
Writing(p, i, m) ==
  /\ m \in [Names -> Arrays]
  /\ \A v \in Names : m[v] \in [Padded(num_nodes, p) -> Nat]
  /\ \A j \in Padded(num_nodes, p) :
       /\ m["theta"][j] = field["theta"][Image(j)]
       /\ IF i = 2 THEN Shown(field["q"][Image(j)], m["q"][j])
          ELSE Kept(field["q"][Image(j)], m["q"][j])

LEMMA MappedIs ==
  ASSUME Types, MemInv, job = "write", NEW p \in Nodes, at[p].stage = "array"
  PROVE  Writing(p, at[p].var, Mapped(p)) /\ (at[p].var = 1 => Mapped(p) = mem[p])
  <1> DEFINE P == Padded(num_nodes, p)
             m == mem[p]
             i == at[p].var
  <1>1. /\ m \in [Names -> Arrays] /\ \A v \in Names : m[v] \in [P -> Nat]
        /\ i \in 1 .. 2
    BY DEF Types, MemTypes, AtType, States
  <1>2. \A j \in P : /\ m["theta"][j] = field["theta"][Image(j)]
                     /\ Kept(field["q"][Image(j)], m["q"][j])
    BY DEF MemInv
  <1>3. Mapped(p) = BeforeWrite(Variables[i], m) /\ (i = 1 \/ i = 2)
    BY <1>1 DEF Mapped, Var
  <1>4. CASE i = 1
    <2>1. Mapped(p) = m
      BY <1>3, <1>4, VariablesAre DEF BeforeWrite, Species
    <2> QED BY <2>1, <1>1, <1>2, <1>4 DEF Writing
  <1>5. CASE i = 2
    <2> DEFINE b == [j \in P |-> MapVoid(m["q"][j])]
    <2>1. "q" \in Names /\ "theta" \in Names /\ "theta" # "q"
      BY DEF Names
    <2>2. DOMAIN m["q"] = P
      BY <1>1, <2>1
    <2>3. Mapped(p) = [m EXCEPT !["q"] = b]
      BY <1>3, <1>5, <2>2, VariablesAre DEF BeforeWrite, Species
    <2>4. \A j \in P : Image(j) \in Rows /\ field["q"][Image(j)] \in Nat /\ m["q"][j] \in Nat
      BY <1>1, <2>1, NodeRows
    <2>5. \A j \in P : MapVoid(m["q"][j]) \in Nat /\ Shown(field["q"][Image(j)], MapVoid(m["q"][j]))
      BY <1>2, <2>4, MapVoidShows
    <2>6. b \in [P -> Nat] /\ b \in Arrays
      BY <2>5, ArraysAre
    <2>7. /\ Mapped(p) \in [Names -> Arrays] /\ Mapped(p)["q"] = b
          /\ Mapped(p)["theta"] = m["theta"]
      <3> HIDE DEF b, m
      <3> QED BY <1>1, <2>1, <2>3, <2>6
    <2>8. \A v \in Names : Mapped(p)[v] \in [P -> Nat]
      BY <1>1, <2>1, <2>6, <2>7 DEF Names
    <2>9. \A j \in P : /\ Mapped(p)["theta"][j] = field["theta"][Image(j)]
                       /\ Shown(field["q"][Image(j)], Mapped(p)["q"][j])
      BY <1>2, <2>5, <2>7
    <2> QED BY <2>7, <2>8, <2>9, <1>5 DEF Writing
  <1> QED BY <1>3, <1>4, <1>5

LEMMA AfterWriteIs ==
  ASSUME Types, NEW p \in Nodes, NEW i \in 1 .. 2, NEW m, Writing(p, i, m)
  PROVE  /\ Writing(p, 1, AfterWrite(Variables[i], p, m))
         /\ i = 1 => AfterWrite(Variables[i], p, m) = m
         /\ i = 2 => \A j \in Padded(num_nodes, p) :
                       AfterWrite(Variables[i], p, m)["q"][j] >= Q_MIN
  <1> DEFINE P == Padded(num_nodes, p)
             a == AfterWrite(Variables[i], p, m)
  <1>1. m \in [Names -> Arrays] /\ \A v \in Names : m[v] \in [P -> Nat]
    BY DEF Writing
  <1>2. CASE i = 1
    <2>1. a = m
      BY <1>2, VariablesAre DEF AfterWrite, Species
    <2> QED BY <2>1, <1>2
  <1>3. CASE i = 2
    <2> DEFINE b == [j \in P |-> RestoreMass(m["q"][j])]
    <2>1. "q" \in Names /\ "theta" \in Names /\ "theta" # "q"
      BY DEF Names
    <2>2. DOMAIN m["q"] = P
      BY <1>1, <2>1
    <2>3. a = [m EXCEPT !["q"] = b]
      BY <1>3, <2>2, VariablesAre DEF AfterWrite, Species
    <2>4. \A j \in P : /\ m["theta"][j] = field["theta"][Image(j)]
                       /\ Shown(field["q"][Image(j)], m["q"][j])
      BY <1>3 DEF Writing
    <2>5. \A j \in P : Image(j) \in Rows /\ field["q"][Image(j)] \in Nat /\ m["q"][j] \in Nat
      BY <1>1, <2>1, NodeRows
    <2>6. \A j \in P : /\ RestoreMass(m["q"][j]) \in Nat
                       /\ Kept(field["q"][Image(j)], RestoreMass(m["q"][j]))
                       /\ RestoreMass(m["q"][j]) >= Q_MIN
      BY <2>4, <2>5, RestoreMassKeeps
    <2>7. b \in [P -> Nat] /\ b \in Arrays
      BY <2>6, ArraysAre
    <2>8. a \in [Names -> Arrays] /\ a["q"] = b /\ a["theta"] = m["theta"]
      <3> HIDE DEF a, b
      <3> QED BY <1>1, <2>1, <2>3, <2>7
    <2> HIDE DEF a
    <2>9. \A v \in Names : a[v] \in [P -> Nat]
      BY <1>1, <2>1, <2>7, <2>8 DEF Names
    <2>10. \A j \in P : /\ a["theta"][j] = field["theta"][Image(j)]
                        /\ Kept(field["q"][Image(j)], a["q"][j])
                        /\ a["q"][j] >= Q_MIN
      BY <2>4, <2>6, <2>8
    <2>11. Writing(p, 1, a)
      BY <2>8, <2>9, <2>10 DEF Writing
    <2> QED BY <2>10, <2>11, <1>3 DEF a
  <1>4. i = 1 \/ i = 2
    OBVIOUS
  <1> QED BY <1>2, <1>3, <1>4

(* What does not depend on num_nodes but through the nodes themselves. *)
LEMMA LayoutKept ==
  ASSUME UNCHANGED layout_vars
  PROVE  /\ job' = job /\ field' = field /\ num_nodes' = num_nodes /\ buffered' = buffered
         /\ Nodes' = Nodes /\ Arrays' = Arrays /\ States' = States
  BY DEF layout_vars, Nodes, Arrays, States

(* A call of write_array() returns in a process that has mapped its mixing *)
(* ratios and restores them.                                               *)
LEMMA MemStep ==
  ASSUME Types, MemInv, job = "write", NEW p \in Nodes, at[p].stage \in {"array", "sending"},
         Proceed(p), UNCHANGED layout_vars,
         NEW m, Writing(p, at[p].var, m), at[p].var = 1 => m = mem[p],
         mem' = [mem EXCEPT ![p] = AfterWrite(Variables[at[p].var], p, m)]
  PROVE  MemInv' /\ MemTypes'
  <1> DEFINE i == at[p].var
             a == AfterWrite(Variables[i], p, m)
  <1>1. /\ i \in 1 .. 2 /\ at[p].node \in Nodes /\ (i = 1 \/ i = 2)
        /\ mem \in [Nodes -> [Names -> Arrays]]
        /\ \A q \in Nodes, v \in Names : mem[q][v] \in [Padded(num_nodes, q) -> Nat]
    <2>1. at[p].var \in 1 .. 2 /\ at[p].node \in Nodes
      BY DEF Types, AtType, States
    <2> QED BY <2>1 DEF Types, MemTypes
  <1>2. /\ Writing(p, 1, a)
        /\ i = 1 => a = m
        /\ i = 2 => \A j \in Padded(num_nodes, p) : a["q"][j] >= Q_MIN
    BY <1>1, AfterWriteIs
  <1>3. /\ job' = job /\ field' = field /\ num_nodes' = num_nodes
        /\ Nodes' = Nodes /\ Arrays' = Arrays
    BY LayoutKept
  <1>4. /\ a \in [Names -> Arrays] /\ \A v \in Names : a[v] \in [Padded(num_nodes, p) -> Nat]
        /\ \A j \in Padded(num_nodes, p) :
             /\ a["theta"][j] = field["theta"][Image(j)]
             /\ Kept(field["q"][Image(j)], a["q"][j])
    BY <1>2 DEF Writing
  <1> HIDE DEF a
  <1>5. mem'[p] = a /\ (\A q \in Nodes : q # p => mem'[q] = mem[q]) /\ mem' \in [Nodes -> [Names -> Arrays]]
    BY <1>1, <1>4 DEF a
  <1>6. MemTypes'
    <2>1. \A q \in Nodes, v \in Names : mem'[q][v] \in [Padded(num_nodes, q) -> Nat]
      BY <1>1, <1>4, <1>5
    <2> QED BY <2>1, <1>3, <1>5 DEF MemTypes
  <1>7. /\ at'[p].stage \in {"array", "edges", "done"}
        /\ \A q \in Nodes : q # p => at'[q] = at[q]
        /\ \A q, n \in Nodes, k \in 1 .. 2 :
             Past(q, n, k)' => Past(q, n, k) \/ (q = p /\ n = at[p].node /\ k = i)
    BY ProceedIs
  <1>8. ASSUME NEW q \in Nodes, NEW j \in Padded(num_nodes, q)
        PROVE  /\ mem'[q]["theta"][j] = field["theta"][Image(j)]
               /\ IF at'[q].stage = "sending" /\ at'[q].var = 2
                    THEN Shown(field["q"][Image(j)], mem'[q]["q"][j])
                    ELSE /\ Kept(field["q"][Image(j)], mem'[q]["q"][j])
                         /\ Past(q, 0, 2)' => mem'[q]["q"][j] >= Q_MIN
    <2>1. 0 \in Nodes
      BY NodesAre DEF Types, Scalars, NODE0
    <2>2. CASE q # p
      <3>1. mem'[q] = mem[q] /\ at'[q] = at[q] /\ (Past(q, 0, 2)' => Past(q, 0, 2))
        BY <1>5, <1>7, <2>1, <2>2
      <3> QED BY <3>1, <1>8 DEF MemInv
    <2>3. CASE q = p
      <3>1. /\ mem'[q]["theta"][j] = field["theta"][Image(j)]
            /\ Kept(field["q"][Image(j)], mem'[q]["q"][j])
        BY <1>4, <1>5, <1>8, <2>3
      <3>2. Past(q, 0, 2)' => mem'[q]["q"][j] >= Q_MIN
        <4>1. CASE i = 2
          BY <4>1, <1>2, <1>5, <1>8, <2>3 DEF a
        <4>2. CASE i = 1
          <5>1. Past(q, 0, 2)' => Past(q, 0, 2)
            BY <4>2, <1>7, <2>1, <2>3
          <5>2. mem'[q] = mem[q]
            BY <4>2, <1>2, <1>5, <2>3 DEF a
          <5>3. Past(q, 0, 2) => mem[q]["q"][j] >= Q_MIN
            BY <4>2, <1>8, <2>3 DEF MemInv
          <5> QED BY <5>1, <5>2, <5>3
        <4> QED BY <4>1, <4>2, <1>1
      <3>3. at'[q].stage # "sending"
        BY <1>7, <2>3
      <3> QED BY <3>1, <3>2, <3>3
    <2> QED BY <2>2, <2>3
  <1>9. MemInv'
    BY <1>3, <1>8 DEF MemInv
  <1> QED BY <1>6, <1>9

-----------------------------------------------------------------------------
(* What the other conjuncts keep when a call returns. *)

LEMMA KnownStep ==
  ASSUME Types, KnownInv, StageInv, NEW p \in Nodes, at[p].stage \in {"array", "sending"},
         Proceed(p), UNCHANGED <<layout_vars, known>>
  PROVE  KnownInv' /\ StageInv' /\ AtType'
  <1>1. /\ job' = job /\ num_nodes' = num_nodes /\ known' = known
        /\ Nodes' = Nodes /\ States' = States
    BY LayoutKept
  <1>2. /\ at' \in [Nodes -> States]
        /\ at'[p].stage \in {"array", "edges", "done"}
        /\ at'[p].stage = "edges" => job = "read"
        /\ \A q \in Nodes : q # p => at'[q] = at[q]
        /\ \A q \in Nodes : at'[q].stage \in {"open", "setup"} => at'[q] = at[q]
        /\ \A q \in Nodes : at[q].stage \in {"open", "setup"} => at'[q] = at[q]
    BY ProceedIs
  <1>3. KnownInv'
    <2> SUFFICES ASSUME NEW q \in Nodes, NEW n \in Nodes,
                        at'[q].stage \notin {"open", "setup"}
                          \/ (at'[q].stage = "setup" /\ n < at'[q].node)
                 PROVE  known[q][n] = Owned(num_nodes, n)
      BY <1>1 DEF KnownInv
    <2>1. at[q].stage \notin {"open", "setup"} \/ (at[q].stage = "setup" /\ n < at[q].node)
      BY <1>2
    <2> QED BY <2>1 DEF KnownInv
  <1>4. StageInv'
    <2>1. \A q \in Nodes :
            /\ at'[q].stage \in {"open", "sending"} => q # p /\ at'[q] = at[q]
            /\ at'[q].stage = "edges" => job = "read" \/ at'[q] = at[q]
      BY <1>2
    <2> QED BY <2>1, <1>1, <1>2 DEF StageInv, NODE0
  <1> QED BY <1>1, <1>2, <1>3, <1>4 DEF AtType

LEMMA MsgStep ==
  ASSUME MsgInv, msgs' \subseteq msgs, UNCHANGED layout_vars, job = "read" => file' = file
  PROVE  MsgInv'
  <1>1. /\ job' = job /\ field' = field /\ num_nodes' = num_nodes /\ Nodes' = Nodes
    BY LayoutKept
  <1> QED BY <1>1 DEF MsgInv, RowShown

(* NODE0 puts the rows of a node into the file. *)
LEMMA FilePut ==
  ASSUME Types, FileInv, NEW p \in Nodes, p = NODE0, at[p].stage = "array",
         Proceed(p), UNCHANGED layout_vars,
         NEW rows \in [Owned(num_nodes, at[p].node) -> Nat],
         \A j \in Owned(num_nodes, at[p].node) : RowShown(Var(p), j, rows[j]),
         Put(p, rows)
  PROVE  FileInv' /\ FileType'
  <1> DEFINE v == Var(p)
             O == Owned(num_nodes, at[p].node)
             f == [j \in Rows |-> IF j \in O THEN rows[j] ELSE file[v][j]]
  <1>1. file \in [Names -> [Rows -> Nat]] /\ at[p].var \in 1 .. 2 /\ at[p].node \in Nodes
    BY DEF Types, FileType, AtType, States
  <1>2. v = Variables[at[p].var] /\ v \in Names
    BY <1>1, VariablesAre DEF Var
  <1>3. DOMAIN rows = O
    OBVIOUS
  <1>4. file' = [file EXCEPT ![v] = f]
    BY <1>3 DEF Put
  <1>5. f \in [Rows -> Nat]
    <2>1. \A j \in Rows : file[v][j] \in Nat
      BY <1>1, <1>2
    <2>2. \A j \in O : rows[j] \in Nat
      OBVIOUS
    <2> HIDE DEF O, v
    <2> QED BY <2>1, <2>2
  <1>6. file' \in [Names -> [Rows -> Nat]] /\ file'[v] = f /\ \A w \in Names : w # v => file'[w] = file[w]
    <2> HIDE DEF f, v
    <2> QED BY <1>1, <1>2, <1>4, <1>5
  <1>7. /\ job' = job /\ field' = field /\ num_nodes' = num_nodes /\ Nodes' = Nodes
    BY LayoutKept
  <1>8. \A q, n \in Nodes, k \in 1 .. 2 :
          Past(q, n, k)' => Past(q, n, k) \/ (q = p /\ n = at[p].node /\ k = at[p].var)
    BY ProceedIs
  <1>9. ASSUME NEW n \in Nodes, NEW k \in 1 .. 2, NEW j \in Owned(num_nodes, n),
               job = "write", Past(NODE0, n, k)'
        PROVE  RowShown(Variables[k], j, file'[Variables[k]][j])
    <2>1. Variables[k] \in Names /\ j \in Rows
      BY VariablesAre, NodeRows
    <2>2. Past(NODE0, n, k) \/ (n = at[p].node /\ k = at[p].var)
      BY <1>8, <1>9
    <2>3. CASE Variables[k] = v /\ j \in O
      <3>1. file'[Variables[k]][j] = rows[j]
        BY <2>1, <2>3, <1>6
      <3> QED BY <3>1, <2>3
    <2>4. CASE Variables[k] # v \/ j \notin O
      <3>1. file'[Variables[k]][j] = file[Variables[k]][j]
        BY <2>1, <2>4, <1>6
      <3>2. Past(NODE0, n, k)
        BY <2>2, <2>4, <1>2
      <3> QED BY <3>1, <3>2, <1>9 DEF FileInv
    <2> QED BY <2>3, <2>4
  <1>10. FileInv'
    <2>1. \A n \in Nodes, k \in 1 .. 2 : \A j \in Owned(num_nodes, n) :
            job = "write" /\ Past(NODE0, n, k)' => RowShown(Variables[k], j, file'[Variables[k]][j])
      BY <1>9
    <2> QED BY <2>1, <1>7 DEF FileInv, RowShown
  <1> QED BY <1>6, <1>10 DEF FileType

(* Another process than NODE0 is done with a call. *)
LEMMA FileKept ==
  ASSUME Types, FileInv, NEW p \in Nodes, p # NODE0, at[p].stage \in {"array", "sending"},
         Proceed(p), UNCHANGED <<layout_vars, file>>
  PROVE  FileInv' /\ FileType'
  <1>1. /\ job' = job /\ field' = field /\ num_nodes' = num_nodes /\ Nodes' = Nodes /\ file' = file
    BY LayoutKept
  <1>2. \A n \in Nodes, k \in 1 .. 2 : Past(NODE0, n, k)' => Past(NODE0, n, k)
    BY ProceedIs, NodesAre DEF Types, Scalars
  <1>3. FileInv'
    BY <1>1, <1>2 DEF FileInv, RowShown
  <1> QED BY <1>1, <1>3 DEF Types, FileType

(* In a run that writes, nothing is said of reading. *)
LEMMA ReadLater ==
  ASSUME job = "write", UNCHANGED layout_vars
  PROVE  FileDone' /\ ReadInv'
  BY LayoutKept DEF FileDone, ReadInv

LEMMA ScalarsKept ==
  ASSUME Scalars, UNCHANGED <<layout_vars, status>>
  PROVE  Scalars'
  BY DEF Scalars, layout_vars

(* The buffer a process sends has the rows it owns. *)
LEMMA BufferIs ==
  ASSUME Types, KnownInv, NEW p \in Nodes, at[p].stage = "array",
         NEW a, \A j \in Owned(num_nodes, at[p].node) : a[j] \in Nat
  PROVE  /\ known[p][at[p].node] = Owned(num_nodes, at[p].node)
         /\ Message(p, a).rows \in [Owned(num_nodes, at[p].node) -> Nat]
         /\ \A j \in Owned(num_nodes, at[p].node) : Message(p, a).rows[j] = a[j]
         /\ Message(p, a).node = at[p].node /\ Message(p, a).var = Var(p)
  <1>1. at[p].node \in Nodes
    BY DEF Types, AtType, States
  <1>2. known[p][at[p].node] = Owned(num_nodes, at[p].node)
    BY <1>1 DEF KnownInv
  <1>3. Message(p, a) = [node |-> at[p].node, var |-> Var(p),
                         rows |-> [j \in Owned(num_nodes, at[p].node) |-> a[j]]]
    BY <1>2 DEF Message, Node
  <1> QED BY <1>2, <1>3

(* What a process that writes puts into its buffer shows the fields. *)
LEMMA BufferShows ==
  ASSUME Types, MemInv, job = "write", NEW p \in Nodes, at[p].stage = "array", at[p].node = p
  PROVE  \A j \in Owned(num_nodes, p) : /\ Mapped(p)[Var(p)][j] \in Nat
                                        /\ RowShown(Var(p), j, Mapped(p)[Var(p)][j])
  <1>1. Writing(p, at[p].var, Mapped(p))
    BY MappedIs
  <1>2. at[p].var \in 1 .. 2 /\ Var(p) = Variables[at[p].var]
    BY DEF Types, AtType, States, Var
  <1>3. Var(p) \in Names /\ (Var(p) = "q" <=> at[p].var = 2) /\ (Var(p) = "theta" <=> at[p].var = 1)
    BY <1>2, VariablesAre
  <1>4. ASSUME NEW j \in Owned(num_nodes, p)
        PROVE  Mapped(p)[Var(p)][j] \in Nat /\ RowShown(Var(p), j, Mapped(p)[Var(p)][j])
    <2>1. j \in Padded(num_nodes, p) /\ j \in Rows /\ Image(j) = j
      BY <1>4, NodeRows
    <2>2. /\ Mapped(p)[Var(p)][j] \in Nat
          /\ Mapped(p)["theta"][j] = field["theta"][j]
          /\ at[p].var = 2 => Shown(field["q"][j], Mapped(p)["q"][j])
      BY <1>1, <1>3, <2>1 DEF Writing
    <2> QED BY <2>2, <1>2, <1>3 DEF RowShown
  <1> QED BY <1>4

-----------------------------------------------------------------------------
(* The calls of write_array(). *)

LEMMA WriteArrayAsideInv ==
  ASSUME Inv, NEW p \in Nodes, WriteArrayAside(p)
  PROVE  Inv'
  <1>1. /\ job = "write" /\ status = "running" /\ at[p].stage = "array" /\ p # NODE0
        /\ Proceed(p) /\ UNCHANGED <<layout_vars, known, file, msgs, status>>
        /\ mem' = [mem EXCEPT ![p] = AfterWrite(Variables[at[p].var], p, Mapped(p))]
    BY DEF WriteArrayAside, Here, Written, Var, Participates
  <1>2. /\ Types /\ Scalars /\ KnownInv /\ StageInv /\ MsgInv /\ MemInv /\ FileInv
    BY DEF Inv, Types
  <1>3. Writing(p, at[p].var, Mapped(p)) /\ (at[p].var = 1 => Mapped(p) = mem[p])
    BY <1>1, <1>2, MappedIs
  <1>4. MemInv' /\ MemTypes'
    BY <1>1, <1>2, <1>3, MemStep
  <1>5. KnownInv' /\ StageInv' /\ AtType'
    BY <1>1, <1>2, KnownStep
  <1>6. FileInv' /\ FileType'
    BY <1>1, <1>2, FileKept
  <1>7. MsgInv'
    BY <1>1, <1>2, MsgStep
  <1>8. Scalars' /\ KnownType'
    BY <1>1, <1>2, ScalarsKept, LayoutKept DEF Types, KnownType
  <1>9. FileDone' /\ ReadInv'
    BY <1>1, ReadLater
  <1> QED BY <1>4, <1>5, <1>6, <1>7, <1>8, <1>9 DEF Inv, Types

LEMMA WriteArrayOwnInv ==
  ASSUME Inv, NEW p \in Nodes, WriteArrayOwn(p)
  PROVE  Inv'
  <1> DEFINE rows == Message(p, Mapped(p)[Var(p)]).rows
  <1>1. /\ job = "write" /\ status = "running" /\ at[p].stage = "array"
        /\ p = NODE0 /\ at[p].node = p
        /\ Proceed(p) /\ UNCHANGED <<layout_vars, known, msgs, status>>
        /\ Put(p, rows)
        /\ mem' = [mem EXCEPT ![p] = AfterWrite(Variables[at[p].var], p, Mapped(p))]
    BY DEF WriteArrayOwn, Here, Node, Written, Var
  <1>2. /\ Types /\ Scalars /\ KnownInv /\ StageInv /\ MsgInv /\ MemInv /\ FileInv
    BY DEF Inv, Types
  <1>3. Writing(p, at[p].var, Mapped(p)) /\ (at[p].var = 1 => Mapped(p) = mem[p])
    BY <1>1, <1>2, MappedIs
  <1>4. MemInv' /\ MemTypes'
    BY <1>1, <1>2, <1>3, MemStep
  <1>5. KnownInv' /\ StageInv' /\ AtType'
    BY <1>1, <1>2, KnownStep
  <1>6. FileInv' /\ FileType'
    <2>1. \A j \in Owned(num_nodes, p) : /\ Mapped(p)[Var(p)][j] \in Nat
                                         /\ RowShown(Var(p), j, Mapped(p)[Var(p)][j])
      BY <1>1, <1>2, BufferShows
    <2>2. /\ rows \in [Owned(num_nodes, p) -> Nat]
          /\ \A j \in Owned(num_nodes, p) : rows[j] = Mapped(p)[Var(p)][j]
      BY <1>1, <1>2, <2>1, BufferIs
    <2> HIDE DEF rows
    <2>3. \A j \in Owned(num_nodes, p) : RowShown(Var(p), j, rows[j])
      BY <2>1, <2>2
    <2> QED BY <1>1, <1>2, <2>2, <2>3, FilePut
  <1>7. MsgInv'
    BY <1>1, <1>2, MsgStep
  <1>8. Scalars' /\ KnownType'
    BY <1>1, <1>2, ScalarsKept, LayoutKept DEF Types, KnownType
  <1>9. FileDone' /\ ReadInv'
    BY <1>1, ReadLater
  <1> QED BY <1>4, <1>5, <1>6, <1>7, <1>8, <1>9 DEF Inv, Types

LEMMA WriteArrayReceiveInv ==
  ASSUME Inv, NEW p \in Nodes, WriteArrayReceive(p)
  PROVE  Inv'
  <1>1. /\ job = "write" /\ status = "running" /\ at[p].stage = "array"
        /\ p = NODE0 /\ at[p].node # p
        /\ Proceed(p) /\ UNCHANGED <<layout_vars, known>>
        /\ mem' = [mem EXCEPT ![p] = AfterWrite(Variables[at[p].var], p, Mapped(p))]
    BY DEF WriteArrayReceive, Here, Participates, Node, Written, Var
  <1>2. /\ Types /\ Scalars /\ KnownInv /\ StageInv /\ MsgInv /\ MemInv /\ FileInv
    BY DEF Inv, Types
  <1>3. PICK m \in msgs : /\ m.node = at[p].node /\ m.var = Var(p)
                          /\ msgs' = msgs \ {m}
                          /\ IF DOMAIN m.rows = known[p][at[p].node]
                               THEN Put(p, m.rows) /\ UNCHANGED status
                               ELSE status' = "bad count" /\ UNCHANGED file
    BY DEF WriteArrayReceive, Matching, Node
  <1>4. Writing(p, at[p].var, Mapped(p)) /\ (at[p].var = 1 => Mapped(p) = mem[p])
    BY <1>1, <1>2, MappedIs
  <1>5. MemInv' /\ MemTypes'
    BY <1>1, <1>2, <1>4, MemStep
  <1>6. KnownInv' /\ StageInv' /\ AtType'
    BY <1>1, <1>2, KnownStep
  <1>7. /\ m.rows \in [Owned(num_nodes, at[p].node) -> Nat]
        /\ \A j \in Owned(num_nodes, at[p].node) : RowShown(Var(p), j, m.rows[j])
    BY <1>1, <1>2, <1>3 DEF MsgInv
  <1>8. Put(p, m.rows) /\ status' = status
    <2>1. at[p].node \in Nodes
      BY <1>2 DEF Types, AtType, States
    <2>2. known[p][at[p].node] = Owned(num_nodes, at[p].node)
      BY <1>1, <1>2, <2>1 DEF KnownInv
    <2> QED BY <1>3, <1>7, <2>2
  <1>9. FileInv' /\ FileType'
    BY <1>1, <1>2, <1>7, <1>8, FilePut
  <1>10. MsgInv'
    BY <1>1, <1>2, <1>3, MsgStep
  <1>11. Scalars' /\ KnownType'
    BY <1>1, <1>2, <1>8, ScalarsKept, LayoutKept DEF Types, KnownType
  <1>12. FileDone' /\ ReadInv'
    BY <1>1, ReadLater
  <1> QED BY <1>5, <1>6, <1>9, <1>10, <1>11, <1>12 DEF Inv, Types

(* A process begins to send: it is not past the call yet. *)
LEMMA SendingIs ==
  ASSUME Types, KnownInv, StageInv, NEW p \in Nodes, at[p].stage = "array",
         at' = [at EXCEPT ![p].stage = "sending"], UNCHANGED <<layout_vars, known>>,
         job = "write" => p = at[p].node /\ p # NODE0,
         job = "read" => p = NODE0 /\ at[p].node # NODE0
  PROVE  /\ AtType' /\ KnownInv' /\ StageInv'
         /\ at'[p].stage = "sending" /\ at'[p].node = at[p].node /\ at'[p].var = at[p].var
         /\ \A q \in Nodes : q # p => at'[q] = at[q]
         /\ \A q, n \in Nodes, i \in 1 .. 2 : Past(q, n, i)' <=> Past(q, n, i)
  <1>1. at \in [Nodes -> States]
    BY DEF Types, AtType
  <1>2. /\ job' = job /\ num_nodes' = num_nodes /\ known' = known
        /\ Nodes' = Nodes /\ States' = States
    BY LayoutKept
  <1>3. at[p] \in States /\ "sending" \in Stages
    BY <1>1 DEF Stages
  <1>4. LET b == [at[p] EXCEPT !.stage = "sending"]
        IN  /\ b \in States /\ b.stage = "sending" /\ b.node = at[p].node /\ b.var = at[p].var
            /\ at' = [at EXCEPT ![p] = b]
    BY <1>3 DEF States
  <1>5. /\ at' \in [Nodes -> States]
        /\ at'[p].stage = "sending" /\ at'[p].node = at[p].node /\ at'[p].var = at[p].var
        /\ \A q \in Nodes : q # p => at'[q] = at[q]
    BY <1>1, <1>4
  <1>6. \A q, n \in Nodes, i \in 1 .. 2 : Past(q, n, i)' <=> Past(q, n, i)
    <2> SUFFICES ASSUME NEW q \in Nodes, NEW n \in Nodes, NEW i \in 1 .. 2
                 PROVE  Past(q, n, i)' <=> Past(q, n, i)
      OBVIOUS
    <2>1. CASE q = p
      BY <2>1, <1>5 DEF Past
    <2>2. CASE q # p
      BY <2>2, <1>5 DEF Past
    <2> QED BY <2>1, <2>2
  <1>7. KnownInv'
    <2> SUFFICES ASSUME NEW q \in Nodes, NEW n \in Nodes,
                        at'[q].stage \notin {"open", "setup"}
                          \/ (at'[q].stage = "setup" /\ n < at'[q].node)
                 PROVE  known[q][n] = Owned(num_nodes, n)
      BY <1>2 DEF KnownInv
    <2>1. at[q].stage \notin {"open", "setup"} \/ (at[q].stage = "setup" /\ n < at[q].node)
      BY <1>5
    <2> QED BY <2>1 DEF KnownInv
  <1>8. StageInv'
    <2> SUFFICES ASSUME NEW q \in Nodes
                 PROVE  /\ at'[q].stage = "open" => at'[q].node = 0
                        /\ at'[q].stage = "sending" /\ job = "write" => q = at'[q].node /\ q # NODE0
                        /\ at'[q].stage = "sending" /\ job = "read" => q = NODE0 /\ at'[q].node # NODE0
                        /\ job = "write" => at'[q].stage # "edges"
      BY <1>2 DEF StageInv, NODE0
    <2>1. CASE q = p
      BY <2>1, <1>5
    <2>2. CASE q # p
      BY <2>2, <1>5 DEF StageInv
    <2> QED BY <2>1, <2>2
  <1> QED BY <1>2, <1>5, <1>6, <1>7, <1>8 DEF AtType

LEMMA WriteArraySendInv ==
  ASSUME Inv, NEW p \in Nodes, WriteArraySend(p)
  PROVE  Inv'
  <1> DEFINE a == Mapped(p)[Var(p)]
             new == Message(p, a)
  <1>1. /\ job = "write" /\ status = "running" /\ at[p].stage = "array"
        /\ at[p].node = p /\ p # NODE0
        /\ mem' = [mem EXCEPT ![p] = Mapped(p)]
        /\ msgs' = msgs \cup {new}
        /\ at' = [at EXCEPT ![p].stage = "sending"]
        /\ UNCHANGED <<layout_vars, known, file, status>>
    BY DEF WriteArraySend, Here, Node
  <1>2. /\ Types /\ Scalars /\ KnownInv /\ StageInv /\ MsgInv /\ MemInv /\ FileInv
    BY DEF Inv, Types
  <1>3. Writing(p, at[p].var, Mapped(p)) /\ (at[p].var = 1 => Mapped(p) = mem[p])
    BY <1>1, <1>2, MappedIs
  <1>4. /\ AtType' /\ KnownInv' /\ StageInv'
        /\ at'[p].stage = "sending" /\ at'[p].node = at[p].node /\ at'[p].var = at[p].var
        /\ \A q \in Nodes : q # p => at'[q] = at[q]
        /\ \A q, n \in Nodes, i \in 1 .. 2 : Past(q, n, i)' <=> Past(q, n, i)
    BY <1>1, <1>2, SendingIs
  <1>5. /\ job' = job /\ field' = field /\ num_nodes' = num_nodes
        /\ Nodes' = Nodes /\ Arrays' = Arrays
    BY <1>1, LayoutKept
  <1>6. /\ mem \in [Nodes -> [Names -> Arrays]]
        /\ \A q \in Nodes, v \in Names : mem[q][v] \in [Padded(num_nodes, q) -> Nat]
        /\ at[p].var \in 1 .. 2 /\ 0 \in Nodes
    BY <1>2, NodesAre DEF Types, MemTypes, AtType, States, Scalars, NODE0
  <1>7. /\ mem' \in [Nodes -> [Names -> Arrays]] /\ mem'[p] = Mapped(p)
        /\ \A q \in Nodes : q # p => mem'[q] = mem[q]
    BY <1>1, <1>3, <1>6 DEF Writing
  <1>8. MemTypes'
    <2>1. \A q \in Nodes, v \in Names : mem'[q][v] \in [Padded(num_nodes, q) -> Nat]
      BY <1>3, <1>6, <1>7 DEF Writing
    <2> QED BY <2>1, <1>5, <1>7 DEF MemTypes
  <1>9. MemInv'
    <2> SUFFICES ASSUME NEW q \in Nodes, NEW j \in Padded(num_nodes, q)
                 PROVE  /\ mem'[q]["theta"][j] = field["theta"][Image(j)]
                        /\ IF at'[q].stage = "sending" /\ at'[q].var = 2
                             THEN Shown(field["q"][Image(j)], mem'[q]["q"][j])
                             ELSE /\ Kept(field["q"][Image(j)], mem'[q]["q"][j])
                                  /\ Past(q, 0, 2)' => mem'[q]["q"][j] >= Q_MIN
      BY <1>5 DEF MemInv
    <2>1. Past(q, 0, 2)' <=> Past(q, 0, 2)
      BY <1>4, <1>6
    <2>2. CASE q # p
      <3>1. mem'[q] = mem[q] /\ at'[q] = at[q]
        BY <1>4, <1>7, <2>2
      <3> QED BY <3>1, <2>1, <1>1, <1>2 DEF MemInv
    <2>3. CASE q = p /\ at[p].var = 2
      BY <2>3, <1>3, <1>4, <1>7 DEF Writing
    <2>4. CASE q = p /\ at[p].var = 1
      <3>1. mem'[q] = mem[q]
        BY <2>4, <1>3, <1>7
      <3>2. at[q].stage # "sending" /\ at'[q].var # 2
        BY <2>4, <1>1, <1>4
      <3> QED BY <3>1, <3>2, <2>1, <1>1, <1>2 DEF MemInv
    <2> QED BY <2>2, <2>3, <2>4, <1>6
  <1>10. FileInv' /\ FileType'
    <2>1. \A n \in Nodes, i \in 1 .. 2 : Past(NODE0, n, i)' <=> Past(NODE0, n, i)
      BY <1>4, <1>6 DEF NODE0
    <2> QED BY <2>1, <1>1, <1>2, <1>5 DEF FileInv, RowShown, Types, FileType
  <1>11. MsgInv'
    <2>1. /\ new.node = p /\ new.node # NODE0 /\ new.var \in Names
          /\ new.rows \in [Owned(num_nodes, p) -> Nat]
          /\ \A j \in Owned(num_nodes, p) : RowShown(new.var, j, new.rows[j])
      <3>1. \A j \in Owned(num_nodes, p) : a[j] \in Nat /\ RowShown(Var(p), j, a[j])
        BY <1>1, <1>2, BufferShows
      <3>2. Var(p) \in Names
        BY <1>6, VariablesAre DEF Var
      <3> HIDE DEF a
      <3>3. /\ new.rows \in [Owned(num_nodes, p) -> Nat]
            /\ \A j \in Owned(num_nodes, p) : new.rows[j] = a[j]
            /\ new.node = p /\ new.var = Var(p)
        BY <1>1, <1>2, <3>1, BufferIs
      <3> HIDE DEF new
      <3> QED BY <3>1, <3>2, <3>3, <1>1
    <2> HIDE DEF new
    <2>2. \A m \in msgs' :
            /\ m.node \in Nodes /\ m.node # NODE0 /\ m.var \in Names
            /\ m.rows \in [Owned(num_nodes, m.node) -> Nat]
            /\ \A j \in Owned(num_nodes, m.node) : RowShown(m.var, j, m.rows[j])
      <3> SUFFICES ASSUME NEW m \in msgs'
                   PROVE  /\ m.node \in Nodes /\ m.node # NODE0 /\ m.var \in Names
                          /\ m.rows \in [Owned(num_nodes, m.node) -> Nat]
                          /\ \A j \in Owned(num_nodes, m.node) : RowShown(m.var, j, m.rows[j])
        OBVIOUS
      <3>1. CASE m \in msgs
        BY <3>1, <1>1, <1>2 DEF MsgInv
      <3>2. CASE m = new
        BY <3>2, <2>1
      <3> QED BY <3>1, <3>2, <1>1
    <2> QED BY <2>2, <1>1, <1>5 DEF MsgInv, RowShown, NODE0
  <1>12. Scalars' /\ KnownType'
    BY <1>1, <1>2, ScalarsKept, LayoutKept DEF Types, KnownType
  <1>13. FileDone' /\ ReadInv'
    BY <1>1, ReadLater
  <1> QED BY <1>4, <1>8, <1>9, <1>10, <1>11, <1>12, <1>13 DEF Inv, Types

-----------------------------------------------------------------------------
(* The calls of read_array(). *)

(* In a run that reads, the file stays and nothing is said of writing. *)
LEMMA WrittenBefore ==
  ASSUME job = "read", UNCHANGED <<layout_vars, file>>, FileDone, FileType
  PROVE  MemInv' /\ FileInv' /\ FileDone' /\ FileType'
  <1>1. job' = job /\ field' = field /\ file' = file
    BY LayoutKept
  <1> QED BY <1>1 DEF MemInv, FileInv, FileDone, FileType, RowShown

(* A call returns in a process whose arrays have what the file has of it. *)
LEMMA ReadStep ==
  ASSUME Types, ReadInv, job = "read", NEW p \in Nodes, at[p].stage \in {"array", "sending"},
         Proceed(p), UNCHANGED <<layout_vars, file>>,
         \A q \in Nodes : q # p => mem'[q] = mem[q],
         \A k \in 1 .. 2 : \A j \in Owned(num_nodes, p) :
           Past(p, p, k) \/ (p = at[p].node /\ k = at[p].var) =>
             mem'[p][Variables[k]][j] = file[Variables[k]][j]
  PROVE  ReadInv'
  <1>1. /\ job' = job /\ field' = field /\ num_nodes' = num_nodes /\ Nodes' = Nodes /\ file' = file
    BY LayoutKept
  <1>2. /\ at'[p].stage \in {"array", "edges", "done"}
        /\ at'[p].stage = "done" => job = "write"
        /\ \A q \in Nodes : q # p => at'[q] = at[q]
        /\ \A q, n \in Nodes, k \in 1 .. 2 :
             Past(q, n, k)' => Past(q, n, k) \/ (q = p /\ n = at[p].node /\ k = at[p].var)
    BY ProceedIs
  <1>3. ASSUME NEW q \in Nodes
        PROVE  /\ \A k \in 1 .. 2 : \A j \in Owned(num_nodes, q) :
                    Past(q, q, k)' => mem'[q][Variables[k]][j] = file[Variables[k]][j]
               /\ at'[q].stage = "done" => \A v \in Names : \A j \in Padded(num_nodes, q) :
                    mem'[q][v][j] = file[v][Image(j)]
    <2>1. CASE q # p
      <3>1. mem'[q] = mem[q] /\ at'[q] = at[q] /\ \A k \in 1 .. 2 : Past(q, q, k)' => Past(q, q, k)
        BY <1>2, <2>1
      <3> QED BY <3>1 DEF ReadInv
    <2>2. CASE q = p
      <3>1. at'[q].stage # "done"
        BY <1>2, <2>2
      <3>2. \A k \in 1 .. 2 : Past(q, q, k)' => Past(p, p, k) \/ (p = at[p].node /\ k = at[p].var)
        BY <1>2, <2>2
      <3> QED BY <3>1, <3>2, <2>2
    <2> QED BY <2>1, <2>2
  <1> QED BY <1>1, <1>3 DEF ReadInv

(* The same of a process that is not at its own node: it stores nothing. *)
LEMMA ReadNothing ==
  ASSUME Types, ReadInv, job = "read", NEW p \in Nodes, at[p].stage \in {"array", "sending"},
         at[p].node # p, Proceed(p), UNCHANGED <<layout_vars, file, mem>>
  PROVE  ReadInv' /\ MemTypes'
  <1>1. num_nodes' = num_nodes /\ Nodes' = Nodes /\ Arrays' = Arrays /\ mem' = mem
    BY LayoutKept
  <1>2. MemTypes'
    BY <1>1 DEF Types, MemTypes
  <1>3. \A k \in 1 .. 2 : \A j \in Owned(num_nodes, p) :
           Past(p, p, k) => mem'[p][Variables[k]][j] = file[Variables[k]][j]
    BY <1>1 DEF ReadInv
  <1>4. ReadInv'
    BY <1>1, <1>3, ReadStep
  <1> QED BY <1>2, <1>4

(* And of one that stores its rows. *)
LEMMA ReadRows ==
  ASSUME Types, ReadInv, job = "read", NEW p \in Nodes, at[p].stage = "array",
         at[p].node = p, Proceed(p), UNCHANGED <<layout_vars, file>>,
         NEW rows \in [Owned(num_nodes, p) -> Nat],
         \A j \in Owned(num_nodes, p) : rows[j] = file[Var(p)][j],
         Store(p, rows)
  PROVE  ReadInv' /\ MemTypes'
  <1> DEFINE v == Var(p)
             O == Owned(num_nodes, p)
             P == Padded(num_nodes, p)
             b == [j \in P |-> IF j \in O THEN rows[j] ELSE mem[p][v][j]]
  <1>1. /\ mem \in [Nodes -> [Names -> Arrays]]
        /\ \A q \in Nodes, w \in Names : mem[q][w] \in [Padded(num_nodes, q) -> Nat]
        /\ at[p].var \in 1 .. 2
    <2>1. at[p].var \in 1 .. 2
      BY DEF Types, AtType, States
    <2> QED BY <2>1 DEF Types, MemTypes
  <1>2. v = Variables[at[p].var] /\ v \in Names
    BY <1>1, VariablesAre DEF Var
  <1>3. DOMAIN rows = O /\ DOMAIN mem[p][v] = P /\ O \subseteq P
    BY <1>1, <1>2, NodeRows
  <1>4. mem' = [mem EXCEPT ![p] = [mem[p] EXCEPT ![v] = b]]
    BY <1>3 DEF Store
  <1>5. b \in [P -> Nat] /\ \A j \in O : b[j] = file[v][j]
    <2>1. \A j \in P : mem[p][v][j] \in Nat
      BY <1>1, <1>2
    <2>2. \A j \in O : rows[j] \in Nat /\ rows[j] = file[v][j]
      OBVIOUS
    <2> HIDE DEF O, P, v
    <2> QED BY <2>1, <2>2, <1>3
  <1>6. b \in Arrays
    BY <1>5, ArraysAre
  <1>7. /\ mem' \in [Nodes -> [Names -> Arrays]]
        /\ mem'[p][v] = b
        /\ \A w \in Names : w # v => mem'[p][w] = mem[p][w]
        /\ \A q \in Nodes : q # p => mem'[q] = mem[q]
    <2> DEFINE c == [mem[p] EXCEPT ![v] = b]
    <2> HIDE DEF b, v
    <2>1. /\ c \in [Names -> Arrays] /\ c[v] = b /\ \A w \in Names : w # v => c[w] = mem[p][w]
      BY <1>1, <1>2, <1>6
    <2> HIDE DEF c
    <2>2. mem' = [mem EXCEPT ![p] = c]
      BY <1>4 DEF c
    <2> QED BY <2>1, <2>2, <1>1
  <1>8. num_nodes' = num_nodes /\ Nodes' = Nodes /\ Arrays' = Arrays
    BY LayoutKept
  <1>9. MemTypes'
    <2>1. \A q \in Nodes, w \in Names : mem'[q][w] \in [Padded(num_nodes, q) -> Nat]
      <3> HIDE DEF b, v
      <3> QED BY <1>1, <1>5, <1>7
    <2> QED BY <2>1, <1>7, <1>8 DEF MemTypes
  <1>10. ASSUME NEW k \in 1 .. 2, NEW j \in O, Past(p, p, k) \/ k = at[p].var
         PROVE  mem'[p][Variables[k]][j] = file[Variables[k]][j]
    <2>1. Variables[k] \in Names
      BY VariablesAre
    <2>2. CASE Variables[k] = v
      <3> HIDE DEF b
      <3> QED BY <2>2, <1>5, <1>7
    <2>3. CASE Variables[k] # v
      <3>1. Past(p, p, k) /\ mem'[p][Variables[k]] = mem[p][Variables[k]]
        BY <2>1, <2>3, <1>2, <1>7, <1>10
      <3> QED BY <3>1 DEF ReadInv
    <2> QED BY <2>2, <2>3
  <1>11. ReadInv'
    BY <1>7, <1>10, ReadStep
  <1> QED BY <1>9, <1>11

LEMMA ReadArrayAsideInv ==
  ASSUME Inv, NEW p \in Nodes, ReadArrayAside(p)
  PROVE  Inv'
  <1>1. /\ job = "read" /\ at[p].stage = "array" /\ at[p].node # p
        /\ Proceed(p) /\ UNCHANGED <<layout_vars, known, mem, file, msgs, status>>
    BY DEF ReadArrayAside, Here, Participates, Node
  <1>2. /\ Types /\ Scalars /\ KnownInv /\ StageInv /\ MsgInv /\ FileDone /\ FileType /\ ReadInv
    BY DEF Inv, Types
  <1>3. ReadInv' /\ MemTypes'
    BY <1>1, <1>2, ReadNothing
  <1>4. KnownInv' /\ StageInv' /\ AtType'
    BY <1>1, <1>2, KnownStep
  <1>5. MsgInv'
    BY <1>1, <1>2, MsgStep
  <1>6. MemInv' /\ FileInv' /\ FileDone' /\ FileType'
    BY <1>1, <1>2, WrittenBefore
  <1>7. Scalars' /\ KnownType'
    BY <1>1, <1>2, ScalarsKept, LayoutKept DEF Types, KnownType
  <1> QED BY <1>3, <1>4, <1>5, <1>6, <1>7 DEF Inv, Types

(* What NODE0 takes out of the file for a node. *)
LEMMA BufferRead ==
  ASSUME Types, KnownInv, NEW p \in Nodes, at[p].stage = "array"
  PROVE  /\ Message(p, Get(p)).rows \in [Owned(num_nodes, at[p].node) -> Nat]
         /\ \A j \in Owned(num_nodes, at[p].node) : Message(p, Get(p)).rows[j] = file[Var(p)][j]
         /\ Message(p, Get(p)).node = at[p].node /\ Message(p, Get(p)).var = Var(p)
         /\ Var(p) \in Names
  <1>1. file \in [Names -> [Rows -> Nat]] /\ at[p].var \in 1 .. 2 /\ at[p].node \in Nodes
    BY DEF Types, FileType, AtType, States
  <1>2. Var(p) \in Names
    BY <1>1, VariablesAre DEF Var
  <1>3. \A j \in Owned(num_nodes, at[p].node) : j \in Rows
    BY <1>1, NodeRows
  <1>4. \A j \in Owned(num_nodes, at[p].node) :
          Get(p)[j] \in Nat /\ Get(p)[j] = file[Var(p)][j]
    BY <1>1, <1>2, <1>3 DEF Get, FileRow
  <1> QED BY <1>2, <1>4, BufferIs

LEMMA ReadArrayOwnInv ==
  ASSUME Inv, NEW p \in Nodes, ReadArrayOwn(p)
  PROVE  Inv'
  <1> DEFINE rows == Message(p, Get(p)).rows
  <1>1. /\ job = "read" /\ at[p].stage = "array" /\ at[p].node = p
        /\ Store(p, rows)
        /\ Proceed(p) /\ UNCHANGED <<layout_vars, known, file, msgs, status>>
    BY DEF ReadArrayOwn, Here, Node
  <1>2. /\ Types /\ Scalars /\ KnownInv /\ StageInv /\ MsgInv /\ FileDone /\ FileType /\ ReadInv
    BY DEF Inv, Types
  <1>3. ReadInv' /\ MemTypes'
    <2>1. rows \in [Owned(num_nodes, p) -> Nat] /\ \A j \in Owned(num_nodes, p) : rows[j] = file[Var(p)][j]
      BY <1>1, <1>2, BufferRead
    <2> HIDE DEF rows
    <2> QED BY <2>1, <1>1, <1>2, ReadRows
  <1>4. KnownInv' /\ StageInv' /\ AtType'
    BY <1>1, <1>2, KnownStep
  <1>5. MsgInv'
    BY <1>1, <1>2, MsgStep
  <1>6. MemInv' /\ FileInv' /\ FileDone' /\ FileType'
    BY <1>1, <1>2, WrittenBefore
  <1>7. Scalars' /\ KnownType'
    BY <1>1, <1>2, ScalarsKept, LayoutKept DEF Types, KnownType
  <1> QED BY <1>3, <1>4, <1>5, <1>6, <1>7 DEF Inv, Types

LEMMA ReadArrayReceiveInv ==
  ASSUME Inv, NEW p \in Nodes, ReadArrayReceive(p)
  PROVE  Inv'
  <1>1. /\ job = "read" /\ status = "running" /\ at[p].stage = "array" /\ at[p].node = p
        /\ Proceed(p) /\ UNCHANGED <<layout_vars, known, file>>
    BY DEF ReadArrayReceive, Here, Node
  <1>2. /\ Types /\ Scalars /\ KnownInv /\ StageInv /\ MsgInv /\ FileDone /\ FileType /\ ReadInv
    BY DEF Inv, Types
  <1>3. PICK m \in msgs : /\ m.node = at[p].node /\ m.var = Var(p)
                          /\ msgs' = msgs \ {m}
                          /\ IF DOMAIN m.rows = known[p][at[p].node]
                               THEN Store(p, m.rows) /\ UNCHANGED status
                               ELSE status' = "bad count" /\ UNCHANGED mem
    BY DEF ReadArrayReceive, Matching, Node
  <1>4. /\ m.rows \in [Owned(num_nodes, p) -> Nat]
        /\ \A j \in Owned(num_nodes, p) : m.rows[j] = file[Var(p)][j]
    BY <1>1, <1>2, <1>3 DEF MsgInv
  <1>5. Store(p, m.rows) /\ status' = status
    <2>1. known[p][p] = Owned(num_nodes, p)
      BY <1>1, <1>2 DEF KnownInv
    <2> QED BY <1>1, <1>3, <1>4, <2>1
  <1>6. ReadInv' /\ MemTypes'
    BY <1>1, <1>2, <1>4, <1>5, ReadRows
  <1>7. KnownInv' /\ StageInv' /\ AtType'
    BY <1>1, <1>2, KnownStep
  <1>8. MsgInv'
    BY <1>1, <1>2, <1>3, MsgStep
  <1>9. MemInv' /\ FileInv' /\ FileDone' /\ FileType'
    BY <1>1, <1>2, WrittenBefore
  <1>10. Scalars' /\ KnownType'
    BY <1>1, <1>2, <1>5, ScalarsKept, LayoutKept DEF Types, KnownType
  <1> QED BY <1>6, <1>7, <1>8, <1>9, <1>10 DEF Inv, Types

LEMMA ReadArraySendInv ==
  ASSUME Inv, NEW p \in Nodes, ReadArraySend(p)
  PROVE  Inv'
  <1> DEFINE new == Message(p, Get(p))
  <1>1. /\ job = "read" /\ at[p].stage = "array"
        /\ p = NODE0 /\ at[p].node # NODE0
        /\ msgs' = msgs \cup {new}
        /\ at' = [at EXCEPT ![p].stage = "sending"]
        /\ UNCHANGED <<layout_vars, known, mem, file, status>>
    BY DEF ReadArraySend, Here, Participates, Node
  <1>2. /\ Types /\ Scalars /\ KnownInv /\ StageInv /\ MsgInv /\ FileDone /\ FileType
        /\ ReadInv /\ MemTypes
    BY DEF Inv, Types
  <1>3. /\ AtType' /\ KnownInv' /\ StageInv'
        /\ at'[p].stage = "sending"
        /\ \A q \in Nodes : q # p => at'[q] = at[q]
        /\ \A q, n \in Nodes, i \in 1 .. 2 : Past(q, n, i)' <=> Past(q, n, i)
    BY <1>1, <1>2, SendingIs
  <1>4. /\ job' = job /\ field' = field /\ num_nodes' = num_nodes
        /\ Nodes' = Nodes /\ Arrays' = Arrays /\ mem' = mem /\ file' = file
    BY <1>1, LayoutKept
  <1>5. ReadInv'
    <2>1. \A q \in Nodes : at'[q].stage = "done" => at[q].stage = "done"
      BY <1>3
    <2> QED BY <2>1, <1>2, <1>3, <1>4 DEF ReadInv
  <1>6. MsgInv'
    <2>1. at[p].node \in Nodes
      BY <1>2 DEF Types, AtType, States
    <2>2. /\ new.node = at[p].node /\ new.var \in Names
          /\ new.rows \in [Owned(num_nodes, at[p].node) -> Nat]
          /\ \A j \in Owned(num_nodes, at[p].node) : new.rows[j] = file[new.var][j]
      BY <1>1, <1>2, BufferRead
    <2> HIDE DEF new
    <2>3. ASSUME NEW m \in msgs'
          PROVE  /\ m.node \in Nodes /\ m.node # NODE0 /\ m.var \in Names
                 /\ m.rows \in [Owned(num_nodes, m.node) -> Nat]
                 /\ \A j \in Owned(num_nodes, m.node) : m.rows[j] = file[m.var][j]
      <3>1. CASE m \in msgs
        BY <3>1, <1>1, <1>2 DEF MsgInv
      <3>2. CASE m = new
        BY <3>2, <2>1, <2>2, <1>1
      <3> QED BY <3>1, <3>2, <1>1
    <2> QED BY <2>3, <1>1, <1>4 DEF MsgInv, NODE0
  <1>7. MemInv' /\ FileInv' /\ FileDone' /\ FileType'
    BY <1>1, <1>2, WrittenBefore
  <1>8. Scalars' /\ KnownType' /\ MemTypes'
    <2>1. Scalars'
      BY <1>1, <1>2, ScalarsKept
    <2>2. KnownType'
      BY <1>1, <1>2, LayoutKept DEF Types, KnownType
    <2> QED BY <2>1, <2>2, <1>2, <1>4 DEF MemTypes
  <1> QED BY <1>3, <1>5, <1>6, <1>7, <1>8 DEF Inv, Types

(* MPI_Send() returns, in either job. *)
LEMMA SendReturnsInv ==
  ASSUME Inv, NEW p \in Nodes, SendReturns(p)
  PROVE  Inv'
  <1>1. /\ at[p].stage = "sending" /\ Proceed(p)
        /\ UNCHANGED <<layout_vars, known, file, msgs, status>>
        /\ IF job = "write" THEN Written(p, mem[p]) ELSE UNCHANGED mem
    BY DEF SendReturns
  <1>2. /\ Types /\ Scalars /\ KnownInv /\ StageInv /\ MsgInv /\ MemInv /\ FileInv
        /\ FileDone /\ FileType /\ ReadInv
    BY DEF Inv, Types
  <1>3. KnownInv' /\ StageInv' /\ AtType'
    BY <1>1, <1>2, KnownStep
  <1>4. MsgInv'
    BY <1>1, <1>2, MsgStep
  <1>5. Scalars' /\ KnownType'
    BY <1>1, <1>2, ScalarsKept, LayoutKept DEF Types, KnownType
  <1>6. CASE job = "write"
    <2>1. p # NODE0 /\ mem' = [mem EXCEPT ![p] = AfterWrite(Variables[at[p].var], p, mem[p])]
      BY <1>1, <1>2, <1>6 DEF StageInv, Written, Var
    <2>2. Writing(p, at[p].var, mem[p])
      BY <1>1, <1>2, <1>6 DEF Writing, MemInv, Types, MemTypes
    <2>3. MemInv' /\ MemTypes'
      BY <1>1, <1>2, <1>6, <2>1, <2>2, MemStep
    <2>4. FileInv' /\ FileType'
      BY <1>1, <1>2, <2>1, FileKept
    <2>5. FileDone' /\ ReadInv'
      BY <1>1, <1>6, ReadLater
    <2> QED BY <1>3, <1>4, <1>5, <2>3, <2>4, <2>5 DEF Inv, Types
  <1>7. CASE job = "read"
    <2>1. at[p].node # p /\ mem' = mem
      BY <1>1, <1>2, <1>7 DEF StageInv
    <2>2. ReadInv' /\ MemTypes'
      BY <1>1, <1>2, <1>7, <2>1, ReadNothing
    <2>3. MemInv' /\ FileInv' /\ FileDone' /\ FileType'
      BY <1>1, <1>2, <1>7, WrittenBefore
    <2> QED BY <1>3, <1>4, <1>5, <2>2, <2>3 DEF Inv, Types
  <1> QED BY <1>2, <1>6, <1>7 DEF Scalars

-----------------------------------------------------------------------------
(* The steps before and after the calls. *)

(* A process that has not come to its first call. *)
LEMMA EarlyStep ==
  ASSUME Inv, NEW p \in Nodes, at[p].stage \in {"open", "setup"},
         NEW b \in States, at' = [at EXCEPT ![p] = b],
         b.stage = "setup" \/ (b.stage = "array" /\ b.node = 0 /\ b.var = 1),
         UNCHANGED <<layout_vars, mem, file, msgs, status>>
  PROVE  /\ Scalars' /\ AtType' /\ MemTypes' /\ FileType' /\ StageInv' /\ MsgInv'
         /\ MemInv' /\ FileInv' /\ FileDone' /\ ReadInv'
         /\ at'[p] = b /\ \A q \in Nodes : q # p => at'[q] = at[q]
  <1>1. /\ Types /\ Scalars /\ AtType /\ MemTypes /\ FileType /\ StageInv /\ MsgInv
        /\ MemInv /\ FileInv /\ FileDone /\ ReadInv
    BY DEF Inv, Types
  <1>2. /\ job' = job /\ field' = field /\ num_nodes' = num_nodes
        /\ Nodes' = Nodes /\ Arrays' = Arrays /\ States' = States
        /\ mem' = mem /\ file' = file /\ msgs' = msgs
    BY LayoutKept
  <1>3. /\ at' \in [Nodes -> States] /\ at'[p] = b
        /\ \A q \in Nodes : q # p => at'[q] = at[q]
    BY <1>1 DEF AtType
  <1>4. \A q, n \in Nodes, i \in 1 .. 2 : Past(q, n, i)' => Past(q, n, i)
    <2> SUFFICES ASSUME NEW q \in Nodes, NEW n \in Nodes, NEW i \in 1 .. 2, Past(q, n, i)'
                 PROVE  Past(q, n, i)
      OBVIOUS
    <2>1. CASE q = p
      <3>1. num_nodes \in Nat \ {0} /\ Nodes = 0 .. num_nodes - 1
        BY <1>1, NodesAre DEF Scalars
      <3>2. n \in Nat
        BY <3>1
      <3> QED BY <2>1, <3>2, <1>3 DEF Past
    <2>2. CASE q # p
      BY <2>2, <1>3 DEF Past
    <2> QED BY <2>1, <2>2
  <1>5. StageInv'
    <2> SUFFICES ASSUME NEW q \in Nodes
                 PROVE  /\ at'[q].stage = "open" => at'[q].node = 0
                        /\ at'[q].stage = "sending" /\ job = "write" => q = at'[q].node /\ q # NODE0
                        /\ at'[q].stage = "sending" /\ job = "read" => q = NODE0 /\ at'[q].node # NODE0
                        /\ job = "write" => at'[q].stage # "edges"
      BY <1>2 DEF StageInv, NODE0
    <2>1. CASE q = p
      BY <2>1, <1>3
    <2>2. CASE q # p
      BY <2>2, <1>1, <1>3 DEF StageInv
    <2> QED BY <2>1, <2>2
  <1>6. MemInv'
    <2> SUFFICES ASSUME job = "write", NEW q \in Nodes, NEW j \in Padded(num_nodes, q)
                 PROVE  /\ mem[q]["theta"][j] = field["theta"][Image(j)]
                        /\ IF at'[q].stage = "sending" /\ at'[q].var = 2
                             THEN Shown(field["q"][Image(j)], mem[q]["q"][j])
                             ELSE /\ Kept(field["q"][Image(j)], mem[q]["q"][j])
                                  /\ Past(q, 0, 2)' => mem[q]["q"][j] >= Q_MIN
      BY <1>2 DEF MemInv
    <2>1. 0 \in Nodes
      BY <1>1, NodesAre DEF Scalars, NODE0
    <2>2. /\ at'[q].stage = "sending" => at'[q] = at[q]
          /\ at[q].stage = "sending" => at'[q] = at[q]
      BY <1>3
    <2>3. Past(q, 0, 2)' => Past(q, 0, 2)
      BY <1>4, <2>1
    <2> QED BY <1>1, <2>2, <2>3 DEF MemInv
  <1>7. FileInv'
    <2>1. NODE0 \in Nodes
      BY <1>1, NodesAre DEF Scalars
    <2>2. \A n \in Nodes, i \in 1 .. 2 : Past(NODE0, n, i)' => Past(NODE0, n, i)
      BY <1>4, <2>1 DEF NODE0
    <2> QED BY <1>1, <1>2, <2>2 DEF FileInv, RowShown
  <1>8. ReadInv'
    <2>1. \A q \in Nodes : at'[q].stage = "done" => at[q].stage = "done"
      BY <1>3
    <2> QED BY <1>1, <1>2, <1>4, <2>1 DEF ReadInv
  <1>9. Scalars' /\ MsgInv'
    BY <1>1, <1>2, ScalarsKept, MsgStep
  <1>10. AtType' /\ MemTypes' /\ FileType' /\ FileDone'
    BY <1>1, <1>2, <1>3 DEF AtType, MemTypes, FileType, FileDone, RowShown
  <1> QED BY <1>3, <1>5, <1>6, <1>7, <1>8, <1>9, <1>10

LEMMA OpenInv ==
  ASSUME Inv, NEW p \in Nodes, Open(p)
  PROVE  Inv'
  <1> DEFINE b == [at[p] EXCEPT !.stage = "setup"]
  <1>1. /\ at[p].stage = "open" /\ at' = [at EXCEPT ![p] = b]
        /\ UNCHANGED <<layout_vars, known, mem, file, msgs, status>>
    BY DEF Open
  <1>2. at[p] \in States /\ KnownInv /\ KnownType /\ at[p].node = 0
    BY <1>1 DEF Inv, Types, AtType, StageInv
  <1>3. b \in States /\ b.stage = "setup" /\ b.node = 0
    BY <1>2 DEF States, Stages
  <1> HIDE DEF b
  <1>4. /\ Scalars' /\ AtType' /\ MemTypes' /\ FileType' /\ StageInv' /\ MsgInv'
        /\ MemInv' /\ FileInv' /\ FileDone' /\ ReadInv'
        /\ at'[p] = b /\ \A q \in Nodes : q # p => at'[q] = at[q]
    BY <1>1, <1>3, EarlyStep
  <1>5. num_nodes' = num_nodes /\ Nodes' = Nodes /\ known' = known
    BY <1>1, LayoutKept
  <1>6. KnownType'
    BY <1>2, <1>5 DEF KnownType
  <1>7. KnownInv'
    <2> SUFFICES ASSUME NEW q \in Nodes, NEW n \in Nodes,
                        at'[q].stage \notin {"open", "setup"}
                          \/ (at'[q].stage = "setup" /\ n < at'[q].node)
                 PROVE  known[q][n] = Owned(num_nodes, n)
      BY <1>5 DEF KnownInv
    <2>1. num_nodes \in Nat \ {0} /\ Nodes = 0 .. num_nodes - 1
      BY NodesAre DEF Inv, Types, Scalars
    <2>2. n \in Nat
      BY <2>1
    <2>3. q # p
      BY <1>3, <1>4, <2>2
    <2> QED BY <1>2, <1>4, <2>3 DEF KnownInv
  <1> QED BY <1>4, <1>6, <1>7 DEF Inv, Types

LEMMA SetupInv ==
  ASSUME Inv, NEW p \in Nodes, Setup(p)
  PROVE  Inv'
  <1> DEFINE n == at[p].node
             b == IF n < num_nodes - 1 THEN [at[p] EXCEPT !.node = n + 1]
                  ELSE [stage |-> "array", node |-> 0, var |-> 1]
  <1>1. /\ at[p].stage = "setup" /\ at' = [at EXCEPT ![p] = b]
        /\ known' = [known EXCEPT ![p][n] = Owned(num_nodes, n)]
        /\ UNCHANGED <<layout_vars, mem, file, msgs, status>>
    BY DEF Setup
  <1>2. /\ at[p] \in States /\ Types /\ KnownInv /\ KnownType /\ num_nodes \in 1 .. MaxNodes
        /\ n \in Nodes
    BY DEF Inv, Types, AtType, Scalars, States
  <1>3. num_nodes \in Nat \ {0} /\ Nodes = 0 .. num_nodes - 1 /\ n \in Nat
    BY <1>2, NodesAre
  <1>4. ASSUME n < num_nodes - 1
        PROVE  b \in States /\ b.stage = "setup"
    <2>1. n + 1 \in Nodes
      BY <1>3, <1>4
    <2>2. b = [at[p] EXCEPT !.node = n + 1]
      BY <1>4
    <2> HIDE DEF b
    <2> QED BY <1>1, <1>2, <2>1, <2>2 DEF States
  <1>5. ASSUME ~(n < num_nodes - 1)
        PROVE  b \in States /\ b.stage = "array" /\ b.node = 0 /\ b.var = 1
    <2>1. b = [stage |-> "array", node |-> 0, var |-> 1] /\ 0 \in Nodes
      BY <1>3, <1>5
    <2> HIDE DEF b
    <2> QED BY <2>1 DEF States, Stages
  <1>6. b \in States /\ (b.stage = "setup" \/ (b.stage = "array" /\ b.node = 0 /\ b.var = 1))
    BY <1>4, <1>5
  <1>7. \A k \in Nodes : (b.stage = "array" \/ k < b.node) => k < n \/ k = n
    <2> TAKE k \in Nodes
    <2>1. k \in 0 .. num_nodes - 1
      BY <1>3
    <2>2. CASE n < num_nodes - 1
      <3>1. b.stage = "setup" /\ b.node = n + 1
        BY <1>1, <1>2, <2>2 DEF States
      <3> HIDE DEF b, n
      <3> QED BY <3>1, <2>1, <1>3
    <2>3. CASE ~(n < num_nodes - 1)
      <3> HIDE DEF b, n
      <3> QED BY <2>1, <2>3, <1>3
    <2> QED BY <2>2, <2>3
  <1> HIDE DEF b, n
  <1>8. /\ Scalars' /\ AtType' /\ MemTypes' /\ FileType' /\ StageInv' /\ MsgInv'
        /\ MemInv' /\ FileInv' /\ FileDone' /\ ReadInv'
        /\ at'[p] = b /\ \A q \in Nodes : q # p => at'[q] = at[q]
    BY <1>1, <1>6, EarlyStep
  <1>9. num_nodes' = num_nodes /\ Nodes' = Nodes
    BY <1>1, LayoutKept
  <1>10. /\ known' \in [Nodes -> [Nodes -> SUBSET Rows]]
         /\ known'[p][n] = Owned(num_nodes, n)
         /\ \A q, k \in Nodes : q # p \/ k # n => known'[q][k] = known[q][k]
    <2> DEFINE o == Owned(num_nodes, n)
    <2>1. o \in SUBSET Rows
      BY <1>2, NodeRows
    <2> HIDE DEF o
    <2>2. known' = [known EXCEPT ![p][n] = o]
      BY <1>1 DEF o
    <2>3. known \in [Nodes -> [Nodes -> SUBSET Rows]]
      BY <1>2 DEF KnownType
    <2>4. known' \in [Nodes -> [Nodes -> SUBSET Rows]] /\ known'[p][n] = o
          /\ \A q, k \in Nodes : q # p \/ k # n => known'[q][k] = known[q][k]
      BY <1>2, <2>1, <2>2, <2>3
    <2> QED BY <2>4 DEF o
  <1>11. KnownInv'
    <2> SUFFICES ASSUME NEW q \in Nodes, NEW k \in Nodes,
                        at'[q].stage \notin {"open", "setup"}
                          \/ (at'[q].stage = "setup" /\ k < at'[q].node)
                 PROVE  known'[q][k] = Owned(num_nodes, k)
      BY <1>9 DEF KnownInv
    <2>1. CASE q = p /\ k = n
      BY <2>1, <1>10
    <2>2. CASE q = p /\ k # n
      <3>1. k < n
        BY <2>2, <1>6, <1>7, <1>8
      <3>2. known[p][k] = Owned(num_nodes, k)
        BY <3>1, <1>1, <1>2 DEF KnownInv, n
      <3> QED BY <3>2, <2>2, <1>10
    <2>3. CASE q # p
      BY <2>3, <1>2, <1>8, <1>10 DEF KnownInv
    <2> QED BY <2>1, <2>2, <2>3
  <1> QED BY <1>8, <1>9, <1>10, <1>11 DEF Inv, Types, KnownType

LEMMA NetcdfErrorInv ==
  ASSUME Inv, NetcdfError
  PROVE  Inv'
  <1>1. status' = "netcdf error" /\ UNCHANGED <<layout_vars, at, known, mem, file, msgs>>
    BY DEF NetcdfError
  <1>2. /\ job' = job /\ field' = field /\ num_nodes' = num_nodes /\ buffered' = buffered
        /\ Nodes' = Nodes /\ Arrays' = Arrays /\ States' = States
        /\ at' = at /\ known' = known /\ mem' = mem /\ file' = file /\ msgs' = msgs
    BY <1>1, LayoutKept
  <1>3. Scalars'
    BY <1>1, <1>2 DEF Inv, Types, Scalars
  <1>4. AtType' /\ KnownType' /\ MemTypes' /\ FileType'
    BY <1>2 DEF Inv, Types, AtType, KnownType, MemTypes, FileType
  <1>5. KnownInv' /\ StageInv' /\ MsgInv'
    BY <1>2 DEF Inv, KnownInv, StageInv, MsgInv, RowShown, NODE0
  <1>6. MemInv' /\ FileInv' /\ FileDone' /\ ReadInv'
    BY <1>2 DEF Inv, MemInv, FileInv, FileDone, ReadInv, RowShown, Past
  <1> QED BY <1>3, <1>4, <1>5, <1>6 DEF Inv, Types

(* bc_lateral() copies rows that have what the file has. *)
LEMMA BcLateralInv ==
  ASSUME Inv, BcLateral
  PROVE  Inv'
  <1> DEFINE Owner(j) == CHOOSE n \in Nodes : Image(j) \in Owned(num_nodes, n)
  <1>1. /\ \A p \in Nodes : at[p].stage = "edges"
        /\ mem' = [p \in Nodes |-> [v \in Names |-> [j \in Padded(num_nodes, p) |->
                    mem[Owner(j)][v][Image(j)]]]]
        /\ at' = [p \in Nodes |-> [at[p] EXCEPT !.stage = "done"]]
        /\ UNCHANGED <<layout_vars, known, file, msgs, status>>
    BY DEF BcLateral
  <1>2. /\ Types /\ Scalars /\ AtType /\ MemTypes /\ FileType /\ KnownInv /\ KnownType
        /\ StageInv /\ MsgInv /\ FileDone /\ ReadInv
    BY DEF Inv, Types
  <1>3. job = "read"
    <2>1. 0 \in Nodes
      BY <1>2, NodesAre DEF Scalars, NODE0
    <2> QED BY <2>1, <1>1, <1>2 DEF Scalars, StageInv
  <1>4. /\ job' = job /\ num_nodes' = num_nodes /\ known' = known /\ file' = file
        /\ Nodes' = Nodes /\ Arrays' = Arrays /\ States' = States
    BY <1>1, LayoutKept
  <1>5. \A p \in Nodes : at'[p] \in States /\ at'[p].stage = "done"
    <2> TAKE p \in Nodes
    <2>1. at[p] \in States /\ at'[p] = [at[p] EXCEPT !.stage = "done"]
      BY <1>1, <1>2 DEF AtType
    <2> QED BY <2>1 DEF States, Stages
  <1>6. AtType'
    <2>1. at' \in [Nodes -> States]
      BY <1>1, <1>5
    <2> QED BY <2>1, <1>4 DEF AtType
  <1>7. ASSUME NEW p \in Nodes, NEW v \in Names, NEW j \in Padded(num_nodes, p)
        PROVE  mem[Owner(j)][v][Image(j)] = file[v][Image(j)] /\ file[v][Image(j)] \in Nat
    <2>1. Image(j) \in Rows
      BY <1>2, NodeRows
    <2>2. Owner(j) \in Nodes /\ Image(j) \in Owned(num_nodes, Owner(j))
      BY <2>1, <1>2, NodeRows
    <2>3. PICK i \in 1 .. 2 : v = Variables[i]
      BY VariablesAre DEF Names
    <2> HIDE DEF Owner
    <2>4. Past(Owner(j), Owner(j), i)
      BY <2>2, <1>1 DEF Past
    <2> QED BY <2>1, <2>2, <2>3, <2>4, <1>2, <1>3 DEF ReadInv, FileType
  <1> HIDE DEF Owner
  <1>8. \A p \in Nodes, v \in Names :
          /\ mem'[p][v] \in [Padded(num_nodes, p) -> Nat]
          /\ \A j \in Padded(num_nodes, p) : mem'[p][v][j] = file[v][Image(j)]
    <2> TAKE p \in Nodes, v \in Names
    <2>1. mem'[p][v] = [j \in Padded(num_nodes, p) |-> mem[Owner(j)][v][Image(j)]]
      BY <1>1
    <2> QED BY <2>1, <1>7
  <1>9. MemTypes'
    <2>1. \A p \in Nodes, v \in Names : mem'[p][v] \in Arrays
      BY <1>8, ArraysAre
    <2>2. \A p \in Nodes : mem'[p] = [v \in Names |-> mem'[p][v]]
      BY <1>1
    <2>3. \A p \in Nodes : mem'[p] \in [Names -> Arrays]
      BY <2>1, <2>2
    <2>4. mem' = [p \in Nodes |-> mem'[p]]
      BY <1>1
    <2>5. mem' \in [Nodes -> [Names -> Arrays]]
      BY <2>3, <2>4
    <2> QED BY <2>5, <1>4, <1>8 DEF MemTypes
  <1>10. ReadInv'
    <2>1. ASSUME NEW p \in Nodes, NEW i \in 1 .. 2, NEW j \in Owned(num_nodes, p)
          PROVE  mem'[p][Variables[i]][j] = file[Variables[i]][j]
      <3>1. j \in Padded(num_nodes, p) /\ Image(j) = j /\ Variables[i] \in Names
        BY <1>2, NodeRows, VariablesAre
      <3> QED BY <3>1, <1>8
    <2> QED BY <2>1, <1>4, <1>8 DEF ReadInv
  <1>11. KnownInv' /\ KnownType'
    <2>1. \A p, n \in Nodes : known[p][n] = Owned(num_nodes, n)
      BY <1>1, <1>2 DEF KnownInv
    <2> QED BY <2>1, <1>2, <1>4 DEF KnownInv, KnownType
  <1>12. StageInv'
    BY <1>3, <1>4, <1>5 DEF StageInv
  <1>13. MsgInv'
    BY <1>1, <1>2, MsgStep
  <1>14. MemInv' /\ FileInv' /\ FileDone' /\ FileType'
    BY <1>1, <1>2, <1>3, WrittenBefore
  <1>15. Scalars'
    BY <1>1, <1>2, ScalarsKept
  <1> QED BY <1>6, <1>9, <1>10, <1>11, <1>12, <1>13, <1>14, <1>15 DEF Inv, Types

-----------------------------------------------------------------------------
(* The beginning of a run. *)

LEMMA BeginIs ==
  ASSUME NEW size \in 1 .. MaxNodes
  PROVE  /\ Begin(size).at \in [0 .. size - 1 -> [stage : Stages, node : 0 .. size - 1, var : 1 .. 2]]
         /\ Begin(size).known \in [0 .. size - 1 -> [0 .. size - 1 -> SUBSET Rows]]
         /\ \A p \in 0 .. size - 1 :
              Begin(size).at[p] = [stage |-> "open", node |-> 0, var |-> 1]
  <1>1. size \in Nat \ {0}
    BY BoundsAssumption, RowsAre
  <1>2. 0 \in 0 .. size - 1 /\ "open" \in Stages /\ 1 \in 1 .. 2
    BY <1>1 DEF Stages
  <1>3. /\ Begin(size).at = [p \in 0 .. size - 1 |-> [stage |-> "open", node |-> 0, var |-> 1]]
        /\ Begin(size).known = [p \in 0 .. size - 1 |-> [n \in 0 .. size - 1 |-> {}]]
    BY DEF Begin
  <1>4. [stage |-> "open", node |-> 0, var |-> 1]
          \in [stage : Stages, node : 0 .. size - 1, var : 1 .. 2]
    BY <1>2
  <1>5. [n \in 0 .. size - 1 |-> {}] \in [0 .. size - 1 -> SUBSET Rows]
    OBVIOUS
  <1> QED BY <1>3, <1>4, <1>5

(* Every process is about to open the file, and what is left of the invariant. *)
Beginning == /\ num_nodes \in 1 .. MaxNodes
             /\ at = Begin(num_nodes).at /\ known = Begin(num_nodes).known
Begun == /\ AtType /\ KnownType /\ KnownInv /\ StageInv
         /\ \A p \in Nodes : at[p].stage = "open"
         /\ \A p, n \in Nodes, i \in 1 .. 2 : ~Past(p, n, i)

LEMMA Opening == Beginning => Begun
  <1> SUFFICES ASSUME num_nodes \in 1 .. MaxNodes,
                      at = Begin(num_nodes).at, known = Begin(num_nodes).known
               PROVE  Begun
    BY DEF Beginning
  <1>1. Nodes = 0 .. num_nodes - 1
    BY DEF Nodes
  <1>2. /\ at \in [Nodes -> States] /\ known \in [Nodes -> [Nodes -> SUBSET Rows]]
        /\ \A p \in Nodes : at[p] = [stage |-> "open", node |-> 0, var |-> 1]
    BY <1>1, BeginIs DEF States
  <1>3. \A p \in Nodes : at[p].stage = "open" /\ at[p].node = 0
    BY <1>2
  <1>4. KnownInv /\ StageInv
    BY <1>3 DEF KnownInv, StageInv
  <1>5. \A p, n \in Nodes, i \in 1 .. 2 : ~Past(p, n, i)
    BY <1>3 DEF Past
  <1> QED BY <1>2, <1>3, <1>4, <1>5 DEF Begun, AtType, KnownType

(* Arrays that are allocated for a run. *)
LEMMA Allocated ==
  ASSUME NEW f, \A p \in Nodes, v \in Names : \A j \in Padded(num_nodes, p) : f[p][v][j] \in Nat,
         mem = [p \in Nodes |-> [v \in Names |-> [j \in Padded(num_nodes, p) |-> f[p][v][j]]]]
  PROVE  MemTypes
  <1>1. \A p \in Nodes, v \in Names : mem[p][v] \in [Padded(num_nodes, p) -> Nat]
    OBVIOUS
  <1>2. \A p \in Nodes, v \in Names : mem[p][v] \in Arrays
    BY <1>1, ArraysAre
  <1>3. mem \in [Nodes -> [Names -> Arrays]]
    <2>1. \A p \in Nodes : mem[p] = [v \in Names |-> mem[p][v]]
      OBVIOUS
    <2>2. \A p \in Nodes : mem[p] \in [Names -> Arrays]
      BY <1>2, <2>1
    <2> QED BY <2>2
  <1> QED BY <1>1, <1>3 DEF MemTypes

LEMMA InitInv ==
  ASSUME Init
  PROVE  Inv
  <1>1. /\ job = "write" /\ field \in Fields /\ num_nodes \in 1 .. MaxNodes
        /\ buffered \in BOOLEAN
        /\ at = Begin(num_nodes).at /\ known = Begin(num_nodes).known
        /\ mem = [p \in Nodes |-> [v \in Names |->
                    [j \in Padded(num_nodes, p) |-> field[v][Image(j)]]]]
        /\ file = [v \in Names |-> [j \in Rows |-> 0]]
        /\ msgs = {} /\ status = "running"
    BY DEF Init
  <1>2. /\ AtType /\ KnownType /\ KnownInv /\ StageInv
        /\ \A p \in Nodes : at[p].stage = "open"
        /\ \A p, n \in Nodes, i \in 1 .. 2 : ~Past(p, n, i)
    BY <1>1, Opening DEF Beginning, Begun
  <1>3. Scalars /\ FileType
    BY <1>1 DEF Scalars, FileType
  <1>4. \A p \in Nodes, v \in Names : \A j \in Padded(num_nodes, p) : field[v][Image(j)] \in Nat
    <2>1. Nodes = 0 .. num_nodes - 1 /\ field \in [Names -> [Rows -> Nat]]
      BY <1>1, FieldsAssumption DEF Nodes
    <2>2. \A p \in Nodes : \A j \in Padded(num_nodes, p) : Image(j) \in Rows
      BY <1>1, <2>1, PaddedRows
    <2> QED BY <2>1, <2>2
  <1>5. MemTypes
    <2> DEFINE f == [p \in Nodes |-> [v \in Names |->
                      [j \in Padded(num_nodes, p) |-> field[v][Image(j)]]]]
    <2>1. \A p \in Nodes, v \in Names : \A j \in Padded(num_nodes, p) :
            f[p][v][j] \in Nat /\ f[p][v][j] = field[v][Image(j)]
      BY <1>4
    <2>2. mem = [p \in Nodes |-> [v \in Names |-> [j \in Padded(num_nodes, p) |-> f[p][v][j]]]]
      BY <1>1
    <2> HIDE DEF f
    <2> QED BY <2>1, <2>2, Allocated
  <1>6. MemInv
    <2> SUFFICES ASSUME NEW p \in Nodes, NEW j \in Padded(num_nodes, p)
                 PROVE  /\ mem[p]["theta"][j] = field["theta"][Image(j)]
                        /\ Kept(field["q"][Image(j)], mem[p]["q"][j])
                        /\ at[p].stage # "sending" /\ ~Past(p, 0, 2)
      BY DEF MemInv
    <2>1. "q" \in Names /\ "theta" \in Names /\ 0 \in Nodes
      BY <1>1, NodesAre DEF Names, NODE0
    <2>2. /\ mem[p]["theta"][j] = field["theta"][Image(j)]
          /\ mem[p]["q"][j] = field["q"][Image(j)]
          /\ field["q"][Image(j)] \in Nat
      BY <1>1, <1>4, <2>1
    <2>3. Kept(field["q"][Image(j)], mem[p]["q"][j])
      BY <2>2, Q_MINAssumption DEF Kept, Raised
    <2> QED BY <1>2, <2>1, <2>2, <2>3
  <1>7. FileInv
    <2>1. NODE0 \in Nodes
      BY <1>1, NodesAre
    <2> QED BY <1>2, <2>1 DEF FileInv
  <1>8. MsgInv /\ FileDone /\ ReadInv
    BY <1>1 DEF MsgInv, FileDone, ReadInv
  <1> QED BY <1>2, <1>3, <1>5, <1>6, <1>7, <1>8 DEF Inv, Types

(* Every row is in the file when every process has returned from var_write(). *)
LEMMA AllWritten ==
  ASSUME Inv, job = "write", AllDone
  PROVE  \A v \in Names : \A j \in Rows : RowShown(v, j, file[v][j])
  <1> SUFFICES ASSUME NEW v \in Names, NEW j \in Rows
               PROVE  RowShown(v, j, file[v][j])
    OBVIOUS
  <1>1. Types /\ FileInv /\ NODE0 \in Nodes
    BY NodesAre DEF Inv, Types, Scalars
  <1>2. PICK i \in 1 .. 2 : v = Variables[i]
    BY VariablesAre DEF Names
  <1>3. PICK n \in Nodes : j \in Owned(num_nodes, n)
    BY <1>1, NodeRows
  <1>4. Past(NODE0, n, i)
    BY <1>1 DEF Past, AllDone
  <1> QED BY <1>1, <1>2, <1>3, <1>4 DEF FileInv

LEMMA NextRunInv ==
  ASSUME Inv, NextRun
  PROVE  Inv'
  <1>1. /\ job = "write" /\ AllDone /\ job' = "read" /\ num_nodes' \in 1 .. MaxNodes
        /\ at' = Begin(num_nodes').at /\ known' = Begin(num_nodes').known
        /\ mem' = [p \in 0 .. num_nodes' - 1 |-> [v \in Names |->
                    [j \in Padded(num_nodes', p) |-> 0]]]
        /\ msgs' = {} /\ field' = field /\ buffered' = buffered
        /\ file' = file /\ status' = status
    BY DEF NextRun
  <1>2. /\ AtType' /\ KnownType' /\ KnownInv' /\ StageInv'
        /\ (\A p \in Nodes : at[p].stage = "open")'
        /\ (\A p, n \in Nodes, i \in 1 .. 2 : ~Past(p, n, i))'
    <2>1. Beginning'
      BY <1>1 DEF Beginning
    <2>2. Begun'
      BY <2>1, Opening, PTL
    <2> QED BY <2>2 DEF Begun
  <1>3. Scalars' /\ FileType' /\ MsgInv'
    BY <1>1 DEF Inv, Types, Scalars, FileType, MsgInv
  <1>4. FileDone'
    BY <1>1, AllWritten DEF FileDone, RowShown
  <1>5. MemTypes'
    <2> DEFINE f == [p \in Nodes' |-> [v \in Names |-> [j \in Padded(num_nodes', p) |-> 0]]]
    <2>1. Nodes' = 0 .. num_nodes' - 1
      BY DEF Nodes
    <2>2. \A p \in Nodes', v \in Names : \A j \in Padded(num_nodes', p) :
            f[p][v][j] \in Nat /\ f[p][v][j] = 0
      OBVIOUS
    <2>3. mem' = [p \in Nodes' |-> [v \in Names |-> [j \in Padded(num_nodes', p) |-> f[p][v][j]]]]
      BY <1>1, <2>1
    <2> HIDE DEF f
    <2>4. \A p \in Nodes', v \in Names : mem'[p][v] \in [Padded(num_nodes', p) -> Nat]
      BY <2>2, <2>3
    <2>5. \A p \in Nodes', v \in Names : mem'[p][v] \in Arrays'
      BY <2>4 DEF Arrays
    <2>6. \A p \in Nodes' : mem'[p] \in [Names -> Arrays']
      <3>1. \A p \in Nodes' : mem'[p] = [v \in Names |-> mem'[p][v]]
        BY <2>3
      <3> QED BY <2>5, <3>1
    <2>7. mem' \in [Nodes' -> [Names -> Arrays']]
      BY <2>3, <2>6
    <2> QED BY <2>4, <2>7 DEF MemTypes
  <1>6. MemInv' /\ FileInv'
    BY <1>1 DEF MemInv, FileInv
  <1>7. ReadInv'
    BY <1>2 DEF ReadInv
  <1> QED BY <1>2, <1>3, <1>4, <1>5, <1>6, <1>7 DEF Inv, Types

LEMMA StutterInv ==
  ASSUME Inv, UNCHANGED vars
  PROVE  Inv'
  <1>1. /\ job' = job /\ field' = field /\ num_nodes' = num_nodes /\ buffered' = buffered
        /\ Nodes' = Nodes /\ Arrays' = Arrays /\ States' = States
        /\ at' = at /\ known' = known /\ mem' = mem /\ file' = file /\ msgs' = msgs
        /\ status' = status
    BY LayoutKept DEF vars
  <1>2. Scalars' /\ AtType' /\ KnownType' /\ MemTypes' /\ FileType'
    BY <1>1 DEF Inv, Types, Scalars, AtType, KnownType, MemTypes, FileType
  <1>3. KnownInv' /\ StageInv' /\ MsgInv'
    BY <1>1 DEF Inv, KnownInv, StageInv, MsgInv, RowShown, NODE0
  <1>4. MemInv' /\ FileInv' /\ FileDone' /\ ReadInv'
    BY <1>1 DEF Inv, MemInv, FileInv, FileDone, ReadInv, RowShown, Past
  <1> QED BY <1>2, <1>3, <1>4 DEF Inv, Types

(* The invariant of the two calls, write_array() by write_array() and          *)
(* read_array() by read_array().                                               *)
THEOREM Invariance == Spec => []Inv
  <1>1. Init => Inv
    BY InitInv
  <1>2. Inv /\ [Next]_vars => Inv'
    <2> SUFFICES ASSUME Inv, [Next]_vars PROVE Inv'
      OBVIOUS
    <2>1. ASSUME NEW p \in Nodes, Run(p) PROVE Inv'
      BY <2>1, OpenInv, SetupInv, WriteArrayAsideInv, WriteArraySendInv, WriteArrayReceiveInv,
         WriteArrayOwnInv, ReadArrayAsideInv, ReadArraySendInv, ReadArrayReceiveInv,
         ReadArrayOwnInv, SendReturnsInv DEF Run
    <2>2. CASE BcLateral
      BY <2>2, BcLateralInv
    <2>3. CASE NetcdfError
      BY <2>3, NetcdfErrorInv
    <2>4. CASE NextRun
      BY <2>4, NextRunInv
    <2>5. CASE UNCHANGED vars
      BY <2>5, StutterInv
    <2> QED BY <2>1, <2>2, <2>3, <2>4, <2>5 DEF Next, Progress
  <1> QED BY <1>1, <1>2, PTL DEF Spec

(* The loops of var_write() and var_read() stay within the nodes and variables, *)
(* the arrays keep their extent, and messages are of nodes and variables.       *)
THEOREM TypeCorrect == Spec => []TypeOK
  <1>1. Inv => TypeOK
    <2> SUFFICES ASSUME Inv PROVE TypeOK
      OBVIOUS
    <2>1. Scalars /\ AtType /\ KnownType /\ MemTypes /\ FileType /\ MsgInv
      BY DEF Inv, Types
    <2>2. \A p, n \in Nodes : known[p][n] \subseteq Rows
      BY <2>1 DEF KnownType
    <2>3. DOMAIN known = Nodes /\ DOMAIN mem = Nodes
      BY <2>1 DEF KnownType, MemTypes
    <2>4. at \in [Nodes -> [stage : Stages, node : Nodes, var : 1 .. Len(Variables)]]
      BY <2>1, VariablesAre DEF AtType, States
    <2>5. \A p \in Nodes, v \in Names : mem[p][v] \in [Padded(num_nodes, p) -> Nat]
      BY <2>1 DEF MemTypes
    <2>6. \A m \in msgs : m.node \in Nodes /\ m.var \in Names
      BY <2>1 DEF MsgInv
    <2> QED BY <2>1, <2>2, <2>3, <2>4, <2>5, <2>6 DEF TypeOK, Scalars, FileType
  <1> QED BY <1>1, Invariance, PTL

(* The file var_write() leaves shows the fields, whatever the grid, the number *)
(* of processes and their pace.                                                *)
THEOREM FileFaithful == Spec => []FileShowsField
  <1>1. Inv => FileShowsField
    <2> SUFFICES ASSUME Inv, job = "read" \/ AllDone, NEW j \in Rows
                 PROVE  /\ file["theta"][j] = field["theta"][j]
                        /\ file["q"][j] = 0 <=> field["q"][j] <= Q_MIN
                        /\ field["q"][j] > Q_MIN =>
                             file["q"][j] \in field["q"][j] .. field["q"][j] + Q_MIN - 1
                        /\ field["q"][j] >= 2 * Q_MIN => file["q"][j] = field["q"][j]
      BY DEF FileShowsField
    <2>1. Types /\ FileDone /\ job \in {"write", "read"}
      BY DEF Inv, Types, Scalars
    <2>2. "theta" \in Names /\ "q" \in Names
      BY DEF Names
    <2>3. RowShown("theta", j, file["theta"][j]) /\ RowShown("q", j, file["q"][j])
      BY <2>1, <2>2, AllWritten DEF FileDone
    <2>4. file["theta"][j] = field["theta"][j] /\ Shown(field["q"][j], file["q"][j])
      BY <2>3 DEF RowShown
    <2>5. field["q"][j] \in Nat /\ file["q"][j] \in Nat
      BY <2>1, <2>2, NodeRows DEF Types, FileType
    <2> QED BY <2>4, <2>5, Q_MINAssumption DEF Shown, Raised
  <1> QED BY <1>1, Invariance, PTL

(* Being written adds at most Q_MIN to a mixing ratio of a run that goes on, *)
(* and leaves none below it.                                                 *)
THEOREM SavesAddLittle == Spec => []SaveAddsLittle
  <1>1. Inv => SaveAddsLittle
    <2> SUFFICES ASSUME Inv, job = "write", AllDone, NEW p \in Nodes,
                        NEW j \in Padded(num_nodes, p)
                 PROVE  /\ mem[p]["q"][j] \in field["q"][Image(j)] .. field["q"][Image(j)] + Q_MIN
                        /\ mem[p]["q"][j] >= Q_MIN
      BY DEF SaveAddsLittle
    <2>1. Types /\ MemInv /\ 0 \in Nodes /\ "q" \in Names /\ at[p].stage = "done"
      BY NodesAre DEF Inv, Types, Scalars, NODE0, Names, AllDone
    <2>2. Past(p, 0, 2)
      BY <2>1 DEF Past
    <2>3. Kept(field["q"][Image(j)], mem[p]["q"][j]) /\ mem[p]["q"][j] >= Q_MIN
      BY <2>1, <2>2 DEF MemInv
    <2>4. field["q"][Image(j)] \in Nat /\ mem[p]["q"][j] \in Nat
      BY <2>1, NodeRows DEF Types, MemTypes
    <2> QED BY <2>3, <2>4, Q_MINAssumption DEF Kept, Raised
  <1> QED BY <1>1, Invariance, PTL

(* A restart has what the file has, in its subgrids and in their pads, on any *)
(* number of processes.                                                       *)
THEOREM RestartFaithful == Spec => []RestartHasFile
  <1>1. Inv => RestartHasFile
    BY DEF Inv, RestartHasFile, ReadInv, AllDone
  <1> QED BY <1>1, Invariance, PTL

-----------------------------------------------------------------------------
(* How often a process has mapped and restored its mixing ratios, point by *)
(* point: once per node it is past, whether it had a part in the call or   *)
(* not.  So a pad goes through what the row goes through that it is a copy *)
(* of, though at another time.                                             *)

Round(x) == RestoreMass(MapVoid(x))

(* A mixing ratio that was x after none, one, two... rounds. *)
IsOrbit(g, n, x) ==
  /\ g \in [0 .. n -> Nat] /\ g[0] = x
  /\ \A k \in 0 .. n - 1 : g[k + 1] = Round(g[k])
Orbit(x) == CHOOSE g : IsOrbit(g, MaxNodes, x)

Rounds(p) ==
  IF at[p].stage \in {"edges", "done"} THEN num_nodes
  ELSE IF at[p].stage \in {"array", "sending"} THEN at[p].node ELSE 0

(* The mixing ratio x of a point of process p that was y when var_write() was *)
(* called.                                                                    *)
Rounded(p, x, y) ==
  /\ at[p].stage = "sending" /\ at[p].var = 2 => x = MapVoid(Orbit(y)[Rounds(p)])
  /\ ~(at[p].stage = "sending" /\ at[p].var = 2) => x = Orbit(y)[Rounds(p)]

RoundedAt(p) ==
  \A j \in Padded(num_nodes, p) : Rounded(p, mem[p]["q"][j], field["q"][Image(j)])
RoundsInv == job = "write" => \A p \in Nodes : RoundedAt(p)

LEMMA RoundType == ASSUME NEW x \in Nat PROVE Round(x) \in Nat
  <1> DEFINE y == MapVoid(x)
             h == y \div 2
  <1>1. y \in Nat
    BY DEF MapVoid
  <1> HIDE DEF y
  <1>2. h \in Nat
    BY <1>1, SMT
  <1>3. Round(x) = IF y < 2 * Q_MIN THEN Q_MIN + h ELSE y
    BY DEF Round, RestoreMass, y
  <1> HIDE DEF h
  <1> QED BY <1>1, <1>2, <1>3, Q_MINAssumption

(* There is such a function, by induction on the number of rounds. *)
LEMMA OrbitIs ==
  ASSUME NEW x \in Nat
  PROVE  IsOrbit(Orbit(x), MaxNodes, x)
  <1> DEFINE S == {n \in Nat : \E g : IsOrbit(g, n, x)}
  <1>1. 0 \in S
    <2>1. IsOrbit([k \in 0 .. 0 |-> x], 0, x)
      BY DEF IsOrbit
    <2> QED BY <2>1
  <1>2. ASSUME NEW n \in Nat, n \in S PROVE n + 1 \in S
    <2>1. PICK g : IsOrbit(g, n, x)
      BY <1>2
    <2> DEFINE r == Round(g[n])
               h == [k \in 0 .. n + 1 |-> IF k = n + 1 THEN r ELSE g[k]]
    <2>2. g[n] \in Nat /\ \A k \in 0 .. n : g[k] \in Nat
      BY <2>1 DEF IsOrbit
    <2>3. r \in Nat
      BY <2>2, RoundType
    <2>4. h \in [0 .. n + 1 -> Nat] /\ h[0] = x
      <3> HIDE DEF r
      <3>1. \A k \in 0 .. n + 1 : k = n + 1 \/ k \in 0 .. n
        OBVIOUS
      <3>2. 0 \in 0 .. n + 1 /\ 0 # n + 1 /\ g[0] = x
        BY <2>1 DEF IsOrbit
      <3> QED BY <2>2, <2>3, <3>1, <3>2
    <2>5. ASSUME NEW k \in 0 .. (n + 1) - 1 PROVE h[k + 1] = Round(h[k])
      <3>1. k \in 0 .. n /\ k \in 0 .. n + 1 /\ k + 1 \in 0 .. n + 1 /\ k # n + 1
        OBVIOUS
      <3>2. h[k] = g[k]
        BY <3>1
      <3>3. CASE k = n
        BY <3>1, <3>2, <3>3
      <3>4. CASE k # n
        <4>1. k \in 0 .. n - 1 /\ k + 1 # n + 1
          BY <3>1, <3>4
        <4>2. g[k + 1] = Round(g[k])
          BY <2>1, <4>1 DEF IsOrbit
        <4>3. h[k + 1] = g[k + 1]
          BY <3>1, <4>1
        <4> QED BY <3>2, <4>2, <4>3
      <3> QED BY <3>3, <3>4
    <2> HIDE DEF h
    <2>6. IsOrbit(h, n + 1, x)
      BY <2>4, <2>5 DEF IsOrbit
    <2> QED BY <2>6
  <1> HIDE DEF S
  <1>3. MaxNodes \in S
    BY <1>1, <1>2, SetInduction, BoundsAssumption, RowsAre
  <1>4. \E g : IsOrbit(g, MaxNodes, x)
    BY <1>3 DEF S
  <1> QED BY <1>4 DEF Orbit

(* What one call does to a mixing ratio, before and after the variable is *)
(* written.                                                               *)
LEMMA MappedPoints ==
  ASSUME Types, NEW p \in Nodes
  PROVE  /\ Mapped(p) \in [Names -> Arrays]
         /\ Mapped(p)["q"] \in [Padded(num_nodes, p) -> Nat]
         /\ \A j \in Padded(num_nodes, p) :
              /\ at[p].var = 1 => Mapped(p)["q"][j] = mem[p]["q"][j]
              /\ at[p].var = 2 => Mapped(p)["q"][j] = MapVoid(mem[p]["q"][j])
  <1> DEFINE P == Padded(num_nodes, p)
             m == mem[p]
             b == [j \in P |-> MapVoid(m["q"][j])]
  <1>1. /\ m \in [Names -> Arrays] /\ m["q"] \in [P -> Nat] /\ "q" \in Names
        /\ at[p].var \in 1 .. 2 /\ (at[p].var = 1 \/ at[p].var = 2)
    <2>1. at[p].var \in 1 .. 2
      BY DEF Types, AtType, States
    <2> QED BY <2>1 DEF Types, MemTypes, Names
  <1>2. CASE at[p].var = 1
    <2>1. Mapped(p) = m
      BY <1>2, VariablesAre DEF Mapped, Var, BeforeWrite, Species
    <2> QED BY <1>1, <1>2, <2>1
  <1>3. CASE at[p].var = 2
    <2>1. DOMAIN m["q"] = P
      BY <1>1
    <2>2. Mapped(p) = [m EXCEPT !["q"] = b]
      BY <1>3, <2>1, VariablesAre DEF Mapped, Var, BeforeWrite, Species
    <2>3. \A j \in P : MapVoid(m["q"][j]) \in Nat
      BY <1>1 DEF MapVoid
    <2>4. b \in [P -> Nat] /\ \A j \in P : b[j] = MapVoid(m["q"][j])
      BY <2>3
    <2>5. b \in Arrays
      BY <2>4, ArraysAre
    <2>6. Mapped(p) \in [Names -> Arrays] /\ Mapped(p)["q"] = b
      <3> HIDE DEF b, m
      <3> QED BY <1>1, <2>2, <2>5
    <2> HIDE DEF b, m
    <2> QED BY <1>3, <2>4, <2>6 DEF m
  <1> QED BY <1>1, <1>2, <1>3

LEMMA RestoredPoints ==
  ASSUME NEW p \in Nodes, NEW i \in 1 .. 2, NEW m \in [Names -> Arrays],
         m["q"] \in [Padded(num_nodes, p) -> Nat]
  PROVE  \A j \in Padded(num_nodes, p) :
           /\ i = 1 => AfterWrite(Variables[i], p, m)["q"][j] = m["q"][j]
           /\ i = 2 => AfterWrite(Variables[i], p, m)["q"][j] = RestoreMass(m["q"][j])
  <1> DEFINE P == Padded(num_nodes, p)
             b == [j \in P |-> RestoreMass(m["q"][j])]
  <1>1. i = 1 => AfterWrite(Variables[i], p, m) = m
    BY VariablesAre DEF AfterWrite, Species
  <1>2. ASSUME i = 2 PROVE AfterWrite(Variables[i], p, m)["q"] = b
    <2>1. DOMAIN m["q"] = P /\ "q" \in Names
      BY DEF Names
    <2>2. AfterWrite(Variables[i], p, m) = [m EXCEPT !["q"] = b]
      BY <1>2, <2>1, VariablesAre DEF AfterWrite, Species
    <2> HIDE DEF b
    <2> QED BY <2>1, <2>2
  <1>3. \A j \in P : b[j] = RestoreMass(m["q"][j])
    OBVIOUS
  <1> HIDE DEF b
  <1> QED BY <1>1, <1>2, <1>3

(* A call that returns is one round of the mixing ratio, and none of another *)
(* variable.                                                                 *)
LEMMA RoundsStep ==
  ASSUME Types, job = "write", NEW p \in Nodes, at[p].stage \in {"array", "sending"},
         Proceed(p), UNCHANGED layout_vars
  PROVE  /\ at'[p].stage # "sending"
         /\ at[p].var = 1 => Rounds(p)' = Rounds(p)
         /\ at[p].var = 2 => Rounds(p)' = Rounds(p) + 1
         /\ Rounds(p) \in 0 .. MaxNodes - 1
  <1> DEFINE a == at[p]
  <1>1. num_nodes \in 1 .. MaxNodes /\ MaxNodes \in Nat /\ num_nodes' = num_nodes
    <2>1. num_nodes \in 1 .. MaxNodes
      BY DEF Types, Scalars
    <2> QED BY <2>1, LayoutKept, BoundsAssumption, RowsAre
  <1>2. /\ at \in [Nodes -> States] /\ num_nodes \in Nat \ {0} /\ Nodes = 0 .. num_nodes - 1
        /\ a \in States /\ a.node \in 0 .. num_nodes - 1 /\ (a.var = 1 \/ a.var = 2)
    <2>1. num_nodes \in Nat \ {0} /\ Nodes = 0 .. num_nodes - 1 /\ at \in [Nodes -> States]
      BY <1>1, NodesAre DEF Types, AtType
    <2>2. a \in States
      BY <2>1
    <2>3. a.node \in Nodes /\ a.var \in 1 .. 2
      BY <2>2 DEF States
    <2> HIDE DEF a
    <2> QED BY <2>1, <2>2, <2>3
  <1>3. Rounds(p) = a.node /\ a.node \in 0 .. MaxNodes - 1
    <2>1. Rounds(p) = a.node
      BY DEF Rounds
    <2> HIDE DEF a
    <2> QED BY <2>1, <1>1, <1>2
  <1>4. at'[p] = NextCall(a)
    BY <1>2 DEF Proceed
  <1>5. NextCall(a) =
          IF a.var < 2 THEN [stage |-> "array", node |-> a.node, var |-> a.var + 1]
          ELSE IF a.node < num_nodes - 1
            THEN [stage |-> "array", node |-> a.node + 1, var |-> 1]
            ELSE [a EXCEPT !.stage = "done"]
    BY VariablesAre DEF NextCall, LastNode
  <1>6. CASE a.var = 1
    <2>1. at'[p].stage = "array" /\ at'[p].node = a.node
      BY <1>4, <1>5, <1>6
    <2> QED BY <2>1, <1>3, <1>6 DEF Rounds
  <1>7. CASE a.var = 2 /\ a.node < num_nodes - 1
    <2>1. at'[p].stage = "array" /\ at'[p].node = a.node + 1
      BY <1>4, <1>5, <1>7
    <2> QED BY <2>1, <1>3, <1>7 DEF Rounds
  <1>8. CASE a.var = 2 /\ ~(a.node < num_nodes - 1)
    <2>1. at'[p].stage = "done"
      BY <1>2, <1>4, <1>5, <1>8 DEF States
    <2>2. Rounds(p)' = num_nodes
      BY <2>1, <1>1 DEF Rounds
    <2>3. num_nodes = a.node + 1
      <3> HIDE DEF a
      <3> QED BY <1>2, <1>8
    <2> QED BY <2>1, <2>2, <2>3, <1>3, <1>8
  <1> QED BY <1>2, <1>6, <1>7, <1>8, <1>3

(* The orbit goes on by a round. *)
LEMMA OrbitStep ==
  ASSUME Types, NEW p \in Nodes, NEW j \in Padded(num_nodes, p), NEW k \in 0 .. MaxNodes - 1
  PROVE  Orbit(field["q"][Image(j)])[k + 1] = RestoreMass(MapVoid(Orbit(field["q"][Image(j)])[k]))
  <1>1. field["q"][Image(j)] \in Nat
    BY NodeRows DEF Names
  <1> QED BY <1>1, OrbitIs DEF IsOrbit, Round

(* Other processes keep what they have. *)
LEMMA RoundsOthers ==
  ASSUME RoundsInv, UNCHANGED layout_vars, NEW p \in Nodes,
         \A q \in Nodes : q # p => at'[q] = at[q] /\ mem'[q] = mem[q],
         job = "write" => RoundedAt(p)'
  PROVE  RoundsInv'
  <1>1. job' = job /\ field' = field /\ num_nodes' = num_nodes /\ Nodes' = Nodes
    BY LayoutKept
  <1>2. ASSUME job = "write", NEW q \in Nodes PROVE RoundedAt(q)'
    <2>1. CASE q = p
      BY <2>1, <1>2
    <2>2. CASE q # p
      <3>1. RoundedAt(q) /\ at'[q] = at[q] /\ mem'[q] = mem[q]
        BY <1>2, <2>2 DEF RoundsInv
      <3>2. Rounds(q)' = Rounds(q)
        BY <3>1, <1>1 DEF Rounds
      <3> QED BY <3>1, <3>2, <1>1 DEF RoundedAt, Rounded
    <2> QED BY <2>1, <2>2
  <1> QED BY <1>1, <1>2 DEF RoundsInv

(* A process returns from write_array(), with the mixing ratios m mapped. *)
LEMMA RoundsReturn ==
  ASSUME Types, RoundsInv, job = "write", NEW p \in Nodes, at[p].stage \in {"array", "sending"},
         Proceed(p), UNCHANGED layout_vars,
         NEW m \in [Names -> Arrays], m["q"] \in [Padded(num_nodes, p) -> Nat],
         \A j \in Padded(num_nodes, p) :
           /\ at[p].var = 1 => m["q"][j] = Orbit(field["q"][Image(j)])[Rounds(p)]
           /\ at[p].var = 2 => m["q"][j] = MapVoid(Orbit(field["q"][Image(j)])[Rounds(p)]),
         mem' = [mem EXCEPT ![p] = AfterWrite(Variables[at[p].var], p, m)]
  PROVE  RoundsInv'
  <1> DEFINE i == at[p].var
             a == AfterWrite(Variables[i], p, m)
  <1>1. /\ at'[p].stage # "sending"
        /\ i = 1 => Rounds(p)' = Rounds(p)
        /\ i = 2 => Rounds(p)' = Rounds(p) + 1
        /\ Rounds(p) \in 0 .. MaxNodes - 1
    BY RoundsStep
  <1>2. i \in 1 .. 2 /\ (i = 1 \/ i = 2)
    <2>1. i \in 1 .. 2
      BY DEF Types, AtType, States
    <2> HIDE DEF i
    <2> QED BY <2>1
  <1>3. \A j \in Padded(num_nodes, p) : /\ i = 1 => a["q"][j] = m["q"][j]
                                        /\ i = 2 => a["q"][j] = RestoreMass(m["q"][j])
    BY <1>2, RestoredPoints
  <1>4. mem'[p] = a /\ \A q \in Nodes : q # p => mem'[q] = mem[q]
    <2> HIDE DEF a
    <2>1. mem' = [mem EXCEPT ![p] = a] /\ DOMAIN mem = Nodes
      BY DEF a, Types, MemTypes
    <2> QED BY <2>1
  <1> HIDE DEF a
  <1>5. \A q \in Nodes : q # p => at'[q] = at[q]
    BY ProceedIs
  <1>6. /\ job' = job /\ field' = field /\ num_nodes' = num_nodes
    BY LayoutKept
  <1>7. ASSUME NEW j \in Padded(num_nodes, p)
        PROVE  mem'[p]["q"][j] = Orbit(field["q"][Image(j)])[Rounds(p)']
    <2>1. CASE i = 1
      BY <2>1, <1>1, <1>3, <1>4, <1>7
    <2>2. CASE i = 2
      <3>1. mem'[p]["q"][j] = RestoreMass(MapVoid(Orbit(field["q"][Image(j)])[Rounds(p)]))
        BY <2>2, <1>3, <1>4, <1>7
      <3> QED BY <3>1, <2>2, <1>1, OrbitStep
    <2> QED BY <2>1, <2>2, <1>2
  <1>8. RoundedAt(p)'
    BY <1>1, <1>6, <1>7 DEF RoundedAt, Rounded
  <1> QED BY <1>4, <1>5, <1>8, RoundsOthers

(* A process at a call that is not sending has gone through whole rounds. *)
LEMMA RoundsMapped ==
  ASSUME Types, RoundsInv, job = "write", NEW p \in Nodes, at[p].stage = "array"
  PROVE  /\ Mapped(p) \in [Names -> Arrays]
         /\ Mapped(p)["q"] \in [Padded(num_nodes, p) -> Nat]
         /\ \A j \in Padded(num_nodes, p) :
              /\ at[p].var = 1 => Mapped(p)["q"][j] = Orbit(field["q"][Image(j)])[Rounds(p)]
              /\ at[p].var = 2 => Mapped(p)["q"][j] = MapVoid(Orbit(field["q"][Image(j)])[Rounds(p)])
  <1>1. \A j \in Padded(num_nodes, p) : mem[p]["q"][j] = Orbit(field["q"][Image(j)])[Rounds(p)]
    BY DEF RoundsInv, RoundedAt, Rounded
  <1> QED BY <1>1, MappedPoints

LEMMA RoundsOfWrite ==
  ASSUME Inv, RoundsInv, NEW p \in Nodes,
         WriteArrayAside(p) \/ WriteArrayReceive(p) \/ WriteArrayOwn(p)
  PROVE  RoundsInv'
  <1>1. /\ job = "write" /\ at[p].stage = "array" /\ Proceed(p) /\ UNCHANGED layout_vars
        /\ mem' = [mem EXCEPT ![p] = AfterWrite(Variables[at[p].var], p, Mapped(p))]
    BY DEF WriteArrayAside, WriteArrayReceive, WriteArrayOwn, Here, Written, Var
  <1>2. Types
    BY DEF Inv
  <1> QED BY <1>1, <1>2, RoundsMapped, RoundsReturn

LEMMA RoundsOfSend ==
  ASSUME Inv, RoundsInv, NEW p \in Nodes, WriteArraySend(p)
  PROVE  RoundsInv'
  <1>1. /\ job = "write" /\ at[p].stage = "array" /\ at[p].node = p /\ p # NODE0
        /\ at' = [at EXCEPT ![p].stage = "sending"] /\ UNCHANGED <<layout_vars, known>>
        /\ mem' = [mem EXCEPT ![p] = Mapped(p)]
    BY DEF WriteArraySend, Here, Node
  <1>2. Types /\ KnownInv /\ StageInv /\ DOMAIN mem = Nodes
    BY DEF Inv, Types, MemTypes
  <1>3. /\ at'[p].stage = "sending" /\ at'[p].node = at[p].node /\ at'[p].var = at[p].var
        /\ \A q \in Nodes : q # p => at'[q] = at[q]
    BY <1>1, <1>2, SendingIs
  <1>4. mem'[p] = Mapped(p) /\ \A q \in Nodes : q # p => mem'[q] = mem[q]
    BY <1>1, <1>2
  <1>5. job' = job /\ field' = field /\ num_nodes' = num_nodes
    BY <1>1, LayoutKept
  <1>6. Rounds(p)' = Rounds(p) /\ (at[p].var = 1 \/ at[p].var = 2)
    <2>1. at[p].var \in 1 .. 2
      BY <1>2 DEF Types, AtType, States
    <2> QED BY <2>1, <1>1, <1>3 DEF Rounds
  <1>7. \A j \in Padded(num_nodes, p) :
          /\ at[p].var = 1 => mem'[p]["q"][j] = Orbit(field["q"][Image(j)])[Rounds(p)]
          /\ at[p].var = 2 => mem'[p]["q"][j] = MapVoid(Orbit(field["q"][Image(j)])[Rounds(p)])
    BY <1>1, <1>2, <1>4, RoundsMapped
  <1>8. RoundedAt(p)'
    BY <1>3, <1>5, <1>6, <1>7 DEF RoundedAt, Rounded
  <1> QED BY <1>1, <1>3, <1>4, <1>8, RoundsOthers

LEMMA RoundsOfReturn ==
  ASSUME Inv, RoundsInv, job = "write", NEW p \in Nodes, SendReturns(p)
  PROVE  RoundsInv'
  <1>1. /\ at[p].stage = "sending" /\ Proceed(p) /\ UNCHANGED layout_vars
        /\ mem' = [mem EXCEPT ![p] = AfterWrite(Variables[at[p].var], p, mem[p])]
    BY DEF SendReturns, Written, Var
  <1>2. Types /\ mem[p] \in [Names -> Arrays] /\ mem[p]["q"] \in [Padded(num_nodes, p) -> Nat]
    BY DEF Inv, Types, MemTypes, Names
  <1>3. \A j \in Padded(num_nodes, p) :
          /\ at[p].var = 1 => mem[p]["q"][j] = Orbit(field["q"][Image(j)])[Rounds(p)]
          /\ at[p].var = 2 => mem[p]["q"][j] = MapVoid(Orbit(field["q"][Image(j)])[Rounds(p)])
    BY <1>1 DEF RoundsInv, RoundedAt, Rounded
  <1> QED BY <1>1, <1>2, <1>3, RoundsReturn

(* Before the first call a process has gone through no round. *)
LEMMA RoundsEarly ==
  ASSUME Inv, RoundsInv, NEW p \in Nodes, Open(p) \/ Setup(p)
  PROVE  RoundsInv'
  <1>1. /\ UNCHANGED <<layout_vars, mem>> /\ at[p].stage \in {"open", "setup"}
        /\ at \in [Nodes -> States] /\ at[p] \in States
    BY DEF Open, Setup, Inv, Types, AtType
  <1>2. /\ at'[p].stage = "setup" \/ (at'[p].stage = "array" /\ at'[p].node = 0)
        /\ \A q \in Nodes : q # p => at'[q] = at[q]
    <2>1. CASE Open(p)
      <3> DEFINE b == [at[p] EXCEPT !.stage = "setup"]
      <3>1. b.stage = "setup"
        BY <1>1 DEF States
      <3>2. at' = [at EXCEPT ![p] = b]
        BY <2>1 DEF Open
      <3> HIDE DEF b
      <3> QED BY <1>1, <3>1, <3>2
    <2>2. CASE Setup(p)
      <3> DEFINE b == IF at[p].node < num_nodes - 1 THEN [at[p] EXCEPT !.node = at[p].node + 1]
                      ELSE [stage |-> "array", node |-> 0, var |-> 1]
      <3>1. at' = [at EXCEPT ![p] = b] /\ at[p].stage = "setup"
        BY <2>2 DEF Setup
      <3>2. b.stage = "setup" \/ (b.stage = "array" /\ b.node = 0)
        BY <1>1, <3>1 DEF States
      <3> HIDE DEF b
      <3> QED BY <1>1, <3>1, <3>2
    <2> QED BY <2>1, <2>2
  <1>3. job' = job /\ field' = field /\ num_nodes' = num_nodes /\ mem' = mem
    BY <1>1, LayoutKept
  <1>4. Rounds(p) = 0 /\ Rounds(p)' = 0
    BY <1>1, <1>2 DEF Rounds
  <1>5. job = "write" => RoundedAt(p)'
    <2>1. at[p].stage # "sending" /\ at'[p].stage # "sending"
      BY <1>1, <1>2
    <2> QED BY <2>1, <1>3, <1>4 DEF RoundsInv, RoundedAt, Rounded
  <1> QED BY <1>1, <1>2, <1>3, <1>5, RoundsOthers

LEMMA RoundsInit ==
  ASSUME Init
  PROVE  RoundsInv
  <1> SUFFICES ASSUME NEW p \in Nodes, NEW j \in Padded(num_nodes, p)
               PROVE  Rounded(p, mem[p]["q"][j], field["q"][Image(j)])
    BY DEF RoundsInv, RoundedAt
  <1>1. Inv
    BY InitInv
  <1>2. at[p].stage = "open"
    BY Opening DEF Init, Beginning, Begun
  <1>3. field["q"][Image(j)] \in Nat
    BY <1>1, NodeRows DEF Inv, Names
  <1>4. mem[p]["q"][j] = field["q"][Image(j)]
    BY DEF Init, Names
  <1>5. Orbit(field["q"][Image(j)])[0] = field["q"][Image(j)]
    BY <1>3, OrbitIs DEF IsOrbit
  <1> QED BY <1>2, <1>4, <1>5 DEF Rounded, Rounds

LEMMA RoundsNext ==
  ASSUME Inv, RoundsInv, [Next]_vars
  PROVE  RoundsInv'
  <1>1. CASE job' # "write"
    BY <1>1 DEF RoundsInv
  <1>2. CASE job' = "write" /\ job # "write"
    BY <1>2 DEF Next, Progress, Run, Open, Setup, WriteArrayAside, WriteArraySend,
       WriteArrayReceive, WriteArrayOwn, ReadArrayAside, ReadArraySend, ReadArrayReceive,
       ReadArrayOwn, SendReturns, BcLateral, NetcdfError, NextRun, vars, layout_vars
  <1>3. CASE job = "write" /\ job' = "write"
    <2>1. ASSUME NEW p \in Nodes, Run(p) PROVE RoundsInv'
      <3>1. ~ReadArrayAside(p) /\ ~ReadArraySend(p) /\ ~ReadArrayReceive(p) /\ ~ReadArrayOwn(p)
        BY <1>3 DEF ReadArrayAside, ReadArraySend, ReadArrayReceive, ReadArrayOwn
      <3> QED BY <2>1, <3>1, <1>3, RoundsEarly, RoundsOfWrite, RoundsOfSend, RoundsOfReturn
              DEF Run
    <2>2. ~BcLateral
      <3>1. NODE0 \in Nodes /\ \A p \in Nodes : at[p].stage # "edges"
        BY <1>3, NodesAre DEF Inv, Types, Scalars, StageInv
      <3> QED BY <3>1 DEF BcLateral
    <2>3. ~NextRun
      BY <1>3 DEF NextRun
    <2>4. CASE UNCHANGED <<layout_vars, at, mem>>
      <3>1. /\ job' = job /\ field' = field /\ num_nodes' = num_nodes /\ Nodes' = Nodes
            /\ at' = at /\ mem' = mem
        BY <2>4, LayoutKept
      <3> QED BY <3>1 DEF RoundsInv, RoundedAt, Rounded, Rounds
    <2> QED BY <2>1, <2>2, <2>3, <2>4 DEF Next, Progress, NetcdfError, vars
  <1> QED BY <1>1, <1>2, <1>3

(* No bc_lateral() is needed after var_write(): the pads of every process agree *)
(* with the rows they are copies of, however far apart in time they were mapped *)
(* and restored; and so they do after var_read(), which calls it.               *)
THEOREM PadsKept == Spec => []PadsAgree
  <1>1. Inv /\ RoundsInv => PadsAgree
    <2> SUFFICES ASSUME Inv, RoundsInv, AllDone, NEW p \in Nodes, NEW n \in Nodes,
                        NEW j \in Padded(num_nodes, p), Image(j) \in Owned(num_nodes, n),
                        NEW v \in Names
                 PROVE  mem[p][v][j] = mem[n][v][Image(j)]
      BY DEF PadsAgree
    <2>1. /\ Image(j) \in Padded(num_nodes, n) /\ Image(Image(j)) = Image(j)
      BY NodeRows DEF Inv
    <2>2. /\ at[p].stage = "done" /\ at[n].stage = "done" /\ job \in {"write", "read"}
      BY DEF AllDone, Inv, Types, Scalars
    <2>3. CASE job = "read"
      BY <2>1, <2>2, <2>3 DEF Inv, ReadInv
    <2>4. CASE job = "write" /\ v = "theta"
      BY <2>1, <2>4 DEF Inv, MemInv
    <2>5. CASE job = "write" /\ v = "q"
      <3>1. Rounds(p) = num_nodes /\ Rounds(n) = num_nodes
        BY <2>2 DEF Rounds
      <3>2. Rounded(p, mem[p]["q"][j], field["q"][Image(j)])
        BY <2>5 DEF RoundsInv, RoundedAt
      <3>3. Rounded(n, mem[n]["q"][Image(j)], field["q"][Image(j)])
        BY <2>1, <2>5 DEF RoundsInv, RoundedAt
      <3> QED BY <2>2, <2>5, <3>1, <3>2, <3>3 DEF Rounded
    <2> QED BY <2>2, <2>3, <2>4, <2>5 DEF Names
  <1>2. Init => RoundsInv
    BY RoundsInit
  <1>3. Inv /\ RoundsInv /\ [Next]_vars => RoundsInv'
    BY RoundsNext
  <1> QED BY <1>1, <1>2, <1>3, Invariance, PTL DEF Spec

-----------------------------------------------------------------------------
(* Nobody waits for ever, as far as a safety property can say so: somebody    *)
(* can go on as long as not all are done, and every step is one forward.      *)

(* How far a process is: it opens the file, learns of the nodes, and goes     *)
(* through the calls, each with a place to be at it and one to be sending.    *)
Turn(n, i) == num_nodes + 4 * n + 2 * i

Place(p) ==
  CASE at[p].stage = "open"    -> 0
    [] at[p].stage = "setup"   -> 1 + at[p].node
    [] at[p].stage = "array"   -> Turn(at[p].node, at[p].var)
    [] at[p].stage = "sending" -> Turn(at[p].node, at[p].var) + 1
    [] at[p].stage = "edges"   -> 5 * num_nodes + 2
    [] at[p].stage = "done"    -> 5 * num_nodes + 3

(* The process has sent, or has received, in the call for variable i of node n. *)
Gone(p, n, i) == Place(p) > Turn(n, i)

Sender(n)   == IF job = "write" THEN n ELSE NODE0
Receiver(n) == IF job = "write" THEN NODE0 ELSE n

OnTheWay(n, i) == {m \in msgs : m.node = n /\ m.var = Variables[i]}

(* A message is on the way from when it is sent until it is received. *)
MailAt(n, i) ==
  /\ Gone(Receiver(n), n, i) => Gone(Sender(n), n, i)
  /\ OnTheWay(n, i) # {} <=> Gone(Sender(n), n, i) /\ ~Gone(Receiver(n), n, i)
  /\ \A m1, m2 \in OnTheWay(n, i) : m1 = m2

MailInv == \A n \in Nodes \ {NODE0}, i \in 1 .. 2 : MailAt(n, i)

(* bc_lateral() returns everywhere or nowhere. *)
DoneInv == job = "read" => \A p, q \in Nodes : at[p].stage = "done" => at[q].stage = "done"

(* Process p can take its next step: the guards of Run(p). *)
Receives(p) == Participates(p) /\ (IF job = "write" THEN p # Node(p) ELSE p # NODE0)

Ready(p) ==
  \/ at[p].stage = "open" /\ (job = "read" /\ p # NODE0 => at[NODE0].stage # "open")
  \/ /\ at[p].stage = "setup"
     /\ at[at[p].node].stage # "open"
     /\ at[at[p].node].stage = "setup" => at[at[p].node].node >= at[p].node
  \/ at[p].stage = "array" /\ (Receives(p) => Matching(p) # {})
  \/ at[p].stage = "sending" /\ (buffered \/ Matching(p) = {})

(* Those of BcLateral. *)
AllAtEdges == \A p \in Nodes : at[p].stage = "edges"

(* A step forward: of some process, and of none back. *)
Advances ==
  /\ \A p \in Nodes : Place(p) <= Place(p)'
  /\ \E p \in Nodes : Place(p) < Place(p)'

LEMMA TurnOrder ==
  ASSUME Types
  PROVE  /\ num_nodes \in Nat \ {0} /\ Nodes = 0 .. num_nodes - 1 /\ NODE0 \in Nodes
         /\ \A n \in Nodes, i \in 1 .. 2 :
              /\ Turn(n, i) \in Nat /\ num_nodes + 2 <= Turn(n, i) /\ Turn(n, i) <= 5 * num_nodes
              /\ n # NODE0 => num_nodes + 4 < Turn(n, i)
         /\ \A n, m \in Nodes, i, k \in 1 .. 2 :
              /\ Turn(n, i) = Turn(m, k) <=> n = m /\ i = k
              /\ Turn(n, i) < Turn(m, k) <=> n < m \/ (n = m /\ i < k)
              /\ Turn(n, i) < Turn(m, k) => Turn(n, i) + 2 <= Turn(m, k)
  <1>1. num_nodes \in Nat \ {0} /\ Nodes = 0 .. num_nodes - 1 /\ NODE0 \in Nodes
    BY NodesAre DEF Types, Scalars
  <1>2. ASSUME NEW n \in Nodes, NEW i \in 1 .. 2
        PROVE  /\ Turn(n, i) \in Nat /\ num_nodes + 2 <= Turn(n, i) /\ Turn(n, i) <= 5 * num_nodes
               /\ n # NODE0 => num_nodes + 4 < Turn(n, i)
    BY <1>1 DEF Turn, NODE0
  <1>3. ASSUME NEW n \in Nodes, NEW m \in Nodes, NEW i \in 1 .. 2, NEW k \in 1 .. 2
        PROVE  /\ Turn(n, i) = Turn(m, k) <=> n = m /\ i = k
               /\ Turn(n, i) < Turn(m, k) <=> n < m \/ (n = m /\ i < k)
               /\ Turn(n, i) < Turn(m, k) => Turn(n, i) + 2 <= Turn(m, k)
    BY <1>1 DEF Turn
  <1> QED BY <1>1, <1>2, <1>3

(* Between two turns there is a place for one who sends. *)
LEMMA TurnsApart ==
  ASSUME Types, NEW n \in Nodes, NEW m \in Nodes, NEW i \in 1 .. 2, NEW k \in 1 .. 2
  PROVE  /\ Turn(n, i) \in Nat /\ Turn(n, i) <= 5 * num_nodes
         /\ Turn(n, i) = Turn(m, k) <=> n = m /\ i = k
         /\ Turn(m, k) < Turn(n, i) => Turn(m, k) + 2 <= Turn(n, i)
  BY TurnOrder

LEMMA AtIs ==
  ASSUME Types, NEW p \in Nodes
  PROVE  /\ at[p].node \in Nodes /\ at[p].var \in 1 .. 2
         /\ at[p].stage \in {"open", "setup", "array", "sending", "edges", "done"}
         /\ at \in [Nodes -> States] /\ at[p] \in States
         /\ job \in {"write", "read"}
  BY DEF Types, Scalars, AtType, States, Stages

LEMMA PlaceIs ==
  ASSUME Types, NEW p \in Nodes
  PROVE  /\ at[p].stage = "open" => Place(p) = 0
         /\ at[p].stage = "setup" => Place(p) = 1 + at[p].node
         /\ at[p].stage = "array" => Place(p) = Turn(at[p].node, at[p].var)
         /\ at[p].stage = "sending" => Place(p) = Turn(at[p].node, at[p].var) + 1
         /\ at[p].stage = "edges" => Place(p) = 5 * num_nodes + 2
         /\ at[p].stage = "done" => Place(p) = 5 * num_nodes + 3
         /\ at[p].stage \in {"open", "setup"} => Place(p) <= num_nodes
         /\ Place(p) \in 0 .. 5 * num_nodes + 3
  <1>1. /\ at[p].node \in Nodes /\ at[p].var \in 1 .. 2
        /\ at[p].stage \in {"open", "setup", "array", "sending", "edges", "done"}
    BY AtIs
  <1>2. /\ num_nodes \in Nat \ {0} /\ Nodes = 0 .. num_nodes - 1
        /\ Turn(at[p].node, at[p].var) \in Nat /\ Turn(at[p].node, at[p].var) <= 5 * num_nodes
    BY <1>1, TurnOrder
  <1>3. /\ at[p].stage = "open" => Place(p) = 0
        /\ at[p].stage = "setup" => Place(p) = 1 + at[p].node
        /\ at[p].stage = "array" => Place(p) = Turn(at[p].node, at[p].var)
        /\ at[p].stage = "sending" => Place(p) = Turn(at[p].node, at[p].var) + 1
        /\ at[p].stage = "edges" => Place(p) = 5 * num_nodes + 2
        /\ at[p].stage = "done" => Place(p) = 5 * num_nodes + 3
    BY DEF Place
  <1>4. at[p].stage \in {"open", "setup"} => Place(p) <= num_nodes
    BY <1>1, <1>2, <1>3
  <1>5. Place(p) \in 0 .. 5 * num_nodes + 3
    BY <1>1, <1>2, <1>3
  <1> QED BY <1>3, <1>4, <1>5

LEMMA PlaceTells ==
  ASSUME Types, NEW q \in Nodes, NEW n \in Nodes, NEW i \in 1 .. 2, Place(q) = Turn(n, i)
  PROVE  at[q].stage = "array" /\ at[q].node = n /\ at[q].var = i
  <1> DEFINE here == Turn(at[q].node, at[q].var)
  <1>1. /\ at[q].stage \in {"open", "setup", "array", "sending", "edges", "done"}
        /\ at[q].node \in Nodes /\ at[q].var \in 1 .. 2
    BY AtIs
  <1>2. /\ Turn(n, i) \in Nat /\ num_nodes + 2 <= Turn(n, i) /\ Turn(n, i) <= 5 * num_nodes
        /\ num_nodes \in Nat
    BY TurnOrder
  <1>3. /\ here \in Nat
        /\ here = Turn(n, i) <=> at[q].node = n /\ at[q].var = i
        /\ here < Turn(n, i) => here + 2 <= Turn(n, i)
    BY <1>1, TurnsApart
  <1>4. at[q].stage \in {"open", "setup"} => Place(q) <= num_nodes
    BY PlaceIs
  <1>5. /\ at[q].stage = "array" => Place(q) = here
        /\ at[q].stage = "sending" => Place(q) = here + 1
        /\ at[q].stage = "edges" => Place(q) = 5 * num_nodes + 2
        /\ at[q].stage = "done" => Place(q) = 5 * num_nodes + 3
    BY PlaceIs
  <1> HIDE DEF here
  <1>6. at[q].stage \notin {"open", "setup"}
    <2>1. Place(q) <= num_nodes => FALSE
      BY <1>2
    <2> QED BY <1>4, <2>1
  <1>7. at[q].stage \notin {"edges", "done"}
    BY <1>2, <1>5
  <1>8. at[q].stage # "sending"
    <2>1. here + 1 = Turn(n, i) => FALSE
      BY <1>2, <1>3
    <2> QED BY <1>5, <2>1
  <1> QED BY <1>1, <1>3, <1>5, <1>6, <1>7, <1>8

(* A call that returns takes its process past its turn, to the next. *)
LEMMA ProceedGoes ==
  ASSUME Types, NEW p \in Nodes, at[p].stage \in {"array", "sending"}, Proceed(p),
         UNCHANGED layout_vars
  PROVE  /\ Place(p) < Place(p)'
         /\ \A q \in Nodes : q # p => at'[q] = at[q]
         /\ \A n \in Nodes, i \in 1 .. 2 :
              Gone(p, n, i)' <=> Gone(p, n, i) \/ (n = at[p].node /\ i = at[p].var)
  <1> DEFINE a == at[p]
             b == at'[p]
  <1>1. /\ a.node \in Nodes /\ a.var \in 1 .. 2 /\ at \in [Nodes -> States] /\ a \in States
        /\ job' = job /\ num_nodes' = num_nodes
    BY AtIs, LayoutKept
  <1>2. /\ b = NextCall(a) /\ \A q \in Nodes : q # p => at'[q] = at[q]
    BY <1>1 DEF Proceed
  <1>3. num_nodes \in Nat \ {0} /\ Nodes = 0 .. num_nodes - 1
    BY TurnOrder
  <1>4. \/ a.var = 1 /\ b = [stage |-> "array", node |-> a.node, var |-> 2]
        \/ a.var = 2 /\ a.node < num_nodes - 1 /\ b = [stage |-> "array", node |-> a.node + 1, var |-> 1]
        \/ a.var = 2 /\ a.node = num_nodes - 1 /\ b.stage \in {"done", "edges"}
    <2> HIDE DEF a, b
    <2>1. b = IF a.var < 2 THEN [stage |-> "array", node |-> a.node, var |-> a.var + 1]
              ELSE IF a.node < num_nodes - 1
                THEN [stage |-> "array", node |-> a.node + 1, var |-> 1]
                ELSE [a EXCEPT !.stage = IF job = "write" THEN "done" ELSE "edges"]
      BY <1>2, VariablesAre DEF NextCall, LastNode
    <2>2. [a EXCEPT !.stage = IF job = "write" THEN "done" ELSE "edges"].stage \in {"done", "edges"}
      BY <1>1 DEF States
    <2>3. CASE a.var = 1
      <3>1. b = [stage |-> "array", node |-> a.node, var |-> a.var + 1]
        BY <2>1, <2>3
      <3> QED BY <3>1, <2>3
    <2>4. CASE a.var = 2 /\ a.node < num_nodes - 1
      BY <2>1, <2>4
    <2>5. CASE a.var = 2 /\ a.node = num_nodes - 1
      <3>1. b = [a EXCEPT !.stage = IF job = "write" THEN "done" ELSE "edges"]
        BY <2>1, <2>5, <1>3
      <3> QED BY <3>1, <2>2, <2>5
    <2> QED BY <1>1, <1>3, <2>3, <2>4, <2>5
  <1> DEFINE here == Turn(a.node, a.var)
  <1>5. Place(p) \in {here, here + 1}
    BY PlaceIs
  <1>6. /\ b.stage = "array" => Place(p)' = Turn(b.node, b.var)
        /\ b.stage = "edges" => Place(p)' = 5 * num_nodes + 2
        /\ b.stage = "done" => Place(p)' = 5 * num_nodes + 3
    BY <1>1 DEF Place, Turn
  <1>7. \/ /\ a.var = 1 /\ Place(p)' = here + 2
        \/ /\ a.var = 2 /\ a.node < num_nodes - 1 /\ Place(p)' = here + 2
        \/ /\ a.var = 2 /\ a.node = num_nodes - 1 /\ Place(p)' \in {here + 2, here + 3}
    <2> HIDE DEF a, b
    <2>1. CASE a.var = 1
      <3>1. b.stage = "array" /\ b.node = a.node /\ b.var = 2
        BY <1>4, <2>1
      <3>2. Place(p)' = Turn(a.node, 2)
        BY <1>6, <3>1
      <3> QED BY <1>1, <1>3, <2>1, <3>2 DEF Turn
    <2>2. CASE a.var = 2 /\ a.node < num_nodes - 1
      <3>1. b.stage = "array" /\ b.node = a.node + 1 /\ b.var = 1
        BY <1>1, <1>3, <1>4, <2>2
      <3>2. Place(p)' = Turn(a.node + 1, 1)
        BY <1>6, <3>1
      <3> QED BY <1>1, <1>3, <2>2, <3>2 DEF Turn
    <2>3. CASE a.var = 2 /\ a.node = num_nodes - 1
      <3>1. b.stage \in {"done", "edges"}
        BY <1>1, <1>3, <1>4, <2>3
      <3>2. here = 5 * num_nodes
        BY <1>3, <2>3 DEF Turn
      <3> QED BY <1>3, <1>6, <2>3, <3>1, <3>2
    <2> QED BY <1>1, <1>3, <2>1, <2>2, <2>3
  <1>8. here \in Nat
    BY <1>1, TurnOrder
  <1>9. /\ Place(p)' \in Nat /\ here + 2 <= Place(p)'
        /\ Place(p)' = here + 2 \/ here = 5 * num_nodes
    <2>1. a.var = 2 /\ a.node = num_nodes - 1 => here = 5 * num_nodes
      BY <1>3 DEF Turn
    <2> HIDE DEF here, a, b
    <2> QED BY <1>7, <1>8, <2>1
  <1> HIDE DEF here, b
  <1>10. Place(p) < Place(p)'
    BY <1>5, <1>8, <1>9
  <1>11. ASSUME NEW n \in Nodes, NEW i \in 1 .. 2
         PROVE  Gone(p, n, i)' <=> Gone(p, n, i) \/ (n = a.node /\ i = a.var)
    <2>1. /\ Turn(n, i) \in Nat /\ Turn(n, i) <= 5 * num_nodes
          /\ Turn(n, i) = here <=> n = a.node /\ i = a.var
          /\ here < Turn(n, i) => here + 2 <= Turn(n, i)
      BY <1>1, TurnsApart DEF here
    <2>2. Turn(n, i)' = Turn(n, i)
      BY <1>1 DEF Turn
    <2>3. /\ Gone(p, n, i) <=> Place(p) > Turn(n, i)
          /\ Gone(p, n, i)' <=> Place(p)' > Turn(n, i)
      BY <2>2 DEF Gone
    <2> HIDE DEF a
    <2>4. CASE here = Turn(n, i)
      BY <1>8, <1>9, <2>1, <2>3, <2>4
    <2>5. CASE here < Turn(n, i)
      <3>1. ~(here = 5 * num_nodes)
        BY <1>3, <1>8, <2>1, <2>5
      <3> QED BY <1>5, <1>8, <1>9, <2>1, <2>3, <2>5, <3>1
    <2>6. CASE Turn(n, i) < here
      BY <1>5, <1>8, <1>9, <2>1, <2>3, <2>6
    <2> QED BY <1>8, <2>1, <2>4, <2>5, <2>6
  <1> QED BY <1>2, <1>10, <1>11

(* A process that begins to send has gone. *)
LEMMA SendGoes ==
  ASSUME Types, KnownInv, StageInv, NEW p \in Nodes, at[p].stage = "array",
         at' = [at EXCEPT ![p].stage = "sending"], UNCHANGED <<layout_vars, known>>,
         job = "write" => p = at[p].node /\ p # NODE0,
         job = "read" => p = NODE0 /\ at[p].node # NODE0
  PROVE  /\ Place(p) < Place(p)'
         /\ \A q \in Nodes : q # p => at'[q] = at[q]
         /\ \A n \in Nodes, i \in 1 .. 2 :
              Gone(p, n, i)' <=> Gone(p, n, i) \/ (n = at[p].node /\ i = at[p].var)
  <1>1. /\ at'[p].stage = "sending" /\ at'[p].node = at[p].node /\ at'[p].var = at[p].var
        /\ \A q \in Nodes : q # p => at'[q] = at[q]
        /\ num_nodes' = num_nodes
    BY SendingIs, LayoutKept
  <1> DEFINE here == Turn(at[p].node, at[p].var)
  <1>2. here \in Nat /\ Place(p) = here /\ Place(p)' = here + 1
    BY <1>1, AtIs, TurnOrder, PlaceIs DEF Place, Turn
  <1>3. ASSUME NEW n \in Nodes, NEW i \in 1 .. 2
        PROVE  Gone(p, n, i)' <=> Gone(p, n, i) \/ (n = at[p].node /\ i = at[p].var)
    <2>1. /\ Turn(n, i) \in Nat
          /\ Turn(n, i) = here <=> n = at[p].node /\ i = at[p].var
          /\ here < Turn(n, i) => here + 2 <= Turn(n, i)
      <3>1. at[p].node \in Nodes /\ at[p].var \in 1 .. 2
        BY AtIs
      <3> QED BY <3>1, TurnsApart
    <2>2. Turn(n, i)' = Turn(n, i)
      BY <1>1 DEF Turn
    <2>3. /\ Gone(p, n, i) <=> Place(p) > Turn(n, i)
          /\ Gone(p, n, i)' <=> Place(p)' > Turn(n, i)
      BY <2>2 DEF Gone
    <2> HIDE DEF here
    <2> QED BY <1>2, <2>1, <2>3
  <1> HIDE DEF here
  <1> QED BY <1>1, <1>2, <1>3

(* Before the first call a process goes forward too, and has not gone yet. *)
LEMMA EarlyGoes ==
  ASSUME Types, StageInv, NEW p \in Nodes, Open(p) \/ Setup(p)
  PROVE  /\ Place(p) < Place(p)'
         /\ \A q \in Nodes : q # p => at'[q] = at[q]
         /\ \A n \in Nodes, i \in 1 .. 2 : ~Gone(p, n, i) /\ ~Gone(p, n, i)'
  <1>1. /\ UNCHANGED layout_vars /\ at[p].stage \in {"open", "setup"}
        /\ at \in [Nodes -> States] /\ at[p] \in States /\ at[p].node \in Nodes
        /\ num_nodes \in Nat \ {0} /\ Nodes = 0 .. num_nodes - 1
    BY AtIs, TurnOrder DEF Open, Setup
  <1>2. num_nodes' = num_nodes
    BY <1>1, LayoutKept
  <1>3. /\ \A q \in Nodes : q # p => at'[q] = at[q]
        /\ Place(p) < Place(p)' /\ Place(p)' \in 0 .. num_nodes + 2
    <2>1. CASE Open(p)
      <3> DEFINE b == [at[p] EXCEPT !.stage = "setup"]
      <3>1. b.stage = "setup" /\ b.node = at[p].node
        BY <1>1 DEF States
      <3>2. at' = [at EXCEPT ![p] = b] /\ at[p].stage = "open"
        BY <2>1 DEF Open
      <3> HIDE DEF b
      <3>3. at'[p] = b /\ \A q \in Nodes : q # p => at'[q] = at[q]
        BY <1>1, <3>2
      <3>4. Place(p) = 0 /\ Place(p)' = 1 + at[p].node
        BY <3>1, <3>2, <3>3 DEF Place
      <3> QED BY <1>1, <3>3, <3>4
    <2>2. CASE Setup(p)
      <3> DEFINE next == [at[p] EXCEPT !.node = at[p].node + 1]
                 first == [stage |-> "array", node |-> 0, var |-> 1]
                 b == IF at[p].node < num_nodes - 1 THEN next ELSE first
      <3>1. at' = [at EXCEPT ![p] = b] /\ at[p].stage = "setup"
        BY <2>2 DEF Setup
      <3>2. next.stage = "setup" /\ next.node = at[p].node + 1
        BY <1>1, <3>1 DEF States
      <3>3. first.stage = "array" /\ first.node = 0 /\ first.var = 1
        OBVIOUS
      <3> HIDE DEF next, first
      <3>4. at'[p] = b /\ \A q \in Nodes : q # p => at'[q] = at[q]
        BY <1>1, <3>1
      <3>5. Place(p) = 1 + at[p].node
        BY <3>1 DEF Place
      <3>6. CASE at[p].node < num_nodes - 1
        <4>1. at'[p] = next
          BY <3>4, <3>6
        <4>2. Place(p)' = 1 + (at[p].node + 1)
          BY <3>2, <4>1 DEF Place
        <4> QED BY <1>1, <3>4, <3>5, <3>6, <4>2
      <3>7. CASE ~(at[p].node < num_nodes - 1)
        <4>1. at'[p] = first
          BY <3>4, <3>7
        <4>2. Place(p)' = num_nodes + 4 * 0 + 2 * 1
          BY <1>2, <3>3, <4>1 DEF Place, Turn
        <4> QED BY <1>1, <3>4, <3>5, <3>7, <4>2
      <3> QED BY <3>6, <3>7
    <2> QED BY <2>1, <2>2
  <1>4. ASSUME NEW n \in Nodes, NEW i \in 1 .. 2
        PROVE  ~Gone(p, n, i) /\ ~Gone(p, n, i)'
    <2>1. Turn(n, i) \in Nat /\ num_nodes + 2 <= Turn(n, i) /\ Turn(n, i)' = Turn(n, i)
      BY <1>2, TurnOrder DEF Turn
    <2>2. Place(p) \in Nat /\ Place(p) <= num_nodes
      BY <1>1, PlaceIs
    <2> QED BY <1>1, <1>3, <2>1, <2>2 DEF Gone
  <1> QED BY <1>3, <1>4

(* A process that stays where it is has gone no further. *)
LEMMA GoneKept ==
  ASSUME NEW q, at'[q] = at[q], num_nodes' = num_nodes
  PROVE  Place(q)' = Place(q) /\ \A n, i : Gone(q, n, i)' <=> Gone(q, n, i)
  <1>1. Place(q)' = Place(q) /\ \A n, i : Turn(n, i)' = Turn(n, i)
    BY DEF Place, Turn
  <1> QED BY <1>1 DEF Gone

LEMMA SendersAre ==
  ASSUME Types, UNCHANGED layout_vars, NEW n \in Nodes
  PROVE  /\ Sender(n) \in Nodes /\ Receiver(n) \in Nodes
         /\ Sender(n)' = Sender(n) /\ Receiver(n)' = Receiver(n)
         /\ {Sender(n), Receiver(n)} = {n, NODE0}
         /\ n # NODE0 => Sender(n) # Receiver(n)
  <1>1. NODE0 \in Nodes /\ NODE0' = NODE0 /\ job' = job
    BY TurnOrder, LayoutKept DEF NODE0
  <1> QED BY <1>1 DEF Sender, Receiver

(* Neither end has moved past the turn of these messages. *)
LEMMA MailKept ==
  ASSUME Types, UNCHANGED layout_vars, NEW p \in Nodes, \A q \in Nodes : q # p => at'[q] = at[q],
         NEW n \in Nodes, NEW i \in 1 .. 2, MailAt(n, i), OnTheWay(n, i)' = OnTheWay(n, i),
         p \in {n, NODE0} => (Gone(p, n, i)' <=> Gone(p, n, i))
  PROVE  MailAt(n, i)'
  <1>1. ASSUME NEW q \in Nodes, q \in {n, NODE0} PROVE Gone(q, n, i)' <=> Gone(q, n, i)
    <2>1. CASE q = p
      BY <1>1, <2>1
    <2>2. CASE q # p
      BY <2>2, GoneKept, LayoutKept
    <2> QED BY <2>1, <2>2
  <1>2. /\ Sender(n) \in Nodes /\ Receiver(n) \in Nodes
        /\ Sender(n) \in {n, NODE0} /\ Receiver(n) \in {n, NODE0}
        /\ Sender(n)' = Sender(n) /\ Receiver(n)' = Receiver(n)
    BY SendersAre
  <1>3. /\ Gone(Sender(n), n, i)' <=> Gone(Sender(n), n, i)
        /\ Gone(Receiver(n), n, i)' <=> Gone(Receiver(n), n, i)
    BY <1>1, <1>2
  <1> QED BY <1>2, <1>3 DEF MailAt

(* A step changes messages of its own call only. *)
LEMMA OtherMail ==
  ASSUME NEW n \in Nodes, NEW m \in Nodes, NEW i \in 1 .. 2, NEW k \in 1 .. 2, n # m \/ i # k,
         \A x \in (msgs \ msgs') \cup (msgs' \ msgs) : x.node = m /\ x.var = Variables[k]
  PROVE  OnTheWay(n, i)' = OnTheWay(n, i)
  <1>1. Variables[i] = Variables[k] => i = k
    BY VariablesAre
  <1>2. \A x \in (msgs \ msgs') \cup (msgs' \ msgs) : ~(x.node = n /\ x.var = Variables[i])
    BY <1>1
  <1>3. Variables' = Variables
    BY DEF Variables
  <1> QED BY <1>2, <1>3 DEF OnTheWay

(* A process at a call, as it proceeds or begins to send. *)
Moves(p) ==
  /\ at[p].stage \in {"array", "sending"} /\ UNCHANGED layout_vars
  /\ \A q \in Nodes : q # p => at'[q] = at[q]
  /\ \A n \in Nodes, i \in 1 .. 2 :
       Gone(p, n, i)' <=> Gone(p, n, i) \/ (n = at[p].node /\ i = at[p].var)
  /\ Place(p) < Place(p)'

LEMMA CallsMove ==
  ASSUME Inv, NEW p \in Nodes, Run(p), ~Open(p), ~Setup(p)
  PROVE  Moves(p)
  <1>1. Types /\ KnownInv /\ StageInv
    BY DEF Inv
  <1>2. CASE \/ WriteArrayAside(p) \/ WriteArrayReceive(p) \/ WriteArrayOwn(p)
             \/ ReadArrayAside(p) \/ ReadArrayReceive(p) \/ ReadArrayOwn(p) \/ SendReturns(p)
    <2>1. at[p].stage \in {"array", "sending"} /\ Proceed(p) /\ UNCHANGED layout_vars
      BY <1>2 DEF WriteArrayAside, WriteArrayReceive, WriteArrayOwn, ReadArrayAside,
         ReadArrayReceive, ReadArrayOwn, SendReturns, Here
    <2> QED BY <1>1, <2>1, ProceedGoes DEF Moves
  <1>3. CASE WriteArraySend(p) \/ ReadArraySend(p)
    <2>1. /\ at[p].stage = "array" /\ at' = [at EXCEPT ![p].stage = "sending"]
          /\ UNCHANGED <<layout_vars, known>>
          /\ job = "write" => p = at[p].node /\ p # NODE0
          /\ job = "read" => p = NODE0 /\ at[p].node # NODE0
      BY <1>3 DEF WriteArraySend, ReadArraySend, Here, Node, Participates
    <2> QED BY <1>1, <2>1, SendGoes DEF Moves
  <1> QED BY <1>2, <1>3 DEF Run

(* The call a process is at, and its messages. *)
LEMMA MatchingIs ==
  ASSUME Types, NEW p \in Nodes
  PROVE  /\ Matching(p) = OnTheWay(at[p].node, at[p].var)
         /\ at[p].stage = "array" => ~Gone(p, at[p].node, at[p].var)
         /\ at[p].stage = "sending" => Gone(p, at[p].node, at[p].var)
  <1>1. Turn(at[p].node, at[p].var) \in Nat
    BY AtIs, TurnsApart
  <1> QED BY <1>1, PlaceIs DEF Matching, OnTheWay, Node, Var, Gone

LEMMA CallsKeepMail ==
  ASSUME Inv, MailInv, NEW p \in Nodes, Run(p), ~Open(p), ~Setup(p)
  PROVE  MailInv'
  <1> DEFINE k == at[p].node
             v == at[p].var
  <1>1. Types /\ Moves(p) /\ Nodes' = Nodes /\ k \in Nodes /\ v \in 1 .. 2 /\ NODE0' = NODE0
    BY CallsMove, LayoutKept, AtIs DEF Inv, Moves, NODE0
  <1>2. \A x \in (msgs \ msgs') \cup (msgs' \ msgs) : x.node = k /\ x.var = Variables[v]
    <2>1. CASE WriteArraySend(p) \/ ReadArraySend(p)
      <3>1. PICK a : msgs' = msgs \cup {Message(p, a)}
        BY <2>1 DEF WriteArraySend, ReadArraySend
      <3>2. Message(p, a).node = k /\ Message(p, a).var = Variables[v]
        BY DEF Message, Node, Var
      <3> QED BY <3>1, <3>2
    <2>2. CASE WriteArrayReceive(p) \/ ReadArrayReceive(p)
      <3>1. PICK m \in Matching(p) : msgs' = msgs \ {m}
        BY <2>2 DEF WriteArrayReceive, ReadArrayReceive
      <3> QED BY <3>1 DEF Matching, Node, Var
    <2>3. CASE \/ WriteArrayAside(p) \/ WriteArrayOwn(p) \/ ReadArrayAside(p) \/ ReadArrayOwn(p)
               \/ SendReturns(p)
      BY <2>3 DEF WriteArrayAside, WriteArrayOwn, ReadArrayAside, ReadArrayOwn, SendReturns
    <2> QED BY <2>1, <2>2, <2>3 DEF Run
  <1> SUFFICES ASSUME NEW n \in Nodes \ {NODE0}, NEW i \in 1 .. 2 PROVE MailAt(n, i)'
    BY <1>1 DEF MailInv
  <1>3. MailAt(n, i)
    BY DEF MailInv
  <1>4. CASE n # k \/ i # v
    <2>1. OnTheWay(n, i)' = OnTheWay(n, i)
      BY <1>1, <1>2, <1>4, OtherMail
    <2>2. Gone(p, n, i)' <=> Gone(p, n, i)
      BY <1>1, <1>4 DEF Moves
    <2> QED BY <1>1, <1>3, <2>1, <2>2, MailKept DEF Moves
  <1>5. CASE n = k /\ i = v
    <2>1. /\ Gone(p, n, i)'
          /\ at[p].stage = "array" => ~Gone(p, n, i)
          /\ at[p].stage = "sending" => Gone(p, n, i)
          /\ Matching(p) = OnTheWay(n, i)
      BY <1>1, <1>5, MatchingIs DEF Moves
    <2>2. /\ Sender(n) \in Nodes /\ Receiver(n) \in Nodes
          /\ Sender(n)' = Sender(n) /\ Receiver(n)' = Receiver(n)
          /\ Sender(n) # Receiver(n)
      BY <1>1, SendersAre DEF Moves
    <2>3. \A q \in Nodes : q # p => (Gone(q, n, i)' <=> Gone(q, n, i))
      BY <1>1, GoneKept, LayoutKept DEF Moves
    <2>4. CASE WriteArrayAside(p) \/ ReadArrayAside(p)
      <3>1. msgs' = msgs /\ p \notin {n, NODE0}
        BY <1>5, <2>4 DEF WriteArrayAside, ReadArrayAside, Participates, Node
      <3>2. OnTheWay(n, i)' = OnTheWay(n, i)
        BY <3>1 DEF OnTheWay, Variables
      <3> QED BY <1>1, <1>3, <3>1, <3>2, MailKept DEF Moves
    <2>5. CASE WriteArrayOwn(p) \/ ReadArrayOwn(p)
      BY <1>5, <2>5 DEF WriteArrayOwn, ReadArrayOwn, Node
    <2>6. CASE SendReturns(p)
      <3>1. msgs' = msgs /\ (Gone(p, n, i)' <=> Gone(p, n, i))
        BY <2>1, <2>6 DEF SendReturns
      <3>2. OnTheWay(n, i)' = OnTheWay(n, i)
        BY <3>1 DEF OnTheWay, Variables
      <3> QED BY <1>1, <1>3, <3>1, <3>2, MailKept DEF Moves
    <2>7. CASE WriteArraySend(p) \/ ReadArraySend(p)
      <3>1. PICK a : msgs' = msgs \cup {Message(p, a)}
        BY <2>7 DEF WriteArraySend, ReadArraySend
      <3>2. Sender(n) = p /\ at[p].stage = "array"
        BY <1>5, <2>7 DEF WriteArraySend, ReadArraySend, Sender, Node, Here, Participates
      <3>3. ~Gone(Sender(n), n, i) /\ OnTheWay(n, i) = {} /\ ~Gone(Receiver(n), n, i)
        BY <1>3, <2>1, <3>2 DEF MailAt
      <3>4. OnTheWay(n, i)' = {Message(p, a)}
        <4>1. Message(p, a).node = n /\ Message(p, a).var = Variables[i]
          BY <1>5 DEF Message, Node, Var
        <4> QED BY <3>1, <3>3, <4>1 DEF OnTheWay, Variables
      <3>5. Gone(Sender(n), n, i)' /\ ~Gone(Receiver(n), n, i)'
        BY <2>1, <2>2, <2>3, <3>2, <3>3
      <3> QED BY <2>2, <3>4, <3>5 DEF MailAt
    <2>8. CASE WriteArrayReceive(p) \/ ReadArrayReceive(p)
      <3>1. PICK m \in Matching(p) : msgs' = msgs \ {m}
        BY <2>8 DEF WriteArrayReceive, ReadArrayReceive
      <3>2. Receiver(n) = p
        BY <1>5, <2>8 DEF WriteArrayReceive, ReadArrayReceive, Receiver, Node, Participates
      <3>3. Gone(Sender(n), n, i) /\ OnTheWay(n, i) = {m}
        BY <1>3, <2>1, <3>1 DEF MailAt
      <3>4. OnTheWay(n, i)' = {}
        BY <3>1, <3>3 DEF OnTheWay, Variables
      <3>5. Gone(Sender(n), n, i)' /\ Gone(Receiver(n), n, i)'
        BY <2>1, <2>2, <2>3, <3>2, <3>3
      <3> QED BY <2>2, <3>4, <3>5 DEF MailAt
    <2> QED BY <2>4, <2>5, <2>6, <2>7, <2>8 DEF Run
  <1> QED BY <1>4, <1>5

(* Before the first call nothing is on the way. *)
Fresh == Types /\ msgs = {} /\ \A p \in Nodes : at[p].stage = "open"

LEMMA MailBegins == Fresh => MailInv /\ DoneInv
  <1> SUFFICES ASSUME Types, \A p \in Nodes : at[p].stage = "open", msgs = {},
                      NEW n \in Nodes \ {NODE0}, NEW i \in 1 .. 2
               PROVE  MailAt(n, i)
    BY DEF MailInv, DoneInv, Fresh
  <1>1. Sender(n) \in Nodes /\ Receiver(n) \in Nodes
    BY TurnOrder DEF Sender, Receiver
  <1>2. ASSUME NEW q \in Nodes PROVE ~Gone(q, n, i)
    <2>1. Place(q) = 0 /\ Turn(n, i) \in Nat
      BY PlaceIs, TurnsApart
    <2> QED BY <2>1 DEF Gone
  <1> QED BY <1>1, <1>2 DEF MailAt, OnTheWay

LEMMA MailNext ==
  ASSUME Inv, Inv', MailInv, [Next]_vars
  PROVE  MailInv'
  <1>1. ASSUME NEW p \in Nodes, Open(p) \/ Setup(p) PROVE MailInv'
    <2>1. Types /\ StageInv /\ UNCHANGED layout_vars /\ msgs' = msgs
      BY <1>1 DEF Inv, Open, Setup
    <2>2. Nodes' = Nodes /\ NODE0' = NODE0
      BY <2>1, LayoutKept DEF NODE0
    <2>3. ASSUME NEW n \in Nodes \ {NODE0}, NEW i \in 1 .. 2 PROVE MailAt(n, i)'
      <3>1. OnTheWay(n, i)' = OnTheWay(n, i)
        BY <2>1 DEF OnTheWay, Variables
      <3>2. MailAt(n, i)
        BY DEF MailInv
      <3> QED BY <1>1, <2>1, <3>1, <3>2, EarlyGoes, MailKept
    <2> QED BY <2>2, <2>3 DEF MailInv
  <1>2. CASE BcLateral
    <2>1. /\ UNCHANGED layout_vars /\ msgs' = msgs /\ \A p \in Nodes : at[p].stage = "edges"
          /\ at' = [p \in Nodes |-> [at[p] EXCEPT !.stage = "done"]]
          /\ Types /\ Types'
      BY <1>2 DEF BcLateral, Inv
    <2>2. Nodes' = Nodes /\ NODE0' = NODE0 /\ num_nodes' = num_nodes
      BY <2>1, LayoutKept DEF NODE0
    <2>3. \A p \in Nodes : at'[p].stage = "done"
      BY <2>1, AtIs DEF States
    <2>4. ASSUME NEW q \in Nodes, NEW n \in Nodes, NEW i \in 1 .. 2
          PROVE  Gone(q, n, i) /\ Gone(q, n, i)'
      <3>1. Turn(n, i) \in Nat /\ Turn(n, i) <= 5 * num_nodes /\ Turn(n, i)' = Turn(n, i)
        BY <2>1, <2>2, TurnsApart DEF Turn
      <3>2. Place(q) = 5 * num_nodes + 2 /\ Place(q)' = 5 * num_nodes + 3
        BY <2>1, <2>2, <2>3 DEF Place
      <3>3. num_nodes \in Nat
        BY <2>1, TurnOrder
      <3> QED BY <3>1, <3>2, <3>3 DEF Gone
    <2>5. ASSUME NEW n \in Nodes \ {NODE0}, NEW i \in 1 .. 2 PROVE MailAt(n, i)'
      <3>1. OnTheWay(n, i)' = OnTheWay(n, i)
        BY <2>1 DEF OnTheWay, Variables
      <3>2. /\ Sender(n) \in Nodes /\ Receiver(n) \in Nodes
            /\ Sender(n)' = Sender(n) /\ Receiver(n)' = Receiver(n)
        BY <2>1, SendersAre
      <3>3. /\ Gone(Sender(n), n, i) /\ Gone(Sender(n), n, i)'
            /\ Gone(Receiver(n), n, i) /\ Gone(Receiver(n), n, i)'
        BY <2>4, <3>2
      <3>4. MailAt(n, i)
        BY DEF MailInv
      <3> QED BY <3>1, <3>2, <3>3, <3>4 DEF MailAt
    <2> QED BY <2>2, <2>5 DEF MailInv
  <1>3. CASE UNCHANGED <<layout_vars, at, msgs>>
    <2>1. /\ Types /\ UNCHANGED layout_vars /\ at' = at /\ msgs' = msgs
          /\ Nodes' = Nodes /\ NODE0' = NODE0 /\ num_nodes' = num_nodes /\ NODE0 \in Nodes
      BY <1>3, LayoutKept, TurnOrder DEF NODE0, Inv
    <2>2. ASSUME NEW n \in Nodes \ {NODE0}, NEW i \in 1 .. 2 PROVE MailAt(n, i)'
      <3>1. OnTheWay(n, i)' = OnTheWay(n, i)
        BY <2>1 DEF OnTheWay, Variables
      <3>2. MailAt(n, i)
        BY DEF MailInv
      <3>3. Gone(NODE0, n, i)' <=> Gone(NODE0, n, i)
        BY <2>1, GoneKept
      <3> QED BY <2>1, <3>1, <3>2, <3>3, MailKept
    <2> QED BY <2>1, <2>2 DEF MailInv
  <1>4. CASE NextRun
    <2>1. Beginning' /\ msgs' = {} /\ Inv'
      BY <1>4 DEF NextRun, Beginning
    <2>2. Begun'
      BY <2>1, Opening, PTL
    <2>3. Fresh'
      BY <2>1, <2>2 DEF Begun, Fresh, Inv
    <2> QED BY <2>3, MailBegins, PTL
  <1> QED BY <1>1, <1>2, <1>3, <1>4, CallsKeepMail
          DEF Next, Progress, NetcdfError, vars

(* bc_lateral() returns everywhere at once. *)
LEMMA DoneNext ==
  ASSUME Inv, Inv', DoneInv, [Next]_vars
  PROVE  DoneInv'
  <1> SUFFICES ASSUME job' = "read", NEW p \in Nodes', NEW q \in Nodes', at'[p].stage = "done"
               PROVE  at'[q].stage = "done"
    BY DEF DoneInv
  <1>1. ~NextRun
    <2> SUFFICES ASSUME NextRun PROVE FALSE
      OBVIOUS
    <2>1. Beginning'
      BY DEF NextRun, Beginning
    <2>2. Begun'
      BY <2>1, Opening, PTL
    <2>3. at'[p].stage = "open"
      BY <2>2 DEF Begun
    <2> QED BY <2>3
  <1>2. CASE BcLateral
    <2>1. Nodes' = Nodes /\ at' = [x \in Nodes |-> [at[x] EXCEPT !.stage = "done"]]
      BY <1>2, LayoutKept DEF BcLateral
    <2>2. at[q] \in States
      BY <2>1, AtIs DEF Inv
    <2> QED BY <2>1, <2>2 DEF States
  <1>3. ASSUME NEW x \in Nodes, Run(x) PROVE at'[q].stage = "done"
    <2>1. /\ UNCHANGED layout_vars /\ \A y \in Nodes : y # x => at'[y] = at[y]
          /\ at[x].stage # "done" /\ Types
      <3>1. CASE Open(x) \/ Setup(x)
        BY <3>1, EarlyGoes DEF Open, Setup, Inv
      <3>2. CASE ~Open(x) /\ ~Setup(x)
        BY <1>3, <3>2, CallsMove DEF Moves, Inv
      <3> QED BY <3>1, <3>2
    <2>2. Nodes' = Nodes /\ job' = job
      BY <2>1, LayoutKept
    <2>3. at'[x].stage # "done"
      <3>1. CASE Open(x) \/ Setup(x)
        <4>1. ~Gone(x, NODE0, 1)'
          BY <3>1, TurnOrder, EarlyGoes DEF Inv
        <4>2. /\ num_nodes \in Nat /\ num_nodes' = num_nodes
              /\ Turn(NODE0, 1)' = Turn(NODE0, 1) /\ Turn(NODE0, 1) \in Nat
              /\ Turn(NODE0, 1) <= 5 * num_nodes
          <5>1. num_nodes' = num_nodes /\ num_nodes \in Nat /\ NODE0 \in Nodes
            BY <2>1, LayoutKept, TurnOrder
          <5>2. Turn(NODE0, 1)' = Turn(NODE0, 1)
            BY <5>1 DEF Turn, NODE0
          <5> QED BY <2>1, <5>1, <5>2, TurnsApart
        <4>3. at'[x].stage = "done" => Place(x)' = 5 * num_nodes + 3
          BY <4>2 DEF Place
        <4> QED BY <4>1, <4>2, <4>3 DEF Gone
      <3>2. CASE WriteArraySend(x) \/ ReadArraySend(x)
        <4>1. at' = [at EXCEPT ![x].stage = "sending"]
          BY <3>2 DEF WriteArraySend, ReadArraySend
        <4> QED BY <2>1, <4>1, AtIs DEF States
      <3>3. CASE Proceed(x) /\ at[x].stage \in {"array", "sending"}
        BY <2>1, <2>2, <3>3, ProceedIs
      <3> QED BY <1>3, <3>1, <3>2, <3>3 DEF Run, Here, WriteArrayAside, WriteArrayReceive,
                 WriteArrayOwn, ReadArrayAside, ReadArrayReceive, ReadArrayOwn, SendReturns
    <2> QED BY <2>1, <2>2, <2>3 DEF DoneInv
  <1>4. CASE UNCHANGED <<layout_vars, at>>
    <2>1. Nodes' = Nodes /\ job' = job /\ at' = at
      BY <1>4, LayoutKept
    <2> QED BY <2>1 DEF DoneInv
  <1> QED BY <1>1, <1>2, <1>3, <1>4 DEF Next, Progress, NetcdfError, vars

LEMMA Mail == Spec => [](Inv /\ MailInv /\ DoneInv)
  <1>1. Init => MailInv /\ DoneInv
    <2> SUFFICES ASSUME Init PROVE MailInv /\ DoneInv
      OBVIOUS
    <2>1. Fresh
      BY InitInv, Opening DEF Init, Beginning, Begun, Inv, Fresh
    <2> QED BY <2>1, MailBegins
  <1>2. Inv /\ Inv' /\ MailInv /\ DoneInv /\ [Next]_vars => MailInv' /\ DoneInv'
    BY MailNext, DoneNext
  <1> QED BY <1>1, <1>2, Invariance, PTL DEF Spec

(* Who cannot take a step waits for one that is behind, or that can. *)
LEMMA WaitsForOther ==
  ASSUME Inv, MailInv, NEW p \in Nodes, ~Ready(p), at[p].stage \notin {"edges", "done"}
  PROVE  \E q \in Nodes : Place(q) < Place(p) \/ Ready(q)
  <1>1. Types /\ StageInv /\ NODE0 \in Nodes /\ num_nodes \in Nat \ {0}
        /\ Nodes = 0 .. num_nodes - 1
    BY TurnOrder DEF Inv
  <1>2. /\ at[p].node \in Nodes /\ at[p].var \in 1 .. 2 /\ job \in {"write", "read"}
        /\ at[p].stage \in {"open", "setup", "array", "sending"}
    BY <1>1, AtIs
  <1>3. CASE at[p].stage = "open"
    <2>1. Ready(NODE0)
      BY <1>3 DEF Ready
    <2> QED BY <1>1, <2>1
  <1>4. CASE at[p].stage = "setup"
    <2> DEFINE n == at[p].node
    <2>1. at[n].stage = "open" \/ (at[n].stage = "setup" /\ at[n].node < n)
      <3>1. at[n].node \in Nodes /\ n \in Nodes
        BY <1>1, <1>2, AtIs
      <3> QED BY <1>1, <1>4, <3>1 DEF Ready
    <2>2. Place(p) = 1 + n /\ n \in Nat /\ n \in Nodes
      BY <1>1, <1>2, <1>4, PlaceIs
    <2>3. CASE at[n].stage = "open"
      BY <1>1, <2>2, <2>3, PlaceIs
    <2>4. CASE at[n].stage = "setup" /\ at[n].node < n
      <3> HIDE DEF n
      <3>1. at[n].node \in Nodes
        BY <1>1, <2>2, AtIs
      <3>2. Place(n) = 1 + at[n].node
        BY <1>1, <2>2, <2>4, PlaceIs
      <3>3. at[n].node \in Nat
        BY <1>1, <3>1
      <3> QED BY <2>2, <2>4, <3>2, <3>3
    <2> QED BY <2>1, <2>3, <2>4
  <1> DEFINE n == at[p].node
             i == at[p].var
  <1>5. /\ Turn(n, i) \in Nat
        /\ Matching(p) = OnTheWay(n, i)
        /\ at[p].stage = "array" => Place(p) = Turn(n, i) /\ ~Gone(p, n, i)
        /\ at[p].stage = "sending" => Place(p) = Turn(n, i) + 1 /\ Gone(p, n, i)
    <2>1. Turn(n, i) \in Nat
      <3> HIDE DEF n, i
      <3>1. n \in Nodes /\ i \in 1 .. 2
        BY <1>2 DEF n, i
      <3> QED BY <1>1, <3>1, TurnsApart
    <2>2. /\ at[p].stage = "array" => Place(p) = Turn(n, i)
          /\ at[p].stage = "sending" => Place(p) = Turn(n, i) + 1
      BY <1>1, PlaceIs
    <2>3. /\ Matching(p) = OnTheWay(n, i)
          /\ at[p].stage = "array" => ~Gone(p, n, i)
          /\ at[p].stage = "sending" => Gone(p, n, i)
      BY <1>1, MatchingIs
    <2> QED BY <2>1, <2>2, <2>3
  <1>6. n # NODE0 => MailAt(n, i)
    BY <1>2 DEF MailInv
  <1> HIDE DEF n, i
  <1>7. CASE at[p].stage = "array"
    <2>1. Receives(p) /\ Matching(p) = {}
      BY <1>7 DEF Ready
    <2>2. n # NODE0 /\ p = Receiver(n)
      BY <1>1, <1>2, <2>1 DEF Receives, Participates, Node, Receiver, n
    <2>3. ~Gone(Sender(n), n, i) /\ Sender(n) \in Nodes
      BY <1>1, <1>2, <1>5, <1>6, <1>7, <2>1, <2>2 DEF MailAt, Sender, n
    <2>4. PICK q \in Nodes : q = Sender(n) /\ Place(q) \in Nat /\ Place(q) <= Turn(n, i)
      <3>1. Place(Sender(n)) \in Nat
        BY <1>1, <2>3, PlaceIs
      <3> QED BY <1>5, <2>3, <3>1 DEF Gone
    <2>5. CASE Place(q) < Turn(n, i)
      BY <1>5, <1>7, <2>5
    <2>6. CASE Place(q) = Turn(n, i)
      <3>1. at[q].stage = "array" /\ at[q].node = n /\ at[q].var = i
        BY <1>1, <1>2, <2>6, PlaceTells DEF n, i
      <3>2. ~Receives(q)
        BY <1>1, <1>2, <2>2, <2>4, <3>1 DEF Receives, Node, Sender, Participates
      <3> QED BY <3>1, <3>2 DEF Ready
    <2> QED BY <1>5, <2>4, <2>5, <2>6
  <1>8. CASE at[p].stage = "sending"
    <2>1. Matching(p) # {}
      BY <1>8 DEF Ready
    <2>2. n # NODE0 /\ Receiver(n) \in Nodes
      BY <1>1, <1>2, <1>8 DEF StageInv, Receiver, n
    <2>3. ~Gone(Receiver(n), n, i)
      BY <1>5, <1>6, <2>1, <2>2 DEF MailAt
    <2>4. Place(Receiver(n)) \in Nat
      BY <1>1, <2>2, PlaceIs
    <2> QED BY <1>5, <1>8, <2>2, <2>3, <2>4 DEF Gone
  <1> QED BY <1>2, <1>3, <1>4, <1>7, <1>8

LEMMA SomebodyReady ==
  ASSUME Inv, MailInv, DoneInv, status = "running", ~AllDone, ~AllAtEdges
  PROVE  \E p \in Nodes : Ready(p)
  <1> SUFFICES ASSUME \A p \in Nodes : ~Ready(p) PROVE FALSE
    OBVIOUS
  <1> DEFINE places == {Place(p) : p \in Nodes}
  <1>1. Types /\ NODE0 \in Nodes
    BY TurnOrder DEF Inv
  <1>2. places # {} /\ places \subseteq Nat
    BY <1>1, PlaceIs
  <1>3. PICK x \in places : \A y \in places : x <= y
    BY <1>2, LeastNumber
  <1>4. PICK p \in Nodes : x = Place(p)
    OBVIOUS
  <1>5. ASSUME NEW q \in Nodes PROVE Place(q) \in Nat /\ Place(p) <= Place(q)
    BY <1>2, <1>3, <1>4
  <1>6. at[p].stage \in {"edges", "done"}
    <2> SUFFICES ASSUME at[p].stage \notin {"edges", "done"} PROVE FALSE
      OBVIOUS
    <2>1. PICK q \in Nodes : Place(q) < Place(p)
      BY WaitsForOther
    <2> QED BY <1>5, <2>1
  <1>7. ASSUME NEW q \in Nodes PROVE at[q].stage \in {"edges", "done"}
    <2> DEFINE here == Turn(at[q].node, at[q].var)
    <2>1. /\ at[q].node \in Nodes /\ at[q].var \in 1 .. 2
          /\ at[q].stage \in {"open", "setup", "array", "sending", "edges", "done"}
      BY <1>1, AtIs
    <2>2. here \in Nat /\ here <= 5 * num_nodes /\ num_nodes \in Nat
      BY <1>1, <2>1, TurnOrder
    <2>3. Place(p) >= 5 * num_nodes + 2
      BY <1>1, <1>6, <2>2, PlaceIs
    <2>4. /\ at[q].stage \in {"open", "setup"} => Place(q) <= num_nodes
          /\ at[q].stage = "array" => Place(q) = here
          /\ at[q].stage = "sending" => Place(q) = here + 1
      BY <1>1, PlaceIs
    <2> HIDE DEF here
    <2>5. Place(q) \in Nat /\ Place(p) \in Nat /\ Place(p) <= Place(q)
      BY <1>5
    <2>6. at[q].stage \notin {"open", "setup"}
      <3>1. Place(q) <= num_nodes => FALSE
        BY <2>2, <2>3, <2>5
      <3> QED BY <2>4, <3>1
    <2>7. at[q].stage \notin {"array", "sending"}
      <3>1. Place(q) # here /\ Place(q) # here + 1
        BY <2>2, <2>3, <2>5
      <3> QED BY <2>4, <3>1
    <2> QED BY <2>1, <2>6, <2>7
  <1>8. CASE job = "write"
    <2>1. \A q \in Nodes : at[q].stage = "done"
      BY <1>7, <1>8 DEF Inv, StageInv
    <2> QED BY <2>1 DEF AllDone
  <1>9. CASE job = "read"
    BY <1>7, <1>9 DEF DoneInv, AllDone, AllAtEdges
  <1> QED BY <1>1, <1>8, <1>9, AtIs

(* Never does everybody wait for somebody else, even if MPI keeps no message: *)
(* as long as a call of var_write() or var_read() is left, some process can   *)
(* go on, or all are at bc_lateral().                                         *)
THEOREM NeverStuck ==
  Spec => [](status = "running" => AllDone \/ AllAtEdges \/ \E p \in Nodes : Ready(p))
  <1>1. Inv /\ MailInv /\ DoneInv =>
          (status = "running" => AllDone \/ AllAtEdges \/ \E p \in Nodes : Ready(p))
    BY SomebodyReady
  <1> QED BY <1>1, Mail, PTL

LEMMA PlacesAre == Types => \A p \in Nodes : Place(p) \in 0 .. 5 * num_nodes + 3
  BY PlaceIs

LEMMA ProgressAdvances ==
  ASSUME Inv, Inv', Progress
  PROVE  UNCHANGED layout_vars /\ Advances
  <1>1. Types /\ Types' /\ StageInv /\ num_nodes \in Nat
    BY TurnOrder DEF Inv
  <1>2. \A p \in Nodes : Place(p) \in 0 .. 5 * num_nodes + 3
    BY <1>1, PlacesAre
  <1>3. (\A p \in Nodes : Place(p) \in 0 .. 5 * num_nodes + 3)'
    BY <1>1, PlacesAre, PTL
  <1>4. ASSUME NEW p \in Nodes, Run(p) PROVE UNCHANGED layout_vars /\ Advances
    <2>1. /\ UNCHANGED layout_vars /\ Place(p) < Place(p)'
          /\ \A q \in Nodes : q # p => at'[q] = at[q]
      <3>1. CASE Open(p) \/ Setup(p)
        BY <1>1, <3>1, EarlyGoes DEF Open, Setup
      <3>2. CASE ~Open(p) /\ ~Setup(p)
        BY <1>4, <3>2, CallsMove DEF Moves
      <3> QED BY <3>1, <3>2
    <2>2. /\ Nodes' = Nodes /\ num_nodes' = num_nodes
          /\ \A q \in Nodes : q # p => Place(q)' = Place(q)
      BY <2>1, GoneKept, LayoutKept
    <2>3. ASSUME NEW q \in Nodes PROVE Place(q) <= Place(q)'
      <3>1. Place(q) \in Int /\ Place(q)' \in Int
        BY <1>1, <1>2, <1>3, <2>2
      <3> QED BY <2>1, <2>2, <3>1
    <2> QED BY <2>1, <2>3 DEF Advances
  <1>5. CASE BcLateral
    <2>1. /\ UNCHANGED layout_vars /\ NODE0 \in Nodes /\ \A q \in Nodes : at[q].stage = "edges"
          /\ at' = [q \in Nodes |-> [at[q] EXCEPT !.stage = "done"]]
      BY <1>1, <1>5, TurnOrder DEF BcLateral
    <2>2. num_nodes' = num_nodes /\ \A q \in Nodes : at'[q].stage = "done"
      BY <1>1, <2>1, LayoutKept, AtIs DEF States
    <2>3. \A q \in Nodes : Place(q) = 5 * num_nodes + 2 /\ Place(q)' = 5 * num_nodes + 3
      BY <2>1, <2>2 DEF Place
    <2> QED BY <1>1, <2>1, <2>3 DEF Advances
  <1> QED BY <1>4, <1>5 DEF Progress

(* And nobody goes round in circles: every step takes a process forward and   *)
(* none back, and how far there is to go has a bound.                         *)
THEOREM StepsLead ==
  Spec => /\ [](\A p \in Nodes : Place(p) \in 0 .. 5 * num_nodes + 3)
          /\ [][Progress => UNCHANGED layout_vars /\ Advances]_vars
  <1>1. Inv => \A p \in Nodes : Place(p) \in 0 .. 5 * num_nodes + 3
    BY PlacesAre DEF Inv
  <1>2. Inv /\ Inv' /\ [Next]_vars => [Progress => UNCHANGED layout_vars /\ Advances]_vars
    BY ProgressAdvances
  <1> QED BY <1>1, <1>2, Invariance, PTL DEF Spec

=============================================================================

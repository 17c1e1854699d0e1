------------------------- MODULE EdgeExchangeProofs -------------------------
(* Proofs for EdgeExchange: for any grid, any division of it and any pace of *)
(* the processes, bc_lateral() and the sums of zonal_filter() give every     *)
(* process what a serial run has, and never does everybody wait for another. *)
EXTENDS EdgeExchange, SubgridProofs, SequenceTheorems

(* The values a point may hold, raw and filtered. *)
RawValue == Int \X Int \X Int
Value(l) == RawValue \cup (Int \X [1 .. l.ni -> RawValue] \X Int)

Cols(l, p) == ILO(l, p) .. IHI(l, p)

Sub(l, p)    == ComputedRows(l, p) \X Cols(l, p)
Padded(l, p) == PaddedRows(l, p) \X PaddedCols(l, p)

(* The rows zonal_filter() takes for call c. *)
FilteredIn(l, p, c) ==
  IF c % 2 = 1
    THEN {j \in (IF HGrid(c) THEN JLO(l, p) ELSE JFIRST(l.geometry, JLO(l, p))) .. JHI(l, p) :
            j \in l.polar}
    ELSE {}

(* The calls of MPI_Allreduce() a process has not yet begun. *)
Future(p) ==
  {x \in (1 .. Calls) \X (0 .. layout.nj) :
     /\ x[2] \in FilteredIn(layout, p, x[1])
     /\ x[1] > call[p] \/ (x[1] = call[p] /\ x[2] > row[p])}

Filtering(p) == pc[p] \in {"rows", "allreduce"}

Exchanging(p) == pc[p] \in {"sendrecv", "wait", "arrived"}

(* The MPI_Sendrecv() at s of the present call has sent, and has received. *)
Passed(p, s) ==
  ~Filtering(p) /\ (Exchanging(p) => step[p] > s \/ (step[p] = s /\ pc[p] # "sendrecv"))
Got(p, s) ==
  ~Filtering(p) /\ (Exchanging(p) => step[p] > s \/ (step[p] = s /\ pc[p] = "arrived"))

(* The last calls it has sent and received a strip for. *)
LastSent(p, s) == IF Passed(p, s) THEN call[p] ELSE call[p] - 1
LastGot(p, s)  == IF Got(p, s) THEN call[p] ELSE call[p] - 1

(* Calls 1, 3, ... use one communicator, calls 2, 4, ... the other. *)
Count(c, comm) == IF comm = "ij" THEN (c + 1) \div 2 ELSE c \div 2
Nth(m, comm)   == IF comm = "ij" THEN 2 * m - 1 ELSE 2 * m

(* The strip a process sends at s for call c is that of a serial run: along   *)
(* a parallel the columns of its own, along a meridian every row of the grid. *)
Expected(l, p, s, c, strip) ==
  IF Axis(s) = 1
    THEN \A i \in Cols(l, p) :
           strip[i] = Serial(l, c)[IF Down(s) THEN JLO(l, p) ELSE JHI(l, p), i]
    ELSE \A j \in PaddedRows(l, p) \cap (0 .. l.nj + 1) :
           strip[j] = Serial(l, c)[j, IF Down(s) THEN ILO(l, p) ELSE IHI(l, p)]

(* The pad the MPI_Sendrecv() at s fills, as far as it is to be relied on. *)
Pad(l, p, s) ==
  CASE s = 0 -> {JHI(l, p) + 1} \X Cols(l, p)
    [] s = 1 -> {JLO(l, p) - 1} \X Cols(l, p)
    [] s = 2 -> PaddedRows(l, p) \X {IHI(l, p) + 1}
    [] s = 3 -> PaddedRows(l, p) \X {ILO(l, p) - 1}

StripType(l, p, s) == [(IF Axis(s) = 1 THEN PaddedCols(l, p) ELSE PaddedRows(l, p)) -> Value(l)]

-----------------------------------------------------------------------------

Types ==
  /\ layout \in Layouts /\ buffered \in BOOLEAN
  /\ pc \in [Process -> {"compute", "rows", "allreduce", "sendrecv", "wait", "arrived"}]
  /\ call \in [Process -> 0 .. Calls] /\ step \in [Process -> Steps]
  /\ row \in [Process -> -1 .. layout.nj]
  /\ DOMAIN given = Process /\ DOMAIN field = Process /\ DOMAIN sent = Process

FieldTypes == \A p \in Process : field[p] \in [Padded(layout, p) -> Value(layout)]

GivenTypes == \A p \in Process : given[p] \in Seq([Cols(layout, p) -> RawValue])

SentTypes ==
  \A p \in Process :
    /\ DOMAIN sent[p] = Steps
    /\ \A s \in Steps :
         /\ DOMAIN sent[p][s] = Comms
         /\ \A comm \in Comms : sent[p][s][comm] \in Seq(StripType(layout, p, s))

(* Where a process is. *)
PcAt(p) ==
  /\ ~Exchanging(p) => step[p] = 0
  /\ pc[p] # "compute" => call[p] >= 1
  /\ ~Filtering(p) => \A j \in FilteredIn(layout, p, call[p]) : j <= row[p]
  /\ pc[p] = "allreduce" => row[p] \in FilteredIn(layout, p, call[p])

(* The rows before and after they are filtered. *)
RowsAt(p) ==
  Filtering(p) => \A j \in ComputedRows(layout, p), i \in Cols(layout, p) :
    field[p][j, i] =
      IF /\ j \in FilteredIn(layout, p, call[p])
         /\ j < row[p] \/ (j = row[p] /\ pc[p] = "rows")
        THEN Serial(layout, call[p])[j, i] ELSE <<call[p], j, i>>

PcInv   == \A p \in Process : PcAt(p)
RowsInv == \A p \in Process : RowsAt(p)

(* Those who share rows make the same sums in the same order, and nobody is  *)
(* more than one ahead.                                                      *)
GivenAt(p, q) ==
  /\ pc[p] # "allreduce" => Len(given[p]) <= Len(given[q])
  /\ Len(given[p]) <= Len(given[q]) + 1
  /\ Len(given[p]) = Len(given[q]) => Future(p) = Future(q)
  /\ Len(given[p]) = Len(given[q]) + 1 => Future(q) = Future(p) \cup {<<call[p], row[p]>>}
  /\ pc[p] = "allreduce" =>
       /\ Len(given[p]) >= 1
       /\ Len(given[q]) >= Len(given[p]) =>
            \A i \in Cols(layout, q) : given[q][Len(given[p])][i] = <<call[p], row[p], i>>

GivenInv == \A p \in Process : \A q \in CommJLO(p) : GivenAt(p, q)

(* The subgrid and the pads that have been filled are those of a serial run. *)
FieldAt(p) ==
  ~Filtering(p) /\ call[p] >= 1 =>
    /\ \A x \in Sub(layout, p) : field[p][x] = Serial(layout, call[p])[x]
    /\ \A s \in Steps : Got(p, s) =>
         \A x \in Pad(layout, p, s) \cap Whole(layout) : field[p][x] = Serial(layout, call[p])[x]

FieldInv == \A p \in Process : FieldAt(p)

(* The messages on the way are those between the last call received and the  *)
(* last call sent, each with the strip of its call.                          *)
QueueAt(p, s, comm) ==
  /\ Dest(p, s) = {} => sent[p][s][comm] = << >>
  /\ \A q \in Dest(p, s) :
       /\ Len(sent[p][s][comm]) = Count(LastSent(p, s), comm) - Count(LastGot(q, s), comm)
       /\ \A k \in 1 .. Len(sent[p][s][comm]) :
            Expected(layout, p, s, Nth(Count(LastGot(q, s), comm) + k, comm), sent[p][s][comm][k])

QueueInv == \A p \in Process, s \in Steps, comm \in Comms : QueueAt(p, s, comm)

(* Unless MPI buffers, the only message of a sender is that of its present call. *)
UnbufferedInv ==
  ~buffered => \A p \in Process, s \in Steps, comm \in Comms :
    /\ Len(sent[p][s][comm]) <= 1
    /\ sent[p][s][comm] # << >> => pc[p] \in {"wait", "arrived"} /\ step[p] = s /\ comm = Comm(p)

IInv ==
  /\ Types /\ FieldTypes /\ GivenTypes /\ SentTypes
  /\ PcInv /\ RowsInv /\ GivenInv /\ FieldInv /\ QueueInv /\ UnbufferedInv

-----------------------------------------------------------------------------
(* The division of the grid.                                                 *)

LEMMA LayoutTypes ==
  ASSUME NEW l \in Layouts
  PROVE  /\ l.ni \in Nat \ {0} /\ l.nj \in Nat \ {0}
         /\ l.pi \in 1 .. l.ni /\ l.pj \in 1 .. l.nj
         /\ l.pi \in Nat \ {0} /\ l.pj \in Nat \ {0}
         /\ Row0(l) = IF Wrap(l.geometry) THEN 1 ELSE 0
  <1>1. l.ni \in Nat /\ l.nj \in Nat /\ l.pi \in 1 .. l.ni /\ l.pj \in 1 .. l.nj
    BY LayoutsAssumption
  <1>2. Row0(l) = IF Wrap(l.geometry) THEN 1 ELSE 0
    BY DEF Row0, JStart
  <1> QED BY <1>1, <1>2

(* One axis: the blocks of the processes, without a gap, from end to end. *)
LEMMA Blocks ==
  ASSUME NEW start \in {0, 1}, NEW n \in Nat \ {0}, NEW size \in 1 .. n, NEW r \in 0 .. size - 1
  PROVE  /\ MyLo(start, n, size, r) \in Int /\ MyHi(start, n, size, r) \in Int
         /\ start <= MyLo(start, n, size, r)
         /\ MyLo(start, n, size, r) <= MyHi(start, n, size, r)
         /\ MyHi(start, n, size, r) <= start + n - 1
         /\ r = 0 => MyLo(start, n, size, r) = start
         /\ r = size - 1 => MyHi(start, n, size, r) = start + n - 1
         /\ \A t \in 0 .. size - 1 :
              /\ t = r + 1 => MyLo(start, n, size, t) = MyHi(start, n, size, r) + 1
              /\ r < t => MyHi(start, n, size, r) < MyLo(start, n, size, t)
  <1>1. /\ MPE_Decomp1d(n, size, r).s \in Nat \ {0}
        /\ MPE_Decomp1d(n, size, r).e \in Nat
        /\ MPE_Decomp1d(n, size, r).s <= MPE_Decomp1d(n, size, r).e
        /\ MPE_Decomp1d(n, size, r).e <= n
        /\ r = 0 => MPE_Decomp1d(n, size, r).s = 1
        /\ r = size - 1 => MPE_Decomp1d(n, size, r).e = n
    BY BlocksInOrder
  <1>2. ASSUME NEW t \in 0 .. size - 1
        PROVE  /\ MPE_Decomp1d(n, size, t).s \in Nat
               /\ r < t => MPE_Decomp1d(n, size, r).e < MPE_Decomp1d(n, size, t).s
               /\ t = r + 1 => MPE_Decomp1d(n, size, t).s = MPE_Decomp1d(n, size, r).e + 1
    <2>1. MPE_Decomp1d(n, size, t).s \in Nat \ {0}
      BY BlocksInOrder
    <2>2. r < t => MPE_Decomp1d(n, size, r).e < MPE_Decomp1d(n, size, t).s
      BY BlocksInOrder
    <2>3. t = r + 1 => MPE_Decomp1d(n, size, t).s = MPE_Decomp1d(n, size, r).e + 1
      BY BlockIs
    <2> QED BY <2>1, <2>2, <2>3
  <1> QED BY <1>1, <1>2 DEF MyLo, MyHi

(* The subgrids. *)
LEMMA SubgridIs ==
  ASSUME NEW l \in Layouts, NEW p \in Processes(l)
  PROVE  /\ p[1] \in 0 .. l.pi - 1 /\ p[2] \in 0 .. l.pj - 1 /\ p = <<p[1], p[2]>>
         /\ ILO(l, p) \in Int /\ IHI(l, p) \in Int /\ JLO(l, p) \in Int /\ JHI(l, p) \in Int
         /\ 1 <= ILO(l, p) /\ ILO(l, p) <= IHI(l, p) /\ IHI(l, p) <= l.ni
         /\ Row0(l) <= JLO(l, p) /\ JLO(l, p) <= JHI(l, p) /\ JHI(l, p) <= l.nj
         /\ p[1] = 0 => ILO(l, p) = 1
         /\ p[1] = l.pi - 1 => IHI(l, p) = l.ni
         /\ p[2] = 0 => JLO(l, p) = Row0(l)
         /\ p[2] = l.pj - 1 => JHI(l, p) = l.nj
  <1>1. p[1] \in 0 .. l.pi - 1 /\ p[2] \in 0 .. l.pj - 1 /\ p = <<p[1], p[2]>>
    BY DEF Processes
  <1>2. Row0(l) \in {0, 1} /\ l.nj - Row0(l) + 1 \in Nat \ {0} /\ l.pj \in 1 .. l.nj - Row0(l) + 1
    BY LayoutTypes
  <1>3. Row0(l) + (l.nj - Row0(l) + 1) - 1 = l.nj
    BY <1>2, LayoutTypes
  <1> QED BY <1>1, <1>2, <1>3, Blocks, LayoutTypes DEF ILO, IHI, JLO, JHI

LEMMA SubgridsMeet ==
  ASSUME NEW l \in Layouts, NEW p \in Processes(l), NEW q \in Processes(l)
  PROVE  /\ q[1] = p[1] + 1 => ILO(l, q) = IHI(l, p) + 1
         /\ q[2] = p[2] + 1 => JLO(l, q) = JHI(l, p) + 1
         /\ q[1] = p[1] => ILO(l, q) = ILO(l, p) /\ IHI(l, q) = IHI(l, p)
         /\ q[2] = p[2] => JLO(l, q) = JLO(l, p) /\ JHI(l, q) = JHI(l, p)
         /\ JLO(l, q) = JLO(l, p) => q[2] = p[2]
  <1>1. /\ p[1] \in 0 .. l.pi - 1 /\ p[2] \in 0 .. l.pj - 1
        /\ q[1] \in 0 .. l.pi - 1 /\ q[2] \in 0 .. l.pj - 1
    BY DEF Processes
  <1>2. Row0(l) \in {0, 1} /\ l.nj - Row0(l) + 1 \in Nat \ {0} /\ l.pj \in 1 .. l.nj - Row0(l) + 1
    BY LayoutTypes
  <1>3. q[1] = p[1] + 1 => ILO(l, q) = IHI(l, p) + 1
    BY <1>1, Blocks, LayoutTypes DEF ILO, IHI
  <1>4. q[2] = p[2] + 1 => JLO(l, q) = JHI(l, p) + 1
    BY <1>1, <1>2, Blocks DEF JLO, JHI
  <1>5. /\ q[1] = p[1] => ILO(l, q) = ILO(l, p) /\ IHI(l, q) = IHI(l, p)
        /\ q[2] = p[2] => JLO(l, q) = JLO(l, p) /\ JHI(l, q) = JHI(l, p)
    BY DEF ILO, IHI, JLO, JHI
  <1>6. JLO(l, q) = JLO(l, p) => q[2] = p[2]
    <2>1. p[2] < q[2] => JHI(l, p) < JLO(l, q)
      BY <1>1, <1>2, Blocks DEF JLO, JHI
    <2>2. q[2] < p[2] => JHI(l, q) < JLO(l, p)
      BY <1>1, <1>2, Blocks DEF JLO, JHI
    <2> QED BY <1>1, <2>1, <2>2, SubgridIs
  <1> QED BY <1>3, <1>4, <1>5, <1>6

(* Every column of a row has a process among those that share it. *)
LEMMA ColumnOwned ==
  ASSUME NEW l \in Layouts, NEW p \in Processes(l), NEW i \in 1 .. l.ni
  PROVE  \E q \in Processes(l) : JLO(l, q) = JLO(l, p) /\ i \in Cols(l, q)
  <1>1. PICK r \in 0 .. l.pi - 1 :
          MPE_Decomp1d(l.ni, l.pi, r).s <= i /\ i <= MPE_Decomp1d(l.ni, l.pi, r).e
    BY EveryIndexOwned, LayoutTypes
  <1> DEFINE q == <<r, p[2]>>
  <1>2. q \in Processes(l)
    BY DEF Processes
  <1>3. JLO(l, q) = JLO(l, p)
    BY <1>2, SubgridsMeet
  <1>4. ILO(l, q) = MPE_Decomp1d(l.ni, l.pi, r).s /\ IHI(l, q) = MPE_Decomp1d(l.ni, l.pi, r).e
    <2>1. MPE_Decomp1d(l.ni, l.pi, r).s \in Nat /\ MPE_Decomp1d(l.ni, l.pi, r).e \in Nat
      BY BlocksInOrder, LayoutTypes
    <2> QED BY <2>1 DEF ILO, IHI, MyLo, MyHi
  <1>5. i \in Cols(l, q)
    <2>1. ILO(l, q) \in Int /\ IHI(l, q) \in Int
      BY <1>2, SubgridIs
    <2> QED BY <1>1, <1>4, <2>1 DEF Cols
  <1> QED BY <1>2, <1>3, <1>5

(* Around a ring. *)
LEMMA Around ==
  ASSUME NEW size \in Nat \ {0}, NEW a \in 0 .. size - 1
  PROVE  /\ (a + 1) % size = IF a = size - 1 THEN 0 ELSE a + 1
         /\ (a - 1) % size = IF a = 0 THEN size - 1 ELSE a - 1
  <1>1. (a + 1) % size = IF a = size - 1 THEN 0 ELSE a + 1
    BY SMT
  <1>2. (a - 1) % size = IF a = 0 THEN size - 1 ELSE a - 1
    BY SMT
  <1> QED BY <1>1, <1>2

Up(a, size)      == IF a = size - 1 THEN 0 ELSE a + 1
DownFrom(a, size) == IF a = 0 THEN size - 1 ELSE a - 1

LEMMA UpAndDown ==
  ASSUME NEW size \in Nat \ {0}, NEW a \in 0 .. size - 1
  PROVE  /\ Up(a, size) \in 0 .. size - 1 /\ DownFrom(a, size) \in 0 .. size - 1
         /\ Up(DownFrom(a, size), size) = a /\ DownFrom(Up(a, size), size) = a
         /\ (Up(a, size) = 0) <=> a = size - 1
         /\ (DownFrom(a, size) = size - 1) <=> a = 0
         /\ a # size - 1 => Up(a, size) = a + 1
         /\ a # 0 => a = DownFrom(a, size) + 1
  BY DEF Up, DownFrom

LEMMA BeyondAlong ==
  ASSUME layout \in Layouts, NEW p \in Process
  PROVE  /\ Beyond(p, 0, 1) = {<<Up(p[1], layout.pi), p[2]>>}
         /\ Beyond(p, 0, -1) = {<<DownFrom(p[1], layout.pi), p[2]>>}
  <1>1. layout.pi \in Nat \ {0} /\ p[1] \in 0 .. layout.pi - 1 /\ p = <<p[1], p[2]>>
    BY LayoutTypes, SubgridIs DEF Process
  <1>2. p[0 + 1] = p[1] /\ (0 = 0) = TRUE
    OBVIOUS
  <1>3. \A n : [p EXCEPT ![0 + 1] = n] = <<n, p[2]>>
    BY <1>1
  <1>4. Beyond(p, 0, 1) = {[p EXCEPT ![0 + 1] = (p[1] + 1) % layout.pi]}
    BY <1>2 DEF Beyond
  <1>5. Beyond(p, 0, -1) = {[p EXCEPT ![0 + 1] = (p[1] + (-1)) % layout.pi]}
    BY <1>2 DEF Beyond
  <1>6. p[1] + (-1) = p[1] - 1
    BY <1>1
  <1>7. (p[1] + 1) % layout.pi = Up(p[1], layout.pi)
    BY <1>1, Around DEF Up
  <1>8. (p[1] - 1) % layout.pi = DownFrom(p[1], layout.pi)
    BY <1>1, Around DEF DownFrom
  <1> QED BY <1>3, <1>4, <1>5, <1>6, <1>7, <1>8

LEMMA BeyondAcross ==
  ASSUME layout \in Layouts, NEW p \in Process
  PROVE  /\ Beyond(p, 1, 1) = IF p[2] = layout.pj - 1 /\ ~Wrap(layout.geometry) THEN {}
                                ELSE {<<p[1], Up(p[2], layout.pj)>>}
         /\ Beyond(p, 1, -1) = IF p[2] = 0 /\ ~Wrap(layout.geometry) THEN {}
                                ELSE {<<p[1], DownFrom(p[2], layout.pj)>>}
  <1>1. layout.pj \in Nat \ {0} /\ p[2] \in 0 .. layout.pj - 1 /\ p = <<p[1], p[2]>>
    BY LayoutTypes, SubgridIs DEF Process
  <1>2. p[1 + 1] = p[2] /\ 1 # 0 /\ p[2] + (-1) = p[2] - 1
    BY <1>1
  <1>3. \A n : [p EXCEPT ![1 + 1] = n] = <<p[1], n>>
    BY <1>1
  <1>4. Beyond(p, 1, 1) = IF ~Wrap(layout.geometry) /\ p[2] + 1 \notin 0 .. layout.pj - 1 THEN {}
                          ELSE {[p EXCEPT ![1 + 1] = (p[2] + 1) % layout.pj]}
    BY <1>2 DEF Beyond
  <1>5. Beyond(p, 1, -1) = IF ~Wrap(layout.geometry) /\ p[2] - 1 \notin 0 .. layout.pj - 1 THEN {}
                           ELSE {[p EXCEPT ![1 + 1] = (p[2] - 1) % layout.pj]}
    BY <1>2 DEF Beyond
  <1>6. /\ p[2] + 1 \notin 0 .. layout.pj - 1 <=> p[2] = layout.pj - 1
        /\ p[2] - 1 \notin 0 .. layout.pj - 1 <=> p[2] = 0
    BY <1>1
  <1>7. (p[2] + 1) % layout.pj = Up(p[2], layout.pj)
    BY <1>1, Around DEF Up
  <1>8. (p[2] - 1) % layout.pj = DownFrom(p[2], layout.pj)
    BY <1>1, Around DEF DownFrom
  <1>9. Beyond(p, 1, 1) = IF p[2] = layout.pj - 1 /\ ~Wrap(layout.geometry) THEN {}
                          ELSE {<<p[1], Up(p[2], layout.pj)>>}
    BY <1>3, <1>4, <1>6, <1>7
  <1>10. Beyond(p, 1, -1) = IF p[2] = 0 /\ ~Wrap(layout.geometry) THEN {}
                            ELSE {<<p[1], DownFrom(p[2], layout.pj)>>}
    BY <1>3, <1>5, <1>6, <1>8
  <1> QED BY <1>9, <1>10

(* Who sends at s, and who receives. *)
LEMMA Partner ==
  ASSUME layout \in Layouts, NEW p \in Process
  PROVE  /\ Dest(p, 0) = Beyond(p, 1, -1) /\ Source(p, 0) = Beyond(p, 1, 1)
         /\ Dest(p, 1) = Beyond(p, 1, 1) /\ Source(p, 1) = Beyond(p, 1, -1)
         /\ Dest(p, 2) = Beyond(p, 0, -1) /\ Source(p, 2) = Beyond(p, 0, 1)
         /\ Dest(p, 3) = Beyond(p, 0, 1) /\ Source(p, 3) = Beyond(p, 0, -1)
  BY DEF Dest, Source, Axis, Down

(* The receiver of a message names its sender, and the sender its receiver. *)
LEMMA Partners ==
  ASSUME layout \in Layouts, NEW p \in Process, NEW s \in Steps
  PROVE  /\ \A q \in Dest(p, s) : q \in Process /\ Source(q, s) = {p} /\ Dest(p, s) = {q}
         /\ \A q \in Source(p, s) : q \in Process /\ Dest(q, s) = {p} /\ Source(p, s) = {q}
  <1>1. /\ layout.pi \in Nat \ {0} /\ p[1] \in 0 .. layout.pi - 1 /\ p = <<p[1], p[2]>>
        /\ layout.pj \in Nat \ {0} /\ p[2] \in 0 .. layout.pj - 1
    BY LayoutTypes, SubgridIs DEF Process
  <1> DEFINE right == <<Up(p[1], layout.pi), p[2]>>
             left  == <<DownFrom(p[1], layout.pi), p[2]>>
             north == <<p[1], Up(p[2], layout.pj)>>
             south == <<p[1], DownFrom(p[2], layout.pj)>>
  <1>2. {left, right, north, south} \subseteq Process
    BY <1>1, UpAndDown DEF Process, Processes
  <1>3. Beyond(right, 0, -1) = {p} /\ Beyond(left, 0, 1) = {p}
    BY <1>1, <1>2, UpAndDown, BeyondAlong
  <1>4. Beyond(p, 1, 1) # {} => Beyond(p, 1, 1) = {north} /\ Beyond(north, 1, -1) = {p}
    <2>1. Beyond(p, 1, 1) # {} => Beyond(p, 1, 1) = {north} /\ ~(p[2] = layout.pj - 1 /\ ~Wrap(layout.geometry))
      BY BeyondAcross
    <2>2. north[1] = p[1] /\ north[2] = Up(p[2], layout.pj)
      OBVIOUS
    <2>3. north[2] = 0 <=> p[2] = layout.pj - 1
      BY <1>1, <2>2, UpAndDown
    <2>4. DownFrom(north[2], layout.pj) = p[2]
      BY <1>1, <2>2, UpAndDown
    <2>5. Beyond(north, 1, -1) = IF north[2] = 0 /\ ~Wrap(layout.geometry) THEN {}
                              ELSE {<<north[1], DownFrom(north[2], layout.pj)>>}
      BY <1>2, BeyondAcross
    <2> QED BY <1>1, <2>1, <2>2, <2>3, <2>4, <2>5
  <1>5. Beyond(p, 1, -1) # {} => Beyond(p, 1, -1) = {south} /\ Beyond(south, 1, 1) = {p}
    <2>1. Beyond(p, 1, -1) # {} => Beyond(p, 1, -1) = {south} /\ ~(p[2] = 0 /\ ~Wrap(layout.geometry))
      BY BeyondAcross
    <2>2. south[1] = p[1] /\ south[2] = DownFrom(p[2], layout.pj)
      OBVIOUS
    <2>3. south[2] = layout.pj - 1 <=> p[2] = 0
      BY <1>1, <2>2, UpAndDown
    <2>4. Up(south[2], layout.pj) = p[2]
      BY <1>1, <2>2, UpAndDown
    <2>5. Beyond(south, 1, 1) = IF south[2] = layout.pj - 1 /\ ~Wrap(layout.geometry) THEN {}
                              ELSE {<<south[1], Up(south[2], layout.pj)>>}
      BY <1>2, BeyondAcross
    <2> QED BY <1>1, <2>1, <2>2, <2>3, <2>4, <2>5
  <1>6. Beyond(p, 0, 1) = {right} /\ Beyond(p, 0, -1) = {left}
    BY BeyondAlong
  <1> HIDE DEF right, left, north, south
  <1>7. CASE s = 0
    BY <1>2, <1>4, <1>5, <1>7, Partner
  <1>8. CASE s = 1
    BY <1>2, <1>4, <1>5, <1>8, Partner
  <1>9. CASE s = 2
    BY <1>2, <1>3, <1>6, <1>9, Partner
  <1>10. CASE s = 3
    BY <1>2, <1>3, <1>6, <1>10, Partner
  <1> QED BY <1>7, <1>8, <1>9, <1>10 DEF Steps

(* Where the strips a process receives come from. *)
LEMMA StripsMeet ==
  ASSUME layout \in Layouts, NEW q \in Process, NEW s \in Steps, NEW p \in Source(q, s)
  PROVE  /\ p \in Process
         /\ s \in {0, 1} => ILO(layout, p) = ILO(layout, q) /\ IHI(layout, p) = IHI(layout, q)
         /\ s \in {2, 3} => JLO(layout, p) = JLO(layout, q) /\ JHI(layout, p) = JHI(layout, q)
         /\ s = 0 => \/ JHI(layout, q) + 1 = JLO(layout, p)
                     \/ /\ Wrap(layout.geometry)
                        /\ JHI(layout, q) = layout.nj /\ JLO(layout, p) = 1
         /\ s = 1 => \/ JLO(layout, q) - 1 = JHI(layout, p)
                     \/ /\ Wrap(layout.geometry)
                        /\ JLO(layout, q) = 1 /\ JHI(layout, p) = layout.nj
         /\ s = 2 => \/ IHI(layout, q) + 1 = ILO(layout, p)
                     \/ IHI(layout, q) = layout.ni /\ ILO(layout, p) = 1
         /\ s = 3 => \/ ILO(layout, q) - 1 = IHI(layout, p)
                     \/ ILO(layout, q) = 1 /\ IHI(layout, p) = layout.ni
  <1>1. p \in Process
    BY Partners
  <1>2. /\ layout.pi \in Nat \ {0} /\ q[1] \in 0 .. layout.pi - 1
        /\ layout.pj \in Nat \ {0} /\ q[2] \in 0 .. layout.pj - 1
        /\ p \in Processes(layout) /\ q \in Processes(layout)
    BY <1>1, LayoutTypes, SubgridIs DEF Process
  <1>3. s = 0 => /\ p = <<q[1], Up(q[2], layout.pj)>>
                 /\ ~(q[2] = layout.pj - 1 /\ ~Wrap(layout.geometry))
    BY Partner, BeyondAcross
  <1>4. s = 1 => /\ p = <<q[1], DownFrom(q[2], layout.pj)>>
                 /\ ~(q[2] = 0 /\ ~Wrap(layout.geometry))
    BY Partner, BeyondAcross
  <1>5. s = 2 => p = <<Up(q[1], layout.pi), q[2]>>
    BY Partner, BeyondAlong
  <1>6. s = 3 => p = <<DownFrom(q[1], layout.pi), q[2]>>
    BY Partner, BeyondAlong
  <1>7. /\ s \in {0, 1} => ILO(layout, p) = ILO(layout, q) /\ IHI(layout, p) = IHI(layout, q)
        /\ s \in {2, 3} => JLO(layout, p) = JLO(layout, q) /\ JHI(layout, p) = JHI(layout, q)
    BY <1>2, <1>3, <1>4, <1>5, <1>6, SubgridsMeet
  <1>8. ASSUME s = 0
        PROVE  \/ JHI(layout, q) + 1 = JLO(layout, p)
               \/ Wrap(layout.geometry) /\ JHI(layout, q) = layout.nj /\ JLO(layout, p) = 1
    <2>1. CASE q[2] = layout.pj - 1
      <3>1. p[2] = 0 /\ Wrap(layout.geometry)
        BY <1>3, <1>8, <2>1 DEF Up
      <3>2. JHI(layout, q) = layout.nj /\ JLO(layout, p) = Row0(layout) /\ Row0(layout) = 1
        BY <1>2, <2>1, <3>1, SubgridIs, LayoutTypes
      <3> QED BY <3>1, <3>2
    <2>2. CASE q[2] # layout.pj - 1
      <3>1. p[2] = q[2] + 1
        BY <1>3, <1>8, <2>2 DEF Up
      <3> QED BY <1>2, <3>1, SubgridsMeet
    <2> QED BY <2>1, <2>2
  <1>9. ASSUME s = 1
        PROVE  \/ JLO(layout, q) - 1 = JHI(layout, p)
               \/ Wrap(layout.geometry) /\ JLO(layout, q) = 1 /\ JHI(layout, p) = layout.nj
    <2>1. CASE q[2] = 0
      <3>1. p[2] = layout.pj - 1 /\ Wrap(layout.geometry)
        BY <1>4, <1>9, <2>1 DEF DownFrom
      <3>2. JHI(layout, p) = layout.nj /\ JLO(layout, q) = Row0(layout) /\ Row0(layout) = 1
        BY <1>2, <2>1, <3>1, SubgridIs, LayoutTypes
      <3> QED BY <3>1, <3>2
    <2>2. CASE q[2] # 0
      <3>1. q[2] = p[2] + 1
        BY <1>2, <1>4, <1>9, <2>2 DEF DownFrom
      <3>2. JLO(layout, q) = JHI(layout, p) + 1 /\ JHI(layout, p) \in Int
        BY <1>2, <3>1, SubgridsMeet, SubgridIs
      <3> QED BY <3>2
    <2> QED BY <2>1, <2>2
  <1>10. ASSUME s = 2
         PROVE  \/ IHI(layout, q) + 1 = ILO(layout, p)
                \/ IHI(layout, q) = layout.ni /\ ILO(layout, p) = 1
    <2>1. CASE q[1] = layout.pi - 1
      <3>1. p[1] = 0
        BY <1>5, <1>10, <2>1 DEF Up
      <3> QED BY <1>2, <2>1, <3>1, SubgridIs
    <2>2. CASE q[1] # layout.pi - 1
      <3>1. p[1] = q[1] + 1
        BY <1>5, <1>10, <2>2 DEF Up
      <3> QED BY <1>2, <3>1, SubgridsMeet
    <2> QED BY <2>1, <2>2
  <1>11. ASSUME s = 3
         PROVE  \/ ILO(layout, q) - 1 = IHI(layout, p)
                \/ ILO(layout, q) = 1 /\ IHI(layout, p) = layout.ni
    <2>1. CASE q[1] = 0
      <3>1. p[1] = layout.pi - 1
        BY <1>6, <1>11, <2>1 DEF DownFrom
      <3> QED BY <1>2, <2>1, <3>1, SubgridIs
    <2>2. CASE q[1] # 0
      <3>1. q[1] = p[1] + 1
        BY <1>2, <1>6, <1>11, <2>2 DEF DownFrom
      <3>2. ILO(layout, q) = IHI(layout, p) + 1 /\ IHI(layout, p) \in Int
        BY <1>2, <3>1, SubgridsMeet, SubgridIs
      <3> QED BY <3>2
    <2> QED BY <2>1, <2>2
  <1> QED BY <1>1, <1>7, <1>8, <1>9, <1>10, <1>11

(* Nobody is beyond the poles, and only there. *)
LEMMA NoSource ==
  ASSUME layout \in Layouts, NEW q \in Process
  PROVE  /\ Source(q, 0) = {} <=> ~Wrap(layout.geometry) /\ JHI(layout, q) = layout.nj
         /\ Source(q, 1) = {} => ~Wrap(layout.geometry) /\ JLO(layout, q) = 0
         /\ Source(q, 2) # {} /\ Source(q, 3) # {}
  <1>1. /\ layout.pj \in Nat \ {0} /\ q[2] \in 0 .. layout.pj - 1
        /\ q \in Processes(layout) /\ q[1] \in 0 .. layout.pi - 1
    BY LayoutTypes, SubgridIs DEF Process
  <1>2. Source(q, 0) = {} <=> q[2] = layout.pj - 1 /\ ~Wrap(layout.geometry)
    BY Partner, BeyondAcross
  <1>3. q[2] = layout.pj - 1 <=> JHI(layout, q) = layout.nj
    <2>1. q[2] = layout.pj - 1 => JHI(layout, q) = layout.nj
      BY <1>1, SubgridIs
    <2>2. ASSUME q[2] # layout.pj - 1 PROVE JHI(layout, q) # layout.nj
      <3> DEFINE t == <<q[1], q[2] + 1>>
      <3>1. t \in Processes(layout)
        BY <1>1, <2>2 DEF Processes
      <3>2. t[2] = q[2] + 1
        OBVIOUS
      <3> HIDE DEF t
      <3>3. JLO(layout, t) = JHI(layout, q) + 1 /\ JLO(layout, t) <= JHI(layout, t)
            /\ JHI(layout, t) <= layout.nj
        BY <1>1, <3>1, <3>2, SubgridsMeet, SubgridIs
      <3>4. /\ JLO(layout, t) \in Int /\ JHI(layout, t) \in Int /\ JHI(layout, q) \in Int
            /\ layout.nj \in Nat
        BY <1>1, <3>1, SubgridIs, LayoutTypes
      <3> QED BY <3>3, <3>4
    <2> QED BY <2>1, <2>2
  <1>4. Source(q, 1) = {} => q[2] = 0 /\ ~Wrap(layout.geometry)
    <2>1. Source(q, 1) = IF q[2] = 0 /\ ~Wrap(layout.geometry) THEN {}
                         ELSE {<<q[1], DownFrom(q[2], layout.pj)>>}
      BY Partner, BeyondAcross
    <2> QED BY <2>1
  <1>5. q[2] = 0 /\ ~Wrap(layout.geometry) => JLO(layout, q) = 0
    BY <1>1, SubgridIs, LayoutTypes
  <1>6. Source(q, 2) # {} /\ Source(q, 3) # {}
    <2>1. Source(q, 2) = Beyond(q, 0, 1) /\ Source(q, 3) = Beyond(q, 0, -1)
      BY Partner
    <2>2. Beyond(q, 0, 1) # {} /\ Beyond(q, 0, -1) # {}
      BY BeyondAlong
    <2> QED BY <2>1, <2>2
  <1> QED BY <1>2, <1>3, <1>4, <1>5, <1>6

-----------------------------------------------------------------------------
(* What a serial run has.                                                    *)

(* The point of the grid that is at row j and column i of the padded array. *)
RowOf(l, j)    == IF ~Wrap(l.geometry) THEN j
                  ELSE IF j = 0 THEN l.nj ELSE IF j = l.nj + 1 THEN 1 ELSE j
ColumnOf(l, i) == IF i = 0 THEN l.ni ELSE IF i = l.ni + 1 THEN 1 ELSE i

LEMMA SerialAt ==
  ASSUME NEW l \in Layouts, NEW c, NEW j \in 0 .. l.nj + 1, NEW i \in 0 .. l.ni + 1
  PROVE  Serial(l, c)[j, i] = Computed(l, c)[RowOf(l, j), ColumnOf(l, i)]
  <1> DEFINE B == Computed(l, c)
             zonal == [x \in Whole(l) |->
                CASE x[2] = 0        -> B[x[1], l.ni]
                  [] x[2] = l.ni + 1 -> B[x[1], 1]
                  [] OTHER           -> B[x]]
             both == [x \in Whole(l) |->
                CASE x[1] = 0        -> zonal[l.nj, x[2]]
                  [] x[1] = l.nj + 1 -> zonal[1, x[2]]
                  [] OTHER           -> zonal[x]]
  <1>1. l.ni \in Nat \ {0} /\ l.nj \in Nat \ {0}
    BY LayoutTypes
  <1>2. Serial(l, c) = IF ~Wrap(l.geometry) THEN zonal ELSE both
    BY DEF Serial, SerialBcLateral
  <1> HIDE DEF B
  <1>3. ASSUME NEW k \in 0 .. l.nj + 1
        PROVE  zonal[<<k, i>>] = B[<<k, ColumnOf(l, i)>>]
    <2>1. <<k, i>> \in Whole(l) /\ <<k, i>>[1] = k /\ <<k, i>>[2] = i
      BY DEF Whole
    <2>2. zonal[<<k, i>>] = CASE i = 0        -> B[<<k, l.ni>>]
                              [] i = l.ni + 1 -> B[<<k, 1>>]
                              [] OTHER        -> B[<<k, i>>]
      BY <2>1
    <2> HIDE DEF zonal
    <2>3. CASE i = 0
      <3>1. ColumnOf(l, i) = l.ni /\ zonal[<<k, i>>] = B[<<k, l.ni>>]
        BY <1>1, <2>2, <2>3 DEF ColumnOf
      <3> QED BY <3>1
    <2>4. CASE i = l.ni + 1
      <3>1. ColumnOf(l, i) = 1 /\ i # 0
        BY <1>1, <2>4 DEF ColumnOf
      <3>2. zonal[<<k, i>>] = B[<<k, 1>>]
        BY <2>2, <2>4, <3>1
      <3> QED BY <3>1, <3>2
    <2>5. CASE i # 0 /\ i # l.ni + 1
      <3>1. ColumnOf(l, i) = i
        BY <2>5 DEF ColumnOf
      <3>2. zonal[<<k, i>>] = B[<<k, i>>]
        BY <2>2, <2>5
      <3> QED BY <3>1, <3>2
    <2> QED BY <2>3, <2>4, <2>5
  <1>4. <<j, i>> \in Whole(l) /\ <<j, i>>[1] = j /\ <<j, i>>[2] = i
    BY DEF Whole
  <1>5. l.nj \in 0 .. l.nj + 1 /\ 1 \in 0 .. l.nj + 1
    BY <1>1
  <1> HIDE DEF zonal
  <1>6. both[<<j, i>>] = CASE j = 0        -> zonal[<<l.nj, i>>]
                           [] j = l.nj + 1 -> zonal[<<1, i>>]
                           [] OTHER        -> zonal[<<j, i>>]
    BY <1>4
  <1> HIDE DEF both
  <1>7. CASE ~Wrap(l.geometry)
    <2>1. RowOf(l, j) = j
      BY <1>7 DEF RowOf
    <2>2. Serial(l, c)[<<j, i>>] = zonal[<<j, i>>]
      BY <1>2, <1>7
    <2> QED BY <1>3, <2>1, <2>2 DEF B
  <1>8. CASE Wrap(l.geometry)
    <2>1. Serial(l, c)[<<j, i>>] = both[<<j, i>>]
      BY <1>2, <1>8
    <2>2. CASE j = 0
      <3>1. RowOf(l, j) = l.nj
        BY <1>8, <2>2 DEF RowOf
      <3>2. j # l.nj + 1
        BY <1>1, <2>2
      <3>3. both[<<j, i>>] = zonal[<<l.nj, i>>]
        BY <1>6, <2>2, <3>2
      <3> QED BY <1>3, <1>5, <2>1, <3>1, <3>3 DEF B
    <2>3. CASE j = l.nj + 1
      <3>1. j # 0
        BY <1>1, <2>3
      <3>2. both[<<j, i>>] = zonal[<<1, i>>] /\ RowOf(l, j) = 1
        BY <1>6, <1>8, <2>3, <3>1 DEF RowOf
      <3> QED BY <1>3, <1>5, <2>1, <3>2 DEF B
    <2>4. CASE j # 0 /\ j # l.nj + 1
      <3>1. both[<<j, i>>] = zonal[<<j, i>>] /\ RowOf(l, j) = j
        BY <1>6, <1>8, <2>4 DEF RowOf
      <3> QED BY <1>3, <2>1, <3>1 DEF B
    <2> QED BY <2>2, <2>3, <2>4
  <1> QED BY <1>7, <1>8

LEMMA SerialWraps ==
  ASSUME NEW l \in Layouts, NEW c
  PROVE  /\ \A j \in 0 .. l.nj + 1 : /\ Serial(l, c)[j, 0] = Serial(l, c)[j, l.ni]
                                     /\ Serial(l, c)[j, l.ni + 1] = Serial(l, c)[j, 1]
         /\ Wrap(l.geometry) => \A i \in 0 .. l.ni + 1 :
              /\ Serial(l, c)[0, i] = Serial(l, c)[l.nj, i]
              /\ Serial(l, c)[l.nj + 1, i] = Serial(l, c)[1, i]
  <1>1. l.ni \in Nat \ {0} /\ l.nj \in Nat \ {0}
    BY LayoutTypes
  <1>2. /\ 0 \in 0 .. l.ni + 1 /\ 1 \in 0 .. l.ni + 1 /\ l.ni \in 0 .. l.ni + 1
        /\ l.ni + 1 \in 0 .. l.ni + 1
        /\ 0 \in 0 .. l.nj + 1 /\ 1 \in 0 .. l.nj + 1 /\ l.nj \in 0 .. l.nj + 1
        /\ l.nj + 1 \in 0 .. l.nj + 1
    BY <1>1
  <1>3. \A j \in 0 .. l.nj + 1, i \in 0 .. l.ni + 1 :
          Serial(l, c)[<<j, i>>] = Computed(l, c)[<<RowOf(l, j), ColumnOf(l, i)>>]
    BY SerialAt
  <1>4. ColumnOf(l, 0) = ColumnOf(l, l.ni) /\ ColumnOf(l, l.ni + 1) = ColumnOf(l, 1)
    BY <1>1 DEF ColumnOf
  <1>5. Wrap(l.geometry) => RowOf(l, 0) = RowOf(l, l.nj) /\ RowOf(l, l.nj + 1) = RowOf(l, 1)
    BY <1>1 DEF RowOf
  <1>6. ASSUME NEW j \in 0 .. l.nj + 1
        PROVE  /\ Serial(l, c)[j, 0] = Serial(l, c)[j, l.ni]
               /\ Serial(l, c)[j, l.ni + 1] = Serial(l, c)[j, 1]
    <2>1. Serial(l, c)[j, 0] = Computed(l, c)[RowOf(l, j), ColumnOf(l, 0)]
      BY <1>2, <1>3
    <2>2. Serial(l, c)[j, l.ni] = Computed(l, c)[RowOf(l, j), ColumnOf(l, l.ni)]
      BY <1>2, <1>3
    <2>3. Serial(l, c)[j, l.ni + 1] = Computed(l, c)[RowOf(l, j), ColumnOf(l, l.ni + 1)]
      BY <1>2, <1>3
    <2>4. Serial(l, c)[j, 1] = Computed(l, c)[RowOf(l, j), ColumnOf(l, 1)]
      BY <1>2, <1>3
    <2> QED BY <1>4, <2>1, <2>2, <2>3, <2>4
  <1>7. ASSUME NEW i \in 0 .. l.ni + 1, Wrap(l.geometry)
        PROVE  /\ Serial(l, c)[0, i] = Serial(l, c)[l.nj, i]
               /\ Serial(l, c)[l.nj + 1, i] = Serial(l, c)[1, i]
    <2>1. Serial(l, c)[0, i] = Computed(l, c)[RowOf(l, 0), ColumnOf(l, i)]
      BY <1>2, <1>3
    <2>2. Serial(l, c)[l.nj, i] = Computed(l, c)[RowOf(l, l.nj), ColumnOf(l, i)]
      BY <1>2, <1>3
    <2>3. Serial(l, c)[l.nj + 1, i] = Computed(l, c)[RowOf(l, l.nj + 1), ColumnOf(l, i)]
      BY <1>2, <1>3
    <2>4. Serial(l, c)[1, i] = Computed(l, c)[RowOf(l, 1), ColumnOf(l, i)]
      BY <1>2, <1>3
    <2> QED BY <1>5, <1>7, <2>1, <2>2, <2>3, <2>4
  <1> QED BY <1>6, <1>7

Raw(c, j, i)           == <<c, j, i>>
FilteredValue(l, c, j, i) == <<-c, [k \in 1 .. l.ni |-> Raw(c, j, k)], i>>

(* What a process computes. *)
LEMMA SerialInside ==
  ASSUME NEW l \in Layouts, NEW p \in Processes(l), NEW c \in Nat,
         NEW j \in ComputedRows(l, p), NEW i \in Cols(l, p)
  PROVE  /\ j \in FilteredIn(l, p, c) => Serial(l, c)[j, i] = FilteredValue(l, c, j, i)
         /\ j \notin FilteredIn(l, p, c) => Serial(l, c)[j, i] = Raw(c, j, i)
         /\ <<j, i>> \in Whole(l) /\ j \in 0 .. l.nj + 1 /\ i \in 1 .. l.ni
  <1>1. l.ni \in Nat \ {0} /\ l.nj \in Nat \ {0} /\ Row0(l) = IF Wrap(l.geometry) THEN 1 ELSE 0
    BY LayoutTypes
  <1>2. /\ ILO(l, p) \in Int /\ IHI(l, p) \in Int /\ JLO(l, p) \in Int /\ JHI(l, p) \in Int
        /\ 1 <= ILO(l, p) /\ ILO(l, p) <= IHI(l, p) /\ IHI(l, p) <= l.ni
        /\ Row0(l) <= JLO(l, p) /\ JLO(l, p) <= JHI(l, p) /\ JHI(l, p) <= l.nj
    BY SubgridIs
  <1>3. i \in 1 .. l.ni /\ j \in Int /\ Row0(l) <= j /\ JLO(l, p) <= j
    BY <1>1, <1>2 DEF Cols, ComputedRows
  <1>4. /\ j <= JHI(l, p) \/ (~Wrap(l.geometry) /\ JHI(l, p) = l.nj /\ j = l.nj + 1)
        /\ j <= (IF Wrap(l.geometry) THEN l.nj ELSE l.nj + 1)
    BY <1>1, <1>2 DEF ComputedRows
  <1>5. j \in 0 .. l.nj + 1 /\ i \in 0 .. l.ni + 1 /\ <<j, i>> \in Whole(l)
    BY <1>1, <1>3, <1>4 DEF Whole
  <1>6. RowOf(l, j) = j /\ ColumnOf(l, i) = i
    BY <1>1, <1>3, <1>4 DEF RowOf, ColumnOf
  <1>7. Serial(l, c)[j, i] = Computed(l, c)[<<j, i>>]
    BY <1>5, <1>6, SerialAt
  <1>8. Computed(l, c)[<<j, i>>] =
          IF c % 2 = 1 /\ j \in l.polar /\ j \in (IF HGrid(c) THEN Row0(l) ELSE 1) .. l.nj
            THEN FilteredValue(l, c, j, i) ELSE Raw(c, j, i)
    <2>1. <<j, i>>[1] = j /\ <<j, i>>[2] = i
      OBVIOUS
    <2>2. j \in Row0(l) .. (IF Wrap(l.geometry) THEN l.nj ELSE l.nj + 1) /\ i \in 1 .. l.ni
      BY <1>1, <1>3, <1>4
    <2> QED BY <1>5, <2>1, <2>2 DEF Computed, FilteredValue, Raw
  <1>9. j \in FilteredIn(l, p, c) <=>
          c % 2 = 1 /\ j \in l.polar /\ j \in (IF HGrid(c) THEN Row0(l) ELSE 1) .. l.nj
    <2>1. JFIRST(l.geometry, JLO(l, p)) = IF 1 >= JLO(l, p) THEN 1 ELSE JLO(l, p)
      BY <1>1 DEF JFIRST, JStart
    <2>2. j \in (IF HGrid(c) THEN JLO(l, p) ELSE JFIRST(l.geometry, JLO(l, p))) .. JHI(l, p)
            <=> j \in (IF HGrid(c) THEN Row0(l) ELSE 1) .. l.nj
      <3>1. CASE HGrid(c)
        BY <1>1, <1>2, <1>3, <1>4, <3>1
      <3>2. CASE ~HGrid(c)
        BY <1>1, <1>2, <1>3, <1>4, <2>1, <3>2
      <3> QED BY <3>1, <3>2
    <2> QED BY <2>2 DEF FilteredIn
  <1> QED BY <1>3, <1>5, <1>7, <1>8, <1>9

-----------------------------------------------------------------------------
(* Types and places.                                                         *)

LEMMA FilteredAfterIs ==
  ASSUME NEW p, NEW k
  PROVE  FilteredAfter(p, k) = {j \in FilteredIn(layout, p, call[p]) : j > k}
  BY DEF FilteredAfter, FilteredIn, FirstRow, Comm

LEMMA FilteredRows ==
  ASSUME NEW l \in Layouts, NEW p \in Processes(l), NEW c, NEW j \in FilteredIn(l, p, c)
  PROVE  /\ j \in ComputedRows(l, p) /\ j \in 0 .. l.nj
         /\ j \in JLO(l, p) .. JHI(l, p)
  <1>1. /\ l.nj \in Nat \ {0} /\ Row0(l) = IF Wrap(l.geometry) THEN 1 ELSE 0
        /\ JLO(l, p) \in Int /\ JHI(l, p) \in Int
        /\ Row0(l) <= JLO(l, p) /\ JLO(l, p) <= JHI(l, p) /\ JHI(l, p) <= l.nj
    BY LayoutTypes, SubgridIs
  <1>2. JFIRST(l.geometry, JLO(l, p)) = IF 1 >= JLO(l, p) THEN 1 ELSE JLO(l, p)
    BY <1>1 DEF JFIRST, JStart
  <1>3. j \in JLO(l, p) .. JHI(l, p)
    BY <1>1, <1>2 DEF FilteredIn
  <1> QED BY <1>1, <1>3 DEF ComputedRows

(* The rows and columns of a subgrid and its pads. *)
LEMMA PaddedIs ==
  ASSUME NEW l \in Layouts, NEW p \in Processes(l)
  PROVE  /\ PaddedRows(l, p) = JLO(l, p) - 1 .. JHI(l, p) + 1
         /\ PaddedCols(l, p) = ILO(l, p) - 1 .. IHI(l, p) + 1
         /\ Cols(l, p) \subseteq PaddedCols(l, p) /\ Cols(l, p) \subseteq 1 .. l.ni
         /\ ILO(l, p) \in Cols(l, p) /\ IHI(l, p) \in Cols(l, p)
         /\ ComputedRows(l, p) \subseteq PaddedRows(l, p)
         /\ JLO(l, p) \in ComputedRows(l, p) /\ JHI(l, p) \in ComputedRows(l, p)
         /\ PaddedRows(l, p) \subseteq Int /\ PaddedCols(l, p) \subseteq Int
  <1>1. /\ ILO(l, p) \in Int /\ IHI(l, p) \in Int /\ JLO(l, p) \in Int /\ JHI(l, p) \in Int
        /\ 1 <= ILO(l, p) /\ ILO(l, p) <= IHI(l, p) /\ IHI(l, p) <= l.ni
        /\ JLO(l, p) <= JHI(l, p) /\ l.ni \in Nat
    BY SubgridIs, LayoutTypes
  <1> QED BY <1>1 DEF PaddedRows, PaddedCols, Cols, ComputedRows, JPAD, IPAD

LEMMA TypesStep ==
  ASSUME Types, [Next]_vars
  PROVE  Types'
  <1> USE DEF Types
  <1>1. CASE UNCHANGED vars
    BY <1>1 DEF vars, Process
  <1>2. ASSUME NEW p \in Process, Run(p) PROVE Types'
    <2>1. CASE Compute(p)
      <3>1. call[p] + 1 \in 0 .. Calls
        BY <2>1, CallsAssumption DEF Compute
      <3>2. layout' = layout /\ Process' = Process /\ -1 \in -1 .. layout.nj /\ 0 \in Steps
        BY <2>1, LayoutTypes DEF Compute, Process, Steps
      <3> QED BY <2>1, <3>1, <3>2 DEF Compute, Goto
    <2>2. CASE NextRow(p)
      <3>1. row'[p] \in -1 .. layout.nj
        <4>1. PICK j \in FilteredAfter(p, row[p]) : row' = [row EXCEPT ![p] = j]
          BY <2>2 DEF NextRow
        <4>2. j \in 0 .. layout.nj
          BY <4>1, FilteredAfterIs, FilteredRows DEF Process
        <4> QED BY <4>1, <4>2, LayoutTypes
      <3>2. layout' = layout /\ Process' = Process
        BY <2>2 DEF NextRow, Process
      <3> QED BY <2>2, <3>1, <3>2 DEF NextRow, Goto
    <2>3. CASE FilteredRow(p)
      BY <2>3 DEF FilteredRow, Goto, Process
    <2>4. CASE RowsDone(p)
      BY <2>4 DEF RowsDone, Goto, Process
    <2>5. CASE Send(p)
      BY <2>5 DEF Send, Goto, Process
    <2>6. CASE Receive(p)
      BY <2>6 DEF Receive, Goto, Process
    <2>7. CASE ReceiveNothing(p)
      BY <2>7 DEF ReceiveNothing, Goto, Process
    <2>8. CASE Return(p)
      <3>1. (step[p] + 1) % 4 \in Steps
        BY DEF Steps
      <3>2. layout' = layout /\ Process' = Process
        BY <2>8 DEF Return, Process
      <3> QED BY <2>8, <3>1, <3>2 DEF Return, Goto
    <2> QED BY <1>2, <2>1, <2>2, <2>3, <2>4, <2>5, <2>6, <2>7, <2>8 DEF Run
  <1> QED BY <1>1, <1>2 DEF Next

(* A step of p leaves the others where they are. *)
LEMMA Others ==
  ASSUME Types, NEW p \in Process, Run(p)
  PROVE  /\ layout' = layout /\ buffered' = buffered /\ Process' = Process
         /\ \A q \in Process : q # p =>
              /\ pc'[q] = pc[q] /\ call'[q] = call[q] /\ step'[q] = step[q]
              /\ row'[q] = row[q] /\ given'[q] = given[q] /\ field'[q] = field[q]
  <1> USE DEF Types
  <1>1. CASE Compute(p)
    BY <1>1 DEF Compute, Goto, Process
  <1>2. CASE NextRow(p)
    BY <1>2 DEF NextRow, Goto, Process
  <1>3. CASE FilteredRow(p)
    BY <1>3 DEF FilteredRow, Goto, Process
  <1>4. CASE RowsDone(p)
    BY <1>4 DEF RowsDone, Goto, Process
  <1>5. CASE Send(p)
    BY <1>5 DEF Send, Goto, Process
  <1>6. CASE Receive(p)
    BY <1>6 DEF Receive, Goto, Process
  <1>7. CASE ReceiveNothing(p)
    BY <1>7 DEF ReceiveNothing, Goto, Process
  <1>8. CASE Return(p)
    BY <1>8 DEF Return, Goto, Process
  <1> QED BY <1>1, <1>2, <1>3, <1>4, <1>5, <1>6, <1>7, <1>8 DEF Run

LEMMA PcStep ==
  ASSUME Types, PcInv, [Next]_vars
  PROVE  PcInv'
  <1>1. CASE UNCHANGED vars
    BY <1>1 DEF vars, PcInv, PcAt, Process, Exchanging, Filtering
  <1>2. ASSUME NEW p \in Process, Run(p) PROVE PcInv'
    <2>1. \A q \in Process : q # p => PcAt(q)'
      BY <1>2, Others DEF PcInv, PcAt, Exchanging, Filtering
    <2>2. PcAt(p)'
      <3> USE DEF PcAt, Exchanging, Filtering, Goto, Types
      <3>0. PcAt(p)
        BY DEF PcInv
      <3>1. CASE Compute(p)
        BY <3>0, <3>1, LayoutTypes DEF Compute
      <3>2. CASE NextRow(p)
        <4>1. PICK j \in FilteredAfter(p, row[p]) : row' = [row EXCEPT ![p] = j]
          BY <3>2 DEF NextRow
        <4>2. j \in FilteredIn(layout, p, call[p])
          BY <4>1, FilteredAfterIs
        <4> QED BY <3>0, <3>2, <4>1, <4>2 DEF NextRow
      <3>3. CASE FilteredRow(p)
        BY <3>0, <3>3 DEF FilteredRow
      <3>4. CASE RowsDone(p)
        <4>1. FilteredAfter(p, row[p]) = {}
          BY <3>4 DEF RowsDone
        <4>2. \A j \in FilteredIn(layout, p, call[p]) : ~(j > row[p])
          BY <4>1, FilteredAfterIs
        <4>3. \A j \in FilteredIn(layout, p, call[p]) : j \in Int
          BY FilteredRows, LayoutTypes DEF Process
        <4>4. row[p] \in Int
          BY LayoutTypes
        <4>5. \A j \in FilteredIn(layout, p, call[p]) : j <= row[p]
          BY <4>2, <4>3, <4>4
        <4> QED BY <3>0, <3>4, <4>5 DEF RowsDone
      <3>5. CASE Send(p)
        BY <3>0, <3>5 DEF Send
      <3>6. CASE Receive(p)
        BY <3>0, <3>6 DEF Receive
      <3>7. CASE ReceiveNothing(p)
        BY <3>0, <3>7 DEF ReceiveNothing
      <3>8. CASE Return(p)
        <4>1. step[p] = 3 => (step[p] + 1) % 4 = 0
          OBVIOUS
        <4> QED BY <3>0, <3>8, <4>1 DEF Return
      <3> QED BY <1>2, <3>1, <3>2, <3>3, <3>4, <3>5, <3>6, <3>7, <3>8 DEF Run
    <2> QED BY <1>2, <2>1, <2>2, Others DEF PcInv
  <1> QED BY <1>1, <1>2 DEF Next

(* What a process gives to a sum is its part of a row not yet filtered. *)
LEMMA NextRowGives ==
  ASSUME Types, PcInv, RowsInv, GivenTypes, NEW p \in Process, NextRow(p)
  PROVE  /\ row'[p] \in FilteredIn(layout, p, call[p]) /\ row'[p] > row[p]
         /\ \A k \in FilteredIn(layout, p, call[p]) : k > row[p] => row'[p] <= k
         /\ given'[p] \in Seq([Cols(layout, p) -> RawValue])
         /\ Len(given'[p]) = Len(given[p]) + 1
         /\ \A n \in 1 .. Len(given[p]) : given'[p][n] = given[p][n]
         /\ \A i \in Cols(layout, p) : given'[p][Len(given[p]) + 1][i] = <<call[p], row'[p], i>>
  <1>1. PICK j \in FilteredAfter(p, row[p]) :
          /\ \A k \in FilteredAfter(p, row[p]) : j <= k
          /\ row' = [row EXCEPT ![p] = j]
          /\ given' = [given EXCEPT ![p] = Append(@,
               [i \in ILO(layout, p) .. IHI(layout, p) |-> field[p][j, i]])]
    BY DEF NextRow
  <1> DEFINE part == [i \in Cols(layout, p) |-> field[p][j, i]]
  <1>2. /\ row'[p] = j /\ given'[p] = Append(given[p], part)
        /\ j \in FilteredIn(layout, p, call[p]) /\ j > row[p]
        /\ \A k \in FilteredIn(layout, p, call[p]) : k > row[p] => j <= k
    BY <1>1, FilteredAfterIs DEF Types, Cols
  <1>3. j \in ComputedRows(layout, p) /\ j \in Int /\ row[p] \in Int
    <2>1. layout \in Layouts /\ p \in Processes(layout)
      BY DEF Types, Process
    <2>2. layout.nj \in Nat
      BY <2>1, LayoutTypes
    <2>3. j \in ComputedRows(layout, p) /\ j \in 0 .. layout.nj
      BY <1>2, <2>1, FilteredRows
    <2>4. row[p] \in -1 .. layout.nj
      BY DEF Types
    <2> QED BY <2>2, <2>3, <2>4
  <1>4. Filtering(p) /\ pc[p] = "rows"
    BY DEF NextRow, Goto, Filtering
  <1>5. ~(j < row[p] \/ (j = row[p] /\ pc[p] = "rows"))
    <2>1. j > row[p]
      BY <1>2
    <2> QED BY <1>3, <2>1
  <1>6. ASSUME NEW i \in Cols(layout, p)
        PROVE  part[i] = <<call[p], j, i>> /\ part[i] \in RawValue
    <2>1. field[p][j, i] = <<call[p], j, i>>
      BY <1>3, <1>4, <1>5 DEF RowsInv, RowsAt
    <2>2. call[p] \in Int
      BY CallsAssumption DEF Types
    <2>3. i \in Int
      BY PaddedIs DEF Types, Process
    <2>4. <<call[p], j, i>> \in RawValue
      BY <1>3, <2>2, <2>3 DEF RawValue
    <2>5. part[i] = field[p][j, i]
      OBVIOUS
    <2> QED BY <2>1, <2>4, <2>5
  <1>7. part \in [Cols(layout, p) -> RawValue]
    BY <1>6
  <1>8. given[p] \in Seq([Cols(layout, p) -> RawValue])
    BY DEF GivenTypes
  <1> HIDE DEF part
  <1>9. /\ given'[p] \in Seq([Cols(layout, p) -> RawValue])
        /\ Len(given'[p]) = Len(given[p]) + 1
        /\ \A n \in 1 .. Len(given[p]) : given'[p][n] = given[p][n]
        /\ given'[p][Len(given[p]) + 1] = part
    BY <1>2, <1>7, <1>8, AppendProperties
  <1> QED BY <1>2, <1>6, <1>9

LEMMA GivenTypesStep ==
  ASSUME Types, PcInv, RowsInv, GivenTypes, [Next]_vars
  PROVE  GivenTypes'
  <1>1. CASE UNCHANGED vars
    BY <1>1 DEF vars, GivenTypes, Process
  <1>2. ASSUME NEW p \in Process, Run(p) PROVE GivenTypes'
    <2>1. \A q \in Process : q # p => given'[q] \in Seq([Cols(layout, q) -> RawValue])
      BY <1>2, Others DEF GivenTypes
    <2>2. given'[p] \in Seq([Cols(layout, p) -> RawValue])
      <3>1. CASE NextRow(p)
        BY <3>1, NextRowGives
      <3>2. CASE ~NextRow(p)
        BY <1>2, <3>2 DEF Run, Compute, FilteredRow, RowsDone, Send, Receive, ReceiveNothing, Return,
                          GivenTypes
      <3> QED BY <3>1, <3>2
    <2> QED BY <1>2, <2>1, <2>2, Others DEF GivenTypes
  <1> QED BY <1>1, <1>2 DEF Next

(* What a sum of zonal_filter() returns is the whole row, not yet filtered. *)
LEMMA SummedIs ==
  ASSUME Types, GivenInv, NEW p \in Process, FilteredRow(p)
  PROVE  Summed(p) = [i \in 1 .. layout.ni |-> <<call[p], row[p], i>>]
  <1> SUFFICES ASSUME NEW i \in 1 .. layout.ni
               PROVE  LET q == CHOOSE q \in CommJLO(p) : i \in ILO(layout, q) .. IHI(layout, q)
                      IN  given[q][Len(given[p])][i] = <<call[p], row[p], i>>
    BY DEF Summed
  <1> DEFINE q == CHOOSE q \in CommJLO(p) : i \in ILO(layout, q) .. IHI(layout, q)
  <1>1. \E r \in CommJLO(p) : i \in ILO(layout, r) .. IHI(layout, r)
    BY ColumnOwned DEF CommJLO, Process, Cols, Types
  <1>2. q \in CommJLO(p) /\ i \in Cols(layout, q)
    BY <1>1 DEF Cols
  <1> HIDE DEF q
  <1>3. pc[p] = "allreduce" /\ Len(given[q]) >= Len(given[p])
    BY <1>2 DEF FilteredRow, Goto
  <1>4. given[q][Len(given[p])][i] = <<call[p], row[p], i>>
    BY <1>2, <1>3 DEF GivenInv, GivenAt
  <1> QED BY <1>4 DEF q

(* The strip a process receives, where its pad is. *)
LEMMA PlacedIs ==
  ASSUME Types, FieldTypes, NEW p \in Process, NEW s \in Steps, NEW q \in Source(p, s),
         NEW strip \in StripType(layout, q, s)
  PROVE  /\ Placed(p, s, strip) \in [Padded(layout, p) -> Value(layout)]
         /\ \A x \in Pad(layout, p, s) :
              Placed(p, s, strip)[x] = strip[IF Axis(s) = 1 THEN x[2] ELSE x[1]]
         /\ \A x \in Padded(layout, p) :
              /\ s = 0 /\ x[1] # JHI(layout, p) + 1 => Placed(p, s, strip)[x] = field[p][x]
              /\ s = 1 /\ x[1] # JLO(layout, p) - 1 => Placed(p, s, strip)[x] = field[p][x]
              /\ s = 2 /\ x[2] # IHI(layout, p) + 1 => Placed(p, s, strip)[x] = field[p][x]
              /\ s = 3 /\ x[2] # ILO(layout, p) - 1 => Placed(p, s, strip)[x] = field[p][x]
  <1>1. /\ q \in Process
        /\ s \in {0, 1} => ILO(layout, q) = ILO(layout, p) /\ IHI(layout, q) = IHI(layout, p)
        /\ s \in {2, 3} => JLO(layout, q) = JLO(layout, p) /\ JHI(layout, q) = JHI(layout, p)
    BY StripsMeet DEF Types
  <1>2. field[p] \in [Padded(layout, p) -> Value(layout)] /\ DOMAIN field[p] = Padded(layout, p)
    BY DEF FieldTypes
  <1>3. /\ PaddedRows(layout, p) = JLO(layout, p) - 1 .. JHI(layout, p) + 1
        /\ PaddedCols(layout, p) = ILO(layout, p) - 1 .. IHI(layout, p) + 1
        /\ Cols(layout, p) \subseteq PaddedCols(layout, p)
        /\ ILO(layout, p) \in Int /\ IHI(layout, p) \in Int
        /\ JLO(layout, p) \in Int /\ JHI(layout, p) \in Int
        /\ ILO(layout, p) <= IHI(layout, p) /\ JLO(layout, p) <= JHI(layout, p)
    BY PaddedIs, SubgridIs DEF Types, Process
  <1>4. /\ s \in {0, 1} => PaddedCols(layout, q) = PaddedCols(layout, p)
        /\ s \in {2, 3} => PaddedRows(layout, q) = PaddedRows(layout, p)
    BY <1>1 DEF PaddedCols, PaddedRows
  <1> DEFINE line == IF s = 0 THEN JHI(layout, p) + 1
                     ELSE IF s = 1 THEN JLO(layout, p) - 1
                     ELSE IF s = 2 THEN IHI(layout, p) + 1 ELSE ILO(layout, p) - 1
  <1>5. CASE s \in {0, 1}
    <2>1. Axis(s) = 1 /\ (Down(s) <=> s = 0)
      BY <1>5 DEF Axis, Down
    <2>2. Placed(p, s, strip) = [x \in Padded(layout, p) |->
            IF x[1] = line /\ x[2] \in DOMAIN strip THEN strip[x[2]] ELSE field[p][x]]
      BY <1>2, <1>5, <2>1 DEF Placed, JPAD
    <2>3. strip \in [PaddedCols(layout, p) -> Value(layout)]
      BY <1>4, <1>5, <2>1 DEF StripType
    <2>4. \A x \in Pad(layout, p, s) : /\ x[1] = line /\ x[2] \in PaddedCols(layout, p)
                                       /\ x \in Padded(layout, p)
      BY <1>3, <1>5 DEF Pad, Padded
    <2> HIDE DEF line
    <2>5. \A x \in Pad(layout, p, s) : Placed(p, s, strip)[x] = strip[x[2]]
      BY <2>2, <2>3, <2>4
    <2>6. \A x \in Padded(layout, p) : x[1] # line => Placed(p, s, strip)[x] = field[p][x]
      BY <2>2
    <2>7. Placed(p, s, strip) \in [Padded(layout, p) -> Value(layout)]
      BY <1>2, <2>2, <2>3
    <2> QED BY <1>5, <2>1, <2>5, <2>6, <2>7 DEF line
  <1>6. CASE s \in {2, 3}
    <2>1. Axis(s) = 0 /\ (Down(s) <=> s = 2)
      BY <1>6 DEF Axis, Down
    <2>2. Placed(p, s, strip) = [x \in Padded(layout, p) |->
            IF x[2] = line /\ x[1] \in DOMAIN strip THEN strip[x[1]] ELSE field[p][x]]
      BY <1>2, <1>6, <2>1 DEF Placed, IPAD
    <2>3. strip \in [PaddedRows(layout, p) -> Value(layout)]
      BY <1>4, <1>6, <2>1 DEF StripType
    <2>4. \A x \in Pad(layout, p, s) : /\ x[2] = line /\ x[1] \in PaddedRows(layout, p)
                                       /\ x \in Padded(layout, p)
      BY <1>3, <1>6 DEF Pad, Padded
    <2> HIDE DEF line
    <2>5. \A x \in Pad(layout, p, s) : Placed(p, s, strip)[x] = strip[x[1]]
      BY <2>2, <2>3, <2>4
    <2>6. \A x \in Padded(layout, p) : x[2] # line => Placed(p, s, strip)[x] = field[p][x]
      BY <2>2
    <2>7. Placed(p, s, strip) \in [Padded(layout, p) -> Value(layout)]
      BY <1>2, <2>2, <2>3
    <2> QED BY <1>6, <2>1, <2>5, <2>6, <2>7 DEF line
  <1> QED BY <1>5, <1>6 DEF Steps

LEMMA FieldTypesStep ==
  ASSUME Types, PcInv, FieldTypes, GivenInv, SentTypes, [Next]_vars
  PROVE  FieldTypes'
  <1>1. CASE UNCHANGED vars
    BY <1>1 DEF vars, FieldTypes, Process
  <1>2. ASSUME NEW p \in Process, Run(p) PROVE FieldTypes'
    <2>1. \A q \in Process : q # p => field'[q] \in [Padded(layout, q) -> Value(layout)]
      BY <1>2, Others DEF FieldTypes
    <2>2. field[p] \in [Padded(layout, p) -> Value(layout)]
      BY DEF FieldTypes
    <2>3. field'[p] \in [Padded(layout, p) -> Value(layout)]
      <3>1. CASE Compute(p)
        <4>1. \A x \in Padded(layout, p) : <<call[p] + 1, x[1], x[2]>> \in Value(layout)
          <5>1. call[p] + 1 \in Int
            BY CallsAssumption DEF Types
          <5>2. PaddedRows(layout, p) \subseteq Int /\ PaddedCols(layout, p) \subseteq Int
            BY PaddedIs DEF Types, Process
          <5> QED BY <5>1, <5>2 DEF Padded, Value, RawValue
        <4>2. field'[p] = [x \in Padded(layout, p) |->
                IF x[1] \in ComputedRows(layout, p) /\ x[2] \in ILO(layout, p) .. IHI(layout, p)
                  THEN <<call[p] + 1, x[1], x[2]>> ELSE field[p][x]]
          BY <2>2, <3>1 DEF Compute, Types
        <4> QED BY <2>2, <4>1, <4>2
      <3>2. CASE FilteredRow(p)
        <4>1. call[p] \in Int /\ row[p] \in Int
          BY CallsAssumption, LayoutTypes DEF Types
        <4>2. \A i \in 1 .. layout.ni : <<call[p], row[p], i>> \in RawValue
          BY <4>1 DEF RawValue
        <4>3. Summed(p) \in [1 .. layout.ni -> RawValue]
          BY <3>2, <4>2, SummedIs
        <4>4. \A x \in Padded(layout, p) : <<-call[p], Summed(p), x[2]>> \in Value(layout)
          <5>1. PaddedCols(layout, p) \subseteq Int
            BY PaddedIs DEF Types, Process
          <5> QED BY <4>1, <4>3, <5>1 DEF Padded, Value
        <4>5. field'[p] = [x \in Padded(layout, p) |->
                IF x[1] = row[p] /\ x[2] \in ILO(layout, p) .. IHI(layout, p)
                  THEN <<-call[p], Summed(p), x[2]>> ELSE field[p][x]]
          BY <2>2, <3>2 DEF FilteredRow, Types
        <4> QED BY <2>2, <4>4, <4>5
      <3>3. CASE Receive(p)
        <4>1. PICK q \in Source(p, step[p]) :
                /\ sent[q][step[p]][Comm(p)] # << >>
                /\ field' = [field EXCEPT ![p] =
                     Placed(p, step[p], Head(sent[q][step[p]][Comm(p)]))]
          BY <3>3 DEF Receive
        <4>2. step[p] \in Steps /\ q \in Process /\ Comm(p) \in Comms
          BY Partners DEF Types, Comm, Comms
        <4>3. sent[q][step[p]][Comm(p)] \in Seq(StripType(layout, q, step[p]))
          BY <4>2 DEF SentTypes
        <4>4. Head(sent[q][step[p]][Comm(p)]) \in StripType(layout, q, step[p])
          BY <4>1, <4>3, HeadTailProperties
        <4>5. field'[p] = Placed(p, step[p], Head(sent[q][step[p]][Comm(p)]))
          BY <4>1 DEF Types
        <4> QED BY <4>2, <4>4, <4>5, PlacedIs
      <3>4. CASE NextRow(p) \/ RowsDone(p) \/ Send(p) \/ ReceiveNothing(p) \/ Return(p)
        BY <2>2, <3>4 DEF NextRow, RowsDone, Send, ReceiveNothing, Return
      <3> QED BY <1>2, <3>1, <3>2, <3>3, <3>4 DEF Run
    <2> QED BY <1>2, <2>1, <2>3, Others DEF FieldTypes
  <1> QED BY <1>1, <1>2 DEF Next

LEMMA StripTyped ==
  ASSUME Types, FieldTypes, NEW p \in Process, NEW s \in Steps
  PROVE  Strip(p, s) \in StripType(layout, p, s)
  <1>1. field[p] \in [Padded(layout, p) -> Value(layout)]
    BY DEF FieldTypes
  <1>2. /\ {JLO(layout, p), JHI(layout, p)} \subseteq PaddedRows(layout, p)
        /\ {ILO(layout, p), IHI(layout, p)} \subseteq PaddedCols(layout, p)
    BY PaddedIs DEF Types, Process
  <1>3. \A j \in PaddedRows(layout, p), i \in PaddedCols(layout, p) :
          field[p][j, i] \in Value(layout)
    BY <1>1 DEF Padded
  <1>4. CASE Axis(s) = 1
    BY <1>2, <1>3, <1>4 DEF Strip, StripType
  <1>5. CASE Axis(s) # 1
    BY <1>2, <1>3, <1>5 DEF Strip, StripType
  <1> QED BY <1>4, <1>5

(* The messages on the way when one is sent. *)
LEMMA SendIs ==
  ASSUME Types, FieldTypes, SentTypes, NEW p \in Process, Send(p)
  PROVE  /\ Dest(p, step[p]) = {} => sent' = sent
         /\ DOMAIN sent' = Process
         /\ \A r \in Process : DOMAIN sent'[r] = Steps
         /\ \A r \in Process, s \in Steps : DOMAIN sent'[r][s] = Comms
         /\ \A r \in Process, s \in Steps, comm \in Comms :
              r # p \/ s # step[p] \/ comm # Comm(p) => sent'[r][s][comm] = sent[r][s][comm]
         /\ Dest(p, step[p]) # {} =>
              sent'[p][step[p]][Comm(p)] = Append(sent[p][step[p]][Comm(p)], Strip(p, step[p]))
  <1>1. step[p] \in Steps /\ Comm(p) \in Comms /\ DOMAIN sent = Process
    BY DEF Types, Comm, Comms
  <1>2. \A r \in Process : DOMAIN sent[r] = Steps
    BY DEF SentTypes
  <1>3. \A r \in Process, s \in Steps : DOMAIN sent[r][s] = Comms
    BY DEF SentTypes
  <1>4. CASE Dest(p, step[p]) = {}
    BY <1>1, <1>2, <1>3, <1>4 DEF Send
  <1>5. CASE Dest(p, step[p]) # {}
    <2>1. sent' = [sent EXCEPT ![p][step[p]][Comm(p)] = Append(@, Strip(p, step[p]))]
      BY <1>5 DEF Send
    <2> QED BY <1>1, <1>2, <1>3, <1>5, <2>1
  <1> QED BY <1>4, <1>5

LEMMA ReceiveIs ==
  ASSUME Types, SentTypes, NEW p \in Process, Receive(p)
  PROVE  \E q \in Source(p, step[p]) :
           /\ q \in Process /\ Dest(q, step[p]) = {p} /\ Source(p, step[p]) = {q}
           /\ sent[q][step[p]][Comm(p)] # << >>
           /\ field'[p] = Placed(p, step[p], Head(sent[q][step[p]][Comm(p)]))
           /\ Head(sent[q][step[p]][Comm(p)]) \in StripType(layout, q, step[p])
           /\ DOMAIN sent' = Process
           /\ \A r \in Process : DOMAIN sent'[r] = Steps
           /\ \A r \in Process, s \in Steps : DOMAIN sent'[r][s] = Comms
           /\ \A r \in Process, s \in Steps, comm \in Comms :
                r # q \/ s # step[p] \/ comm # Comm(p) => sent'[r][s][comm] = sent[r][s][comm]
           /\ sent'[q][step[p]][Comm(p)] = Tail(sent[q][step[p]][Comm(p)])
  <1>1. step[p] \in Steps /\ Comm(p) \in Comms /\ DOMAIN sent = Process /\ DOMAIN field = Process
    BY DEF Types, Comm, Comms
  <1>2. \A r \in Process : DOMAIN sent[r] = Steps
    BY DEF SentTypes
  <1>3. \A r \in Process, s \in Steps : DOMAIN sent[r][s] = Comms
    BY DEF SentTypes
  <1>4. PICK q \in Source(p, step[p]) :
          /\ sent[q][step[p]][Comm(p)] # << >>
          /\ field' = [field EXCEPT ![p] = Placed(p, step[p], Head(sent[q][step[p]][Comm(p)]))]
          /\ sent' = [sent EXCEPT ![q][step[p]][Comm(p)] = Tail(@)]
    BY DEF Receive
  <1>5. q \in Process /\ Dest(q, step[p]) = {p} /\ Source(p, step[p]) = {q}
    BY <1>1, Partners DEF Types
  <1>6. sent[q][step[p]][Comm(p)] \in Seq(StripType(layout, q, step[p]))
    BY <1>1, <1>5 DEF SentTypes
  <1>7. Head(sent[q][step[p]][Comm(p)]) \in StripType(layout, q, step[p])
    BY <1>4, <1>6, HeadTailProperties
  <1>8. /\ DOMAIN sent' = Process
        /\ \A r \in Process : DOMAIN sent'[r] = Steps
        /\ \A r \in Process, s \in Steps : DOMAIN sent'[r][s] = Comms
        /\ \A r \in Process, s \in Steps, comm \in Comms :
             r # q \/ s # step[p] \/ comm # Comm(p) => sent'[r][s][comm] = sent[r][s][comm]
        /\ sent'[q][step[p]][Comm(p)] = Tail(sent[q][step[p]][Comm(p)])
    BY <1>1, <1>2, <1>3, <1>4, <1>5
  <1>9. field'[p] = Placed(p, step[p], Head(sent[q][step[p]][Comm(p)]))
    BY <1>1, <1>4
  <1> QED BY <1>4, <1>5, <1>7, <1>8, <1>9

LEMMA SentTypesStep ==
  ASSUME Types, FieldTypes, SentTypes, [Next]_vars
  PROVE  SentTypes'
  <1>1. CASE UNCHANGED vars
    BY <1>1 DEF vars, SentTypes, Process
  <1>2. ASSUME NEW p \in Process, Run(p) PROVE SentTypes'
    <2>0. /\ layout' = layout /\ Process' = Process
          /\ step[p] \in Steps /\ Comm(p) \in Comms
      BY <1>2, Others DEF Types, Comm, Comms
    <2> SUFFICES \A r \in Process :
                   /\ DOMAIN sent'[r] = Steps
                   /\ \A s \in Steps :
                        /\ DOMAIN sent'[r][s] = Comms
                        /\ \A comm \in Comms : sent'[r][s][comm] \in Seq(StripType(layout, r, s))
      BY <2>0 DEF SentTypes
    <2>1. CASE Send(p)
      <3>1. Dest(p, step[p]) # {} =>
              sent'[p][step[p]][Comm(p)] \in Seq(StripType(layout, p, step[p]))
        <4>1. sent[p][step[p]][Comm(p)] \in Seq(StripType(layout, p, step[p]))
          BY <2>0 DEF SentTypes
        <4>2. Strip(p, step[p]) \in StripType(layout, p, step[p])
          BY <2>0, StripTyped
        <4>3. Append(sent[p][step[p]][Comm(p)], Strip(p, step[p]))
                \in Seq(StripType(layout, p, step[p]))
          BY <4>1, <4>2, AppendProperties
        <4>4. Dest(p, step[p]) # {} =>
                sent'[p][step[p]][Comm(p)] = Append(sent[p][step[p]][Comm(p)], Strip(p, step[p]))
          BY <2>1, SendIs
        <4> QED BY <4>3, <4>4
      <3> QED BY <2>0, <2>1, <3>1, SendIs DEF SentTypes
    <2>2. CASE Receive(p)
      <3>1. PICK q \in Process :
              /\ sent[q][step[p]][Comm(p)] # << >>
              /\ \A r \in Process : DOMAIN sent'[r] = Steps
              /\ \A r \in Process, s \in Steps : DOMAIN sent'[r][s] = Comms
              /\ \A r \in Process, s \in Steps, comm \in Comms :
                   r # q \/ s # step[p] \/ comm # Comm(p) => sent'[r][s][comm] = sent[r][s][comm]
              /\ sent'[q][step[p]][Comm(p)] = Tail(sent[q][step[p]][Comm(p)])
        BY <2>2, ReceiveIs
      <3>2. sent'[q][step[p]][Comm(p)] \in Seq(StripType(layout, q, step[p]))
        <4>1. sent[q][step[p]][Comm(p)] \in Seq(StripType(layout, q, step[p]))
          BY <2>0 DEF SentTypes
        <4> QED BY <3>1, <4>1, HeadTailProperties
      <3>3. ASSUME NEW r \in Process, NEW s \in Steps, NEW comm \in Comms
            PROVE  sent'[r][s][comm] \in Seq(StripType(layout, r, s))
        <4>1. CASE r = q /\ s = step[p] /\ comm = Comm(p)
          BY <3>2, <4>1
        <4>2. CASE r # q \/ s # step[p] \/ comm # Comm(p)
          <5>1. sent'[r][s][comm] = sent[r][s][comm]
            BY <3>1, <4>2
          <5> QED BY <5>1 DEF SentTypes
        <4> QED BY <4>1, <4>2
      <3> QED BY <3>1, <3>3
    <2>3. CASE ~Send(p) /\ ~Receive(p)
      <3>1. sent' = sent
        BY <1>2, <2>3 DEF Run, Compute, NextRow, FilteredRow, RowsDone, ReceiveNothing, Return
      <3> QED BY <3>1 DEF SentTypes
    <2> QED BY <2>1, <2>2, <2>3
  <1> QED BY <1>1, <1>2 DEF Next

-----------------------------------------------------------------------------
(* The rows before the pads are exchanged.                                   *)

LEMMA RowsKept ==
  ASSUME NEW q, RowsAt(q), layout' = layout, pc'[q] = pc[q], call'[q] = call[q],
         row'[q] = row[q], field'[q] = field[q]
  PROVE  RowsAt(q)'
  <1> SUFFICES ASSUME Filtering(q)',
                      NEW j \in ComputedRows(layout, q), NEW i \in Cols(layout, q)
               PROVE  field'[q][<<j, i>>] =
                        IF /\ j \in FilteredIn(layout, q, call'[q])
                           /\ j < row'[q] \/ (j = row'[q] /\ pc'[q] = "rows")
                          THEN Serial(layout, call'[q])[<<j, i>>] ELSE <<call'[q], j, i>>
    BY DEF RowsAt
  <1>1. Filtering(q)
    BY DEF Filtering
  <1>2. field[q][<<j, i>>] =
          IF /\ j \in FilteredIn(layout, q, call[q])
             /\ j < row[q] \/ (j = row[q] /\ pc[q] = "rows")
            THEN Serial(layout, call[q])[<<j, i>>] ELSE <<call[q], j, i>>
    BY <1>1 DEF RowsAt
  <1> QED BY <1>2

LEMMA RowsStep ==
  ASSUME Types, PcInv, FieldTypes, GivenTypes, RowsInv, GivenInv, [Next]_vars
  PROVE  RowsInv'
  <1>1. CASE UNCHANGED vars
    <2>1. /\ layout' = layout /\ Process' = Process
          /\ \A q \in Process : /\ pc'[q] = pc[q] /\ call'[q] = call[q]
                                /\ row'[q] = row[q] /\ field'[q] = field[q]
      BY <1>1 DEF vars, Process
    <2>2. \A q \in Process : RowsAt(q)'
      BY <2>1, RowsKept DEF RowsInv
    <2> QED BY <2>1, <2>2 DEF RowsInv
  <1>2. ASSUME NEW p \in Process, Run(p) PROVE RowsInv'
    <2>0. layout' = layout /\ Process' = Process /\ layout \in Layouts /\ p \in Processes(layout)
      BY <1>2, Others DEF Types, Process
    <2>1. \A q \in Process : q # p => RowsAt(q)'
      BY <1>2, Others, RowsKept DEF RowsInv
    <2>2. RowsAt(p)'
      <3> SUFFICES ASSUME Filtering(p)',
                          NEW j \in ComputedRows(layout, p), NEW i \in Cols(layout, p)
                   PROVE  field'[p][<<j, i>>] =
                            IF /\ j \in FilteredIn(layout, p, call'[p])
                               /\ j < row'[p] \/ (j = row'[p] /\ pc'[p] = "rows")
                              THEN Serial(layout, call'[p])[<<j, i>>] ELSE <<call'[p], j, i>>
        BY <2>0 DEF RowsAt
      <3>0. /\ <<j, i>> \in Padded(layout, p) /\ <<j, i>>[1] = j /\ <<j, i>>[2] = i
            /\ field[p] \in [Padded(layout, p) -> Value(layout)]
            /\ j \in Int /\ row[p] \in Int /\ call[p] \in Nat
        <4>1. ComputedRows(layout, p) \subseteq PaddedRows(layout, p)
              /\ Cols(layout, p) \subseteq PaddedCols(layout, p) /\ PaddedRows(layout, p) \subseteq Int
          BY <2>0, PaddedIs
        <4>2. row[p] \in Int /\ call[p] \in Nat
          BY <2>0, LayoutTypes, CallsAssumption DEF Types
        <4> QED BY <4>1, <4>2 DEF Padded, FieldTypes
      <3>1. CASE Compute(p)
        <4>1. /\ call'[p] = call[p] + 1 /\ row'[p] = -1
              /\ field'[p] = [x \in Padded(layout, p) |->
                   IF x[1] \in ComputedRows(layout, p) /\ x[2] \in ILO(layout, p) .. IHI(layout, p)
                     THEN <<call[p] + 1, x[1], x[2]>> ELSE field[p][x]]
          BY <3>0, <3>1 DEF Compute, Types
        <4>2. field'[p][<<j, i>>] = <<call'[p], j, i>>
          BY <3>0, <4>1 DEF Cols
        <4>3. j \in FilteredIn(layout, p, call'[p]) => j >= 0
          BY <2>0, FilteredRows, LayoutTypes
        <4> QED BY <3>0, <4>1, <4>2, <4>3
      <3>2. CASE NextRow(p)
        <4>1. /\ field'[p] = field[p] /\ call'[p] = call[p] /\ pc[p] = "rows" /\ pc'[p] = "allreduce"
          BY <3>2 DEF NextRow, Goto, Types
        <4>2. /\ row'[p] \in FilteredIn(layout, p, call[p]) /\ row'[p] > row[p]
              /\ j \in FilteredIn(layout, p, call[p]) /\ j > row[p] => row'[p] <= j
          BY <3>2, NextRowGives
        <4>5. row'[p] \in Int
          <5>1. row'[p] \in 0 .. layout.nj
            BY <2>0, <4>2, FilteredRows
          <5> QED BY <5>1, LayoutTypes
        <4>3. j \in FilteredIn(layout, p, call[p]) => (j < row'[p] <=> (j < row[p] \/ j = row[p]))
          BY <3>0, <4>2, <4>5
        <4>4. field[p][<<j, i>>] =
                IF /\ j \in FilteredIn(layout, p, call[p])
                   /\ j < row[p] \/ (j = row[p] /\ pc[p] = "rows")
                  THEN Serial(layout, call[p])[<<j, i>>] ELSE <<call[p], j, i>>
          BY <4>1 DEF RowsInv, RowsAt, Filtering
        <4> QED BY <4>1, <4>3, <4>4
      <3>3. CASE FilteredRow(p)
        <4>1. /\ call'[p] = call[p] /\ row'[p] = row[p] /\ pc[p] = "allreduce" /\ pc'[p] = "rows"
              /\ field'[p] = [x \in Padded(layout, p) |->
                   IF x[1] = row[p] /\ x[2] \in ILO(layout, p) .. IHI(layout, p)
                     THEN <<-call[p], Summed(p), x[2]>> ELSE field[p][x]]
          BY <3>0, <3>3 DEF FilteredRow, Goto, Types
        <4>2. field[p][<<j, i>>] =
                IF j \in FilteredIn(layout, p, call[p]) /\ j < row[p]
                  THEN Serial(layout, call[p])[<<j, i>>] ELSE <<call[p], j, i>>
          BY <4>1 DEF RowsInv, RowsAt, Filtering
        <4>3. row[p] \in FilteredIn(layout, p, call[p])
          BY <4>1 DEF PcInv, PcAt
        <4>4. CASE j = row[p]
          <5>1. field'[p][<<j, i>>] = <<-call[p], Summed(p), i>>
            BY <3>0, <4>1, <4>4 DEF Cols
          <5>2. Serial(layout, call[p])[<<j, i>>] = FilteredValue(layout, call[p], j, i)
            BY <2>0, <3>0, <4>3, <4>4, SerialInside
          <5>3. Summed(p) = [k \in 1 .. layout.ni |-> <<call[p], j, k>>]
            BY <3>3, <4>4, SummedIs
          <5>4. field'[p][<<j, i>>] = Serial(layout, call[p])[<<j, i>>]
            BY <5>1, <5>2, <5>3 DEF FilteredValue, Raw
          <5> QED BY <4>1, <4>3, <4>4, <5>4
        <4>5. CASE j # row[p]
          <5>1. field'[p][<<j, i>>] = field[p][<<j, i>>]
            BY <3>0, <4>1, <4>5
          <5> QED BY <4>1, <4>2, <4>5, <5>1
        <4> QED BY <4>4, <4>5
      <3>4. CASE RowsDone(p) \/ Send(p) \/ Receive(p) \/ ReceiveNothing(p) \/ Return(p)
        BY <3>4 DEF RowsDone, Send, Receive, ReceiveNothing, Return, Goto, Filtering, Types
      <3> QED BY <1>2, <3>1, <3>2, <3>3, <3>4 DEF Run
    <2> QED BY <2>0, <2>1, <2>2 DEF RowsInv
  <1> QED BY <1>1, <1>2 DEF Next

-----------------------------------------------------------------------------
(* The sums of zonal_filter().                                               *)

LEMMA SharedRows ==
  ASSUME Types, NEW p \in Process, NEW q \in CommJLO(p)
  PROVE  /\ q \in Process /\ p \in CommJLO(q)
         /\ \A c : FilteredIn(layout, q, c) = FilteredIn(layout, p, c)
  <1>1. q \in Process /\ JLO(layout, q) = JLO(layout, p)
    BY DEF CommJLO
  <1>2. JHI(layout, q) = JHI(layout, p)
    BY <1>1, SubgridsMeet DEF Types, Process
  <1> QED BY <1>1, <1>2 DEF CommJLO, FilteredIn

LEMMA FutureKept ==
  ASSUME NEW q, layout' = layout, call'[q] = call[q], row'[q] = row[q]
  PROVE  Future(q)' = Future(q)
  BY DEF Future

(* A new call has all its rows to come, and the last had none left. *)
LEMMA ComputeFuture ==
  ASSUME Types, PcInv, NEW p \in Process, Compute(p)
  PROVE  Future(p)' = Future(p)
  <1>1. /\ layout' = layout /\ call'[p] = call[p] + 1 /\ row'[p] = -1 /\ pc[p] = "compute"
    BY DEF Compute, Goto, Types
  <1>2. call[p] \in Nat /\ row[p] \in Int /\ layout.nj \in Nat
    BY LayoutTypes, CallsAssumption DEF Types
  <1>3. \A j \in FilteredIn(layout, p, call[p]) : j <= row[p]
    BY <1>1 DEF PcInv, PcAt, Filtering
  <1>4. ASSUME NEW x \in (1 .. Calls) \X (0 .. layout.nj), x[2] \in FilteredIn(layout, p, x[1])
        PROVE  (x[1] > call[p] + 1 \/ (x[1] = call[p] + 1 /\ x[2] > -1)) <=>
               (x[1] > call[p] \/ (x[1] = call[p] /\ x[2] > row[p]))
    <2>1. x[1] \in Nat /\ x[2] \in Nat
      BY <1>2, CallsAssumption
    <2>2. x[1] = call[p] => x[2] <= row[p]
      BY <1>3, <1>4
    <2> QED BY <1>2, <2>1, <2>2
  <1>5. Future(p)' = {x \in (1 .. Calls) \X (0 .. layout.nj) :
          /\ x[2] \in FilteredIn(layout, p, x[1])
          /\ x[1] > call[p] + 1 \/ (x[1] = call[p] + 1 /\ x[2] > -1)}
    BY <1>1 DEF Future
  <1> QED BY <1>4, <1>5 DEF Future

(* The sum a process begins is the first of those to come. *)
LEMMA NextFuture ==
  ASSUME Types, PcInv, RowsInv, GivenTypes, NEW p \in Process, NextRow(p)
  PROVE  /\ Future(p) = Future(p)' \cup {<<call[p], row'[p]>>}
         /\ <<call[p], row'[p]>> \notin Future(p)'
         /\ \A x \in Future(p) : x[1] > call[p] \/ (x[1] = call[p] /\ x[2] >= row'[p])
         /\ call'[p] = call[p] /\ row'[p] \in Int /\ call[p] \in Int
  <1>1. /\ layout' = layout /\ call'[p] = call[p] /\ pc[p] = "rows"
    BY DEF NextRow, Goto, Types
  <1>2. call[p] \in 0 .. Calls /\ Calls \in Nat /\ row[p] \in Int /\ layout.nj \in Nat
    BY LayoutTypes, CallsAssumption DEF Types
  <1>3. /\ row'[p] \in FilteredIn(layout, p, call[p]) /\ row'[p] > row[p]
        /\ \A k \in FilteredIn(layout, p, call[p]) : k > row[p] => row'[p] <= k
    BY NextRowGives
  <1>4. row'[p] \in 0 .. layout.nj
    BY <1>3, FilteredRows DEF Types, Process
  <1>5. call[p] >= 1
    BY <1>1 DEF PcInv, PcAt
  <1>6. ASSUME NEW x \in (1 .. Calls) \X (0 .. layout.nj), x[2] \in FilteredIn(layout, p, x[1])
        PROVE  /\ (x[1] > call[p] \/ (x[1] = call[p] /\ x[2] > row[p])) <=>
                   ((x[1] > call[p] \/ (x[1] = call[p] /\ x[2] > row'[p]))
                     \/ (x[1] = call[p] /\ x[2] = row'[p]))
               /\ (x[1] > call[p] \/ (x[1] = call[p] /\ x[2] > row[p])) =>
                   (x[1] > call[p] \/ (x[1] = call[p] /\ x[2] >= row'[p]))
    <2>1. x[1] \in Int /\ x[2] \in Int
      BY <1>2
    <2>2. x[1] = call[p] /\ x[2] > row[p] => row'[p] <= x[2]
      BY <1>3, <1>6
    <2> QED BY <1>2, <1>3, <1>4, <2>1, <2>2
  <1>7. Future(p)' = {x \in (1 .. Calls) \X (0 .. layout.nj) :
          /\ x[2] \in FilteredIn(layout, p, x[1])
          /\ x[1] > call[p] \/ (x[1] = call[p] /\ x[2] > row'[p])}
    BY <1>1 DEF Future
  <1>8. <<call[p], row'[p]>> \in Future(p)
    <2>1. <<call[p], row'[p]>> \in (1 .. Calls) \X (0 .. layout.nj)
      BY <1>2, <1>4, <1>5
    <2> QED BY <1>3, <2>1 DEF Future
  <1>9. <<call[p], row'[p]>> \notin Future(p)'
    <2>1. ~(call[p] > call[p]) /\ ~(row'[p] > row'[p])
      BY <1>2, <1>4
    <2> QED BY <1>7, <2>1
  <1>10. \A x \in Future(p) : x[1] > call[p] \/ (x[1] = call[p] /\ x[2] >= row'[p])
    BY <1>6 DEF Future
  <1>11. ASSUME NEW x
         PROVE  x \in Future(p) <=> (x \in Future(p)' \/ x = <<call[p], row'[p]>>)
    <2>1. ASSUME x \in Future(p) PROVE x \in Future(p)' \/ x = <<call[p], row'[p]>>
      <3>1. /\ x \in (1 .. Calls) \X (0 .. layout.nj) /\ x[2] \in FilteredIn(layout, p, x[1])
            /\ x[1] > call[p] \/ (x[1] = call[p] /\ x[2] > row[p])
        BY <2>1 DEF Future
      <3>2. CASE x[1] > call[p] \/ (x[1] = call[p] /\ x[2] > row'[p])
        BY <1>7, <3>1, <3>2
      <3>3. CASE x[1] = call[p] /\ x[2] = row'[p]
        BY <3>1, <3>3
      <3> QED BY <1>6, <3>1, <3>2, <3>3
    <2>2. ASSUME x \in Future(p)' PROVE x \in Future(p)
      <3>1. /\ x \in (1 .. Calls) \X (0 .. layout.nj) /\ x[2] \in FilteredIn(layout, p, x[1])
            /\ x[1] > call[p] \/ (x[1] = call[p] /\ x[2] > row'[p])
        BY <1>7, <2>2
      <3>2. x[1] > call[p] \/ (x[1] = call[p] /\ x[2] > row[p])
        BY <1>6, <3>1
      <3> QED BY <3>1, <3>2 DEF Future
    <2> QED BY <1>8, <2>1, <2>2
  <1> QED BY <1>1, <1>2, <1>4, <1>9, <1>10, <1>11

LEMMA GivenKept ==
  ASSUME NEW a, NEW b, GivenAt(a, b), layout' = layout,
         pc'[a] = "allreduce" <=> pc[a] = "allreduce",
         pc'[a] = "allreduce" => call'[a] = call[a] /\ row'[a] = row[a],
         Len(given[a]) = Len(given[b]) + 1 => call'[a] = call[a] /\ row'[a] = row[a],
         Future(a)' = Future(a), Future(b)' = Future(b),
         given'[a] = given[a], given'[b] = given[b]
  PROVE  GivenAt(a, b)'
  <1>1. /\ pc'[a] # "allreduce" => Len(given'[a]) <= Len(given'[b])
        /\ Len(given'[a]) <= Len(given'[b]) + 1
        /\ Len(given'[a]) = Len(given'[b]) => Future(a)' = Future(b)'
    BY DEF GivenAt
  <1>2. Len(given'[a]) = Len(given'[b]) + 1 => Future(b)' = Future(a)' \cup {<<call'[a], row'[a]>>}
    BY DEF GivenAt
  <1>3. ASSUME pc'[a] = "allreduce"
        PROVE  /\ Len(given'[a]) >= 1
               /\ Len(given'[b]) >= Len(given'[a]) =>
                    \A i \in Cols(layout, b) :
                      given'[b][Len(given'[a])][i] = <<call'[a], row'[a], i>>
    BY <1>3 DEF GivenAt
  <1> QED BY <1>1, <1>2, <1>3 DEF GivenAt

(* The others have given as much, or are in the sum that p begins. *)
LEMMA NextGiven ==
  ASSUME Types, PcInv, RowsInv, GivenTypes, GivenInv,
         NEW p \in Process, NextRow(p), NEW b \in CommJLO(p), b # p
  PROVE  GivenAt(p, b)' /\ GivenAt(b, p)'
  <1> DEFINE n == Len(given[p])
             m == Len(given[b])
             pair == <<call[p], row'[p]>>
             theirs == <<call[b], row[b]>>
  <1>1. /\ b \in Process /\ p \in CommJLO(b) /\ b \in CommJLO(b)
        /\ layout' = layout /\ pc'[b] = pc[b] /\ call'[b] = call[b] /\ row'[b] = row[b]
        /\ given'[b] = given[b]
    BY SharedRows, Others DEF Run, CommJLO
  <1>2. pc[p] = "rows" /\ pc'[p] = "allreduce"
    BY DEF NextRow, Goto, Types
  <1>3. n \in Nat /\ m \in Nat
    BY <1>1, LenProperties DEF GivenTypes
  <1>4. /\ n <= m /\ m <= n + 1
        /\ pc[b] # "allreduce" => m <= n
        /\ n = m => Future(p) = Future(b)
        /\ m = n + 1 => Future(p) = Future(b) \cup {theirs}
    BY <1>1, <1>2 DEF GivenInv, GivenAt
  <1>5. Future(b)' = Future(b)
    BY <1>1, FutureKept
  <1>6. /\ Future(p) = Future(p)' \cup {pair} /\ pair \notin Future(p)'
        /\ \A x \in Future(p) : x[1] > call[p] \/ (x[1] = call[p] /\ x[2] >= row'[p])
        /\ call'[p] = call[p] /\ row'[p] \in Int /\ call[p] \in Int
    BY NextFuture
  <1>7. /\ Len(given'[p]) = n + 1
        /\ \A k \in 1 .. n : given'[p][k] = given[p][k]
        /\ \A i \in Cols(layout, p) : given'[p][n + 1][i] = <<call[p], row'[p], i>>
    BY NextRowGives
  <1>8. ASSUME m = n + 1 PROVE pair = theirs /\ Future(p)' = Future(b)
    <2>1. call[b] \in Int /\ row[b] \in Int
      BY <1>1, LayoutTypes, CallsAssumption DEF Types
    <2>2. \A x \in Future(b) : x[1] > call[b] \/ (x[1] = call[b] /\ x[2] > row[b])
      BY DEF Future
    <2>3. pair \in Future(b) \/ pair = theirs
      BY <1>4, <1>6, <1>8
    <2>4. theirs \in Future(p)
      BY <1>4, <1>8
    <2>5. call[b] > call[p] \/ (call[b] = call[p] /\ row[b] >= row'[p])
      BY <1>6, <2>4
    <2>6. pair \in Future(b) => call[p] > call[b] \/ (call[p] = call[b] /\ row'[p] > row[b])
      BY <2>2
    <2>7. pair \notin Future(b)
      BY <1>6, <2>1, <2>5, <2>6
    <2>8. pair = theirs
      BY <2>3, <2>7
    <2>9. pair \notin Future(p)' /\ Future(p) = Future(p)' \cup {pair}
          /\ Future(p) = Future(b) \cup {pair}
      BY <1>4, <1>6, <1>8, <2>8
    <2> HIDE DEF pair, theirs
    <2>10. \A x : x \in Future(p)' <=> x \in Future(b)
      BY <2>7, <2>9
    <2>11. Future(p)' = Future(b)
      BY <2>10
    <2> QED BY <2>8, <2>11
  <1>9. GivenAt(p, b)'
    <2>1. n + 1 = m => Future(p)' = Future(b)
      BY <1>8
    <2>2. n + 1 = m + 1 => Future(b) = Future(p)' \cup {pair}
      BY <1>3, <1>4, <1>6
    <2>3. ASSUME m >= n + 1, NEW i \in Cols(layout, b)
          PROVE  given[b][n + 1][i] = <<call[p], row'[p], i>>
      <3>1. m = n + 1
        BY <1>3, <1>4, <2>3
      <3>2. pc[b] = "allreduce"
        BY <1>3, <1>4, <3>1
      <3>3. given[b][m][i] = <<call[b], row[b], i>>
        BY <1>1, <1>3, <3>2 DEF GivenInv, GivenAt
      <3>4. call[p] = call[b] /\ row'[p] = row[b]
        BY <1>8, <3>1
      <3> QED BY <3>1, <3>3, <3>4
    <2>4. n + 1 <= m + 1 /\ n + 1 >= 1
      BY <1>3, <1>4
    <2> HIDE DEF n, m
    <2>5. Len(given'[p]) = n + 1 /\ Len(given'[b]) = m
      BY <1>1, <1>7 DEF m
    <2>6. GivenAt(p, b)' <=>
            /\ pc'[p] # "allreduce" => Len(given'[p]) <= Len(given'[b])
            /\ Len(given'[p]) <= Len(given'[b]) + 1
            /\ Len(given'[p]) = Len(given'[b]) => Future(p)' = Future(b)'
            /\ Len(given'[p]) = Len(given'[b]) + 1 =>
                 Future(b)' = Future(p)' \cup {<<call'[p], row'[p]>>}
            /\ pc'[p] = "allreduce" =>
                 /\ Len(given'[p]) >= 1
                 /\ Len(given'[b]) >= Len(given'[p]) =>
                      \A i \in Cols(layout', b) :
                        given'[b][Len(given'[p])][i] = <<call'[p], row'[p], i>>
      BY DEF GivenAt
    <2> QED BY <1>1, <1>2, <1>5, <1>6, <2>1, <2>2, <2>3, <2>4, <2>5, <2>6
  <1>10. GivenAt(b, p)'
    <2>1. m = n + 1 => Future(b) = Future(p)'
      BY <1>8
    <2>2. m # (n + 1) + 1 /\ m <= (n + 1) + 1 /\ m <= n + 1
      BY <1>3, <1>4
    <2>3. ASSUME pc[b] = "allreduce", NEW i \in Cols(layout, p)
          PROVE  m >= 1 /\ given'[p][m][i] = <<call[b], row[b], i>>
      <3>1. m >= 1 /\ (n >= m => given[p][m][i] = <<call[b], row[b], i>>)
        BY <1>1, <2>3 DEF GivenInv, GivenAt
      <3>2. CASE m <= n
        <4>1. m \in 1 .. n
          BY <1>3, <3>1, <3>2
        <4> QED BY <1>3, <1>7, <3>1, <3>2, <4>1
      <3>3. CASE m = n + 1
        <4>1. call[p] = call[b] /\ row'[p] = row[b]
          BY <1>8, <3>3
        <4> QED BY <1>7, <3>1, <3>3, <4>1
      <3> QED BY <1>3, <1>4, <3>2, <3>3
    <2>7. pc[b] = "allreduce" => m >= 1
      BY <1>1 DEF GivenInv, GivenAt
    <2> HIDE DEF n, m
    <2>5. Len(given'[p]) = n + 1 /\ Len(given'[b]) = m
      BY <1>1, <1>7 DEF m
    <2>6. GivenAt(b, p)' <=>
            /\ pc'[b] # "allreduce" => Len(given'[b]) <= Len(given'[p])
            /\ Len(given'[b]) <= Len(given'[p]) + 1
            /\ Len(given'[b]) = Len(given'[p]) => Future(b)' = Future(p)'
            /\ Len(given'[b]) = Len(given'[p]) + 1 =>
                 Future(p)' = Future(b)' \cup {<<call'[b], row'[b]>>}
            /\ pc'[b] = "allreduce" =>
                 /\ Len(given'[b]) >= 1
                 /\ Len(given'[p]) >= Len(given'[b]) =>
                      \A i \in Cols(layout', p) :
                        given'[p][Len(given'[b])][i] = <<call'[b], row'[b], i>>
      BY DEF GivenAt
    <2> QED BY <1>1, <1>5, <2>1, <2>2, <2>3, <2>5, <2>6, <2>7
  <1> QED BY <1>9, <1>10

LEMMA GivenStep ==
  ASSUME Types, PcInv, GivenTypes, RowsInv, GivenInv, [Next]_vars
  PROVE  GivenInv'
  <1>1. CASE UNCHANGED vars
    <2>1. /\ layout' = layout /\ Process' = Process /\ pc' = pc /\ call' = call /\ row' = row
          /\ given' = given
      BY <1>1 DEF vars, Process
    <2>2. \A q : Future(q)' = Future(q)
      BY <2>1, FutureKept
    <2>3. \A q \in Process : CommJLO(q)' = CommJLO(q)
      BY <2>1 DEF CommJLO
    <2>4. \A a \in Process : \A b \in CommJLO(a) : GivenAt(a, b)'
      BY <2>1, <2>2, GivenKept DEF GivenInv
    <2> QED BY <2>1, <2>3, <2>4 DEF GivenInv
  <1>2. ASSUME NEW p \in Process, Run(p) PROVE GivenInv'
    <2>0. /\ layout' = layout /\ Process' = Process /\ \A q \in Process : CommJLO(q)' = CommJLO(q)
      BY <1>2, Others DEF CommJLO
    <2>1. \A q \in Process : q # p => /\ Future(q)' = Future(q) /\ pc'[q] = pc[q]
                                      /\ call'[q] = call[q] /\ row'[q] = row[q]
                                      /\ given'[q] = given[q]
      BY <1>2, Others, FutureKept
    <2> SUFFICES ASSUME NEW a \in Process, NEW b \in CommJLO(a)
                 PROVE  GivenAt(a, b)'
      BY <2>0 DEF GivenInv
    <2>2. GivenAt(a, b) /\ b \in Process
      BY DEF GivenInv, CommJLO
    <2>3. CASE Compute(p)
      <3>1. /\ Future(p)' = Future(p) /\ given'[p] = given[p]
            /\ pc[p] = "compute" /\ pc'[p] = "rows"
        BY <2>3, ComputeFuture DEF Compute, Goto, Types
      <3>2. a = p => ~(Len(given[a]) = Len(given[b]) + 1)
        <4>1. Len(given[a]) \in Nat /\ Len(given[b]) \in Nat
          BY <2>2, LenProperties DEF GivenTypes
        <4>2. a = p => Len(given[a]) <= Len(given[b])
          BY <2>2, <3>1 DEF GivenAt
        <4> QED BY <4>1, <4>2
      <3> QED BY <2>0, <2>1, <2>2, <3>1, <3>2, GivenKept
    <2>4. CASE NextRow(p)
      <3>1. CASE a # p /\ b # p
        BY <2>0, <2>1, <2>2, <3>1, GivenKept
      <3>2. CASE a = p /\ b # p
        BY <2>4, <3>2, NextGiven
      <3>3. CASE a # p /\ b = p
        BY <2>4, <3>3, SharedRows, NextGiven
      <3>4. CASE a = p /\ b = p
        <4>1. /\ Len(given'[p]) = Len(given[p]) + 1 /\ Len(given[p]) \in Nat
              /\ \A i \in Cols(layout, p) :
                   given'[p][Len(given[p]) + 1][i] = <<call[p], row'[p], i>>
          BY <2>4, NextRowGives, LenProperties DEF GivenTypes
        <4>2. call'[p] = call[p] /\ pc'[p] = "allreduce"
          BY <2>4 DEF NextRow, Goto, Types
        <4>3. Len(given'[p]) \in Nat /\ Len(given'[p]) >= 1
          BY <4>1
        <4>4. Len(given'[p]) <= Len(given'[p]) + 1 /\ Len(given'[p]) # Len(given'[p]) + 1
          BY <4>3
        <4>5. \A i \in Cols(layout, p) :
                given'[p][Len(given'[p])][i] = <<call'[p], row'[p], i>>
          BY <4>1, <4>2
        <4> QED BY <2>0, <3>4, <4>2, <4>3, <4>4, <4>5 DEF GivenAt
      <3> QED BY <3>1, <3>2, <3>3, <3>4
    <2>5. CASE FilteredRow(p)
      <3>1. /\ call'[p] = call[p] /\ row'[p] = row[p] /\ given'[p] = given[p]
            /\ pc'[p] = "rows" /\ \A q \in CommJLO(p) : Len(given[q]) >= Len(given[p])
        BY <2>5 DEF FilteredRow, Goto, Types
      <3>2. Future(p)' = Future(p)
        BY <2>0, <3>1, FutureKept
      <3>3. CASE a # p
        BY <2>0, <2>1, <2>2, <3>1, <3>2, <3>3, GivenKept
      <3>4. CASE a = p
        <4>1. Len(given[a]) \in Nat /\ Len(given[b]) \in Nat
          BY <2>2, LenProperties DEF GivenTypes
        <4>2. given'[a] = given[a] /\ given'[b] = given[b] /\ Future(a)' = Future(a)
              /\ Future(b)' = Future(b) /\ call'[a] = call[a] /\ row'[a] = row[a]
          BY <2>1, <2>2, <3>1, <3>2, <3>4
        <4>3. Len(given[a]) <= Len(given[b])
          BY <3>1, <3>4, <4>1
        <4> QED BY <2>2, <3>1, <3>4, <4>2, <4>3 DEF GivenAt
      <3> QED BY <3>3, <3>4
    <2>6. CASE RowsDone(p) \/ Send(p) \/ Receive(p) \/ ReceiveNothing(p) \/ Return(p)
      <3>1. /\ call'[p] = call[p] /\ row'[p] = row[p] /\ given'[p] = given[p]
            /\ pc[p] # "allreduce" /\ pc'[p] # "allreduce"
        BY <2>6 DEF RowsDone, Send, Receive, ReceiveNothing, Return, Goto, Types
      <3>2. Future(p)' = Future(p)
        BY <2>0, <3>1, FutureKept
      <3> QED BY <2>0, <2>1, <2>2, <3>1, <3>2, GivenKept
    <2> QED BY <1>2, <2>3, <2>4, <2>5, <2>6 DEF Run
  <1> QED BY <1>1, <1>2 DEF Next

-----------------------------------------------------------------------------
(* The strips and the pads.                                                  *)

(* A strip of the right call is what the pad it goes to should hold. *)
LEMMA StripFits ==
  ASSUME layout \in Layouts, NEW p \in Process, NEW s \in Steps, NEW q \in Source(p, s),
         NEW c, NEW strip, Expected(layout, q, s, c, strip),
         NEW x \in Pad(layout, p, s) \cap Whole(layout)
  PROVE  strip[IF Axis(s) = 1 THEN x[2] ELSE x[1]] = Serial(layout, c)[x]
  <1>1. /\ layout.ni \in Nat \ {0} /\ layout.nj \in Nat \ {0} /\ p \in Processes(layout)
        /\ q \in Process
    BY LayoutTypes, Partners DEF Process
  <1>2. /\ x[1] \in 0 .. layout.nj + 1 /\ x[2] \in 0 .. layout.ni + 1 /\ x = <<x[1], x[2]>>
    BY DEF Whole
  <1>3. /\ ILO(layout, p) \in Int /\ IHI(layout, p) \in Int
        /\ JLO(layout, p) \in Int /\ JHI(layout, p) \in Int
    BY <1>1, SubgridIs
  <1>4. /\ \A j \in 0 .. layout.nj + 1 :
             /\ Serial(layout, c)[<<j, 0>>] = Serial(layout, c)[<<j, layout.ni>>]
             /\ Serial(layout, c)[<<j, layout.ni + 1>>] = Serial(layout, c)[<<j, 1>>]
        /\ Wrap(layout.geometry) => \A i \in 0 .. layout.ni + 1 :
             /\ Serial(layout, c)[<<0, i>>] = Serial(layout, c)[<<layout.nj, i>>]
             /\ Serial(layout, c)[<<layout.nj + 1, i>>] = Serial(layout, c)[<<1, i>>]
    BY SerialWraps
  <1>5. CASE s = 0
    <2>1. Axis(s) = 1 /\ Down(s)
      BY <1>5 DEF Axis, Down
    <2>2. x[1] = JHI(layout, p) + 1 /\ x[2] \in Cols(layout, p)
      BY <1>5 DEF Pad
    <2>3. Cols(layout, q) = Cols(layout, p)
      BY <1>5, StripsMeet DEF Cols
    <2>4. strip[x[2]] = Serial(layout, c)[<<JLO(layout, q), x[2]>>]
      BY <2>1, <2>2, <2>3 DEF Expected
    <2>5. Serial(layout, c)[<<JLO(layout, q), x[2]>>] = Serial(layout, c)[<<x[1], x[2]>>]
      <3>1. CASE JHI(layout, p) + 1 = JLO(layout, q)
        BY <2>2, <3>1
      <3>2. CASE Wrap(layout.geometry) /\ JHI(layout, p) = layout.nj /\ JLO(layout, q) = 1
        <4>1. x[1] = layout.nj + 1
          BY <2>2, <3>2
        <4>2. Serial(layout, c)[<<layout.nj + 1, x[2]>>] = Serial(layout, c)[<<1, x[2]>>]
          BY <1>2, <1>4, <3>2
        <4> QED BY <3>2, <4>1, <4>2
      <3> QED BY <1>5, <3>1, <3>2, StripsMeet
    <2> QED BY <1>2, <2>1, <2>4, <2>5
  <1>6. CASE s = 1
    <2>1. Axis(s) = 1 /\ ~Down(s)
      BY <1>6 DEF Axis, Down
    <2>2. x[1] = JLO(layout, p) - 1 /\ x[2] \in Cols(layout, p)
      BY <1>6 DEF Pad
    <2>3. Cols(layout, q) = Cols(layout, p)
      BY <1>6, StripsMeet DEF Cols
    <2>4. strip[x[2]] = Serial(layout, c)[<<JHI(layout, q), x[2]>>]
      BY <2>1, <2>2, <2>3 DEF Expected
    <2>5. Serial(layout, c)[<<JHI(layout, q), x[2]>>] = Serial(layout, c)[<<x[1], x[2]>>]
      <3>1. CASE JLO(layout, p) - 1 = JHI(layout, q)
        BY <2>2, <3>1
      <3>2. CASE Wrap(layout.geometry) /\ JLO(layout, p) = 1 /\ JHI(layout, q) = layout.nj
        <4>1. x[1] = 0
          BY <2>2, <3>2
        <4>2. Serial(layout, c)[<<0, x[2]>>] = Serial(layout, c)[<<layout.nj, x[2]>>]
          BY <1>2, <1>4, <3>2
        <4> QED BY <3>2, <4>1, <4>2
      <3> QED BY <1>6, <3>1, <3>2, StripsMeet
    <2> QED BY <1>2, <2>1, <2>4, <2>5
  <1>7. CASE s \in {2, 3}
    <2>1. Axis(s) = 0 /\ (Down(s) <=> s = 2)
      BY <1>7 DEF Axis, Down
    <2>2. PaddedRows(layout, q) = PaddedRows(layout, p)
      BY <1>7, StripsMeet DEF PaddedRows
    <2>3. x[1] \in PaddedRows(layout, p)
      BY <1>7 DEF Pad
    <2>4. strip[x[1]] = Serial(layout, c)[<<x[1], IF s = 2 THEN ILO(layout, q) ELSE IHI(layout, q)>>]
      <3>1. x[1] \in PaddedRows(layout, q) \cap (0 .. layout.nj + 1) /\ Axis(s) # 1
        BY <1>2, <2>1, <2>2, <2>3
      <3>2. strip[x[1]] =
              Serial(layout, c)[<<x[1], IF Down(s) THEN ILO(layout, q) ELSE IHI(layout, q)>>]
        BY <3>1 DEF Expected
      <3> QED BY <2>1, <3>2
    <2>5. CASE s = 2
      <3>1. x[2] = IHI(layout, p) + 1
        BY <2>5 DEF Pad
      <3>2. Serial(layout, c)[<<x[1], ILO(layout, q)>>] = Serial(layout, c)[<<x[1], x[2]>>]
        <4>1. CASE IHI(layout, p) + 1 = ILO(layout, q)
          BY <3>1, <4>1
        <4>2. CASE IHI(layout, p) = layout.ni /\ ILO(layout, q) = 1
          <5>1. x[2] = layout.ni + 1
            BY <3>1, <4>2
          <5>2. Serial(layout, c)[<<x[1], layout.ni + 1>>] = Serial(layout, c)[<<x[1], 1>>]
            BY <1>2, <1>4
          <5> QED BY <4>2, <5>1, <5>2
        <4> QED BY <2>5, <4>1, <4>2, StripsMeet
      <3> QED BY <1>2, <2>1, <2>4, <2>5, <3>2
    <2>6. CASE s = 3
      <3>1. x[2] = ILO(layout, p) - 1
        BY <2>6 DEF Pad
      <3>2. Serial(layout, c)[<<x[1], IHI(layout, q)>>] = Serial(layout, c)[<<x[1], x[2]>>]
        <4>1. CASE ILO(layout, p) - 1 = IHI(layout, q)
          BY <3>1, <4>1
        <4>2. CASE ILO(layout, p) = 1 /\ IHI(layout, q) = layout.ni
          <5>1. x[2] = 0
            BY <3>1, <4>2
          <5> QED BY <1>2, <1>4, <4>2, <5>1
        <4> QED BY <2>6, <4>1, <4>2, StripsMeet
      <3> QED BY <1>2, <2>1, <2>4, <2>6, <3>2
    <2> QED BY <1>7, <2>5, <2>6
  <1> QED BY <1>5, <1>6, <1>7 DEF Steps

(* The strip a process sends is that of its call: the corners have come with *)
(* the pads of the meridional axis.                                          *)
LEMMA StripExpected ==
  ASSUME Types, PcInv, FieldInv, NEW p \in Process, Send(p)
  PROVE  Expected(layout, p, step[p], call[p], Strip(p, step[p]))
  <1> DEFINE s == step[p]
             c == call[p]
  <1>1. /\ s \in Steps /\ pc[p] = "sendrecv" /\ p \in Processes(layout) /\ layout \in Layouts
    BY DEF Send, Goto, Types, Process
  <1>2. ~Filtering(p) /\ c >= 1 /\ \A t \in Steps : t < s => Got(p, t)
    BY <1>1 DEF PcInv, PcAt, Filtering, Got
  <1>3. /\ \A x \in Sub(layout, p) : field[p][x] = Serial(layout, c)[x]
        /\ \A t \in Steps : t < s =>
             \A x \in Pad(layout, p, t) \cap Whole(layout) : field[p][x] = Serial(layout, c)[x]
    BY <1>2 DEF FieldInv, FieldAt
  <1>4. /\ PaddedRows(layout, p) = JLO(layout, p) - 1 .. JHI(layout, p) + 1
        /\ Cols(layout, p) \subseteq PaddedCols(layout, p) /\ Cols(layout, p) \subseteq 1 .. layout.ni
        /\ ILO(layout, p) \in Cols(layout, p) /\ IHI(layout, p) \in Cols(layout, p)
        /\ ComputedRows(layout, p) \subseteq PaddedRows(layout, p)
        /\ JLO(layout, p) \in ComputedRows(layout, p) /\ JHI(layout, p) \in ComputedRows(layout, p)
        /\ JLO(layout, p) \in Int /\ JHI(layout, p) \in Int /\ layout.ni \in Nat
    BY <1>1, PaddedIs, SubgridIs, LayoutTypes
  <1> HIDE DEF s, c
  <1>5. CASE s \in {0, 1}
    <2>1. Axis(s) = 1
      BY <1>5 DEF Axis
    <2>2. Strip(p, s) = [i \in PaddedCols(layout, p) |->
                           field[p][<<IF Down(s) THEN JLO(layout, p) ELSE JHI(layout, p), i>>]]
      BY <2>1 DEF Strip
    <2>3. \A i \in Cols(layout, p) : /\ <<JLO(layout, p), i>> \in Sub(layout, p)
                                     /\ <<JHI(layout, p), i>> \in Sub(layout, p)
      BY <1>4 DEF Sub
    <2>4. \A i \in Cols(layout, p) :
            Strip(p, s)[i] =
              Serial(layout, c)[<<IF Down(s) THEN JLO(layout, p) ELSE JHI(layout, p), i>>]
      BY <1>3, <1>4, <2>2, <2>3
    <2> QED BY <2>1, <2>4 DEF Expected, s, c
  <1>6. CASE s \in {2, 3}
    <2>1. Axis(s) # 1 /\ 0 < s /\ 1 < s /\ 0 \in Steps /\ 1 \in Steps
      BY <1>6 DEF Axis, Steps
    <2>2. Strip(p, s) = [j \in PaddedRows(layout, p) |->
                           field[p][<<j, IF Down(s) THEN ILO(layout, p) ELSE IHI(layout, p)>>]]
      BY <2>1 DEF Strip
    <2>3. ASSUME NEW j \in PaddedRows(layout, p) \cap (0 .. layout.nj + 1), NEW i \in Cols(layout, p)
          PROVE  field[p][<<j, i>>] = Serial(layout, c)[<<j, i>>]
      <3>1. <<j, i>> \in Whole(layout)
        BY <1>4 DEF Whole
      <3>2. CASE j \in JLO(layout, p) .. JHI(layout, p)
        <4>1. <<j, i>> \in Sub(layout, p)
          BY <1>4, <3>2 DEF Sub, ComputedRows
        <4> QED BY <1>3, <4>1
      <3>3. CASE j = JHI(layout, p) + 1
        <4>1. <<j, i>> \in Pad(layout, p, 0)
          BY <3>3 DEF Pad
        <4> QED BY <1>3, <2>1, <3>1, <4>1
      <3>4. CASE j = JLO(layout, p) - 1
        <4>1. <<j, i>> \in Pad(layout, p, 1)
          BY <3>4 DEF Pad
        <4> QED BY <1>3, <2>1, <3>1, <4>1
      <3> QED BY <1>4, <3>2, <3>3, <3>4
    <2>4. \A j \in PaddedRows(layout, p) \cap (0 .. layout.nj + 1) :
            Strip(p, s)[j] =
              Serial(layout, c)[<<j, IF Down(s) THEN ILO(layout, p) ELSE IHI(layout, p)>>]
      BY <1>4, <2>2, <2>3
    <2> QED BY <2>1, <2>4 DEF Expected, s, c
  <1> QED BY <1>1, <1>5, <1>6 DEF Steps

(* Calls and their communicators. *)
LEMMA CountNth ==
  ASSUME NEW c \in Nat \ {0}, NEW comm \in Comms
  PROVE  LET own == IF c % 2 = 1 THEN "ij" ELSE "ijk"
         IN  /\ comm = own => Count(c, comm) = Count(c - 1, comm) + 1 /\ Nth(Count(c, comm), comm) = c
             /\ comm # own => Count(c, comm) = Count(c - 1, comm)
  <1>1. CASE comm = "ij"
    BY <1>1 DEF Count, Nth
  <1>2. CASE comm = "ijk"
    BY <1>2 DEF Count, Nth
  <1> QED BY <1>1, <1>2 DEF Comms

LEMMA CountTypes ==
  ASSUME NEW c \in Nat, NEW comm \in Comms
  PROVE  /\ Count(c, comm) \in Nat /\ Count(c, comm) <= c
  BY DEF Count, Comms

(* What the steps of a process pass. *)
LEMMA LastStep ==
  ASSUME Types, PcInv, NEW p \in Process, Run(p), NEW q \in Process, NEW s \in Steps
  PROVE  /\ IF q = p /\ Send(p) /\ s = step[p]
              THEN LastSent(q, s) = call[q] - 1 /\ LastSent(q, s)' = call[q]
              ELSE LastSent(q, s)' = LastSent(q, s)
         /\ IF q = p /\ (Receive(p) \/ ReceiveNothing(p)) /\ s = step[p]
              THEN LastGot(q, s) = call[q] - 1 /\ LastGot(q, s)' = call[q]
              ELSE LastGot(q, s)' = LastGot(q, s)
  <1>1. CASE q # p
    BY <1>1, Others DEF LastSent, LastGot, Passed, Got, Filtering, Exchanging
  <1>2. CASE q = p
    <2>0. call[p] \in Nat /\ step[p] \in Steps /\ PcAt(p)
      BY CallsAssumption DEF Types, PcInv
    <2> USE DEF LastSent, LastGot, Passed, Got, Filtering, Exchanging, Goto, Types, Steps
    <2>1. CASE Compute(p)
      <3>1. /\ pc[p] = "compute" /\ pc'[p] = "rows" /\ call'[p] = call[p] + 1
        BY <2>1 DEF Compute
      <3>2. ~Send(p) /\ ~Receive(p) /\ ~ReceiveNothing(p)
        BY <3>1 DEF Send, Receive, ReceiveNothing
      <3> QED BY <1>2, <2>0, <3>1, <3>2
    <2>2. CASE NextRow(p) \/ FilteredRow(p)
      <3>1. Filtering(p) /\ Filtering(p)' /\ call'[p] = call[p]
        BY <2>2 DEF NextRow, FilteredRow
      <3>2. ~Send(p) /\ ~Receive(p) /\ ~ReceiveNothing(p)
        BY <3>1 DEF Send, Receive, ReceiveNothing
      <3> QED BY <1>2, <2>0, <3>1, <3>2
    <2>3. CASE RowsDone(p)
      <3>1. /\ pc[p] = "rows" /\ pc'[p] = "sendrecv" /\ call'[p] = call[p]
            /\ step'[p] = step[p] /\ step[p] = 0
        BY <2>0, <2>3 DEF RowsDone, PcAt
      <3>2. ~Send(p) /\ ~Receive(p) /\ ~ReceiveNothing(p)
        BY <3>1 DEF Send, Receive, ReceiveNothing
      <3> QED BY <1>2, <2>0, <3>1, <3>2
    <2>4. CASE Send(p)
      <3>1. /\ pc[p] = "sendrecv" /\ pc'[p] = "wait" /\ call'[p] = call[p] /\ step'[p] = step[p]
        BY <2>4 DEF Send
      <3>2. ~Receive(p) /\ ~ReceiveNothing(p)
        BY <3>1 DEF Receive, ReceiveNothing
      <3> QED BY <1>2, <2>0, <2>4, <3>1, <3>2
    <2>5. CASE Receive(p) \/ ReceiveNothing(p)
      <3>1. /\ pc[p] = "wait" /\ pc'[p] = "arrived" /\ call'[p] = call[p] /\ step'[p] = step[p]
        BY <2>5 DEF Receive, ReceiveNothing
      <3>2. ~Send(p)
        BY <3>1 DEF Send
      <3> QED BY <1>2, <2>0, <2>5, <3>1, <3>2
    <2>6. CASE Return(p)
      <3>1. /\ pc[p] = "arrived" /\ call'[p] = call[p] /\ step'[p] = (step[p] + 1) % 4
            /\ pc'[p] = IF step[p] = 3 THEN "compute" ELSE "sendrecv"
        BY <2>6 DEF Return
      <3>2. ~Send(p) /\ ~Receive(p) /\ ~ReceiveNothing(p)
        BY <3>1 DEF Send, Receive, ReceiveNothing
      <3>3. step[p] # 3 => (step[p] + 1) % 4 = step[p] + 1
        BY <2>0
      <3> QED BY <1>2, <2>0, <3>1, <3>2, <3>3
    <2> QED BY <2>1, <2>2, <2>3, <2>4, <2>5, <2>6 DEF Run
  <1> QED BY <1>1, <1>2

LEMMA LastTypes ==
  ASSUME Types, PcInv, NEW p \in Process, NEW s \in Steps
  PROVE  LastSent(p, s) \in 0 .. Calls /\ LastGot(p, s) \in 0 .. Calls
  <1>1. call[p] \in 0 .. Calls /\ Calls \in Nat /\ PcAt(p)
    BY CallsAssumption DEF Types, PcInv
  <1>2. call[p] = 0 => Passed(p, s) /\ Got(p, s)
    BY <1>1 DEF PcAt, Passed, Got, Filtering, Exchanging
  <1> QED BY <1>1, <1>2 DEF LastSent, LastGot

(* The oldest message is the strip of the call its receiver is at. *)
LEMMA HeadExpected ==
  ASSUME Types, PcInv, SentTypes, QueueInv, NEW p \in Process, pc[p] = "wait",
         NEW q \in Source(p, step[p]), sent[q][step[p]][Comm(p)] # << >>
  PROVE  Expected(layout, q, step[p], call[p], Head(sent[q][step[p]][Comm(p)]))
  <1> DEFINE s == step[p]
             comm == Comm(p)
             queue == sent[q][s][comm]
  <1>1. /\ s \in Steps /\ comm \in Comms /\ q \in Process /\ p \in Dest(q, s)
        /\ call[p] \in Nat /\ call[p] >= 1
    BY Partners, CallsAssumption DEF Types, Comm, Comms, PcInv, PcAt
  <1>2. LastGot(p, s) = call[p] - 1
    BY <1>1 DEF LastGot, Got, Filtering, Exchanging, Steps
  <1>3. Nth(Count(call[p] - 1, comm) + 1, comm) = call[p]
    <2>1. call[p] \in Nat \ {0}
      BY <1>1
    <2> QED BY <1>1, <2>1, CountNth DEF Comm
  <1>4. queue \in Seq(StripType(layout, q, s)) /\ queue # << >>
    BY <1>1 DEF SentTypes
  <1>5. 1 \in 1 .. Len(queue) /\ Head(queue) = queue[1]
    BY <1>4
  <1>6. Expected(layout, q, s, Nth(Count(LastGot(p, s), comm) + 1, comm), queue[1])
    BY <1>1, <1>5 DEF QueueInv, QueueAt
  <1> QED BY <1>2, <1>3, <1>5, <1>6

LEMMA FieldKept ==
  ASSUME NEW q, FieldAt(q), layout' = layout, ~Filtering(q)' => ~Filtering(q),
         \A s \in Steps : Got(q, s)' => Got(q, s),
         call'[q] = call[q], field'[q] = field[q]
  PROVE  FieldAt(q)'
  <1> SUFFICES ASSUME ~Filtering(q)', call'[q] >= 1
               PROVE  /\ \A x \in Sub(layout, q) : field'[q][x] = Serial(layout, call'[q])[x]
                      /\ \A s \in Steps : Got(q, s)' =>
                           \A x \in Pad(layout, q, s) \cap Whole(layout) :
                             field'[q][x] = Serial(layout, call'[q])[x]
    BY DEF FieldAt
  <1>1. ~Filtering(q) /\ call[q] >= 1
    OBVIOUS
  <1>2. /\ \A x \in Sub(layout, q) : field[q][x] = Serial(layout, call[q])[x]
        /\ \A s \in Steps : Got(q, s) =>
             \A x \in Pad(layout, q, s) \cap Whole(layout) :
               field[q][x] = Serial(layout, call[q])[x]
    BY <1>1 DEF FieldAt
  <1> QED BY <1>2

(* When the rows are done, the subgrid is as in a serial run. *)
LEMMA RowsDoneGives ==
  ASSUME Types, PcInv, RowsInv, NEW p \in Process, RowsDone(p)
  PROVE  \A x \in Sub(layout, p) : field[p][x] = Serial(layout, call[p])[x]
  <1>1. layout \in Layouts /\ p \in Processes(layout) /\ pc[p] = "rows" /\ call[p] \in Nat
        /\ row[p] \in Int
    BY LayoutTypes, CallsAssumption DEF Types, Process, RowsDone, Goto
  <1>2. \A j \in FilteredIn(layout, p, call[p]) : ~(j > row[p]) /\ j \in Int
    <2>1. \A j \in FilteredIn(layout, p, call[p]) : ~(j > row[p])
      BY FilteredAfterIs DEF RowsDone
    <2>2. \A j \in FilteredIn(layout, p, call[p]) : j \in 0 .. layout.nj
      BY <1>1, FilteredRows
    <2> QED BY <1>1, <2>1, <2>2, LayoutTypes
  <1>3. ASSUME NEW j \in ComputedRows(layout, p), NEW i \in Cols(layout, p)
        PROVE  field[p][<<j, i>>] = Serial(layout, call[p])[<<j, i>>]
    <2>1. field[p][<<j, i>>] =
            IF /\ j \in FilteredIn(layout, p, call[p])
               /\ j < row[p] \/ (j = row[p] /\ pc[p] = "rows")
              THEN Serial(layout, call[p])[<<j, i>>] ELSE <<call[p], j, i>>
      BY <1>1 DEF RowsInv, RowsAt, Filtering
    <2>2. CASE j \in FilteredIn(layout, p, call[p])
      <3>1. j < row[p] \/ j = row[p]
        BY <1>1, <1>2, <2>2
      <3> QED BY <1>1, <2>1, <2>2, <3>1
    <2>3. CASE j \notin FilteredIn(layout, p, call[p])
      <3>1. Serial(layout, call[p])[<<j, i>>] = Raw(call[p], j, i)
        <4> DEFINE c == call[p]
        <4>1. c \in Nat /\ layout \in Layouts /\ p \in Processes(layout)
          BY <1>1
        <4>2. j \notin FilteredIn(layout, p, c)
          BY <2>3
        <4> HIDE DEF c
        <4>3. Serial(layout, c)[<<j, i>>] = Raw(c, j, i)
          BY <4>1, <4>2, SerialInside
        <4> QED BY <4>3 DEF c
      <3>2. field[p][<<j, i>>] = <<call[p], j, i>>
        BY <2>1, <2>3
      <3> QED BY <3>1, <3>2 DEF Raw
    <2> QED BY <2>2, <2>3
  <1> QED BY <1>3 DEF Sub

(* What arrives changes only the pad it is for. *)
LEMMA ReceiveGives ==
  ASSUME Types, PcInv, FieldTypes, SentTypes, FieldInv, QueueInv, NEW p \in Process, Receive(p)
  PROVE  FieldAt(p)'
  <1> DEFINE s == step[p]
             c == call[p]
  <1>1. /\ layout' = layout /\ call'[p] = c /\ step'[p] = s /\ pc[p] = "wait" /\ pc'[p] = "arrived"
        /\ s \in Steps /\ layout \in Layouts /\ p \in Processes(layout) /\ Steps = {0, 1, 2, 3}
    BY DEF Receive, Goto, Types, Process, Steps
  <1>2. PICK q \in Source(p, s) :
          /\ q \in Process
          /\ sent[q][s][Comm(p)] # << >>
          /\ field'[p] = Placed(p, s, Head(sent[q][s][Comm(p)]))
          /\ Head(sent[q][s][Comm(p)]) \in StripType(layout, q, s)
    BY ReceiveIs
  <1> DEFINE strip == Head(sent[q][s][Comm(p)])
  <1>3. Expected(layout, q, s, c, strip)
    BY <1>1, <1>2, HeadExpected
  <1>4. /\ \A x \in Pad(layout, p, s) :
             field'[p][x] = strip[IF Axis(s) = 1 THEN x[2] ELSE x[1]]
        /\ \A x \in Padded(layout, p) :
             /\ s = 0 /\ x[1] # JHI(layout, p) + 1 => field'[p][x] = field[p][x]
             /\ s = 1 /\ x[1] # JLO(layout, p) - 1 => field'[p][x] = field[p][x]
             /\ s = 2 /\ x[2] # IHI(layout, p) + 1 => field'[p][x] = field[p][x]
             /\ s = 3 /\ x[2] # ILO(layout, p) - 1 => field'[p][x] = field[p][x]
    <2>1. s \in Steps /\ strip \in StripType(layout, q, s) /\ field'[p] = Placed(p, s, strip)
      BY <1>1, <1>2
    <2> HIDE DEF s, strip
    <2> QED BY <1>2, <2>1, PlacedIs
  <1>5. /\ ~Filtering(p) /\ c >= 1 /\ \A t \in Steps : Got(p, t)' => Got(p, t) \/ t = s
        /\ \A t \in Steps : Got(p, t)' => t <= s
    BY <1>1 DEF PcInv, PcAt, Filtering, Got, Exchanging
  <1>6. /\ \A x \in Sub(layout, p) : field[p][x] = Serial(layout, c)[x]
        /\ \A t \in Steps : Got(p, t) =>
             \A x \in Pad(layout, p, t) \cap Whole(layout) : field[p][x] = Serial(layout, c)[x]
    BY <1>5 DEF FieldInv, FieldAt
  <1>7. /\ PaddedRows(layout, p) = JLO(layout, p) - 1 .. JHI(layout, p) + 1
        /\ PaddedCols(layout, p) = ILO(layout, p) - 1 .. IHI(layout, p) + 1
        /\ Cols(layout, p) \subseteq PaddedCols(layout, p)
        /\ ComputedRows(layout, p) \subseteq PaddedRows(layout, p)
        /\ JLO(layout, p) \in Int /\ JHI(layout, p) \in Int /\ JLO(layout, p) <= JHI(layout, p)
        /\ ILO(layout, p) \in Int /\ IHI(layout, p) \in Int /\ ILO(layout, p) <= IHI(layout, p)
    BY <1>1, PaddedIs, SubgridIs
  <1>8. s = 0 => JHI(layout, p) + 1 \notin ComputedRows(layout, p)
    <2>1. s = 0 => ~(~Wrap(layout.geometry) /\ JHI(layout, p) = layout.nj)
      BY <1>2, NoSource DEF Types
    <2> QED BY <1>7, <2>1 DEF ComputedRows
  <1>9. JLO(layout, p) - 1 \notin ComputedRows(layout, p)
    BY <1>7 DEF ComputedRows
  <1> HIDE DEF s, c, strip
  <1>10. ASSUME NEW x \in Sub(layout, p) PROVE field'[p][x] = Serial(layout, c)[x]
    <2>1. x \in Padded(layout, p) /\ x[1] \in ComputedRows(layout, p) /\ x[2] \in Cols(layout, p)
      BY <1>7 DEF Sub, Padded
    <2>2. x[2] # IHI(layout, p) + 1 /\ x[2] # ILO(layout, p) - 1
      BY <1>7, <2>1 DEF Cols
    <2>3. field'[p][x] = field[p][x]
      BY <1>1, <1>4, <1>8, <1>9, <2>1, <2>2
    <2> QED BY <1>6, <2>3
  <1>11. ASSUME NEW t \in Steps, Got(p, t)', NEW x \in Pad(layout, p, t) \cap Whole(layout)
         PROVE  field'[p][x] = Serial(layout, c)[x]
    <2>1. CASE t = s
      <3>1. field'[p][x] = strip[IF Axis(s) = 1 THEN x[2] ELSE x[1]]
        BY <1>4, <2>1
      <3>2. layout \in Layouts /\ s \in Steps /\ x \in Pad(layout, p, s) \cap Whole(layout)
        BY <1>1, <2>1
      <3>3. strip[IF Axis(s) = 1 THEN x[2] ELSE x[1]] = Serial(layout, c)[x]
        BY <1>2, <1>3, <3>2, StripFits
      <3> QED BY <3>1, <3>3
    <2>2. CASE t # s
      <3>1. t < s /\ Got(p, t)
        BY <1>1, <1>5, <1>11, <2>2
      <3>2. x \in Padded(layout, p) /\ field'[p][x] = field[p][x]
        <4>1. CASE t = 0
          <5>1. x[1] = JHI(layout, p) + 1 /\ x[2] \in Cols(layout, p) /\ x = <<x[1], x[2]>>
            BY <4>1 DEF Pad
          <5>2. x \in Padded(layout, p)
            BY <1>7, <5>1 DEF Padded
          <5>3. x[1] # JLO(layout, p) - 1 /\ x[2] # IHI(layout, p) + 1 /\ x[2] # ILO(layout, p) - 1
            BY <1>7, <5>1 DEF Cols
          <5> QED BY <1>1, <1>4, <3>1, <4>1, <5>2, <5>3
        <4>2. CASE t = 1
          <5>1. x[1] = JLO(layout, p) - 1 /\ x[2] \in Cols(layout, p) /\ x = <<x[1], x[2]>>
            BY <4>2 DEF Pad
          <5>2. x \in Padded(layout, p)
            BY <1>7, <5>1 DEF Padded
          <5>3. x[2] # IHI(layout, p) + 1 /\ x[2] # ILO(layout, p) - 1
            BY <1>7, <5>1 DEF Cols
          <5> QED BY <1>1, <1>4, <3>1, <4>2, <5>2, <5>3
        <4>3. CASE t = 2
          <5>1. x[1] \in PaddedRows(layout, p) /\ x[2] = IHI(layout, p) + 1 /\ x = <<x[1], x[2]>>
            BY <4>3 DEF Pad
          <5>2. x \in Padded(layout, p)
            BY <1>7, <5>1 DEF Padded
          <5>3. x[2] # ILO(layout, p) - 1
            BY <1>7, <5>1
          <5> QED BY <1>1, <1>4, <3>1, <4>3, <5>2, <5>3
        <4> QED BY <1>1, <3>1, <4>1, <4>2, <4>3
      <3> QED BY <1>6, <3>1, <3>2
    <2> QED BY <2>1, <2>2
  <1> QED BY <1>1, <1>10, <1>11 DEF FieldAt, c

LEMMA FieldStep ==
  ASSUME Types, PcInv, FieldTypes, SentTypes, RowsInv, FieldInv, QueueInv, [Next]_vars
  PROVE  FieldInv'
  <1>1. CASE UNCHANGED vars
    <2>1. /\ layout' = layout /\ Process' = Process /\ call' = call /\ field' = field
          /\ pc' = pc /\ step' = step
      BY <1>1 DEF vars, Process
    <2>2. ASSUME NEW q \in Process PROVE FieldAt(q)'
      <3>1. (~Filtering(q)' => ~Filtering(q)) /\ \A s \in Steps : Got(q, s)' => Got(q, s)
        BY <2>1 DEF Filtering, Got, Exchanging
      <3>2. FieldAt(q)
        BY DEF FieldInv
      <3> QED BY <2>1, <3>1, <3>2, FieldKept
    <2> QED BY <2>1, <2>2 DEF FieldInv
  <1>2. ASSUME NEW p \in Process, Run(p) PROVE FieldInv'
    <2>0. /\ layout' = layout /\ Process' = Process /\ layout \in Layouts /\ p \in Processes(layout)
          /\ FieldAt(p) /\ step[p] \in Steps
      BY <1>2, Others DEF Types, Process, FieldInv
    <2>1. ASSUME NEW q \in Process, q # p PROVE FieldAt(q)'
      <3>1. /\ pc'[q] = pc[q] /\ call'[q] = call[q] /\ step'[q] = step[q] /\ field'[q] = field[q]
        BY <1>2, <2>1, Others
      <3>2. (~Filtering(q)' => ~Filtering(q)) /\ \A s \in Steps : Got(q, s)' => Got(q, s)
        BY <3>1 DEF Filtering, Got, Exchanging
      <3>3. FieldAt(q)
        BY DEF FieldInv
      <3> QED BY <2>0, <3>1, <3>2, <3>3, FieldKept
    <2>2. FieldAt(p)'
      <3>1. CASE Compute(p) \/ NextRow(p) \/ FilteredRow(p)
        <4>1. Filtering(p)'
          BY <3>1 DEF Compute, NextRow, FilteredRow, Goto, Types, Filtering
        <4> QED BY <4>1 DEF FieldAt
      <3>2. CASE RowsDone(p)
        <4>1. /\ call'[p] = call[p] /\ field'[p] = field[p] /\ pc'[p] = "sendrecv"
              /\ step'[p] = step[p] /\ step[p] = 0
          BY <3>2 DEF RowsDone, Goto, Types, PcInv, PcAt, Exchanging
        <4>2. \A s \in Steps : ~Got(p, s)'
          BY <4>1 DEF Got, Exchanging, Filtering, Steps
        <4>3. \A x \in Sub(layout, p) : field'[p][x] = Serial(layout, call'[p])[x]
          BY <3>2, <4>1, RowsDoneGives
        <4> QED BY <2>0, <4>2, <4>3 DEF FieldAt
      <3>3. CASE Send(p)
        <4>1. /\ call'[p] = call[p] /\ field'[p] = field[p] /\ pc[p] = "sendrecv"
              /\ pc'[p] = "wait" /\ step'[p] = step[p]
          BY <3>3 DEF Send, Goto, Types
        <4>2. (~Filtering(p)' => ~Filtering(p)) /\ \A s \in Steps : Got(p, s)' => Got(p, s)
          BY <4>1 DEF Filtering, Got, Exchanging
        <4> QED BY <2>0, <4>1, <4>2, FieldKept
      <3>4. CASE Receive(p)
        BY <3>4, ReceiveGives
      <3>5. CASE ReceiveNothing(p)
        <4>1. /\ call'[p] = call[p] /\ field'[p] = field[p] /\ pc[p] = "wait"
              /\ pc'[p] = "arrived" /\ step'[p] = step[p] /\ Source(p, step[p]) = {}
          BY <3>5 DEF ReceiveNothing, Goto, Types
        <4>2. ~Filtering(p) /\ call[p] >= 1 /\ \A t \in Steps : Got(p, t)' => Got(p, t) \/ t = step[p]
          BY <2>0, <4>1 DEF PcInv, PcAt, Filtering, Got, Exchanging, Steps
        <4>3. \A x \in Pad(layout, p, step[p]) \cap Whole(layout) : x \in Sub(layout, p)
          <5>1. step[p] \in {0, 1}
            BY <2>0, <4>1, NoSource DEF Steps
          <5>2. layout.nj \in Nat \ {0} /\ JLO(layout, p) \in Int /\ JHI(layout, p) \in Int
                /\ JLO(layout, p) <= JHI(layout, p)
            BY <2>0, LayoutTypes, SubgridIs
          <5>3. CASE step[p] = 0
            <6>1. ~Wrap(layout.geometry) /\ JHI(layout, p) = layout.nj
              BY <2>0, <4>1, <5>3, NoSource
            <6>2. JHI(layout, p) + 1 \in ComputedRows(layout, p)
              BY <5>2, <6>1 DEF ComputedRows
            <6>3. Pad(layout, p, step[p]) = {JHI(layout, p) + 1} \X Cols(layout, p)
              BY <5>3 DEF Pad
            <6> QED BY <6>2, <6>3 DEF Sub
          <5>4. CASE step[p] = 1
            <6>1. JLO(layout, p) = 0
              BY <2>0, <4>1, <5>4, NoSource
            <6>2. Pad(layout, p, step[p]) = {JLO(layout, p) - 1} \X Cols(layout, p)
              BY <5>4 DEF Pad
            <6>3. -1 \notin 0 .. layout.nj + 1
              BY <5>2
            <6>4. \A x \in Pad(layout, p, step[p]) : x[1] = -1
              BY <6>1, <6>2
            <6> QED BY <6>3, <6>4 DEF Whole
          <5> QED BY <5>1, <5>3, <5>4
        <4>4. /\ \A x \in Sub(layout, p) : field[p][x] = Serial(layout, call[p])[x]
              /\ \A t \in Steps : Got(p, t) =>
                   \A x \in Pad(layout, p, t) \cap Whole(layout) :
                     field[p][x] = Serial(layout, call[p])[x]
          BY <2>0, <4>2 DEF FieldAt
        <4>5. \A t \in Steps : Got(p, t)' =>
                \A x \in Pad(layout, p, t) \cap Whole(layout) :
                  field'[p][x] = Serial(layout, call'[p])[x]
          BY <4>1, <4>2, <4>3, <4>4
        <4> QED BY <2>0, <4>1, <4>4, <4>5 DEF FieldAt
      <3>6. CASE Return(p)
        <4>1. /\ call'[p] = call[p] /\ field'[p] = field[p] /\ pc[p] = "arrived"
              /\ step'[p] = (step[p] + 1) % 4
              /\ pc'[p] = IF step[p] = 3 THEN "compute" ELSE "sendrecv"
          BY <3>6 DEF Return, Goto, Types
        <4>2. ~Filtering(p)
          BY <4>1 DEF Filtering
        <4>3. \A s \in Steps : Got(p, s)' => Got(p, s)
          BY <2>0, <4>1 DEF Filtering, Got, Exchanging, Steps
        <4> QED BY <2>0, <4>1, <4>2, <4>3, FieldKept
      <3> QED BY <1>2, <3>1, <3>2, <3>3, <3>4, <3>5, <3>6 DEF Run
    <2> QED BY <2>0, <2>1, <2>2 DEF FieldInv
  <1> QED BY <1>1, <1>2 DEF Next

-----------------------------------------------------------------------------
(* The messages on the way.                                                  *)

LEMMA QueueKept ==
  ASSUME NEW p, NEW s, NEW comm, QueueAt(p, s, comm), layout' = layout,
         Dest(p, s)' = Dest(p, s), sent'[p][s][comm] = sent[p][s][comm],
         Count(LastSent(p, s)', comm) = Count(LastSent(p, s), comm),
         \A q \in Dest(p, s) : Count(LastGot(q, s)', comm) = Count(LastGot(q, s), comm)
  PROVE  QueueAt(p, s, comm)'
  <1> DEFINE queue == sent[p][s][comm]
  <1>1. Dest(p, s) = {} => queue = << >>
    BY DEF QueueAt
  <1>2. ASSUME NEW q \in Dest(p, s)
        PROVE  /\ Len(queue) = Count(LastSent(p, s)', comm) - Count(LastGot(q, s)', comm)
               /\ \A k \in 1 .. Len(queue) :
                    Expected(layout, p, s, Nth(Count(LastGot(q, s)', comm) + k, comm), queue[k])
    BY DEF QueueAt
  <1> QED BY <1>1, <1>2 DEF QueueAt

LEMMA SendQueue ==
  ASSUME Types, PcInv, FieldTypes, SentTypes, FieldInv, QueueInv, NEW p \in Process, Send(p),
         NEW s \in Steps, NEW comm \in Comms, s = step[p], comm = Comm(p)
  PROVE  QueueAt(p, s, comm)'
  <1> DEFINE queue == sent[p][s][comm]
  <1>1. /\ layout' = layout /\ Dest(p, s)' = Dest(p, s) /\ s \in Steps /\ comm \in Comms
        /\ Run(p) /\ QueueAt(p, s, comm) /\ pc[p] = "sendrecv"
        /\ step'[p] = step[p] /\ Comm(p)' = Comm(p) /\ layout \in Layouts
    BY DEF Send, Goto, Run, Types, Comm, Comms, QueueInv, Dest, Beyond
  <1>2. CASE Dest(p, s) = {}
    <2>1. sent'[p][s][comm] = << >>
      BY <1>1, <1>2, SendIs DEF QueueAt
    <2> QED BY <1>1, <1>2, <2>1 DEF QueueAt
  <1>3. ASSUME NEW q \in Dest(p, s)
        PROVE  /\ Len(sent'[p][s][comm]) = Count(LastSent(p, s)', comm) - Count(LastGot(q, s)', comm)
               /\ \A k \in 1 .. Len(sent'[p][s][comm]) :
                    Expected(layout, p, s, Nth(Count(LastGot(q, s)', comm) + k, comm),
                             sent'[p][s][comm][k])
    <2>1. q \in Process
      BY <1>1, <1>3, Partners
    <2>2. /\ LastSent(p, s) = call[p] - 1 /\ LastSent(p, s)' = call[p]
          /\ LastGot(q, s)' = LastGot(q, s)
      <3>1. ~Receive(p) /\ ~ReceiveNothing(p)
        BY <1>1 DEF Receive, ReceiveNothing, Goto
      <3> QED BY <1>1, <2>1, <3>1, LastStep
    <2>3. call[p] \in Nat \ {0}
      BY <1>1, CallsAssumption DEF Types, PcInv, PcAt
    <2>4. /\ Count(call[p], comm) = Count(call[p] - 1, comm) + 1
          /\ Nth(Count(call[p], comm), comm) = call[p]
          /\ Count(call[p], comm) \in Nat /\ Count(call[p] - 1, comm) \in Nat
      <3>1. call[p] - 1 \in Nat /\ call[p] \in Nat
        BY <2>3
      <3> QED BY <1>1, <2>3, <3>1, CountNth, CountTypes DEF Comm
    <2>5. Count(LastGot(q, s), comm) \in Nat
      <3>1. LastGot(q, s) \in Nat
        BY <1>1, <2>1, LastTypes, CallsAssumption
      <3> QED BY <1>1, <3>1, CountTypes
    <2>6. /\ Len(queue) = Count(call[p] - 1, comm) - Count(LastGot(q, s), comm)
          /\ \A k \in 1 .. Len(queue) :
               Expected(layout, p, s, Nth(Count(LastGot(q, s), comm) + k, comm), queue[k])
      BY <1>1, <1>3, <2>2 DEF QueueAt
    <2>7. /\ Len(sent'[p][s][comm]) = Len(queue) + 1
          /\ \A k \in 1 .. Len(queue) : sent'[p][s][comm][k] = queue[k]
          /\ sent'[p][s][comm][Len(queue) + 1] = Strip(p, s)
          /\ Len(queue) \in Nat
      <3>1. sent'[p][s][comm] = Append(queue, Strip(p, s))
        BY <1>3, SendIs
      <3>2. queue \in Seq(StripType(layout, p, s))
        BY <1>1 DEF SentTypes
      <3>3. Strip(p, s) \in StripType(layout, p, s)
        BY <1>1, StripTyped
      <3> HIDE DEF queue
      <3> QED BY <3>1, <3>2, <3>3, AppendProperties, LenProperties
    <2>8. Expected(layout, p, s, call[p], Strip(p, s))
      BY StripExpected
    <2> DEFINE first == Count(LastGot(q, s), comm)
               new == sent'[p][s][comm]
    <2>9. first + (Len(queue) + 1) = Count(call[p], comm)
      BY <2>4, <2>5, <2>6, <2>7
    <2> HIDE DEF queue, first, new
    <2>10. ASSUME NEW k \in 1 .. Len(queue) + 1
           PROVE  Expected(layout, p, s, Nth(first + k, comm), new[k])
      <3>1. CASE k \in 1 .. Len(queue)
        <4>1. new[k] = queue[k]
          BY <2>7, <3>1 DEF new
        <4> QED BY <2>6, <3>1, <4>1 DEF first
      <3>2. CASE k = Len(queue) + 1
        <4>1. new[k] = Strip(p, s) /\ Nth(first + k, comm) = call[p]
          BY <2>4, <2>7, <2>9, <3>2 DEF new
        <4> QED BY <2>8, <4>1
      <3> QED BY <2>7, <3>1, <3>2
    <2>11. Len(new) = Len(queue) + 1 /\ Len(new) = Count(call[p], comm) - first
      BY <2>4, <2>5, <2>7, <2>9 DEF new, first
    <2> QED BY <2>2, <2>10, <2>11 DEF new, first
  <1>4. CASE Dest(p, s) # {}
    BY <1>1, <1>3, <1>4 DEF QueueAt
  <1> QED BY <1>2, <1>4

LEMMA ReceiveQueue ==
  ASSUME Types, PcInv, SentTypes, QueueInv, NEW p \in Process, Receive(p),
         NEW s \in Steps, NEW comm \in Comms, s = step[p], comm = Comm(p), NEW q \in Source(p, s)
  PROVE  QueueAt(q, s, comm)'
  <1> DEFINE queue == sent[q][s][comm]
  <1>1. /\ layout' = layout /\ Dest(q, s)' = Dest(q, s) /\ s \in Steps /\ comm \in Comms
        /\ Run(p) /\ pc[p] = "wait" /\ layout \in Layouts
    BY DEF Receive, Goto, Run, Types, Comm, Comms, Dest, Beyond
  <1>2. /\ q \in Process /\ Dest(q, s) = {p} /\ queue # << >> /\ sent'[q][s][comm] = Tail(queue)
    BY <1>1, Partners, ReceiveIs
  <1>3. QueueAt(q, s, comm)
    BY <1>1, <1>2 DEF QueueInv
  <1>4. /\ LastGot(p, s) = call[p] - 1 /\ LastGot(p, s)' = call[p]
        /\ LastSent(q, s)' = LastSent(q, s)
    <2>1. ~Send(p)
      BY <1>1 DEF Send, Goto
    <2>2. LastGot(p, s) = call[p] - 1 /\ LastGot(p, s)' = call[p]
      BY <1>1, LastStep
    <2>3. LastSent(q, s)' = LastSent(q, s)
      BY <1>1, <1>2, <2>1, LastStep
    <2> QED BY <2>2, <2>3
  <1>5. call[p] \in Nat \ {0}
    BY <1>1, CallsAssumption DEF Types, PcInv, PcAt
  <1>6. /\ Count(call[p], comm) = Count(call[p] - 1, comm) + 1
        /\ Count(call[p], comm) \in Nat /\ Count(call[p] - 1, comm) \in Nat
    <2>1. call[p] - 1 \in Nat /\ call[p] \in Nat
      BY <1>5
    <2> QED BY <1>1, <1>5, <2>1, CountNth, CountTypes DEF Comm
  <1>7. Count(LastSent(q, s), comm) \in Nat
    <2>1. LastSent(q, s) \in Nat
      BY <1>1, <1>2, LastTypes, CallsAssumption
    <2> QED BY <1>1, <2>1, CountTypes
  <1>8. /\ Len(queue) = Count(LastSent(q, s), comm) - Count(call[p] - 1, comm)
        /\ \A k \in 1 .. Len(queue) :
             Expected(layout, q, s, Nth(Count(call[p] - 1, comm) + k, comm), queue[k])
    BY <1>2, <1>3, <1>4 DEF QueueAt
  <1>9. /\ Len(Tail(queue)) = Len(queue) - 1 /\ Len(queue) \in Nat
        /\ \A k \in 1 .. Len(queue) - 1 : Tail(queue)[k] = queue[k + 1]
    <2>1. queue \in Seq(StripType(layout, q, s))
      BY <1>1, <1>2 DEF SentTypes
    <2> HIDE DEF queue
    <2> QED BY <1>2, <2>1, HeadTailProperties, LenProperties
  <1> DEFINE first == Count(call[p], comm)
  <1>10. Len(Tail(queue)) = Count(LastSent(q, s), comm) - first
    BY <1>6, <1>7, <1>8, <1>9
  <1>11. ASSUME NEW k \in 1 .. Len(Tail(queue))
         PROVE  Expected(layout, q, s, Nth(first + k, comm), Tail(queue)[k])
    <2>1. /\ k + 1 \in 1 .. Len(queue) /\ Tail(queue)[k] = queue[k + 1]
          /\ Count(call[p] - 1, comm) + (k + 1) = first + k
      <3>1. k \in 1 .. Len(queue) - 1
        BY <1>9
      <3>2. k + 1 \in 1 .. Len(queue) /\ k \in Int
        BY <1>9, <3>1
      <3>3. Count(call[p] - 1, comm) + (k + 1) = first + k
        BY <1>6, <3>2
      <3> QED BY <1>9, <3>1, <3>2, <3>3
    <2> QED BY <1>8, <2>1
  <1> HIDE DEF queue, first
  <1>12. /\ \A r \in Dest(q, s) :
              /\ Len(sent'[q][s][comm]) = Count(LastSent(q, s)', comm) - Count(LastGot(r, s)', comm)
              /\ \A k \in 1 .. Len(sent'[q][s][comm]) :
                   Expected(layout, q, s, Nth(Count(LastGot(r, s)', comm) + k, comm),
                            sent'[q][s][comm][k])
    BY <1>2, <1>4, <1>10, <1>11 DEF first
  <1>13. Dest(q, s) # {}
    BY <1>2
  <1> QED BY <1>1, <1>12, <1>13 DEF QueueAt

LEMMA DestKept ==
  ASSUME layout' = layout, NEW p, NEW s
  PROVE  Dest(p, s)' = Dest(p, s)
  BY DEF Dest, Beyond

LEMMA QueueStep ==
  ASSUME Types, PcInv, FieldTypes, SentTypes, FieldInv, QueueInv, [Next]_vars
  PROVE  QueueInv'
  <1>1. CASE UNCHANGED vars
    <2>1. /\ layout' = layout /\ Process' = Process /\ sent' = sent
          /\ pc' = pc /\ call' = call /\ step' = step
      BY <1>1 DEF vars, Process
    <2>2. \A q, s : LastSent(q, s)' = LastSent(q, s) /\ LastGot(q, s)' = LastGot(q, s)
      BY <2>1 DEF LastSent, LastGot, Passed, Got, Filtering, Exchanging
    <2>3. ASSUME NEW p \in Process, NEW s \in Steps, NEW comm \in Comms
          PROVE  QueueAt(p, s, comm)'
      <3>1. QueueAt(p, s, comm)
        BY DEF QueueInv
      <3> QED BY <2>1, <2>2, <3>1, DestKept, QueueKept
    <2> QED BY <2>1, <2>3 DEF QueueInv
  <1>2. ASSUME NEW p \in Process, Run(p) PROVE QueueInv'
    <2>0. /\ layout' = layout /\ Process' = Process /\ layout \in Layouts
          /\ step[p] \in Steps /\ Comm(p) \in Comms /\ call[p] \in Nat
      BY <1>2, Others, CallsAssumption DEF Types, Comm, Comms
    <2> SUFFICES ASSUME NEW r \in Process, NEW s \in Steps, NEW comm \in Comms
                 PROVE  QueueAt(r, s, comm)'
      BY <2>0 DEF QueueInv
    <2>1. QueueAt(r, s, comm) /\ Dest(r, s)' = Dest(r, s)
      BY <2>0, DestKept DEF QueueInv
    <2>2. \A q \in Dest(r, s) : q \in Process /\ Source(q, s) = {r}
      BY <2>0, Partners
    <2>3. ASSUME comm # Comm(p), call[p] \in Nat \ {0}
          PROVE  Count(call[p], comm) = Count(call[p] - 1, comm)
      BY <2>3, CountNth DEF Comm
    <2>4. CASE Send(p)
      <3>1. /\ pc[p] = "sendrecv" /\ ~Receive(p) /\ ~ReceiveNothing(p)
        BY <2>4 DEF Send, Goto, Receive, ReceiveNothing
      <3>2. \A q \in Dest(r, s) : LastGot(q, s)' = LastGot(q, s)
        BY <1>2, <2>2, <3>1, LastStep
      <3>3. call[p] \in Nat \ {0}
        BY <2>0, <3>1 DEF PcInv, PcAt
      <3>4. CASE r = p /\ s = step[p] /\ comm = Comm(p)
        BY <2>4, <3>4, SendQueue
      <3>5. CASE r # p \/ s # step[p]
        <4>1. LastSent(r, s)' = LastSent(r, s) /\ sent'[r][s][comm] = sent[r][s][comm]
          BY <1>2, <2>4, <3>5, LastStep, SendIs
        <4> QED BY <2>0, <2>1, <3>2, <4>1, QueueKept
      <3>6. CASE r = p /\ s = step[p] /\ comm # Comm(p)
        <4>1. /\ LastSent(r, s) = call[p] - 1 /\ LastSent(r, s)' = call[p]
              /\ sent'[r][s][comm] = sent[r][s][comm]
          BY <1>2, <2>4, <3>6, LastStep, SendIs
        <4>2. Count(LastSent(r, s)', comm) = Count(LastSent(r, s), comm)
          BY <2>3, <3>3, <3>6, <4>1
        <4> QED BY <2>0, <2>1, <3>2, <4>1, <4>2, QueueKept
      <3> QED BY <3>4, <3>5, <3>6
    <2>5. CASE Receive(p)
      <3>1. pc[p] = "wait" /\ ~Send(p)
        BY <2>5 DEF Send, Goto, Receive
      <3>2. LastSent(r, s)' = LastSent(r, s)
        BY <1>2, <3>1, LastStep
      <3>3. call[p] \in Nat \ {0}
        BY <2>0, <3>1 DEF PcInv, PcAt
      <3>4. PICK q \in Source(p, step[p]) :
              /\ q \in Process /\ Dest(q, step[p]) = {p} /\ Source(p, step[p]) = {q}
              /\ \A r1 \in Process, s1 \in Steps, comm1 \in Comms :
                   r1 # q \/ s1 # step[p] \/ comm1 # Comm(p) =>
                     sent'[r1][s1][comm1] = sent[r1][s1][comm1]
        BY <2>5, ReceiveIs
      <3>5. CASE r = q /\ s = step[p] /\ comm = Comm(p)
        BY <2>5, <3>5, ReceiveQueue
      <3>6. CASE r # q \/ s # step[p]
        <4>1. sent'[r][s][comm] = sent[r][s][comm]
          BY <3>4, <3>6
        <4>2. \A d \in Dest(r, s) : d # p \/ s # step[p]
          BY <2>2, <3>4, <3>6
        <4>3. \A d \in Dest(r, s) : LastGot(d, s)' = LastGot(d, s)
          BY <1>2, <2>2, <4>2, LastStep
        <4> QED BY <2>0, <2>1, <3>2, <4>1, <4>3, QueueKept
      <3>7. CASE r = q /\ s = step[p] /\ comm # Comm(p)
        <4>1. sent'[r][s][comm] = sent[r][s][comm]
          BY <3>4, <3>7
        <4>2. LastGot(p, s) = call[p] - 1 /\ LastGot(p, s)' = call[p]
          BY <1>2, <2>5, <3>7, LastStep
        <4>3. \A d \in Dest(r, s) : Count(LastGot(d, s)', comm) = Count(LastGot(d, s), comm)
          BY <2>3, <3>3, <3>4, <3>7, <4>2
        <4> QED BY <2>0, <2>1, <3>2, <4>1, <4>3, QueueKept
      <3> QED BY <3>5, <3>6, <3>7
    <2>6. CASE ReceiveNothing(p)
      <3>1. sent' = sent /\ Source(p, step[p]) = {} /\ ~Send(p)
        BY <2>6 DEF ReceiveNothing, Send, Goto
      <3>2. LastSent(r, s)' = LastSent(r, s)
        BY <1>2, <3>1, LastStep
      <3>3. \A d \in Dest(r, s) : d # p \/ s # step[p]
        BY <2>2, <3>1
      <3>4. \A d \in Dest(r, s) : LastGot(d, s)' = LastGot(d, s)
        BY <1>2, <2>2, <3>3, LastStep
      <3> QED BY <2>0, <2>1, <3>1, <3>2, <3>4, QueueKept
    <2>7. CASE ~Send(p) /\ ~Receive(p) /\ ~ReceiveNothing(p)
      <3>1. sent' = sent
        BY <1>2, <2>7 DEF Run, Compute, NextRow, FilteredRow, RowsDone, Return
      <3>2. LastSent(r, s)' = LastSent(r, s)
        BY <1>2, <2>7, LastStep
      <3>3. \A d \in Dest(r, s) : LastGot(d, s)' = LastGot(d, s)
        BY <1>2, <2>2, <2>7, LastStep
      <3> QED BY <2>0, <2>1, <3>1, <3>2, <3>3, QueueKept
    <2> QED BY <2>4, <2>5, <2>6, <2>7
  <1> QED BY <1>1, <1>2 DEF Next

(* Without buffers nothing is on the way from a process between its calls of *)
(* MPI_Sendrecv().                                                           *)
LEMMA UnbufferedStep ==
  ASSUME Types, PcInv, SentTypes, FieldTypes, QueueInv, UnbufferedInv, [Next]_vars
  PROVE  UnbufferedInv'
  <1>1. CASE UNCHANGED vars
    BY <1>1 DEF vars, UnbufferedInv, Process, Comm
  <1>2. ASSUME NEW p \in Process, Run(p) PROVE UnbufferedInv'
    <2>0. /\ layout' = layout /\ Process' = Process /\ buffered' = buffered
          /\ step[p] \in Steps /\ Comm(p) \in Comms /\ layout \in Layouts
          /\ \A q \in Process : q # p => /\ pc'[q] = pc[q] /\ step'[q] = step[q]
                                         /\ call'[q] = call[q]
      BY <1>2, Others DEF Types, Comm, Comms
    <2> SUFFICES ASSUME ~buffered, NEW r \in Process, NEW s \in Steps, NEW comm \in Comms
                 PROVE  /\ Len(sent'[r][s][comm]) <= 1
                        /\ sent'[r][s][comm] # << >> =>
                             pc'[r] \in {"wait", "arrived"} /\ step'[r] = s /\ comm = Comm(r)'
      BY <2>0 DEF UnbufferedInv
    <2>1. /\ Len(sent[r][s][comm]) <= 1
          /\ sent[r][s][comm] # << >> =>
               pc[r] \in {"wait", "arrived"} /\ step[r] = s /\ comm = Comm(r)
      BY DEF UnbufferedInv
    <2>2. call'[r] = call[r] => Comm(r)' = Comm(r)
      BY DEF Comm
    <2>3. Len(<< >>) = 0
      OBVIOUS
    <2>4. CASE Send(p)
      <3>1. /\ pc[p] = "sendrecv" /\ pc'[p] = "wait" /\ step'[p] = step[p] /\ call'[p] = call[p]
        BY <2>4 DEF Send, Goto, Types
      <3>2. CASE r = p /\ s = step[p] /\ comm = Comm(p)
        <4>1. sent[r][s][comm] = << >>
          BY <2>1, <3>1, <3>2
        <4>2. sent'[r][s][comm] = sent[r][s][comm] \/
              sent'[r][s][comm] = Append(sent[r][s][comm], Strip(p, s))
          BY <2>4, <3>2, SendIs
        <4>3. sent'[r][s][comm] = << >> \/ sent'[r][s][comm] = <<Strip(p, s)>>
          <5>1. Append(<< >>, Strip(p, s)) = <<Strip(p, s)>>
            OBVIOUS
          <5> QED BY <4>1, <4>2, <5>1
        <4>4. Len(sent'[r][s][comm]) <= 1
          <5>1. Len(<<Strip(p, s)>>) = 1
            OBVIOUS
          <5>2. CASE sent'[r][s][comm] = << >>
            BY <2>3, <5>2
          <5>3. CASE sent'[r][s][comm] = <<Strip(p, s)>>
            BY <5>1, <5>3
          <5> QED BY <4>3, <5>2, <5>3
        <4> QED BY <2>2, <3>1, <3>2, <4>4
      <3>3. CASE r # p \/ s # step[p] \/ comm # Comm(p)
        <4>1. sent'[r][s][comm] = sent[r][s][comm]
          BY <2>4, <3>3, SendIs
        <4>2. CASE r = p
          BY <2>1, <2>2, <3>1, <4>1, <4>2
        <4>3. CASE r # p
          BY <2>0, <2>1, <2>2, <4>1, <4>3
        <4> QED BY <4>2, <4>3
      <3> QED BY <3>2, <3>3
    <2>5. CASE Receive(p)
      <3>1. /\ pc[p] = "wait" /\ pc'[p] = "arrived" /\ step'[p] = step[p] /\ call'[p] = call[p]
        BY <2>5 DEF Receive, Goto, Types
      <3>2. PICK q \in Process :
              /\ sent[q][step[p]][Comm(p)] # << >>
              /\ \A r1 \in Process, s1 \in Steps, comm1 \in Comms :
                   r1 # q \/ s1 # step[p] \/ comm1 # Comm(p) =>
                     sent'[r1][s1][comm1] = sent[r1][s1][comm1]
              /\ sent'[q][step[p]][Comm(p)] = Tail(sent[q][step[p]][Comm(p)])
        BY <2>5, ReceiveIs
      <3>3. CASE r = q /\ s = step[p] /\ comm = Comm(p)
        <4>1. sent[r][s][comm] \in Seq(StripType(layout, r, s)) /\ sent[r][s][comm] # << >>
          BY <3>2, <3>3 DEF SentTypes
        <4>2. Len(Tail(sent[r][s][comm])) = Len(sent[r][s][comm]) - 1
              /\ Tail(sent[r][s][comm]) \in Seq(StripType(layout, r, s))
              /\ Len(sent[r][s][comm]) \in Nat
          BY <4>1, HeadTailProperties, LenProperties
        <4>3. sent'[r][s][comm] = Tail(sent[r][s][comm])
          BY <3>2, <3>3
        <4>4. Len(sent'[r][s][comm]) <= 0 /\ sent'[r][s][comm] \in Seq(StripType(layout, r, s))
          BY <2>1, <4>2, <4>3
        <4>5. sent'[r][s][comm] = << >>
          BY <4>4, LenProperties, EmptySeq
        <4> QED BY <2>3, <4>5
      <3>4. CASE r # q \/ s # step[p] \/ comm # Comm(p)
        <4>1. sent'[r][s][comm] = sent[r][s][comm]
          BY <3>2, <3>4
        <4>2. CASE r = p
          BY <2>1, <2>2, <3>1, <4>1, <4>2
        <4>3. CASE r # p
          BY <2>0, <2>1, <2>2, <4>1, <4>3
        <4> QED BY <4>2, <4>3
      <3> QED BY <3>3, <3>4
    <2>6. CASE ReceiveNothing(p)
      <3>1. /\ pc[p] = "wait" /\ pc'[p] = "arrived" /\ step'[p] = step[p] /\ call'[p] = call[p]
            /\ sent' = sent
        BY <2>6 DEF ReceiveNothing, Goto, Types
      <3>2. CASE r = p
        BY <2>1, <2>2, <3>1, <3>2
      <3>3. CASE r # p
        BY <2>0, <2>1, <2>2, <3>1, <3>3
      <3> QED BY <3>2, <3>3
    <2>7. CASE ~Send(p) /\ ~Receive(p) /\ ~ReceiveNothing(p)
      <3>1. sent' = sent
        BY <1>2, <2>7 DEF Run, Compute, NextRow, FilteredRow, RowsDone, Return
      <3>2. CASE r # p
        BY <2>0, <2>1, <2>2, <3>1, <3>2
      <3>3. CASE r = p
        <4>1. sent[r][s][comm] = << >>
          <5>1. CASE Return(p)
            <6>1. Dest(p, step[p]) = {} \/ sent[p][step[p]][Comm(p)] = << >>
              BY <5>1 DEF Return, Delivered
            <6>2. Dest(p, step[p]) = {} => sent[p][step[p]][Comm(p)] = << >>
              BY <2>0 DEF QueueInv, QueueAt
            <6> QED BY <2>1, <3>3, <6>1, <6>2
          <5>2. CASE ~Return(p)
            <6>1. pc[p] \notin {"wait", "arrived"}
              BY <1>2, <2>7, <5>2 DEF Run, Compute, NextRow, FilteredRow, RowsDone, Goto
            <6> QED BY <2>1, <3>3, <6>1
          <5> QED BY <5>1, <5>2
        <4> QED BY <2>3, <3>1, <4>1
      <3> QED BY <3>2, <3>3
    <2> QED BY <2>4, <2>5, <2>6, <2>7
  <1> QED BY <1>1, <1>2 DEF Next

-----------------------------------------------------------------------------
(* Before the first call. *)
LEMMA InitInv == Init => IInv
  <1> SUFFICES ASSUME Init PROVE IInv
    OBVIOUS
  <1>1. /\ layout \in Layouts /\ buffered \in BOOLEAN
        /\ pc = [p \in Process |-> "compute"]
        /\ call = [p \in Process |-> 0]
        /\ step = [p \in Process |-> 0]
        /\ row = [p \in Process |-> -1]
        /\ given = [p \in Process |-> << >>]
        /\ field = [p \in Process |-> [x \in Padded(layout, p) |-> <<0, 0, 0>>]]
        /\ sent = [p \in Process |-> [s \in Steps |-> [c \in Comms |-> << >>]]]
    BY DEF Init, Padded
  <1>2. layout.nj \in Nat /\ Calls \in Nat
    BY <1>1, LayoutTypes, CallsAssumption
  <1>3. \A p \in Process : ~Filtering(p) /\ ~Exchanging(p)
    BY <1>1 DEF Filtering, Exchanging
  <1>4. Types
    <2>1. 0 \in 0 .. Calls /\ 0 \in Steps /\ -1 \in -1 .. layout.nj
      BY <1>2 DEF Steps
    <2> QED BY <1>1, <2>1 DEF Types
  <1>5. FieldTypes
    <2>1. <<0, 0, 0>> \in Value(layout)
      BY DEF Value, RawValue
    <2> QED BY <1>1, <2>1 DEF FieldTypes
  <1>6. GivenTypes
    <2>1. \A T : << >> \in Seq(T)
      OBVIOUS
    <2> QED BY <1>1, <2>1 DEF GivenTypes
  <1>7. SentTypes
    <2>1. \A T : << >> \in Seq(T)
      OBVIOUS
    <2> QED BY <1>1, <2>1 DEF SentTypes
  <1>8. PcInv
    <2>1. \A p \in Process : FilteredIn(layout, p, call[p]) = {}
      BY <1>1 DEF FilteredIn
    <2> QED BY <1>1, <1>3, <2>1 DEF PcInv, PcAt
  <1>9. RowsInv
    BY <1>3 DEF RowsInv, RowsAt
  <1>10. GivenInv
    <2> SUFFICES ASSUME NEW p \in Process, NEW q \in CommJLO(p) PROVE GivenAt(p, q)
      BY DEF GivenInv
    <2>1. q \in Process /\ \A c : FilteredIn(layout, q, c) = FilteredIn(layout, p, c)
      BY <1>4, SharedRows
    <2>2. given[p] = << >> /\ given[q] = << >> /\ call[p] = call[q] /\ row[p] = row[q]
          /\ pc[p] = "compute"
      BY <1>1, <2>1
    <2>3. Future(p) = Future(q)
      BY <2>1, <2>2 DEF Future
    <2>4. Len(<< >>) = 0
      OBVIOUS
    <2> QED BY <2>2, <2>3, <2>4 DEF GivenAt
  <1>11. FieldInv
    BY <1>1 DEF FieldInv, FieldAt
  <1>12. QueueInv
    <2> SUFFICES ASSUME NEW p \in Process, NEW s \in Steps, NEW comm \in Comms
                 PROVE  QueueAt(p, s, comm)
      BY DEF QueueInv
    <2>1. sent[p][s][comm] = << >> /\ Len(<< >>) = 0
      BY <1>1
    <2>2. \A q \in Process : LastSent(q, s) = 0 /\ LastGot(q, s) = 0
      BY <1>1, <1>3 DEF LastSent, LastGot, Passed, Got
    <2>3. \A q \in Dest(p, s) : q \in Process
      BY <1>1, Partners
    <2>4. Count(0, comm) \in Nat
      BY CountTypes
    <2>5. Count(0, comm) - Count(0, comm) = 0
      BY <2>4
    <2> QED BY <2>1, <2>2, <2>3, <2>5 DEF QueueAt
  <1>13. UnbufferedInv
    <2>1. Len(<< >>) = 0
      OBVIOUS
    <2> QED BY <1>1, <2>1 DEF UnbufferedInv
  <1> QED BY <1>4, <1>5, <1>6, <1>7, <1>8, <1>9, <1>10, <1>11, <1>12, <1>13 DEF IInv

LEMMA StepInv == IInv /\ [Next]_vars => IInv'
  <1> SUFFICES ASSUME IInv, [Next]_vars PROVE IInv'
    OBVIOUS
  <1> USE DEF IInv
  <1>1. Types' /\ PcInv'
    BY TypesStep, PcStep
  <1>2. FieldTypes' /\ GivenTypes' /\ SentTypes'
    BY FieldTypesStep, GivenTypesStep, SentTypesStep
  <1>3. RowsInv' /\ GivenInv'
    BY RowsStep, GivenStep
  <1>4. FieldInv'
    BY FieldStep
  <1>5. QueueInv' /\ UnbufferedInv'
    BY QueueStep, UnbufferedStep
  <1> QED BY <1>1, <1>2, <1>3, <1>4, <1>5

(* IInv holds throughout: the rows before and after they are filtered, the   *)
(* sums begun and to come, the strips on the way with the calls they are of, *)
(* and the pads that have been filled, whatever the interleaving.            *)
THEOREM Invariance == Spec => []IInv
  BY InitInv, StepInv, PTL DEF Spec

LEMMA TypeFollows == IInv => TypeOK
  <1> SUFFICES ASSUME IInv PROVE TypeOK
    OBVIOUS
  <1>1. Types /\ FieldTypes /\ GivenInv /\ QueueInv /\ UnbufferedInv /\ PcInv /\ Calls \in Nat
    BY CallsAssumption DEF IInv
  <1>2. ASSUME NEW p \in Process, NEW s \in Steps, NEW comm \in Comms
        PROVE  Len(sent[p][s][comm]) <= IF buffered THEN Calls ELSE 1
    <2>1. CASE ~buffered
      BY <1>1, <2>1 DEF UnbufferedInv
    <2>2. CASE buffered /\ Dest(p, s) = {}
      <3>1. sent[p][s][comm] = << >> /\ Len(<< >>) = 0
        BY <1>1, <2>2 DEF QueueInv, QueueAt
      <3> QED BY <1>1, <2>2, <3>1
    <2>3. CASE buffered /\ Dest(p, s) # {}
      <3>1. PICK q \in Dest(p, s) : q \in Process
        BY <1>1, <2>3, Partners DEF Types
      <3>2. Len(sent[p][s][comm]) = Count(LastSent(p, s), comm) - Count(LastGot(q, s), comm)
        BY <1>1, <3>1 DEF QueueInv, QueueAt
      <3>3. LastSent(p, s) \in 0 .. Calls /\ LastGot(q, s) \in 0 .. Calls
        BY <1>1, <3>1, LastTypes
      <3>4. /\ Count(LastSent(p, s), comm) \in Nat /\ Count(LastGot(q, s), comm) \in Nat
            /\ Count(LastSent(p, s), comm) <= LastSent(p, s)
        <4>1. LastSent(p, s) \in Nat /\ LastGot(q, s) \in Nat
          BY <1>1, <3>3
        <4> QED BY <4>1, CountTypes
      <3> QED BY <1>1, <2>3, <3>2, <3>3, <3>4
    <2> QED BY <2>1, <2>2, <2>3
  <1>3. ASSUME NEW p \in Process
        PROVE  /\ row[p] \in -1 .. layout.nj
               /\ \A q \in CommJLO(p) : Len(given[p]) <= Len(given[q]) + 1
               /\ DOMAIN field[p] = PaddedRows(layout, p) \X PaddedCols(layout, p)
    BY <1>1 DEF Types, FieldTypes, GivenInv, GivenAt, Padded
  <1> QED BY <1>1, <1>2, <1>3 DEF TypeOK, Types

LEMMA PadsFollow == IInv => PadsAsInSerialRun
  <1> SUFFICES ASSUME IInv, NEW p \in Process, pc[p] = "compute", call[p] > 0,
                      NEW x \in (DOMAIN field[p]) \cap Whole(layout)
               PROVE  field[p][x] = Serial(layout, call[p])[x]
    BY DEF PadsAsInSerialRun
  <1>1. Types /\ FieldTypes /\ FieldInv /\ layout \in Layouts /\ p \in Processes(layout)
        /\ call[p] \in Nat
    BY CallsAssumption DEF IInv, Types, Process
  <1>2. /\ \A y \in Sub(layout, p) : field[p][y] = Serial(layout, call[p])[y]
        /\ \A s \in Steps : \A y \in Pad(layout, p, s) \cap Whole(layout) :
             field[p][y] = Serial(layout, call[p])[y]
    <2>1. ~Filtering(p) /\ call[p] >= 1 /\ \A s \in Steps : Got(p, s)
      BY <1>1 DEF Filtering, Got, Exchanging
    <2> QED BY <1>1, <2>1 DEF FieldInv, FieldAt
  <1>3. x \in Padded(layout, p)
    BY <1>1 DEF FieldTypes
  <1>4. /\ PaddedRows(layout, p) = JLO(layout, p) - 1 .. JHI(layout, p) + 1
        /\ PaddedCols(layout, p) = ILO(layout, p) - 1 .. IHI(layout, p) + 1
        /\ JLO(layout, p) \in Int /\ JHI(layout, p) \in Int
        /\ ILO(layout, p) \in Int /\ IHI(layout, p) \in Int
    BY <1>1, PaddedIs, SubgridIs
  <1>5. x = <<x[1], x[2]>> /\ x[1] \in PaddedRows(layout, p) /\ x[2] \in PaddedCols(layout, p)
    BY <1>3 DEF Padded
  <1>6. {0, 1, 2, 3} \subseteq Steps
    BY DEF Steps
  <1>7. CASE x[2] = IHI(layout, p) + 1
    <2>1. x \in Pad(layout, p, 2)
      BY <1>5, <1>7 DEF Pad
    <2> QED BY <1>2, <1>6, <2>1
  <1>8. CASE x[2] = ILO(layout, p) - 1
    <2>1. x \in Pad(layout, p, 3)
      BY <1>5, <1>8 DEF Pad
    <2> QED BY <1>2, <1>6, <2>1
  <1>9. CASE x[2] \in Cols(layout, p)
    <2>1. CASE x[1] = JHI(layout, p) + 1
      <3>1. x \in Pad(layout, p, 0)
        BY <1>5, <1>9, <2>1 DEF Pad
      <3> QED BY <1>2, <1>6, <3>1
    <2>2. CASE x[1] = JLO(layout, p) - 1
      <3>1. x \in Pad(layout, p, 1)
        BY <1>5, <1>9, <2>2 DEF Pad
      <3> QED BY <1>2, <1>6, <3>1
    <2>3. CASE x[1] \in JLO(layout, p) .. JHI(layout, p)
      <3>1. x[1] \in ComputedRows(layout, p)
        BY <1>4, <2>3 DEF ComputedRows
      <3>2. x \in Sub(layout, p)
        BY <1>5, <1>9, <3>1 DEF Sub
      <3> QED BY <1>2, <3>2
    <2> QED BY <1>4, <1>5, <2>1, <2>2, <2>3
  <1> QED BY <1>4, <1>5, <1>7, <1>8, <1>9 DEF Cols

(* Every variable keeps its type, what is received stays within the array,   *)
(* nobody is more than one sum of zonal_filter() ahead of those it shares    *)
(* rows with, and at most one message is on the way unless MPI buffers.      *)
THEOREM TypeCorrect == Spec => []TypeOK
  BY Invariance, TypeFollows, PTL

(* When bc_lateral() returns in a process, its subgrid and its pads are      *)
(* those of a serial run, however the grid is divided and whatever the other *)
(* processes are at.                                                         *)
THEOREM PadsAsSerial == Spec => []PadsAsInSerialRun
  BY Invariance, PadsFollow, PTL

-----------------------------------------------------------------------------
(* Nobody waits for ever, as far as a safety property can say so: as long as *)
(* a call is left somebody can take a step, and every step brings one        *)
(* process nearer to its last call, the others no further from theirs.       *)

(* Process p can take its next step: the guards of Run(p). *)
Ready(p) ==
  \/ pc[p] = "compute" /\ call[p] < Calls
  \/ /\ pc[p] = "rows"
     /\ \/ FilteredAfter(p, row[p]) = {}
        \/ \E j \in FilteredAfter(p, row[p]) : \A k \in FilteredAfter(p, row[p]) : j <= k
  \/ pc[p] = "allreduce" /\ \A q \in CommJLO(p) : Len(given[q]) >= Len(given[p])
  \/ pc[p] = "sendrecv"
  \/ /\ pc[p] = "wait"
     /\ \/ Source(p, step[p]) = {}
        \/ \E q \in Source(p, step[p]) : sent[q][step[p]][Comm(p)] # << >>
  \/ pc[p] = "arrived" /\ (buffered \/ Delivered(p))

AllReturned == \A p \in Process : call[p] = Calls /\ pc[p] = "compute"

(* How far a process is: the calls it has made, and its place in the last. *)
PerCall == 2 * layout.nj + 17

Phase(p) ==
  CASE pc[p] = "rows"      -> 2 * row[p] + 3
    [] pc[p] = "allreduce" -> 2 * row[p] + 2
    [] pc[p] = "sendrecv"  -> 2 * layout.nj + 4 + 3 * step[p]
    [] pc[p] = "wait"      -> 2 * layout.nj + 5 + 3 * step[p]
    [] pc[p] = "arrived"   -> 2 * layout.nj + 6 + 3 * step[p]
    [] pc[p] = "compute"   -> 2 * layout.nj + 16

Position(p) == call[p] * PerCall + Phase(p)

Advances(p) ==
  /\ Position(p) < Position(p)'
  /\ \A q \in Process : q # p => Position(q)' = Position(q)

(* p is not as far as q. *)
Behind(p, q) == call[p] < call[q] \/ (call[p] = call[q] /\ Phase(p) < Phase(q))

LEMMA PhaseType ==
  ASSUME Types, NEW p \in Process
  PROVE  /\ call[p] \in 0 .. Calls /\ Calls \in Nat /\ PerCall \in Nat \ {0}
         /\ Phase(p) \in 0 .. PerCall - 1
  <1>1. /\ layout.nj \in Nat /\ row[p] \in Int /\ -1 <= row[p] /\ row[p] <= layout.nj
        /\ step[p] \in Int /\ 0 <= step[p] /\ step[p] <= 3
    BY LayoutTypes DEF Types, Steps
  <1>2. /\ PerCall = 2 * layout.nj + 17 /\ PerCall \in Nat \ {0}
        /\ call[p] \in 0 .. Calls /\ Calls \in Nat
    BY <1>1, CallsAssumption DEF Types, PerCall
  <1>3. pc[p] \in {"compute", "rows", "allreduce", "sendrecv", "wait", "arrived"}
    BY DEF Types
  <1>4. Phase(p) \in Int /\ 0 <= Phase(p) /\ Phase(p) <= 2 * layout.nj + 16
    <2>1. CASE pc[p] = "rows"
      BY <1>1, <2>1 DEF Phase
    <2>2. CASE pc[p] = "allreduce"
      BY <1>1, <2>2 DEF Phase
    <2>3. CASE pc[p] = "sendrecv"
      BY <1>1, <2>3 DEF Phase
    <2>4. CASE pc[p] = "wait"
      BY <1>1, <2>4 DEF Phase
    <2>5. CASE pc[p] = "arrived"
      BY <1>1, <2>5 DEF Phase
    <2>6. CASE pc[p] = "compute"
      BY <1>1, <2>6 DEF Phase
    <2> QED BY <1>3, <2>1, <2>2, <2>3, <2>4, <2>5, <2>6
  <1> QED BY <1>1, <1>2, <1>4

(* Calls before places: a number in base PerCall. *)
LEMMA TwoDigits ==
  ASSUME NEW K \in Nat \ {0}, NEW c \in Nat, NEW d \in Nat,
         NEW a \in 0 .. K - 1, NEW b \in 0 .. K - 1
  PROVE  /\ c * K + a \in Nat
         /\ c < d => c * K + a < d * K + b
         /\ c * K + a < (c + 1) * K
         /\ c <= d => c * K + a < (d + 1) * K
  <1>1. c * K \in Nat /\ d * K \in Nat /\ (c + 1) * K = c * K + K /\ (d + 1) * K = d * K + K
    OBVIOUS
  <1>2. c <= d => c * K <= d * K
    OBVIOUS
  <1>3. c < d => (c + 1) * K <= d * K
    OBVIOUS
  <1> QED BY <1>1, <1>2, <1>3

LEMMA PositionOrder ==
  ASSUME Types, NEW p \in Process, NEW q \in Process
  PROVE  /\ Position(p) \in Nat
         /\ Behind(p, q) => Position(p) < Position(q)
         /\ Position(p) < (Calls + 1) * PerCall
  <1>1. /\ call[p] \in Nat /\ call[p] <= Calls /\ call[q] \in Nat /\ Calls \in Nat
        /\ PerCall \in Nat \ {0} /\ Phase(p) \in 0 .. PerCall - 1 /\ Phase(q) \in 0 .. PerCall - 1
    BY PhaseType
  <1>2. CASE call[p] < call[q]
    BY <1>1, <1>2, TwoDigits DEF Position, Behind
  <1>3. CASE ~(call[p] < call[q])
    <2>1. Behind(p, q) => call[p] = call[q] /\ Phase(p) < Phase(q)
      BY <1>3 DEF Behind
    <2>2. call[p] * PerCall \in Nat
      BY <1>1
    <2>3. Behind(p, q) => Position(p) < Position(q)
      BY <1>1, <2>1, <2>2 DEF Position
    <2> QED BY <1>1, <2>3, TwoDigits DEF Position
  <1> QED BY <1>2, <1>3

(* Who waits in a sum waits for one that has not come to its row. *)
LEMMA SumBehind ==
  ASSUME Types, PcInv, GivenInv, GivenTypes, NEW p \in Process, pc[p] = "allreduce",
         NEW q \in CommJLO(p), ~(Len(given[q]) >= Len(given[p]))
  PROVE  q \in Process /\ Behind(q, p)
  <1>1. q \in Process /\ Len(given[q]) \in Nat /\ Len(given[p]) \in Nat
    BY DEF CommJLO, GivenTypes
  <1>2. /\ Len(given[p]) <= Len(given[q]) + 1
        /\ Len(given[p]) = Len(given[q]) + 1 => Future(q) = Future(p) \cup {<<call[p], row[p]>>}
    BY DEF GivenInv, GivenAt
  <1>3. <<call[p], row[p]>> \in Future(q)
    BY <1>1, <1>2
  <1>4. /\ row[p] \in FilteredIn(layout, q, call[p])
        /\ call[p] > call[q] \/ (call[p] = call[q] /\ row[p] > row[q])
    BY <1>3 DEF Future
  <1>5. call[p] \in Nat /\ call[q] \in Nat /\ row[p] \in Int /\ row[q] \in Int
    BY <1>1, LayoutTypes, CallsAssumption DEF Types
  <1>6. CASE call[p] > call[q]
    BY <1>1, <1>5, <1>6 DEF Behind
  <1>7. CASE call[p] = call[q] /\ row[p] > row[q]
    <2>1. Filtering(q)
      <3>1. PcAt(q)
        BY <1>1 DEF PcInv
      <3> QED BY <1>4, <1>5, <1>7, <3>1 DEF PcAt
    <2>2. Phase(p) = 2 * row[p] + 2
      BY DEF Phase
    <2>3. Phase(q) = 2 * row[q] + 3 \/ Phase(q) = 2 * row[q] + 2
      BY <2>1 DEF Phase, Filtering
    <2> QED BY <1>1, <1>5, <1>7, <2>2, <2>3 DEF Behind
  <1> QED BY <1>4, <1>6, <1>7

(* A process that has not sent, or not received, at s is behind one of the   *)
(* same call that has.                                                       *)
LEMMA ExchangeBehind ==
  ASSUME Types, PcInv, NEW p \in Process, NEW q \in Process, NEW s \in Steps,
         Exchanging(p), step[p] = s, call[q] <= call[p]
  PROVE  /\ pc[p] = "wait" /\ ~Passed(q, s) => Behind(q, p)
         /\ pc[p] = "arrived" /\ ~Got(q, s) => Behind(q, p)
  <1>1. /\ call[p] \in Nat /\ call[q] \in Nat /\ layout.nj \in Nat
        /\ row[q] \in Int /\ row[q] <= layout.nj /\ step[q] \in Int /\ s \in Int /\ s >= 0
    BY LayoutTypes, CallsAssumption DEF Types, Steps
  <1>2. CASE call[q] < call[p]
    BY <1>2 DEF Behind
  <1>3. CASE call[q] = call[p]
    <2>1. ASSUME pc[p] = "wait", ~Passed(q, s) PROVE Phase(q) < Phase(p)
      <3>1. Phase(p) = 2 * layout.nj + 5 + 3 * s
        BY <2>1 DEF Phase
      <3>2. CASE Filtering(q)
        <4>1. Phase(q) = 2 * row[q] + 3 \/ Phase(q) = 2 * row[q] + 2
          BY <3>2 DEF Phase, Filtering
        <4> QED BY <1>1, <3>1, <4>1
      <3>3. CASE ~Filtering(q)
        <4>1. Exchanging(q) /\ ~(step[q] > s) /\ (step[q] = s => pc[q] = "sendrecv")
          BY <2>1, <3>3 DEF Passed
        <4>2. /\ pc[q] = "sendrecv" => Phase(q) = 2 * layout.nj + 4 + 3 * step[q]
              /\ pc[q] = "wait" => Phase(q) = 2 * layout.nj + 5 + 3 * step[q]
              /\ pc[q] = "arrived" => Phase(q) = 2 * layout.nj + 6 + 3 * step[q]
          BY DEF Phase
        <4>3. pc[q] \in {"sendrecv", "wait", "arrived"}
          BY <4>1 DEF Exchanging
        <4> QED BY <1>1, <3>1, <4>1, <4>2, <4>3
      <3> QED BY <3>2, <3>3
    <2>2. ASSUME pc[p] = "arrived", ~Got(q, s) PROVE Phase(q) < Phase(p)
      <3>1. Phase(p) = 2 * layout.nj + 6 + 3 * s
        BY <2>2 DEF Phase
      <3>2. CASE Filtering(q)
        <4>1. Phase(q) = 2 * row[q] + 3 \/ Phase(q) = 2 * row[q] + 2
          BY <3>2 DEF Phase, Filtering
        <4> QED BY <1>1, <3>1, <4>1
      <3>3. CASE ~Filtering(q)
        <4>1. Exchanging(q) /\ ~(step[q] > s) /\ (step[q] = s => pc[q] # "arrived")
          BY <2>2, <3>3 DEF Got
        <4>2. /\ pc[q] = "sendrecv" => Phase(q) = 2 * layout.nj + 4 + 3 * step[q]
              /\ pc[q] = "wait" => Phase(q) = 2 * layout.nj + 5 + 3 * step[q]
              /\ pc[q] = "arrived" => Phase(q) = 2 * layout.nj + 6 + 3 * step[q]
          BY DEF Phase
        <4>3. pc[q] \in {"sendrecv", "wait", "arrived"}
          BY <4>1 DEF Exchanging
        <4> QED BY <1>1, <3>1, <4>1, <4>2, <4>3
      <3> QED BY <3>2, <3>3
    <2> QED BY <1>3, <2>1, <2>2 DEF Behind
  <1> QED BY <1>1, <1>2, <1>3

(* What a process has sent for its own call counts. *)
LEMMA CountOwn ==
  ASSUME NEW c \in Nat \ {0}, NEW k \in Nat,
         NEW comm \in Comms, comm = IF c % 2 = 1 THEN "ij" ELSE "ijk"
  PROVE  /\ k >= c => Count(k, comm) > Count(c - 1, comm)
         /\ k >= c => Count(k, comm) >= Count(c, comm)
  BY DEF Count, Comms

(* Who waits for a strip waits for one that has not sent it. *)
LEMMA StripBehind ==
  ASSUME Types, PcInv, QueueInv, NEW p \in Process, pc[p] = "wait",
         NEW q \in Source(p, step[p]), sent[q][step[p]][Comm(p)] = << >>
  PROVE  q \in Process /\ Behind(q, p)
  <1> DEFINE s == step[p]
             comm == Comm(p)
  <1>1. /\ s \in Steps /\ comm \in Comms /\ q \in Process /\ p \in Dest(q, s)
        /\ call[p] \in Nat \ {0} /\ call[q] \in Nat /\ Exchanging(p)
    BY Partners, CallsAssumption DEF Types, Comm, Comms, PcInv, PcAt, Exchanging
  <1>2. LastGot(p, s) = call[p] - 1
    BY <1>1 DEF LastGot, Got, Filtering, Exchanging, Steps
  <1>3. Len(sent[q][s][comm]) = Count(LastSent(q, s), comm) - Count(LastGot(p, s), comm)
    BY <1>1 DEF QueueInv, QueueAt
  <1>4. Len(sent[q][s][comm]) = 0
    OBVIOUS
  <1>5. LastSent(q, s) \in Nat /\ LastGot(p, s) \in Nat
    BY <1>1, LastTypes, CallsAssumption
  <1>6. Count(LastSent(q, s), comm) \in Nat /\ Count(call[p] - 1, comm) \in Nat
    BY <1>1, <1>2, <1>5, CountTypes
  <1>7. ~(LastSent(q, s) >= call[p])
    <2>1. comm = IF call[p] % 2 = 1 THEN "ij" ELSE "ijk"
      BY DEF Comm
    <2>2. LastSent(q, s) >= call[p] => Count(LastSent(q, s), comm) > Count(call[p] - 1, comm)
      BY <1>1, <1>5, <2>1, CountOwn
    <2> QED BY <1>2, <1>3, <1>4, <1>6, <2>2
  <1>8. call[q] <= call[p] /\ (call[q] = call[p] => ~Passed(q, s))
    BY <1>1, <1>5, <1>7 DEF LastSent
  <1>9. CASE call[q] < call[p]
    BY <1>1, <1>9 DEF Behind
  <1>10. CASE call[q] = call[p]
    BY <1>1, <1>8, <1>10, ExchangeBehind
  <1> QED BY <1>1, <1>8, <1>9, <1>10

(* Who waits for its strip to be taken waits for one that has not come to it. *)
LEMMA TakenBehind ==
  ASSUME Types, PcInv, QueueInv, SentTypes, NEW p \in Process, pc[p] = "arrived",
         NEW q \in Dest(p, step[p]), sent[p][step[p]][Comm(p)] # << >>
  PROVE  q \in Process /\ Behind(q, p)
  <1> DEFINE s == step[p]
             comm == Comm(p)
  <1>1. /\ s \in Steps /\ comm \in Comms /\ q \in Process
        /\ call[p] \in Nat \ {0} /\ call[q] \in Nat /\ Exchanging(p)
    BY Partners, CallsAssumption DEF Types, Comm, Comms, PcInv, PcAt, Exchanging
  <1>2. LastSent(p, s) = call[p]
    BY <1>1 DEF LastSent, Passed, Filtering, Exchanging
  <1>3. Len(sent[p][s][comm]) = Count(LastSent(p, s), comm) - Count(LastGot(q, s), comm)
    BY <1>1 DEF QueueInv, QueueAt
  <1>4. Len(sent[p][s][comm]) \in Nat /\ Len(sent[p][s][comm]) # 0
    <2>1. sent[p][s][comm] \in Seq(StripType(layout, p, s)) /\ sent[p][s][comm] # << >>
      BY <1>1 DEF SentTypes
    <2> QED BY <2>1, EmptySeq
  <1>5. LastGot(q, s) \in Nat
    BY <1>1, LastTypes, CallsAssumption
  <1>6. Count(LastGot(q, s), comm) \in Nat /\ Count(call[p], comm) \in Nat
    BY <1>1, <1>5, CountTypes
  <1>7. ~(LastGot(q, s) >= call[p])
    <2>1. comm = IF call[p] % 2 = 1 THEN "ij" ELSE "ijk"
      BY DEF Comm
    <2>2. LastGot(q, s) >= call[p] => Count(LastGot(q, s), comm) >= Count(call[p], comm)
      BY <1>1, <1>5, <2>1, CountOwn
    <2> QED BY <1>2, <1>3, <1>4, <1>6, <2>2
  <1>8. call[q] <= call[p] /\ (call[q] = call[p] => ~Got(q, s))
    BY <1>1, <1>5, <1>7 DEF LastGot
  <1>9. CASE call[q] < call[p]
    BY <1>1, <1>9 DEF Behind
  <1>10. CASE call[q] = call[p]
    BY <1>1, <1>8, <1>10, ExchangeBehind
  <1> QED BY <1>1, <1>8, <1>9, <1>10

(* Who cannot take a step waits for one that is behind. *)
LEMMA WaitsForBehind ==
  ASSUME IInv, NEW p \in Process, ~Ready(p), ~(call[p] = Calls /\ pc[p] = "compute")
  PROVE  \E q \in Process : Behind(q, p)
  <1>1. /\ Types /\ PcInv /\ GivenInv /\ GivenTypes /\ QueueInv /\ SentTypes
        /\ pc[p] \in {"compute", "rows", "allreduce", "sendrecv", "wait", "arrived"}
        /\ step[p] \in Steps
    BY DEF IInv, Types
  <1>2. pc[p] # "compute"
    <2>1. call[p] \in 0 .. Calls /\ Calls \in Nat
      BY <1>1, CallsAssumption DEF Types
    <2> QED BY <2>1 DEF Ready
  <1>3. pc[p] # "rows"
    <2> DEFINE left == FilteredAfter(p, row[p])
    <2>1. left \subseteq Nat
      <3>1. ASSUME NEW j \in left PROVE j \in 0 .. layout.nj
        BY <1>1, FilteredAfterIs, FilteredRows DEF Types, Process
      <3> QED BY <1>1, <3>1, LayoutTypes DEF Types
    <2>2. left = {} \/ \E j \in left : \A k \in left : j <= k
      BY <2>1, LeastNumber
    <2> QED BY <2>2 DEF Ready
  <1>4. CASE pc[p] = "allreduce"
    <2>1. PICK q \in CommJLO(p) : ~(Len(given[q]) >= Len(given[p]))
      BY <1>4 DEF Ready
    <2> QED BY <1>1, <1>4, <2>1, SumBehind
  <1>5. CASE pc[p] = "wait"
    <2>1. PICK q \in Source(p, step[p]) : sent[q][step[p]][Comm(p)] = << >>
      BY <1>5 DEF Ready
    <2> QED BY <1>1, <1>5, <2>1, StripBehind
  <1>6. CASE pc[p] = "arrived"
    <2>1. Dest(p, step[p]) # {} /\ sent[p][step[p]][Comm(p)] # << >>
      BY <1>6 DEF Ready, Delivered
    <2>2. PICK q \in Dest(p, step[p]) : TRUE
      BY <2>1
    <2> QED BY <1>1, <1>6, <2>1, <2>2, TakenBehind
  <1>7. pc[p] # "sendrecv"
    BY DEF Ready
  <1> QED BY <1>1, <1>2, <1>3, <1>4, <1>5, <1>6, <1>7

LEMMA SomebodyReady ==
  ASSUME IInv, ~AllReturned
  PROVE  \E p \in Process : Ready(p)
  <1> SUFFICES ASSUME \A p \in Process : ~Ready(p) PROVE FALSE
    OBVIOUS
  <1> DEFINE left == {p \in Process : ~(call[p] = Calls /\ pc[p] = "compute")}
             at   == {Position(p) : p \in left}
  <1>1. Types
    BY DEF IInv
  <1>2. at # {} /\ at \subseteq Nat
    BY <1>1, PositionOrder DEF AllReturned
  <1>3. PICK x \in at : \A y \in at : x <= y
    BY <1>2, LeastNumber
  <1>4. PICK p \in left : x = Position(p)
    OBVIOUS
  <1>5. PICK q \in Process : Behind(q, p)
    BY <1>4, WaitsForBehind
  <1>6. Position(q) < Position(p) /\ Position(q) \in Nat /\ Position(p) \in Nat
    BY <1>1, <1>4, <1>5, PositionOrder
  <1>7. q \in left
    <2> SUFFICES ASSUME call[q] = Calls, pc[q] = "compute" PROVE FALSE
      OBVIOUS
    <2>1. /\ call[p] \in 0 .. Calls /\ Calls \in Nat /\ layout.nj \in Nat /\ PerCall \in Nat \ {0}
          /\ Phase(p) \in 0 .. PerCall - 1 /\ PerCall = 2 * layout.nj + 17
      BY <1>1, <1>4, PhaseType, LayoutTypes DEF Types, PerCall
    <2>2. Phase(q) = 2 * layout.nj + 16
      BY DEF Phase
    <2> QED BY <1>5, <2>1, <2>2 DEF Behind
  <1> QED BY <1>3, <1>4, <1>6, <1>7

(* A step of a process is a step forward. *)
LEMMA RunAdvances ==
  ASSUME Types, PcInv, NEW p \in Process, Run(p)
  PROVE  Advances(p)
  <1>1. /\ layout' = layout /\ Process' = Process /\ PerCall' = PerCall
        /\ \A q \in Process : q # p => Position(q)' = Position(q)
    BY Others DEF Position, Phase, PerCall
  <1>2. /\ call[p] \in Nat /\ layout.nj \in Nat /\ row[p] \in Int /\ row[p] <= layout.nj
        /\ step[p] \in Int /\ 0 <= step[p] /\ step[p] <= 3 /\ PcAt(p)
        /\ p \in DOMAIN pc /\ p \in DOMAIN call /\ p \in DOMAIN step /\ p \in DOMAIN row
        /\ call[p] * PerCall \in Nat /\ PerCall = 2 * layout.nj + 17
    BY LayoutTypes, CallsAssumption DEF Types, Steps, PcInv, PerCall
  <1>3. ASSUME call'[p] = call[p], Phase(p)' \in Int, Phase(p) \in Int, Phase(p) < Phase(p)'
        PROVE  Position(p) < Position(p)'
    BY <1>1, <1>2, <1>3 DEF Position
  <1>4. CASE Compute(p)
    <2>1. /\ pc[p] = "compute" /\ pc'[p] = "rows" /\ call'[p] = call[p] + 1 /\ row'[p] = -1
      BY <1>2, <1>4 DEF Compute, Goto
    <2>2. Phase(p) = 2 * layout.nj + 16 /\ Phase(p)' = 2 * (-1) + 3
      BY <2>1 DEF Phase
    <2>3. (call[p] + 1) * PerCall = call[p] * PerCall + PerCall
      BY <1>2
    <2>4. Position(p)' = (call[p] + 1) * PerCall + 1
      BY <1>1, <2>1, <2>2 DEF Position
    <2>5. Position(p) < Position(p)'
      BY <1>2, <2>2, <2>3, <2>4 DEF Position
    <2> QED BY <1>1, <2>5 DEF Advances
  <1>5. CASE NextRow(p)
    <2>1. PICK j \in FilteredAfter(p, row[p]) : row' = [row EXCEPT ![p] = j]
      BY <1>5 DEF NextRow
    <2>2. j \in Int /\ j > row[p]
      <3>1. j \in FilteredIn(layout, p, call[p]) /\ j > row[p]
        BY <2>1, FilteredAfterIs
      <3>2. j \in 0 .. layout.nj
        BY <3>1, FilteredRows DEF Types, Process
      <3> QED BY <3>1, <3>2
    <2>3. pc[p] = "rows" /\ pc'[p] = "allreduce" /\ call'[p] = call[p] /\ row'[p] = j
      BY <1>2, <1>5, <2>1 DEF NextRow, Goto
    <2>4. Phase(p) = 2 * row[p] + 3 /\ Phase(p)' = 2 * j + 2
      BY <2>3 DEF Phase
    <2> QED BY <1>1, <1>2, <1>3, <2>2, <2>3, <2>4 DEF Advances
  <1>6. CASE FilteredRow(p)
    <2>1. pc[p] = "allreduce" /\ pc'[p] = "rows" /\ call'[p] = call[p] /\ row'[p] = row[p]
      BY <1>2, <1>6 DEF FilteredRow, Goto
    <2>2. Phase(p) = 2 * row[p] + 2 /\ Phase(p)' = 2 * row[p] + 3
      BY <2>1 DEF Phase
    <2> QED BY <1>1, <1>2, <1>3, <2>1, <2>2 DEF Advances
  <1>7. CASE RowsDone(p)
    <2>1. /\ pc[p] = "rows" /\ pc'[p] = "sendrecv" /\ call'[p] = call[p]
          /\ step'[p] = step[p] /\ layout' = layout
      BY <1>2, <1>7 DEF RowsDone, Goto
    <2>2. Phase(p) = 2 * row[p] + 3 /\ Phase(p)' = 2 * layout.nj + 4 + 3 * step[p]
      BY <2>1 DEF Phase
    <2> QED BY <1>1, <1>2, <1>3, <2>1, <2>2 DEF Advances
  <1>8. CASE Send(p)
    <2>1. /\ pc[p] = "sendrecv" /\ pc'[p] = "wait" /\ call'[p] = call[p]
          /\ step'[p] = step[p] /\ layout' = layout
      BY <1>2, <1>8 DEF Send, Goto
    <2>2. /\ Phase(p) = 2 * layout.nj + 4 + 3 * step[p]
          /\ Phase(p)' = 2 * layout.nj + 5 + 3 * step[p]
      BY <2>1 DEF Phase
    <2> QED BY <1>1, <1>2, <1>3, <2>1, <2>2 DEF Advances
  <1>9. CASE Receive(p) \/ ReceiveNothing(p)
    <2>1. /\ pc[p] = "wait" /\ pc'[p] = "arrived" /\ call'[p] = call[p]
          /\ step'[p] = step[p] /\ layout' = layout
      BY <1>2, <1>9 DEF Receive, ReceiveNothing, Goto
    <2>2. /\ Phase(p) = 2 * layout.nj + 5 + 3 * step[p]
          /\ Phase(p)' = 2 * layout.nj + 6 + 3 * step[p]
      BY <2>1 DEF Phase
    <2> QED BY <1>1, <1>2, <1>3, <2>1, <2>2 DEF Advances
  <1>10. CASE Return(p)
    <2>1. /\ pc[p] = "arrived" /\ call'[p] = call[p] /\ layout' = layout
          /\ step'[p] = (step[p] + 1) % 4
          /\ pc'[p] = IF step[p] = 3 THEN "compute" ELSE "sendrecv"
      BY <1>2, <1>10 DEF Return, Goto
    <2>2. Phase(p) = 2 * layout.nj + 6 + 3 * step[p]
      BY <2>1 DEF Phase
    <2>3. CASE step[p] = 3
      <3>1. Phase(p)' = 2 * layout.nj + 16
        BY <2>1, <2>3 DEF Phase
      <3> QED BY <1>1, <1>2, <1>3, <2>1, <2>2, <2>3, <3>1 DEF Advances
    <2>4. CASE step[p] # 3
      <3>1. step'[p] = step[p] + 1
        BY <1>2, <2>1, <2>4
      <3>2. Phase(p)' = 2 * layout.nj + 4 + 3 * (step[p] + 1)
        BY <2>1, <2>4, <3>1 DEF Phase
      <3> QED BY <1>1, <1>2, <1>3, <2>1, <2>2, <3>2 DEF Advances
    <2> QED BY <2>3, <2>4
  <1> QED BY <1>4, <1>5, <1>6, <1>7, <1>8, <1>9, <1>10 DEF Run

(* Never does everybody wait for somebody else, even if MPI does not buffer  *)
(* a single message: as long as a call is left, some process can go on.      *)
THEOREM NeverStuck == Spec => [](AllReturned \/ \E p \in Process : Ready(p))
  <1>1. IInv => AllReturned \/ \E p \in Process : Ready(p)
    BY SomebodyReady
  <1> QED BY <1>1, Invariance, PTL

(* And nobody goes round in circles: every step takes one process forward    *)
(* and leaves the others where they are, and how far there is to go has a    *)
(* bound.  With NeverStuck, every run whose processes are not stopped ends    *)
(* with all calls returned.                                                  *)
THEOREM StepsLead ==
  Spec => /\ [](\A p \in Process : Position(p) \in 0 .. (Calls + 1) * PerCall - 1)
          /\ [][\E p \in Process : Advances(p)]_vars
  <1>1. ASSUME IInv, NEW p \in Process PROVE Position(p) \in 0 .. (Calls + 1) * PerCall - 1
    <2>1. Position(p) \in Nat /\ Position(p) < (Calls + 1) * PerCall
      BY <1>1, PositionOrder DEF IInv
    <2>2. (Calls + 1) * PerCall \in Nat
      BY <1>1, PhaseType DEF IInv
    <2> QED BY <2>1, <2>2
  <1>2. IInv /\ [Next]_vars => [\E p \in Process : Advances(p)]_vars
    BY RunAdvances DEF IInv, Next
  <1>3. IInv => \A p \in Process : Position(p) \in 0 .. (Calls + 1) * PerCall - 1
    BY <1>1
  <1> QED BY <1>2, <1>3, Invariance, PTL DEF Spec

=============================================================================

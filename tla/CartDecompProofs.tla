--------------------------- MODULE CartDecompProofs ---------------------------
(***************************************************************************)
(* For every number of processes and every size of the grid: when          *)
(* mpispec_init() gets through, the points are divided among the processes *)
(* without gaps, without overlap and without empty subgrids, the loops     *)
(* over the pads stay on the grid, and fields of two and three dimensions  *)
(* are divided alike.  prime_factors() finds the prime factors, balance()  *)
(* deals out all of them, and both get to an end.                          *)
(***************************************************************************)
EXTENDS CartDecomp, SubgridProofs, SequenceTheorems

Types ==
  /\ pc \in {"balance", "halve", "trial", "divide", "split", "done", "abort", "mpi_error"}
  /\ geometry \in Geometries /\ numproc \in Nat \ {0}
  /\ length \in [Axes -> Nat \ {0}] /\ copy \in [Axes -> Nat]
  /\ ndim \in {2, 3} /\ free \subseteq {0, 1}
  /\ dims \in [Axes -> Int]
  /\ dims_ij \in [Axes -> Int]
  /\ n \in Nat \ {0} /\ i \in Nat \ {0}
  /\ factors \in Seq(Nat \ {0})

(* Only axes 0 and 1 are for balance() to choose, and only the first time. *)
Chosen == pc # "balance" \/ ndim = 3
ChoiceInv ==
  /\ dims[2] = 1
  /\ ~Chosen => dims[0] = -1 /\ dims[1] = -1
  /\ Chosen => dims[0] >= 1 /\ dims[1] >= 1
  /\ ndim = 3 /\ pc = "balance" => dims[0] * dims[1] = numproc
  /\ ndim = 3 /\ pc \notin {"balance", "mpi_error"} => free = {}

(* As many processes as there are points, at most: the blocks that are left  *)
(* of an axis are no longer than the axis divided by its processes.          *)
FitInv ==
  /\ Chosen => \A a \in Axes : dims[a] <= length[a]
  /\ ndim = 2 /\ Chosen /\ pc # "abort" => \A a \in Axes : copy[a] >= 1 /\ dims[a] * copy[a] <= length[a]

(* The second call keeps what the first one chose. *)
AlikeInv ==
  /\ pc = "done" => ndim = 3
  /\ ndim = 3 => \A a \in 0 .. 1 : dims[a] = dims_ij[a]

Inv == Types /\ ChoiceInv /\ FitInv /\ AlikeInv

LEMMA AxesAre == Axes = {0, 1, 2}
  BY DEF Axes

LEMMA FirstFactors == << >> \in Seq(Nat \ {0}) /\ << 1 >> \in Seq(Nat \ {0})
  OBVIOUS

LEMMA InitInv == Init => Inv
  <1> SUFFICES ASSUME Init PROVE Inv
    OBVIOUS
  <1>1. PICK ni \in Ni, rows \in Nj, nk \in Nk :
          /\ rows >= JStart(geometry)
          /\ length = [a \in Axes |-> <<ni, rows - JStart(geometry) + 1, nk>>[a + 1]]
    BY DEF Init
  <1>2. length \in [Axes -> Nat \ {0}]
    <2>1. ni \in Nat \ {0} /\ nk \in Nat \ {0} /\ rows - JStart(geometry) + 1 \in Nat \ {0}
      BY <1>1, SizesAssumption DEF JStart
    <2> DEFINE sizes == <<ni, rows - JStart(geometry) + 1, nk>>
    <2>2. ASSUME NEW a \in Axes PROVE sizes[a + 1] \in Nat \ {0}
      BY <2>1, AxesAre
    <2> QED BY <1>1, <2>2
  <1>3. dims \in [Axes -> Int] /\ dims[0] = -1 /\ dims[1] = -1 /\ dims[2] = 1
    BY AxesAre DEF Init
  <1>4. Types
    <2>1. numproc \in Nat \ {0} /\ copy \in [Axes -> Nat]
      BY <1>2, SizesAssumption DEF Init
    <2>2. [a \in Axes |-> 1] \in [Axes -> Int]
      OBVIOUS
    <2>3. dims_ij \in [Axes -> Int]
      BY <2>2 DEF Init
    <2>4. factors = << >>
      BY DEF Init
    <2>5. factors \in Seq(Nat \ {0})
      BY <2>4, FirstFactors
    <2>6. pc = "balance" /\ geometry \in Geometries /\ ndim = 2 /\ free = {} /\ n = 1 /\ i = 3
      BY DEF Init
    <2>7. numproc \in Nat \ {0} /\ length \in [Axes -> Nat \ {0}] /\ n \in Nat \ {0} /\ i \in Nat \ {0}
      BY <1>2, <2>1, <2>6
    <2> QED BY <1>3, <2>1, <2>3, <2>5, <2>6, <2>7 DEF Types
  <1>5. pc = "balance" /\ ndim = 2 /\ ~Chosen
    BY DEF Init, Chosen
  <1> QED BY <1>3, <1>4, <1>5 DEF Inv, ChoiceInv, FitInv, AlikeInv

(* The processes of the axes in use, once they are chosen. *)
LEMMA TogetherIs ==
  ASSUME Types, dims[2] = 1
  PROVE  /\ dims[0] >= 1 /\ dims[1] >= 1 => Together = dims[0] * dims[1]
         /\ dims[0] = -1 /\ dims[1] = -1 => Together = 1
  <1>1. dims[0] \in Int /\ dims[1] \in Int
    BY AxesAre DEF Types
  <1>2. 0 \in Used /\ 1 \in Used
    BY DEF Types, Used
  <1>3. Along(2) = 1
    BY DEF Along
  <1>4. dims[0] >= 1 /\ dims[1] >= 1 => Along(0) = dims[0] /\ Along(1) = dims[1]
    BY <1>1, <1>2 DEF Along
  <1>5. dims[0] = -1 /\ dims[1] = -1 => Along(0) = 1 /\ Along(1) = 1
    BY <1>1, <1>2 DEF Along
  <1>6. dims[0] * dims[1] * 1 = dims[0] * dims[1]
    BY <1>1, SMT
  <1> QED BY <1>3, <1>4, <1>5, <1>6 DEF Together

(* What is left for the free axes: everything the first time, nothing the second. *)
LEMMA LeftIs ==
  ASSUME Inv, pc = "balance"
  PROVE  Left = IF ndim = 2 THEN numproc ELSE 1
  <1>1. numproc \in Nat \ {0} /\ ndim \in {2, 3}
    BY DEF Inv, Types
  <1>2. CASE ndim = 2
    <2>1. Together = 1
      BY <1>2, TogetherIs DEF Inv, ChoiceInv, Chosen
    <2>2. \A k \in Nat : k \div 1 = k
      BY SMT
    <2> QED BY <1>1, <1>2, <2>1, <2>2 DEF Left
  <1>3. CASE ndim = 3
    <2>1. Together = numproc
      BY <1>3, TogetherIs DEF Inv, ChoiceInv, Chosen
    <2>2. \A k \in Nat \ {0} : k \div k = 1
      BY SMT
    <2> QED BY <1>1, <1>3, <2>1, <2>2 DEF Left
  <1> QED BY <1>1, <1>2, <1>3

LEMMA BalanceInv ==
  ASSUME Inv, Balance PROVE Inv'
  <1>1. Left \in Nat \ {0} /\ pc' = "halve"
    BY LeftIs DEF Balance, Inv, Types
  <1>2. dims \in [Axes -> Int] /\ length \in [Axes -> Nat \ {0}] /\ ndim \in {2, 3} /\ pc = "balance"
    BY DEF Inv, Types, Balance
  <1>5. factors' \in Seq(Nat \ {0}) /\ n' \in Nat \ {0} /\ i' \in Nat \ {0}
    <2>1. factors' = << 1 >> \/ factors' = << >>
      BY DEF Balance
    <2>2. n' = Left /\ i' = 3
      BY DEF Balance
    <2>3. factors' \in Seq(Nat \ {0})
      BY <2>1, FirstFactors
    <2> QED BY <1>1, <2>2, <2>3
  <1>6. copy' = length /\ copy' \in [Axes -> Nat] /\ UNCHANGED <<geometry, numproc, length, ndim, dims_ij>>
    BY <1>2 DEF Balance, given
  <1>7. geometry \in Geometries /\ numproc \in Nat \ {0} /\ dims_ij \in [Axes -> Int]
    BY DEF Inv, Types
  <1>3. CASE ndim = 2
    <2>1. dims[0] = -1 /\ dims[1] = -1 /\ dims[2] = 1
      BY <1>2, <1>3 DEF Inv, ChoiceInv, Chosen
    <2>2. free' = {0, 1}
      BY <1>3, <2>1 DEF Balance, Used
    <2>3. dims' = [a \in Axes |-> 1]
      BY <1>2, <2>1, <2>2, AxesAre DEF Balance
    <2>4. Types'
      BY <1>1, <1>2, <1>5, <1>6, <1>7, <2>2, <2>3 DEF Types
    <2>5. ChoiceInv'
      BY <1>1, <1>3, <1>6, <2>3, AxesAre DEF ChoiceInv, Chosen
    <2>6. FitInv'
      BY <1>2, <1>3, <2>3 DEF FitInv, Chosen, Balance, given
    <2>7. AlikeInv'
      BY <1>3 DEF AlikeInv, Balance
    <2> QED BY <2>4, <2>5, <2>6, <2>7 DEF Inv
  <1>4. CASE ndim = 3
    <2>1. \A a \in Axes : dims[a] >= 1
      BY <1>2, <1>4, AxesAre DEF Inv, ChoiceInv, Chosen
    <2>2. free' = {}
      BY <1>2, <1>4, <2>1 DEF Balance, Used, Axes
    <2>3. dims' = dims
      BY <1>2, <2>2 DEF Balance
    <2>4. Types'
      BY <1>1, <1>2, <1>5, <1>6, <1>7, <2>2, <2>3 DEF Types
    <2>5. ChoiceInv'
      <3>1. dims[0] >= 1 /\ dims[1] >= 1 /\ dims[2] = 1
        BY <2>1, AxesAre DEF Inv, ChoiceInv
      <3> QED BY <1>1, <1>4, <1>6, <2>2, <2>3, <3>1 DEF ChoiceInv, Chosen
    <2>6. FitInv'
      BY <1>2, <1>4, <2>3 DEF FitInv, Chosen, Balance, given, Inv
    <2>7. AlikeInv'
      BY <1>4, <2>3 DEF AlikeInv, Balance, Inv
    <2> QED BY <2>4, <2>5, <2>6, <2>7 DEF Inv
  <1> QED BY <1>2, <1>3, <1>4

(* prime_factors() leaves the grid and its axes alone. *)
LEMMA FactoringInv ==
  ASSUME Inv, pc \in {"halve", "trial", "divide"}, pc' \in {"halve", "trial", "divide", "split"},
         UNCHANGED <<given, ndim, dims, free, copy, dims_ij>>,
         n' \in Nat \ {0}, i' \in Nat \ {0}, factors' \in Seq(Nat \ {0})
  PROVE  Inv'
  <1>1. Types'
    BY DEF Inv, Types, given
  <1>2. Chosen /\ Chosen' /\ pc # "abort"
    BY DEF Chosen
  <1>3. ChoiceInv'
    BY <1>2 DEF Inv, ChoiceInv
  <1>4. FitInv'
    BY <1>2 DEF Inv, FitInv, given
  <1>5. AlikeInv'
    BY DEF Inv, AlikeInv
  <1> QED BY <1>1, <1>3, <1>4, <1>5 DEF Inv

(* A factor that divides leaves a quotient that is not zero. *)
LEMMA QuotientOfFactor ==
  ASSUME NEW m \in Nat \ {0}, NEW f \in Nat \ {0}, m % f = 0
  PROVE  m \div f \in Nat \ {0}
  <1> DEFINE q == m \div f
  <1>1. q \in Nat /\ m = f * q + 0
    BY DivMod
  <1> HIDE DEF q
  <1>2. q = 0 => f * q = 0
    BY SMT
  <1>3. q # 0
    BY <1>1, <1>2
  <1> QED BY <1>1, <1>3 DEF q

LEMMA AppendFactor ==
  ASSUME NEW f \in Nat \ {0}, factors \in Seq(Nat \ {0})
  PROVE  Append(factors, f) \in Seq(Nat \ {0})
  OBVIOUS

(* Sorting takes nothing from outside of the sequence. *)
LEMMA SortedFactors ==
  ASSUME NEW all \in Seq(Nat \ {0}), NEW p \in Bijection(DOMAIN all, DOMAIN all)
  PROVE  [k \in DOMAIN all |-> all[p[k]]] \in Seq(Nat \ {0})
  <1>1. p \in [DOMAIN all -> DOMAIN all]
    BY DEF Bijection, Injection
  <1>2. Len(all) \in Nat /\ DOMAIN all = 1 .. Len(all)
    OBVIOUS
  <1>3. \A k \in DOMAIN all : all[k] \in Nat \ {0}
    BY <1>2
  <1>4. \A k \in DOMAIN all : all[p[k]] \in Nat \ {0}
    BY <1>1, <1>3
  <1> DEFINE sorted == [k \in DOMAIN all |-> all[p[k]]]
  <1>5. sorted \in [1 .. Len(all) -> Nat \ {0}]
    BY <1>2, <1>4
  <1> QED BY <1>2, <1>5, SeqDef

LEMMA PrimeFactorsInv ==
  ASSUME Inv, Halve \/ Halved \/ Trial \/ Divide \/ NextDivisor \/ Factored
  PROVE  Inv'
  <1>1. n \in Nat \ {0} /\ i \in Nat \ {0}
    BY DEF Inv, Types
  <1>2. factors \in Seq(Nat \ {0})
    BY DEF Inv, Types
  <1>3. CASE Halve
    <2>1. n \div 2 \in Nat \ {0}
      BY <1>1, <1>3, QuotientOfFactor DEF Halve
    <2>2. Append(factors, 2) \in Seq(Nat \ {0})
      BY <1>2, AppendFactor
    <2>3. pc = "halve" /\ UNCHANGED <<pc, given, ndim, dims, free, copy, dims_ij>> /\ n' = n \div 2 /\ i' = i
      BY <1>3 DEF Halve
    <2>4. factors' = Append(factors, 2)
      BY <1>3 DEF Halve
    <2>5. factors' \in Seq(Nat \ {0})
      BY <2>2, <2>4
    <2> QED BY <1>1, <2>1, <2>3, <2>5, FactoringInv
  <1>4. CASE Halved \/ Trial
    <2>1. /\ pc \in {"halve", "trial"} /\ pc' \in {"trial", "divide"}
          /\ UNCHANGED <<given, ndim, dims, free, copy, dims_ij>> /\ n' = n /\ i' = i
      BY <1>4 DEF Halved, Trial, Goto, factoring
    <2>2. factors' = factors
      BY <1>4 DEF Halved, Trial, factoring
    <2>3. factors' \in Seq(Nat \ {0})
      BY <1>2, <2>2
    <2> QED BY <1>1, <2>1, <2>3, FactoringInv
  <1>5. CASE Divide
    <2>1. n \div i \in Nat \ {0}
      BY <1>1, <1>5, QuotientOfFactor DEF Divide
    <2>2. Append(factors, i) \in Seq(Nat \ {0})
      BY <1>1, <1>2, AppendFactor
    <2>3. pc = "divide" /\ UNCHANGED <<pc, given, ndim, dims, free, copy, dims_ij>> /\ n' = n \div i /\ i' = i
      BY <1>5 DEF Divide
    <2>4. factors' = Append(factors, i)
      BY <1>5 DEF Divide
    <2>5. factors' \in Seq(Nat \ {0})
      BY <2>2, <2>4
    <2> QED BY <1>1, <2>1, <2>3, <2>5, FactoringInv
  <1>6. CASE NextDivisor
    <2>1. /\ pc = "divide" /\ pc' = "trial"
          /\ UNCHANGED <<given, ndim, dims, free, copy, dims_ij>> /\ n' = n /\ i' = i + 2
      BY <1>6 DEF NextDivisor, Goto
    <2>2. factors' = factors
      BY <1>6 DEF NextDivisor
    <2>3. factors' \in Seq(Nat \ {0})
      BY <1>2, <2>2
    <2>4. i + 2 \in Nat \ {0}
      BY <1>1
    <2> QED BY <1>1, <2>1, <2>3, <2>4, FactoringInv
  <1>7. CASE Factored
    <2> DEFINE all == IF n > 2 THEN Append(factors, n) ELSE factors
    <2>1. all \in Seq(Nat \ {0})
      BY <1>1, <1>2, AppendFactor
    <2>2. \E p \in Bijection(DOMAIN all, DOMAIN all) : factors' = [k \in DOMAIN all |-> all[p[k]]]
      BY <1>7 DEF Factored
    <2>3. factors' \in Seq(Nat \ {0})
      <3> HIDE DEF all
      <3> QED BY <2>1, <2>2, SortedFactors
    <2>4. /\ pc = "trial" /\ pc' = "split"
          /\ UNCHANGED <<given, ndim, dims, free, copy, dims_ij>> /\ n' = n /\ i' = i
      BY <1>7 DEF Factored, Goto
    <2> QED BY <1>1, <2>3, <2>4, FactoringInv
  <1> QED BY <1>3, <1>4, <1>5, <1>6, <1>7

(* One of the free axes has the longest blocks. *)
LEMMA LongestIsFree ==
  ASSUME Types, free # {}
  PROVE  Longest \in free
  <1>1. free \subseteq {0, 1} /\ copy[0] \in Nat /\ copy[1] \in Nat
    BY AxesAre DEF Types
  <1>2. \E a \in free : \A b \in free : copy[b] < copy[a] \/ (copy[b] = copy[a] /\ b <= a)
    <2>1. CASE free = {0}
      BY <1>1, <2>1
    <2>2. CASE free = {1}
      BY <1>1, <2>2
    <2>3. CASE free = {0, 1}
      <3>1. CASE copy[0] > copy[1]
        <4>1. \A b \in free : copy[b] < copy[0] \/ (copy[b] = copy[0] /\ b <= 0)
          BY <1>1, <2>3, <3>1
        <4> QED BY <2>3, <4>1
      <3>2. CASE copy[0] <= copy[1]
        <4>1. \A b \in free : copy[b] < copy[1] \/ (copy[b] = copy[1] /\ b <= 1)
          BY <1>1, <2>3, <3>2
        <4> QED BY <2>3, <4>1
      <3> QED BY <1>1, <3>1, <3>2
    <2> QED BY <1>1, <2>1, <2>2, <2>3
  <1> QED BY <1>2 DEF Longest

(* Blocks of c points for d processes fit in l points: so do the f-th parts of *)
(* them for f times as many.                                                   *)
LEMMA SplitFits ==
  ASSUME NEW d \in Nat \ {0}, NEW c \in Nat \ {0}, NEW l \in Nat, NEW f \in Nat \ {0},
         d * c <= l
  PROVE  /\ d * f \in Nat \ {0} /\ c \div f \in Nat
         /\ (d * f) * (c \div f) <= l
         /\ c \div f >= 1 => d * f <= l
  <1> DEFINE q == c \div f
  <1>1. q \in Nat /\ f * q <= c /\ f * q \in Nat
    <2>1. c % f \in Nat /\ c = f * q + (c % f) /\ q \in Nat
      BY DivMod
    <2>2. f * q \in Nat
      BY <2>1, SMT
    <2> QED BY <2>1, <2>2
  <1> HIDE DEF q
  <1>2. d * f \in Nat \ {0} /\ (d * f) * q = d * (f * q) /\ d * c \in Nat
    BY <1>1, SMT
  <1>3. d * (f * q) <= d * c
    <2>1. (f * q) * d <= c * d
      BY <1>1, TimesMonotone
    <2> QED BY <1>1, <2>1, SMT
  <1>4. (d * f) * q <= l /\ (d * f) * q \in Nat
    BY <1>1, <1>2, <1>3, SMT
  <1>5. q >= 1 => d * f <= (d * f) * q
    <2>1. q >= 1 => 1 * (d * f) <= q * (d * f)
      BY <1>1, <1>2, TimesMonotone
    <2> QED BY <1>1, <1>2, <2>1, SMT
  <1>6. q >= 1 => d * f <= l
    BY <1>2, <1>4, <1>5
  <1> QED BY <1>1, <1>2, <1>4, <1>6 DEF q

LEMMA SplitInv ==
  ASSUME Inv, Split PROVE Inv'
  <1> DEFINE a == Longest
             f == Head(factors)
  <1>1. a \in free /\ a \in {0, 1} /\ a \in Axes
    BY LongestIsFree, AxesAre DEF Inv, Types, Split
  <1>2. ndim = 2 /\ Chosen /\ pc = "split"
    BY DEF Split, Inv, ChoiceInv, Types, Chosen
  <1>3. factors \in Seq(Nat \ {0}) /\ factors # << >>
    BY DEF Inv, Types, Split
  <1>4. f \in Nat \ {0} /\ Tail(factors) \in Seq(Nat \ {0})
    BY <1>3, HeadTailProperties
  <1>5. factors' \in Seq(Nat \ {0})
    <2>1. factors' = Tail(factors)
      BY DEF Split
    <2> QED BY <1>4, <2>1
  <1> HIDE DEF f, a
  <1>6. /\ copy \in [Axes -> Nat] /\ dims \in [Axes -> Int] /\ length \in [Axes -> Nat \ {0}]
        /\ dims[a] \in Nat \ {0} /\ copy[a] \in Nat \ {0} /\ length[a] \in Nat
        /\ dims[a] * copy[a] <= length[a]
    <2>1. copy \in [Axes -> Nat] /\ dims \in [Axes -> Int] /\ length \in [Axes -> Nat \ {0}]
      BY DEF Inv, Types
    <2>2. dims[0] >= 1 /\ dims[1] >= 1
      BY <1>2 DEF Inv, ChoiceInv
    <2>3. dims[a] >= 1 /\ dims[a] \in Int /\ copy[a] \in Nat /\ length[a] \in Nat
      BY <1>1, <2>1, <2>2
    <2>4. copy[a] >= 1 /\ dims[a] * copy[a] <= length[a]
      BY <1>1, <1>2 DEF Inv, FitInv
    <2> QED BY <2>1, <2>3, <2>4
  <1>7. /\ dims[a] * f \in Nat \ {0} /\ copy[a] \div f \in Nat
        /\ (dims[a] * f) * (copy[a] \div f) <= length[a]
        /\ copy[a] \div f >= 1 => dims[a] * f <= length[a]
    BY <1>4, <1>6, SplitFits
  <1>8. copy' = [copy EXCEPT ![a] = copy[a] \div f]
    BY DEF Split, a, f
  <1>9. copy'[a] = copy[a] \div f /\ copy' \in [Axes -> Nat]
    BY <1>1, <1>6, <1>7, <1>8
  <1>10. IF copy[a] \div f < 1 THEN pc' = "abort" /\ dims' = dims
         ELSE dims' = [dims EXCEPT ![a] = dims[a] * f] /\ pc' = pc
    <2>1. IF copy'[a] < 1 THEN pc' = "abort" /\ dims' = dims
          ELSE dims' = [dims EXCEPT ![a] = dims[a] * f] /\ pc' = pc
      BY DEF Split, a, f
    <2> QED BY <1>9, <2>1
  <1>11. UNCHANGED <<geometry, numproc, length, ndim, free, n, i, dims_ij>>
    BY DEF Split, given
  <1>12. CASE copy[a] \div f < 1
    <2>1. Types'
      BY <1>5, <1>9, <1>10, <1>11, <1>12 DEF Inv, Types
    <2>2. ChoiceInv'
      BY <1>2, <1>10, <1>11, <1>12 DEF Inv, ChoiceInv, Chosen
    <2>3. FitInv'
      BY <1>2, <1>10, <1>11, <1>12 DEF Inv, FitInv, Chosen
    <2>4. AlikeInv'
      BY <1>2, <1>10, <1>11 DEF AlikeInv
    <2> QED BY <2>1, <2>2, <2>3, <2>4 DEF Inv
  <1>13. CASE ~(copy[a] \div f < 1)
    <2>1. dims' = [dims EXCEPT ![a] = dims[a] * f] /\ pc' = "split" /\ dims' \in [Axes -> Int]
      BY <1>1, <1>2, <1>6, <1>7, <1>10, <1>13
    <2>2. Types'
      BY <1>5, <1>9, <1>11, <2>1 DEF Inv, Types
    <2>3. dims'[2] = 1 /\ dims'[0] >= 1 /\ dims'[1] >= 1
      BY <1>1, <1>2, <1>6, <1>7, <2>1, AxesAre DEF Inv, ChoiceInv
    <2>4. ChoiceInv'
      BY <1>2, <1>11, <2>1, <2>3 DEF ChoiceInv, Chosen
    <2>5. ASSUME NEW b \in Axes
          PROVE  dims'[b] <= length[b] /\ copy'[b] >= 1 /\ dims'[b] * copy'[b] <= length[b]
      <3>1. CASE b = a
        BY <1>1, <1>6, <1>7, <1>9, <1>13, <2>1, <3>1
      <3>2. CASE b # a
        <4>1. dims'[b] = dims[b] /\ copy'[b] = copy[b]
          BY <1>6, <1>8, <2>1, <3>2
        <4>2. dims[b] <= length[b] /\ copy[b] >= 1 /\ dims[b] * copy[b] <= length[b]
          BY <1>2 DEF Inv, FitInv
        <4> QED BY <4>1, <4>2
      <3> QED BY <3>1, <3>2
    <2>6. FitInv'
      BY <1>11, <2>5 DEF FitInv
    <2>7. AlikeInv'
      BY <1>2, <1>10, <1>11 DEF AlikeInv
    <2> QED BY <2>2, <2>4, <2>6, <2>7 DEF Inv
  <1> QED BY <1>12, <1>13

LEMMA CartCreateInv ==
  ASSUME Inv, CartCreate PROVE Inv'
  <1>1. factors' \in Seq(Nat \ {0})
    <2>1. factors' = << >>
      BY DEF CartCreate
    <2> QED BY <2>1, FirstFactors
  <1>2. /\ pc = "split" /\ ndim' = 3 /\ ndim \in {2, 3} /\ dims' = dims
        /\ dims_ij' = IF ndim = 2 THEN dims ELSE dims_ij
        /\ pc' = IF Together # numproc THEN "mpi_error" ELSE IF ndim = 2 THEN "balance" ELSE "done"
        /\ UNCHANGED <<geometry, numproc, length, free, copy, n, i>>
    BY DEF CartCreate, given, Inv, Types
  <1>3. Chosen /\ Chosen'
    BY <1>2 DEF Chosen
  <1>4. Types'
    BY <1>1, <1>2 DEF Inv, Types
  <1>5. dims[0] >= 1 /\ dims[1] >= 1 /\ dims[2] = 1
    BY <1>3 DEF Inv, ChoiceInv
  <1>6. Together = dims[0] * dims[1]
    BY <1>5, TogetherIs DEF Inv
  <1>7. pc' = "balance" => dims'[0] * dims'[1] = numproc'
    BY <1>2, <1>6
  <1>8. pc' \notin {"balance", "mpi_error"} => free' = {}
    BY <1>2 DEF Inv, ChoiceInv
  <1>11. ChoiceInv'
    BY <1>2, <1>3, <1>5, <1>7, <1>8 DEF ChoiceInv
  <1>9. FitInv'
    BY <1>2, <1>3 DEF Inv, FitInv
  <1>10. AlikeInv'
    BY <1>2, AxesAre DEF Inv, AlikeInv
  <1> QED BY <1>4, <1>9, <1>10, <1>11 DEF Inv

LEMMA NextInv == Inv /\ [Next]_vars => Inv'
  <1> SUFFICES ASSUME Inv, [Next]_vars PROVE Inv'
    OBVIOUS
  <1>1. CASE Balance
    BY <1>1, BalanceInv
  <1>2. CASE Halve \/ Halved \/ Trial \/ Divide \/ NextDivisor \/ Factored
    BY <1>2, PrimeFactorsInv
  <1>3. CASE Split
    BY <1>3, SplitInv
  <1>4. CASE CartCreate
    BY <1>4, CartCreateInv
  <1>5. CASE UNCHANGED vars
    BY <1>5 DEF vars, given, factoring, Inv, Types, ChoiceInv, Chosen, FitInv, AlikeInv
  <1> QED BY <1>1, <1>2, <1>3, <1>4, <1>5 DEF Next

THEOREM Invariance == Spec => []Inv
  BY InitInv, NextInv, PTL DEF Spec

(* When a decomposition is done, no axis has more processes than points. *)
LEMMA DoneFits ==
  ASSUME Inv, pc = "done"
  PROVE  \A a \in Axes : length[a] \in Nat \ {0} /\ dims[a] \in 1 .. length[a]
  <1>1. Chosen
    BY DEF Chosen
  <1>2. \A a \in Axes : length[a] \in Nat \ {0} /\ dims[a] \in Int /\ dims[a] <= length[a]
    BY <1>1 DEF Inv, Types, FitInv
  <1>3. \A a \in Axes : dims[a] >= 1
    BY <1>1, AxesAre DEF Inv, ChoiceInv
  <1> QED BY <1>2, <1>3

(* The blocks of the processes along an axis, in the indices of the axis. *)
LEMMA AxisBlocks ==
  ASSUME Inv, pc = "done", NEW a \in Axes
  PROVE  /\ Start(a) \in {0, 1}
         /\ \A c \in Coords(a) :
              /\ Lo(a, c) \in Int /\ Hi(a, c) \in Int
              /\ Start(a) <= Lo(a, c) /\ Lo(a, c) <= Hi(a, c)
              /\ Hi(a, c) < Start(a) + length[a]
         /\ \A x \in Start(a) .. Start(a) + length[a] - 1 :
              \E c \in Coords(a) : \A d \in Coords(a) : (x \in Lo(a, d) .. Hi(a, d)) <=> d = c
  <1> DEFINE l == length[a]
             p == dims[a]
             s(c) == MPE_Decomp1d(l, p, c).s
             e(c) == MPE_Decomp1d(l, p, c).e
  <1>1. l \in Nat \ {0} /\ p \in 1 .. l
    BY DoneFits
  <1>2. Start(a) \in {0, 1}
    BY DEF Start, JStart
  <1>3. Coords(a) = 0 .. p - 1
    BY DEF Coords
  <1>4. \A c : Lo(a, c) = s(c) - 1 + Start(a) /\ Hi(a, c) = e(c) - 1 + Start(a)
    BY DEF Lo, Hi, MyLo, MyHi
  <1> HIDE DEF l, p
  <1>5. \A c \in 0 .. p - 1 : s(c) \in Nat \ {0} /\ e(c) \in Nat /\ s(c) <= e(c) /\ e(c) <= l
    BY <1>1, BlocksInOrder
  <1>6. \A x \in 1 .. l : \E c \in 0 .. p - 1 : \A d \in 0 .. p - 1 : (x \in s(d) .. e(d)) <=> d = c
    BY <1>1, Decomp1dPartitions
  <1> HIDE DEF s, e
  <1>7. ASSUME NEW c \in Coords(a)
        PROVE  /\ Lo(a, c) \in Int /\ Hi(a, c) \in Int
               /\ Start(a) <= Lo(a, c) /\ Lo(a, c) <= Hi(a, c)
               /\ Hi(a, c) < Start(a) + l
    <2>1. s(c) \in Nat \ {0} /\ e(c) \in Nat /\ s(c) <= e(c) /\ e(c) <= l
      BY <1>3, <1>5
    <2> QED BY <1>1, <1>2, <1>4, <2>1
  <1>8. ASSUME NEW x \in Start(a) .. Start(a) + l - 1
        PROVE  \E c \in Coords(a) : \A d \in Coords(a) : (x \in Lo(a, d) .. Hi(a, d)) <=> d = c
    <2> DEFINE y == x + 1 - Start(a)
    <2>1. y \in 1 .. l /\ x = y - 1 + Start(a) /\ y \in Int
      BY <1>1, <1>2
    <2> HIDE DEF y
    <2>2. PICK c \in 0 .. p - 1 : \A d \in 0 .. p - 1 : (y \in s(d) .. e(d)) <=> d = c
      BY <1>6, <2>1
    <2>3. ASSUME NEW d \in 0 .. p - 1
          PROVE  (x \in Lo(a, d) .. Hi(a, d)) <=> (y \in s(d) .. e(d))
      <3>1. s(d) \in Nat \ {0} /\ e(d) \in Nat
        BY <1>5
      <3>2. Lo(a, d) = s(d) - 1 + Start(a) /\ Hi(a, d) = e(d) - 1 + Start(a)
        BY <1>4
      <3> QED BY <1>2, <2>1, <3>1, <3>2
    <2> QED BY <1>3, <2>2, <2>3
  <1> QED BY <1>2, <1>7, <1>8 DEF l

(* The grid of a process is the meridional axis of the whole. *)
LEMMA MeridionalAxis ==
  ASSUME Types
  PROVE  /\ length[1] \in Nat \ {0} /\ 1 \in Axes
         /\ Start(1) = JStart(geometry)
         /\ Wrap(geometry) => JStart(geometry) = 1 /\ nj = length[1]
         /\ ~Wrap(geometry) => JStart(geometry) = 0 /\ nj = length[1] - 1
  BY AxesAre DEF Types, Start, JStart, nj

LEMMA InvOwned == Inv => EveryPointOwnedOnce
  <1> SUFFICES ASSUME Inv, pc = "done"
               PROVE  EveryPointOwnedOnce
    BY DEF EveryPointOwnedOnce
  <1>1. \A a \in Axes :
          /\ \A x \in Start(a) .. Start(a) + length[a] - 1 :
               \E c \in Coords(a) : \A d \in Coords(a) : (x \in Lo(a, d) .. Hi(a, d)) <=> d = c
          /\ \A c \in Coords(a) : Start(a) <= Lo(a, c) /\ Lo(a, c) <= Hi(a, c)
                                  /\ Hi(a, c) < Start(a) + length[a]
    BY AxisBlocks
  <1>2. ASSUME NEW x \in 1 .. nj
        PROVE  \E c \in Coords(1) : \A d \in Coords(1) :
                 (x \in JFIRST(geometry, Lo(1, d)) .. Hi(1, d)) <=> d = c
    <2>1. /\ length[1] \in Nat \ {0} /\ 1 \in Axes /\ Start(1) = JStart(geometry)
          /\ Wrap(geometry) => JStart(geometry) = 1 /\ nj = length[1]
          /\ ~Wrap(geometry) => JStart(geometry) = 0 /\ nj = length[1] - 1
      BY MeridionalAxis DEF Inv
    <2>2. x \in Start(1) .. Start(1) + length[1] - 1 /\ x \in Int /\ x >= 1
      BY <2>1
    <2>3. PICK c \in Coords(1) : \A d \in Coords(1) : (x \in Lo(1, d) .. Hi(1, d)) <=> d = c
      BY <1>1, <2>1, <2>2
    <2>4. ASSUME NEW d \in Coords(1)
          PROVE  (x \in JFIRST(geometry, Lo(1, d)) .. Hi(1, d)) <=> (x \in Lo(1, d) .. Hi(1, d))
      <3>1. Lo(1, d) \in Int /\ Hi(1, d) \in Int
        BY <2>1, AxisBlocks
      <3>2. JFIRST(geometry, Lo(1, d)) = IF 1 >= Lo(1, d) THEN 1 ELSE Lo(1, d)
        BY <2>1 DEF JFIRST
      <3> QED BY <2>2, <3>1, <3>2
    <2> QED BY <2>3, <2>4
  <1> QED BY <1>1, <1>2 DEF EveryPointOwnedOnce

LEMMA InvPads == Inv => PadLoopsReach
  <1> SUFFICES ASSUME Inv, pc = "done", NEW c \in Coords(1)
               PROVE  JLOPAD(geometry, Lo(1, c)) .. JHIPAD(geometry, nj, Hi(1, c))
                        = {j \in Lo(1, c) - JPAD .. Hi(1, c) + JPAD :
                             Wrap(geometry) \/ j \in JStart(geometry) .. nj}
    BY DEF PadLoopsReach
  <1> DEFINE lo == Lo(1, c)
             hi == Hi(1, c)
  <1>1. /\ length[1] \in Nat \ {0} /\ 1 \in Axes /\ Start(1) = JStart(geometry)
        /\ Wrap(geometry) => JStart(geometry) = 1 /\ nj = length[1]
        /\ ~Wrap(geometry) => JStart(geometry) = 0 /\ nj = length[1] - 1
    BY MeridionalAxis DEF Inv
  <1>2. /\ lo \in Int /\ hi \in Int /\ Start(1) <= lo /\ lo <= hi
        /\ hi < Start(1) + length[1]
    BY <1>1, AxisBlocks
  <1> HIDE DEF lo, hi
  <1>3. CASE Wrap(geometry)
    <2>1. JLOPAD(geometry, lo) = lo - 1 /\ JHIPAD(geometry, nj, hi) = hi + 1
      BY <1>1, <1>2, <1>3 DEF JLOPAD, JHIPAD, JFIRST, JLAST, JPAD
    <2> QED BY <1>2, <1>3, <2>1 DEF lo, hi, JPAD
  <1>4. CASE ~Wrap(geometry)
    <2>1. /\ JLOPAD(geometry, lo) = IF lo <= 1 THEN 0 ELSE lo - 1
          /\ JHIPAD(geometry, nj, hi) = IF nj - 1 <= hi THEN nj ELSE hi + 1
      BY <1>1, <1>2, <1>4 DEF JLOPAD, JHIPAD, JFIRST, JLAST, JPAD
    <2>2. nj \in Int /\ 0 <= lo /\ hi <= nj
      BY <1>1, <1>2, <1>4
    <2>3. ASSUME NEW j \in Int
          PROVE  (j \in JLOPAD(geometry, lo) .. JHIPAD(geometry, nj, hi))
                   <=> (j \in lo - 1 .. hi + 1 /\ j \in 0 .. nj)
      BY <1>2, <2>1, <2>2
    <2>4. JLOPAD(geometry, lo) \in Int /\ JHIPAD(geometry, nj, hi) \in Int
      BY <1>2, <2>1, <2>2
    <2> QED BY <1>1, <1>2, <1>4, <2>2, <2>3, <2>4 DEF lo, hi, JPAD
  <1> QED BY <1>3, <1>4

LEMMA InvAlike == Inv => DividedAlike
  BY DEF Inv, AlikeInv, DividedAlike

(* Every point has one process, and no process is without points. *)
THEOREM OwnedOnce == Spec => []EveryPointOwnedOnce
  BY Invariance, InvOwned, PTL

(* The loops over the pads go over rows of the grid that are on the process. *)
THEOREM PadLoops == Spec => []PadLoopsReach
  BY Invariance, InvPads, PTL

(* comm_ij and comm_ijk have the same processes along each axis. *)
THEOREM Alike == Spec => []DividedAlike
  BY Invariance, InvAlike, PTL

-----------------------------------------------------------------------------
(* The product of a sequence: it takes a factor with each member, and the   *)
(* order does not matter.                                                   *)

Pos == Nat \ {0}

(* u holds the products of the first members of s. *)
IsUpTo(u, s) ==
  /\ u \in [0 .. Len(s) -> Pos] /\ u[0] = 1
  /\ \A k \in 1 .. Len(s) : u[k] = u[k - 1] * s[k]

(* Such products exist. *)
LEMMA UpToExists ==
  ASSUME NEW s \in Seq(Pos)
  PROVE  \E u : IsUpTo(u, s)
  <1> DEFINE UpTo(k, u) == /\ u \in [0 .. k -> Pos] /\ u[0] = 1
                           /\ \A j \in 1 .. k : u[j] = u[j - 1] * s[j]
             S == {k \in Nat : k <= Len(s) => \E u : UpTo(k, u)}
  <1>0. Len(s) \in Nat /\ \A k \in 1 .. Len(s) : s[k] \in Pos
    BY LenProperties
  <1>1. 0 \in S
    <2> DEFINE u == [j \in 0 .. 0 |-> 1]
    <2>1. UpTo(0, u)
      BY DEF Pos
    <2> QED BY <2>1
  <1>2. ASSUME NEW k \in Nat, k \in S PROVE k + 1 \in S
    <2> SUFFICES ASSUME k + 1 <= Len(s) PROVE \E v : UpTo(k + 1, v)
      OBVIOUS
    <2>1. PICK u : UpTo(k, u)
      BY <1>0, <1>2
    <2> DEFINE v == [j \in 0 .. k + 1 |-> IF j = k + 1 THEN u[k] * s[k + 1] ELSE u[j]]
    <2>2. u[k] \in Pos /\ s[k + 1] \in Pos
      BY <1>0, <2>1
    <2>3. u[k] * s[k + 1] \in Pos
      BY <2>2 DEF Pos
    <2>4. v \in [0 .. k + 1 -> Pos] /\ v[0] = 1
      BY <2>1, <2>3
    <2>5. ASSUME NEW j \in 1 .. k + 1 PROVE v[j] = v[j - 1] * s[j]
      <3>1. CASE j = k + 1
        BY <3>1
      <3>2. CASE j # k + 1
        <4>1. j \in 1 .. k /\ j - 1 \in 0 .. k + 1 /\ j - 1 # k + 1
          BY <3>2
        <4>2. v[j] = u[j] /\ v[j - 1] = u[j - 1]
          BY <3>2, <4>1
        <4> QED BY <2>1, <4>1, <4>2
      <3> QED BY <3>1, <3>2
    <2> QED BY <2>4, <2>5
  <1> HIDE DEF S
  <1>3. \A k \in Nat : k \in S
    BY <1>1, <1>2, SetInduction
  <1>4. \E u : UpTo(Len(s), u)
    BY <1>0, <1>3 DEF S
  <1> QED BY <1>4 DEF IsUpTo

(* Product(s) is the last of them. *)
LEMMA ProductIs ==
  ASSUME NEW s \in Seq(Pos), NEW u, IsUpTo(u, s)
  PROVE  Product(s) = u[Len(s)]
  <1> DEFINE Eq(v) == v = [k \in 0 .. Len(s) |-> IF k = 0 THEN 1 ELSE v[k - 1] * s[k]]
             c == CHOOSE v : Eq(v)
  <1>0. Len(s) \in Nat /\ \A k \in 1 .. Len(s) : s[k] \in Pos
    BY LenProperties
  <1>2. Eq(u)
    BY <1>0 DEF IsUpTo
  <1>3. Product(s) = c[Len(s)]
    BY DEF Product
  <1>4. Eq(c)
    BY <1>2
  <1> HIDE DEF c
  <1>5. c[0] = 1 /\ \A k \in 1 .. Len(s) : c[k] = c[k - 1] * s[k]
    BY <1>0, <1>4
  <1>6. \A k \in Nat : k \in 0 .. Len(s) => c[k] = u[k]
    <2> DEFINE S == {k \in Nat : k \in 0 .. Len(s) => c[k] = u[k]}
    <2>1. 0 \in S
      BY <1>5 DEF IsUpTo
    <2>2. ASSUME NEW k \in Nat, k \in S PROVE k + 1 \in S
      BY <1>0, <1>5, <2>2 DEF IsUpTo
    <2> HIDE DEF S
    <2>3. \A k \in Nat : k \in S
      BY <2>1, <2>2, SetInduction
    <2> QED BY <2>3 DEF S
  <1> QED BY <1>0, <1>3, <1>6

LEMMA ProductType == ASSUME NEW s \in Seq(Pos) PROVE Product(s) \in Pos
  <1>1. PICK u : IsUpTo(u, s)
    BY UpToExists
  <1>2. Len(s) \in Nat
    BY LenProperties
  <1>3. u[Len(s)] \in Pos
    BY <1>1, <1>2 DEF IsUpTo
  <1> QED BY <1>1, <1>3, ProductIs

LEMMA ProductEmpty ==
  ASSUME NEW s \in Seq(Pos), Len(s) = 0
  PROVE  Product(s) = 1
  <1>1. PICK u : IsUpTo(u, s)
    BY UpToExists
  <1> QED BY <1>1, ProductIs DEF IsUpTo

LEMMA TimesAssociative ==
  \A a, b, c \in Nat : (a * b) * c = a * (b * c)
  BY SMT

(* A member taken out of a sequence is a factor of its product. *)
LEMMA ProductWithout ==
  ASSUME NEW s \in Seq(Pos), NEW t \in Seq(Pos), NEW j \in 1 .. Len(s),
         Len(t) = Len(s) - 1,
         \A k \in 1 .. Len(t) : t[k] = IF k < j THEN s[k] ELSE s[k + 1]
  PROVE  Product(s) = s[j] * Product(t)
  <1>1. PICK u : IsUpTo(u, s)
    BY UpToExists
  <1>2. PICK v : IsUpTo(v, t)
    BY UpToExists
  <1>3. /\ Len(s) \in Nat /\ Len(t) \in Nat
        /\ \A k \in 1 .. Len(s) : s[k] \in Pos
        /\ \A k \in 1 .. Len(t) : t[k] \in Pos
    BY LenProperties
  <1> DEFINE l == Len(s)
             m == Len(t)
  <1>4. l \in Nat /\ m \in Nat /\ m = l - 1 /\ j \in 1 .. l
    BY <1>3
  <1>5. /\ u[0] = 1 /\ v[0] = 1
        /\ \A k \in 0 .. l : u[k] \in Pos
        /\ \A k \in 0 .. m : v[k] \in Pos
        /\ \A k \in 1 .. l : u[k] = u[k - 1] * s[k]
        /\ \A k \in 1 .. m : v[k] = v[k - 1] * t[k]
    BY <1>1, <1>2 DEF IsUpTo
  <1>6. /\ \A k \in 1 .. l : s[k] \in Pos
        /\ \A k \in 1 .. m : k < j => t[k] = s[k]
        /\ \A k \in 1 .. m : k >= j => t[k] = s[k + 1]
    BY <1>3
  <1> DEFINE S == {k \in Nat : k <= m => /\ k < j => v[k] = u[k]
                                         /\ k >= j - 1 => u[k + 1] = s[j] * v[k]}
  <1> HIDE DEF l, m
  <1>7. ASSUME NEW k \in 0 .. m, k < j => v[k] = u[k], k = j - 1
        PROVE  u[k + 1] = s[j] * v[k]
    <2>1. k + 1 = j /\ (k + 1) - 1 = k /\ k + 1 \in 1 .. l /\ v[k] = u[k]
      BY <1>4, <1>7
    <2>2. u[k + 1] = u[k] * s[j]
      BY <1>5, <2>1
    <2>3. u[k] \in Pos /\ s[j] \in Pos
      BY <1>4, <1>5, <1>6, <2>1
    <2> QED BY <2>1, <2>2, <2>3 DEF Pos
  <1>8. 0 \in S
    BY <1>4, <1>5, <1>7
  <1>9. ASSUME NEW k \in Nat, k \in S PROVE k + 1 \in S
    <2> SUFFICES ASSUME k + 1 <= m
                 PROVE  /\ k + 1 < j => v[k + 1] = u[k + 1]
                        /\ k + 1 >= j - 1 => u[k + 2] = s[j] * v[k + 1]
      BY DEF S
    <2>1. k \in 0 .. m /\ k + 1 \in 1 .. m /\ k + 1 \in 0 .. m /\ k + 1 \in 1 .. l /\ k + 2 \in 1 .. l
          /\ (k + 1) - 1 = k /\ (k + 2) - 1 = k + 1 /\ (k + 1) + 1 = k + 2
      BY <1>4
    <2>2. /\ k < j => v[k] = u[k]
          /\ k >= j - 1 => u[k + 1] = s[j] * v[k]
      BY <1>4, <1>9, <2>1 DEF S
    <2>3. k + 1 < j => v[k + 1] = u[k + 1]
      <3>1. k + 1 < j => t[k + 1] = s[k + 1] /\ v[k] = u[k]
        BY <1>4, <1>6, <2>1, <2>2
      <3>2. v[k + 1] = v[k] * t[k + 1] /\ u[k + 1] = u[k] * s[k + 1]
        BY <1>5, <2>1
      <3> QED BY <3>1, <3>2
    <2>4. CASE k + 1 = j - 1
      <3>1. k + 1 < j
        BY <1>4, <2>4
      <3> QED BY <1>7, <2>1, <2>3, <2>4, <3>1
    <2>5. CASE k + 1 >= j
      <3>1. u[k + 1] = s[j] * v[k]
        BY <1>4, <2>2, <2>5
      <3>2. t[k + 1] = s[k + 2]
        BY <1>4, <1>6, <2>1, <2>5
      <3>3. v[k + 1] = v[k] * s[k + 2] /\ u[k + 2] = u[k + 1] * s[k + 2]
        BY <1>5, <2>1, <3>2
      <3>4. v[k] \in Pos /\ s[j] \in Pos /\ s[k + 2] \in Pos
        BY <1>4, <1>5, <1>6, <2>1
      <3>5. (s[j] * v[k]) * s[k + 2] = s[j] * (v[k] * s[k + 2])
        <4>1. v[k] \in Nat /\ s[j] \in Nat /\ s[k + 2] \in Nat
          BY <3>4 DEF Pos
        <4> QED BY <4>1, TimesAssociative
      <3> QED BY <2>3, <3>1, <3>3, <3>5
    <2> QED BY <1>4, <2>3, <2>4, <2>5
  <1> HIDE DEF S
  <1>10. m \in S
    BY <1>4, <1>8, <1>9, SetInduction
  <1>11. m <= m /\ m >= j - 1 /\ m + 1 = l
    BY <1>4
  <1>12. u[l] = s[j] * v[m]
    BY <1>4, <1>10, <1>11 DEF S
  <1>13. Product(s) = u[l] /\ Product(t) = v[m]
    BY <1>1, <1>2, ProductIs DEF l, m
  <1> QED BY <1>12, <1>13

LEMMA ProductAppend ==
  ASSUME NEW s \in Seq(Pos), NEW x \in Pos
  PROVE  Product(Append(s, x)) = x * Product(s)
  <1> DEFINE a == Append(s, x)
  <1>1. /\ a \in Seq(Pos) /\ Len(a) = Len(s) + 1
        /\ \A k \in 1 .. Len(s) : a[k] = s[k]
        /\ a[Len(s) + 1] = x
    BY AppendProperties
  <1>2. Len(s) \in Nat
    BY LenProperties
  <1> HIDE DEF a
  <1>3. /\ Len(s) + 1 \in 1 .. Len(a) /\ Len(s) = Len(a) - 1
        /\ \A k \in 1 .. Len(s) : s[k] = IF k < Len(s) + 1 THEN a[k] ELSE a[k + 1]
    BY <1>1, <1>2
  <1>4. Product(a) = a[Len(s) + 1] * Product(s)
    BY <1>1, <1>3, ProductWithout
  <1> QED BY <1>1, <1>4 DEF a

LEMMA ProductTail ==
  ASSUME NEW s \in Seq(Pos), s # << >>
  PROVE  Product(s) = Head(s) * Product(Tail(s))
  <1> DEFINE t == Tail(s)
  <1>1. Len(s) \in Nat \ {0}
    BY EmptySeq
  <1>2. /\ t \in Seq(Pos) /\ Len(t) = Len(s) - 1
        /\ \A k \in 1 .. Len(t) : t[k] = s[k + 1]
        /\ Head(s) = s[1]
    BY HeadTailProperties
  <1> HIDE DEF t
  <1>3. 1 \in 1 .. Len(s) /\ \A k \in 1 .. Len(t) : t[k] = IF k < 1 THEN s[k] ELSE s[k + 1]
    BY <1>1, <1>2
  <1>4. Product(s) = s[1] * Product(t)
    BY <1>2, <1>3, ProductWithout
  <1> QED BY <1>2, <1>4 DEF t

(* The order of the members makes no difference. *)
LEMMA ProductPermuted ==
  \A l \in Nat : \A s \in Seq(Pos) : \A p \in Bijection(1 .. l, 1 .. l) :
    Len(s) = l => Product([k \in 1 .. l |-> s[p[k]]]) = Product(s)
  <1> DEFINE Same(l) == \A s \in Seq(Pos) : \A p \in Bijection(1 .. l, 1 .. l) :
                          Len(s) = l => Product([k \in 1 .. l |-> s[p[k]]]) = Product(s)
             S == {l \in Nat : Same(l)}
  <1>1. ASSUME NEW l \in Nat, NEW s \in Seq(Pos), Len(s) = l, NEW p \in [1 .. l -> 1 .. l]
        PROVE  /\ [k \in 1 .. l |-> s[p[k]]] \in Seq(Pos)
               /\ Len([k \in 1 .. l |-> s[p[k]]]) = l
    <2>1. \A k \in 1 .. l : s[p[k]] \in Pos
      BY <1>1, LenProperties
    <2> QED BY <2>1
  <1>2. 0 \in S
    <2> SUFFICES ASSUME NEW s \in Seq(Pos), NEW p \in Bijection(1 .. 0, 1 .. 0), Len(s) = 0
                 PROVE  Product([k \in 1 .. 0 |-> s[p[k]]]) = Product(s)
      OBVIOUS
    <2>1. p \in [1 .. 0 -> 1 .. 0]
      BY DEF Bijection, Injection
    <2>2. [k \in 1 .. 0 |-> s[p[k]]] \in Seq(Pos) /\ Len([k \in 1 .. 0 |-> s[p[k]]]) = 0
      BY <1>1, <2>1
    <2> QED BY <2>2, ProductEmpty
  <1>3. ASSUME NEW l \in Nat, l \in S PROVE l + 1 \in S
    <2>0. Same(l)
      BY <1>3
    <2> SUFFICES ASSUME NEW s \in Seq(Pos), NEW p \in Bijection(1 .. l + 1, 1 .. l + 1), Len(s) = l + 1
                 PROVE  Product([k \in 1 .. l + 1 |-> s[p[k]]]) = Product(s)
      OBVIOUS
    <2> HIDE DEF Same, S
    <2>1. /\ p \in [1 .. l + 1 -> 1 .. l + 1]
          /\ \A a, b \in 1 .. l + 1 : a # b => p[a] # p[b]
      BY DEF Bijection, Injection, IsInjective
    <2>2. \A b \in 1 .. l + 1 : \E a \in 1 .. l + 1 : p[a] = b
      BY DEF Bijection, Surjection
    <2>3. l + 1 \in 1 .. l + 1
      OBVIOUS
    <2>4. PICK j \in 1 .. l + 1 : p[j] = l + 1
      BY <2>2, <2>3
    <2> DEFINE t == [k \in 1 .. l + 1 |-> s[p[k]]]
               q == [k \in 1 .. l |-> IF k < j THEN p[k] ELSE p[k + 1]]
               f == [k \in 1 .. l |-> s[k]]
               r == [k \in 1 .. l |-> f[q[k]]]
    <2> HIDE DEF t, q, f, r
    <2>5. /\ q \in [1 .. l -> 1 .. l]
          /\ \A k \in 1 .. l : q[k] = IF k < j THEN p[k] ELSE p[k + 1]
      <3>1. ASSUME NEW k \in 1 .. l PROVE (IF k < j THEN p[k] ELSE p[k + 1]) \in 1 .. l
        <4>1. k \in 1 .. l + 1 /\ k + 1 \in 1 .. l + 1
          OBVIOUS
        <4>0. k < j => k # j
          OBVIOUS
        <4>2. k < j => p[k] \in 1 .. l + 1 /\ p[k] # l + 1
          BY <2>1, <2>4, <4>1
        <4>3. ~(k < j) => p[k + 1] \in 1 .. l + 1 /\ p[k + 1] # l + 1
          BY <2>1, <2>4, <4>1
        <4> QED BY <4>2, <4>3
      <3> QED BY <3>1 DEF q
    <2>6. q \in Bijection(1 .. l, 1 .. l)
      <3>1. ASSUME NEW a \in 1 .. l, NEW b \in 1 .. l, a # b PROVE q[a] # q[b]
        <4>1. a \in 1 .. l + 1 /\ a + 1 \in 1 .. l + 1 /\ b \in 1 .. l + 1 /\ b + 1 \in 1 .. l + 1
          OBVIOUS
        <4>3. /\ a # b /\ a + 1 # b + 1
              /\ a < j /\ ~(b < j) => a # b + 1
              /\ b < j /\ ~(a < j) => b # a + 1
          BY <3>1
        <4>2. /\ p[a] # p[b] /\ p[a + 1] # p[b + 1]
              /\ a < j /\ ~(b < j) => p[a] # p[b + 1]
              /\ b < j /\ ~(a < j) => p[b] # p[a + 1]
          BY <2>1, <4>1, <4>3
        <4> QED BY <2>5, <4>2
      <3>2. ASSUME NEW b \in 1 .. l PROVE \E a \in 1 .. l : q[a] = b
        <4>0. b \in 1 .. l + 1
          OBVIOUS
        <4>1. PICK a \in 1 .. l + 1 : p[a] = b
          BY <2>2, <4>0
        <4>2. a # j
          BY <2>4, <4>1
        <4>3. CASE a < j
          <5>1. a \in 1 .. l
            BY <4>3
          <5> QED BY <2>5, <4>1, <4>3, <5>1
        <4>4. CASE ~(a < j)
          <5>1. a - 1 \in 1 .. l /\ ~(a - 1 < j) /\ (a - 1) + 1 = a
            BY <4>2, <4>4
          <5>2. q[a - 1] = b
            BY <2>5, <4>1, <5>1
          <5> QED BY <5>1, <5>2
        <4> QED BY <4>3, <4>4
      <3> QED BY <2>5, <3>1, <3>2 DEF Bijection, Injection, Surjection, IsInjective
    <2>7. /\ f \in Seq(Pos) /\ Len(f) = l /\ \A k \in 1 .. l : f[k] = s[k]
      <3>1. \A k \in 1 .. l : s[k] \in Pos
        BY LenProperties
      <3> QED BY <3>1 DEF f
    <2>8. Product(r) = Product(f) /\ r \in Seq(Pos) /\ Len(r) = l
      <3> QED BY <1>1, <2>5, <2>6, <2>7, <2>0 DEF r, Same
    <2>9. t \in Seq(Pos) /\ Len(t) = l + 1 /\ \A k \in 1 .. l + 1 : t[k] = s[p[k]]
      BY <1>1, <2>1 DEF t
    <2>10. \A k \in 1 .. l : r[k] = IF k < j THEN t[k] ELSE t[k + 1]
      <3> SUFFICES ASSUME NEW k \in 1 .. l PROVE r[k] = IF k < j THEN t[k] ELSE t[k + 1]
        OBVIOUS
      <3>1. r[k] = f[q[k]] /\ q[k] \in 1 .. l
        BY <2>5 DEF r
      <3>2. r[k] = s[q[k]]
        BY <2>7, <3>1
      <3>3. k \in 1 .. l + 1 /\ k + 1 \in 1 .. l + 1
        OBVIOUS
      <3> QED BY <2>5, <2>9, <3>2, <3>3
    <2>11. \A k \in 1 .. l : f[k] = IF k < l + 1 THEN s[k] ELSE s[k + 1]
      BY <2>7
    <2>12. Product(t) = t[j] * Product(r)
      <3>1. j \in 1 .. Len(t) /\ Len(r) = Len(t) - 1
            /\ \A k \in 1 .. Len(r) : r[k] = IF k < j THEN t[k] ELSE t[k + 1]
        BY <2>8, <2>9, <2>10
      <3> QED BY <2>8, <2>9, <3>1, ProductWithout
    <2>13. Product(s) = s[l + 1] * Product(f)
      BY <2>3, <2>7, <2>11, ProductWithout
    <2> QED BY <2>4, <2>8, <2>9, <2>12, <2>13 DEF t
  <1> HIDE DEF S
  <1>4. \A l \in Nat : l \in S
    BY <1>2, <1>3, SetInduction
  <1> QED BY <1>4 DEF S

-----------------------------------------------------------------------------
(* Divisibility. *)

(* A product is divided by its factors without remainder. *)
LEMMA ModIs ==
  ASSUME NEW m \in Nat, NEW d \in Pos, NEW q \in Nat, m = d * q
  PROVE  m % d = 0 /\ m \div d = q
  <1> DEFINE k == m \div d
             r == m % d
  <1>1. k \in Nat /\ r \in Nat /\ r < d /\ m = d * k + r
    BY DivMod DEF Pos
  <1> HIDE DEF k, r
  <1>2. CASE q = k
    BY <1>1, <1>2 DEF k, r, Pos
  <1>3. CASE q >= k + 1
    <2>1. d * q >= d * (k + 1)
      BY <1>1, <1>3, TimesMonotone DEF Pos
    <2>2. d * (k + 1) = d * k + d
      BY <1>1 DEF Pos
    <2> QED BY <1>1, <2>1, <2>2 DEF Pos
  <1>4. CASE q + 1 <= k
    <2>1. d * (q + 1) <= d * k
      BY <1>1, <1>4, TimesMonotone DEF Pos
    <2>2. d * (q + 1) = d * q + d
      BY DEF Pos
    <2> QED BY <1>1, <2>1, <2>2 DEF Pos
  <1> QED BY <1>1, <1>2, <1>3, <1>4

(* What divides a divisor divides. *)
LEMMA DividesOn ==
  ASSUME NEW a \in Nat, NEW b \in Pos, NEW c \in Pos, a % b = 0, b % c = 0
  PROVE  a % c = 0
  <1> DEFINE p == a \div b
             q == b \div c
  <1>1. p \in Nat /\ q \in Nat /\ a = b * p /\ b = c * q
    BY DivMod DEF Pos
  <1> HIDE DEF p, q
  <1>2. b * p = c * (q * p) /\ q * p \in Nat
    BY <1>1, TimesAssociative DEF Pos
  <1> QED BY <1>1, <1>2, ModIs

(* Nothing divides a quotient that does not divide the whole. *)
LEMMA QuotientDivides ==
  ASSUME NEW m \in Pos, NEW f \in Pos, m % f = 0
  PROVE  /\ m \div f \in Pos /\ f * (m \div f) = m
         /\ \A d \in Pos : (m \div f) % d = 0 => m % d = 0
  <1> DEFINE q == m \div f
  <1>1. q \in Pos /\ m = f * q
    BY DivMod, QuotientOfFactor DEF Pos
  <1> HIDE DEF q
  <1>2. m = q * f
    BY <1>1 DEF Pos
  <1>3. m % q = 0
    BY <1>1, <1>2, ModIs DEF Pos
  <1>4. ASSUME NEW d \in Pos, q % d = 0 PROVE m % d = 0
    BY <1>1, <1>3, <1>4, DividesOn DEF Pos
  <1> QED BY <1>1, <1>4 DEF q

(* The least divisor above one is prime. *)
LEMMA LeastDivisorPrime ==
  ASSUME NEW m \in Pos, NEW f \in Pos, f > 1, m % f = 0, \A d \in 2 .. f - 1 : m % d # 0
  PROVE  Prime(f)
  <1>1. ASSUME NEW d \in 2 .. f - 1, f % d = 0 PROVE FALSE
    <2>1. d \in Pos
      BY DEF Pos
    <2>2. m % d = 0
      BY <1>1, <2>1, DividesOn DEF Pos
    <2> QED BY <2>2
  <1> QED BY <1>1 DEF Prime

(* So is what has no divisor up to its root. *)
LEMMA RestPrime ==
  ASSUME NEW m \in Pos, m > 1, NEW k \in Pos, k * k > m, \A d \in 2 .. k - 1 : m % d # 0
  PROVE  Prime(m)
  <1>1. ASSUME NEW d \in 2 .. m - 1, m % d = 0 PROVE FALSE
    <2> DEFINE q == m \div d
    <2>1. d \in Pos
      BY DEF Pos
    <2>2. q \in Pos /\ d * q = m
      BY <1>1, <2>1, QuotientDivides
    <2> HIDE DEF q
    <2>3. m = q * d /\ d \in Nat /\ q \in Nat /\ m \in Nat
      BY <2>1, <2>2 DEF Pos
    <2>4. m % q = 0
      BY <2>2, <2>3, ModIs
    <2>5. q >= 2
      <3>1. q = 1 => m = d
        BY <2>3
      <3> QED BY <2>2, <3>1 DEF Pos
    <2>6. d >= k
      BY <1>1 DEF Pos
    <2>7. q >= k
      BY <2>4, <2>5, <2>2 DEF Pos
    <2>8. k * k <= d * k /\ k * d <= q * d /\ d * k = k * d
      BY <2>3, <2>6, <2>7, TimesMonotone DEF Pos
    <2>9. k * k \in Nat /\ d * k \in Nat
      BY <2>3 DEF Pos
    <2> QED BY <2>3, <2>8, <2>9
  <1> QED BY <1>1 DEF Prime, Pos

(* Even trial divisors can be left out when no even number divides. *)
LEMMA OddDivisors ==
  ASSUME NEW m \in Pos, NEW k \in Pos, k % 2 = 1, k >= 3, m % k # 0,
         \A d \in 2 .. k - 1 : m % d # 0
  PROVE  (k + 2) % 2 = 1 /\ \A d \in 2 .. k + 1 : m % d # 0
  <1>1. (k + 1) % 2 = 0 /\ (k + 2) % 2 = 1
    BY DEF Pos
  <1>2. k + 1 \in Pos /\ 2 \in Pos /\ m % 2 # 0
    BY DEF Pos
  <1>3. m % (k + 1) # 0
    BY <1>1, <1>2, DividesOn DEF Pos
  <1>4. ASSUME NEW d \in 2 .. k + 1 PROVE d \in 2 .. k - 1 \/ d = k \/ d = k + 1
    BY DEF Pos
  <1> QED BY <1>1, <1>3, <1>4

-----------------------------------------------------------------------------
(* prime_factors() gives what it should, and balance() deals all of it out. *)

Factoring == pc \in {"halve", "trial", "divide"}

FactorInv ==
  /\ numproc \in Processes /\ \A a \in Axes : dims_ij[a] >= 1
  /\ pc # "mpi_error"
  /\ pc = "halve" => i = 3
  /\ pc \in {"trial", "divide"} => i % 2 = 1 /\ i >= 3 /\ \A d \in 2 .. i - 1 : n % d # 0
  /\ ndim = 2 /\ Factoring => dims[0] = 1 /\ dims[1] = 1 /\ n * Product(factors) = numproc
  /\ ndim = 2 /\ (Factoring \/ pc = "split") =>
       numproc = 1 \/ \A f \in 1 .. Len(factors) : Prime(factors[f])
  /\ ndim = 2 /\ (Factoring \/ pc = "split") => free = {0, 1}
  /\ ndim = 2 /\ pc = "split" => (dims[0] * dims[1]) * Product(factors) = numproc
  /\ ndim = 3 => dims[0] * dims[1] = numproc

LEMMA InitFactor == Init => FactorInv
  BY AxesAre DEF Init, FactorInv, Factoring

LEMMA BalanceFactor ==
  ASSUME Inv, FactorInv, Balance PROVE FactorInv'
  <1>1. /\ pc = "balance" /\ UNCHANGED <<numproc, ndim, dims_ij>>
        /\ pc' = IF Left < 1 THEN "abort" ELSE "halve"
        /\ free' = {a \in Used : dims[a] < 0}
        /\ dims' = [a \in Axes |-> IF a \in free' THEN 1 ELSE dims[a]]
        /\ n' = Left /\ i' = 3
        /\ factors' = IF Left = 1 THEN << 1 >> ELSE << >>
    BY DEF Balance, given
  <1>2. ndim \in {2, 3} /\ numproc \in Pos /\ 0 \in Axes /\ 1 \in Axes /\ dims \in [Axes -> Int]
    BY AxesAre DEF Inv, Types, Pos
  <1>3. Left = (IF ndim = 2 THEN numproc ELSE 1) /\ pc' = "halve"
    <2>1. Left = IF ndim = 2 THEN numproc ELSE 1
      BY <1>1, LeftIs
    <2> QED BY <1>1, <1>2, <2>1 DEF Pos
  <1>4. CASE ndim = 2
    <2>0. Used = {0, 1}
      BY <1>4 DEF Used
    <2>1. dims[0] = -1 /\ dims[1] = -1 /\ 0 \in Used /\ 1 \in Used
      BY <1>1, <1>4 DEF Inv, ChoiceInv, Chosen, Used
    <2>2. dims'[0] = 1 /\ dims'[1] = 1 /\ free' = {0, 1}
      BY <1>1, <1>2, <2>0, <2>1
    <2>3. n' = numproc /\ factors' = IF numproc = 1 THEN << 1 >> ELSE << >>
      BY <1>1, <1>3, <1>4
    <2>4. << >> \in Seq(Pos) /\ Len(<< >>) = 0 /\ << 1 >> \in Seq(Pos)
      BY DEF Pos
    <2>5. Product(<< >>) = 1
      BY <2>4, ProductEmpty
    <2>6. << 1 >> = Append(<< >>, 1) /\ 1 \in Pos
      BY DEF Pos
    <2>7. Product(<< 1 >>) = 1
      <3>1. Product(Append(<< >>, 1)) = 1 * Product(<< >>)
        BY <2>4, <2>6, ProductAppend
      <3> QED BY <2>5, <2>6, <3>1
    <2>8. n' * Product(factors') = numproc
      BY <1>2, <2>3, <2>5, <2>7 DEF Pos
    <2>9. numproc = 1 \/ \A f \in 1 .. Len(factors') : Prime(factors'[f])
      BY <2>3
    <2>10. Product(factors)' = Product(factors')
      BY DEF Product
    <2> QED BY <1>1, <1>3, <1>4, <2>2, <2>8, <2>9, <2>10 DEF FactorInv, Factoring
  <1>5. CASE ndim = 3
    <2>1. dims[0] >= 1 /\ dims[1] >= 1 /\ dims[0] * dims[1] = numproc
      BY <1>1, <1>5 DEF Inv, ChoiceInv, Chosen
    <2>2. dims'[0] = dims[0] /\ dims'[1] = dims[1]
      BY <1>1, <1>2, <2>1
    <2> QED BY <1>1, <1>3, <1>5, <2>1, <2>2 DEF FactorInv, Factoring
  <1> QED BY <1>2, <1>4, <1>5

(* A prime that divides what is left goes over to the factors. *)
LEMMA FactorFound ==
  ASSUME Inv, FactorInv, Factoring, NEW f \in Pos, n % f = 0, ndim = 2 => Prime(f)
  PROVE  /\ n \div f \in Pos /\ \A d \in Pos : (n \div f) % d = 0 => n % d = 0
         /\ ndim = 2 => /\ (n \div f) * Product(Append(factors, f)) = numproc
                        /\ numproc = 1 \/ \A k \in 1 .. Len(Append(factors, f)) : Prime(Append(factors, f)[k])
  <1>1. n \in Pos /\ factors \in Seq(Pos) /\ Product(factors) \in Pos
    BY ProductType DEF Inv, Types, Pos
  <1> DEFINE q == n \div f
  <1>2. q \in Pos /\ f * q = n /\ \A d \in Pos : q % d = 0 => n % d = 0
    BY <1>1, QuotientDivides
  <1>3. ASSUME ndim = 2 PROVE q * Product(Append(factors, f)) = numproc
    <2>1. n * Product(factors) = numproc
      BY <1>3 DEF FactorInv
    <2>2. Product(Append(factors, f)) = f * Product(factors)
      BY <1>1, ProductAppend
    <2> HIDE DEF q
    <2>3. q \in Nat /\ f \in Nat /\ Product(factors) \in Nat
      BY <1>1, <1>2 DEF Pos
    <2>4. q * (f * Product(factors)) = (q * f) * Product(factors) /\ q * f = f * q
      BY <2>3, TimesAssociative
    <2> QED BY <1>2, <2>1, <2>2, <2>4
  <1>4. ASSUME ndim = 2 PROVE numproc = 1 \/ \A k \in 1 .. Len(Append(factors, f)) : Prime(Append(factors, f)[k])
    <2>1. numproc = 1 \/ \A k \in 1 .. Len(factors) : Prime(factors[k])
      BY <1>4 DEF FactorInv
    <2>2. /\ Len(Append(factors, f)) = Len(factors) + 1 /\ Len(factors) \in Nat
          /\ \A k \in 1 .. Len(factors) : Append(factors, f)[k] = factors[k]
          /\ Append(factors, f)[Len(factors) + 1] = f
      BY <1>1, AppendProperties, LenProperties
    <2> QED BY <1>4, <2>1, <2>2
  <1> QED BY <1>2, <1>3, <1>4

LEMMA HalveFactor ==
  ASSUME Inv, FactorInv, Halve PROVE FactorInv'
  <1>1. /\ pc = "halve" /\ pc' = "halve" /\ n % 2 = 0 /\ n' = n \div 2 /\ factors' = Append(factors, 2)
        /\ UNCHANGED <<numproc, ndim, dims, i, dims_ij, free>>
    BY DEF Halve, given
  <1>2. 2 \in Pos /\ Prime(2)
    BY DEF Pos, Prime
  <1>3. ndim = 2 => /\ n' * Product(factors') = numproc
                    /\ numproc = 1 \/ \A k \in 1 .. Len(factors') : Prime(factors'[k])
    BY <1>1, <1>2, FactorFound DEF Factoring
  <1>4. Product(factors)' = Product(factors')
    BY DEF Product
  <1> QED BY <1>1, <1>3, <1>4 DEF FactorInv, Factoring

LEMMA DivideFactor ==
  ASSUME Inv, FactorInv, Divide PROVE FactorInv'
  <1>1. /\ pc = "divide" /\ pc' = "divide" /\ n % i = 0 /\ n' = n \div i /\ factors' = Append(factors, i)
        /\ UNCHANGED <<numproc, ndim, dims, i, dims_ij, free>>
    BY DEF Divide, given
  <1>2. n \in Pos /\ i \in Pos /\ i >= 3 /\ \A d \in 2 .. i - 1 : n % d # 0
    BY <1>1 DEF Inv, Types, FactorInv, Pos
  <1>3. Prime(i)
    <2>1. i > 1
      BY <1>2 DEF Pos
    <2> QED BY <1>1, <1>2, <2>1, LeastDivisorPrime
  <1>4. /\ \A d \in Pos : n' % d = 0 => n % d = 0
        /\ ndim = 2 => /\ n' * Product(factors') = numproc
                       /\ numproc = 1 \/ \A k \in 1 .. Len(factors') : Prime(factors'[k])
    BY <1>1, <1>2, <1>3, FactorFound DEF Factoring
  <1>5. \A d \in 2 .. i - 1 : n' % d # 0
    <2>1. \A d \in 2 .. i - 1 : d \in Pos
      BY <1>2 DEF Pos
    <2> QED BY <1>2, <1>4, <2>1
  <1>6. Product(factors)' = Product(factors')
    BY DEF Product
  <1> QED BY <1>1, <1>4, <1>5, <1>6 DEF FactorInv, Factoring

LEMMA TrialFactor ==
  ASSUME Inv, FactorInv, Halved \/ Trial \/ NextDivisor PROVE FactorInv'
  <1>1. /\ UNCHANGED <<numproc, ndim, dims, dims_ij, free, n, factors>>
        /\ pc \in {"halve", "trial", "divide"} /\ pc' \in {"trial", "divide"}
    BY DEF Halved, Trial, NextDivisor, Goto, given, factoring
  <1>2. n \in Pos /\ i \in Pos
    BY DEF Inv, Types, Pos
  <1>3. i' % 2 = 1 /\ i' >= 3 /\ \A d \in 2 .. i' - 1 : n % d # 0
    <2>1. CASE Halved
      <3>1. i' = 3 /\ n % 2 # 0
        BY <2>1 DEF Halved, Goto, factoring, FactorInv
      <3>2. \A d \in 2 .. 2 : d = 2
        OBVIOUS
      <3> QED BY <3>1, <3>2
    <2>2. CASE Trial
      BY <2>2 DEF Trial, Goto, factoring, FactorInv
    <2>3. CASE NextDivisor
      <3>1. i' = i + 2 /\ n % i # 0 /\ i % 2 = 1 /\ i >= 3 /\ \A d \in 2 .. i - 1 : n % d # 0
        BY <2>3 DEF NextDivisor, Goto, FactorInv
      <3>2. (i + 2) % 2 = 1 /\ \A d \in 2 .. i + 1 : n % d # 0
        BY <1>2, <3>1, OddDivisors
      <3>3. (i + 2) - 1 = i + 1 /\ i + 2 >= 3
        BY <1>2, <3>1 DEF Pos
      <3> QED BY <3>1, <3>2, <3>3
    <2> QED BY <2>1, <2>2, <2>3
  <1>4. Product(factors)' = Product(factors)
    BY <1>1 DEF Product
  <1> QED BY <1>1, <1>3, <1>4 DEF FactorInv, Factoring

LEMMA FactoredFactor ==
  ASSUME Inv, FactorInv, Factored PROVE FactorInv'
  <1> DEFINE all == IF n > 2 THEN Append(factors, n) ELSE factors
  <1>1. /\ pc = "trial" /\ pc' = "split" /\ i * i > n
        /\ UNCHANGED <<numproc, ndim, dims, dims_ij, free, n, i>>
    BY DEF Factored, Goto, given
  <1>2. PICK p \in Bijection(DOMAIN all, DOMAIN all) : factors' = [k \in DOMAIN all |-> all[p[k]]]
    BY DEF Factored
  <1>3. /\ n \in Pos /\ i \in Pos /\ i >= 3 /\ factors \in Seq(Pos) /\ Product(factors) \in Pos
        /\ \A d \in 2 .. i - 1 : n % d # 0
    BY <1>1, ProductType DEF Inv, Types, FactorInv, Pos
  <1>4. all \in Seq(Pos)
    BY <1>3, AppendProperties
  <1>5. n > 1 => Prime(n)
    BY <1>1, <1>3, RestPrime
  <1>6. n > 2 \/ n = 1
    <2>1. n % 2 # 0
      <3>1. 2 \in 2 .. i - 1
        BY <1>3 DEF Pos
      <3> QED BY <1>3, <3>1
    <2>2. 2 % 2 = 0
      OBVIOUS
    <2>3. n # 2
      BY <2>1, <2>2
    <2> QED BY <1>3, <2>3 DEF Pos
  <1>7. ASSUME ndim = 2 PROVE Product(all) = numproc
    <2>1. n * Product(factors) = numproc
      BY <1>1, <1>7 DEF FactorInv, Factoring
    <2>2. CASE n > 2
      BY <1>3, <2>1, <2>2, ProductAppend
    <2>3. CASE n = 1
      BY <1>3, <2>1, <2>3 DEF Pos
    <2> QED BY <1>6, <2>2, <2>3
  <1>8. ASSUME ndim = 2 PROVE numproc = 1 \/ \A k \in 1 .. Len(all) : Prime(all[k])
    <2>1. numproc = 1 \/ \A k \in 1 .. Len(factors) : Prime(factors[k])
      BY <1>1, <1>8 DEF FactorInv, Factoring
    <2>2. CASE n > 2
      <3>1. /\ Len(Append(factors, n)) = Len(factors) + 1 /\ Len(factors) \in Nat
            /\ \A k \in 1 .. Len(factors) : Append(factors, n)[k] = factors[k]
            /\ Append(factors, n)[Len(factors) + 1] = n
        BY <1>3, AppendProperties, LenProperties
      <3>2. Prime(n)
        BY <1>3, <1>5, <2>2 DEF Pos
      <3> QED BY <2>1, <2>2, <3>1, <3>2
    <2>3. CASE n = 1
      BY <2>1, <2>3
    <2> QED BY <1>6, <2>2, <2>3
  <1> HIDE DEF all
  <1>9. /\ Len(all) \in Nat /\ DOMAIN all = 1 .. Len(all)
        /\ p \in [1 .. Len(all) -> 1 .. Len(all)] /\ p \in Bijection(1 .. Len(all), 1 .. Len(all))
    <2>1. Len(all) \in Nat /\ DOMAIN all = 1 .. Len(all)
      BY <1>4, LenProperties
    <2> QED BY <1>2, <2>1 DEF Bijection, Injection
  <1>10. Product(factors') = Product(all)
    BY <1>2, <1>4, <1>9, ProductPermuted
  <1>11. Len(factors') = Len(all) /\ \A k \in 1 .. Len(all) : factors'[k] = all[p[k]] /\ p[k] \in 1 .. Len(all)
    BY <1>2, <1>9
  <1>12. ndim = 2 => numproc = 1 \/ \A k \in 1 .. Len(factors') : Prime(factors'[k])
    BY <1>8, <1>11
  <1>13. ndim = 2 => free = {0, 1} /\ dims[0] = 1 /\ dims[1] = 1
    BY <1>1 DEF FactorInv, Factoring
  <1>14. ndim = 2 => (dims[0] * dims[1]) * Product(factors') = numproc
    <2>1. numproc \in Nat
      BY DEF Inv, Types
    <2> QED BY <1>7, <1>10, <1>13, <2>1
  <1>15. Product(factors)' = Product(factors')
    BY DEF Product
  <1> QED BY <1>1, <1>12, <1>13, <1>14, <1>15 DEF FactorInv, Factoring

LEMMA SplitFactor ==
  ASSUME Inv, FactorInv, Split PROVE FactorInv'
  <1> DEFINE a == Longest
             f == Head(factors)
             rest == Tail(factors)
  <1>1. a \in {0, 1} /\ a \in Axes /\ ndim = 2 /\ pc = "split" /\ factors \in Seq(Pos) /\ factors # << >>
    BY LongestIsFree, AxesAre DEF Inv, Types, ChoiceInv, Split, Pos
  <1>2. /\ f \in Pos /\ rest \in Seq(Pos) /\ Len(rest) = Len(factors) - 1
        /\ \A k \in 1 .. Len(rest) : rest[k] = factors[k + 1]
        /\ Len(factors) \in Nat
    BY <1>1, HeadTailProperties, LenProperties
  <1>3. Product(factors) = f * Product(rest) /\ Product(rest) \in Pos
    BY <1>1, <1>2, ProductTail, ProductType
  <1>4. /\ factors' = rest /\ UNCHANGED <<numproc, ndim, dims_ij, free, n, i>>
        /\ copy' = [copy EXCEPT ![a] = copy[a] \div f]
        /\ IF copy'[a] < 1 THEN pc' = "abort" /\ dims' = dims
           ELSE dims' = [dims EXCEPT ![a] = dims[a] * f] /\ pc' = pc
    BY DEF Split, given
  <1> HIDE DEF a, f, rest
  <1>5. numproc = 1 \/ \A k \in 1 .. Len(rest) : Prime(rest[k])
    <2>1. numproc = 1 \/ \A k \in 1 .. Len(factors) : Prime(factors[k])
      BY <1>1 DEF FactorInv
    <2>2. \A k \in 1 .. Len(rest) : k + 1 \in 1 .. Len(factors)
      BY <1>2
    <2> QED BY <1>2, <2>1, <2>2
  <1>6. CASE copy'[a] < 1
    BY <1>1, <1>4, <1>6 DEF FactorInv, Factoring
  <1>7. CASE ~(copy'[a] < 1)
    <2>1. dims' = [dims EXCEPT ![a] = dims[a] * f] /\ pc' = "split" /\ dims \in [Axes -> Int]
      BY <1>1, <1>4, <1>7 DEF Inv, Types
    <2>2. dims[0] \in Pos /\ dims[1] \in Pos /\ 0 \in Axes /\ 1 \in Axes
      BY <1>1, <2>1, AxesAre DEF Inv, ChoiceInv, Chosen, Pos
    <2>3. dims'[0] * dims'[1] = (dims[0] * dims[1]) * f
      <3>1. CASE a = 0
        <4>1. dims'[0] = dims[0] * f /\ dims'[1] = dims[1]
          BY <2>1, <2>2, <3>1
        <4>2. (dims[0] * f) * dims[1] = dims[0] * (f * dims[1]) /\ f * dims[1] = dims[1] * f
              /\ (dims[0] * dims[1]) * f = dims[0] * (dims[1] * f)
          BY <1>2, <2>2, TimesAssociative DEF Pos
        <4> QED BY <4>1, <4>2
      <3>2. CASE a = 1
        <4>1. dims'[0] = dims[0] /\ dims'[1] = dims[1] * f
          BY <2>1, <2>2, <3>2
        <4>2. (dims[0] * dims[1]) * f = dims[0] * (dims[1] * f)
          BY <1>2, <2>2, TimesAssociative DEF Pos
        <4> QED BY <4>1, <4>2
      <3> QED BY <1>1, <3>1, <3>2
    <2>4. (dims'[0] * dims'[1]) * Product(rest) = numproc
      <3>1. (dims[0] * dims[1]) * Product(factors) = numproc
        BY <1>1 DEF FactorInv
      <3>2. dims[0] * dims[1] \in Nat
        BY <2>2 DEF Pos
      <3>3. ((dims[0] * dims[1]) * f) * Product(rest) = (dims[0] * dims[1]) * (f * Product(rest))
        BY <1>2, <1>3, <3>2, TimesAssociative DEF Pos
      <3> QED BY <1>3, <2>3, <3>1, <3>3
    <2>5. Product(factors)' = Product(rest)
      BY <1>4 DEF Product
    <2> QED BY <1>1, <1>4, <1>5, <2>1, <2>4, <2>5 DEF FactorInv, Factoring
  <1> QED BY <1>6, <1>7

LEMMA CartCreateFactor ==
  ASSUME Inv, FactorInv, CartCreate PROVE FactorInv'
  <1>1. /\ pc = "split" /\ (factors = << >> \/ free = {}) /\ ndim' = 3 /\ dims' = dims
        /\ pc' = IF Together # numproc THEN "mpi_error" ELSE IF ndim = 2 THEN "balance" ELSE "done"
        /\ dims_ij' = IF ndim = 2 THEN dims ELSE dims_ij
        /\ UNCHANGED <<numproc, n, i>>
    BY DEF CartCreate, given
  <1>2. /\ dims[0] >= 1 /\ dims[1] >= 1 /\ dims[2] = 1 /\ ndim \in {2, 3} /\ dims \in [Axes -> Int]
        /\ factors \in Seq(Pos)
    BY <1>1 DEF Inv, Types, ChoiceInv, Chosen, Pos
  <1>3. dims[0] * dims[1] = numproc
    <2>1. CASE ndim = 2
      <3>1. factors = << >> /\ (dims[0] * dims[1]) * Product(factors) = numproc
        BY <1>1, <2>1 DEF FactorInv
      <3>2. Len(factors) = 0
        BY <3>1
      <3>3. Product(factors) = 1
        BY <1>2, <3>2, ProductEmpty
      <3>4. dims[0] * dims[1] \in Int
        BY <1>2, AxesAre
      <3> QED BY <3>1, <3>3, <3>4
    <2>2. CASE ndim = 3
      BY <2>2 DEF FactorInv
    <2> QED BY <1>2, <2>1, <2>2
  <1>4. Together = numproc
    BY <1>2, <1>3, TogetherIs DEF Inv
  <1>5. \A b \in Axes : dims_ij'[b] >= 1
    BY <1>1, <1>2, AxesAre DEF FactorInv
  <1>6. pc' \in {"balance", "done"}
    BY <1>1, <1>4
  <1> QED BY <1>1, <1>3, <1>5, <1>6 DEF FactorInv, Factoring

LEMMA NextFactor == Inv /\ FactorInv /\ [Next]_vars => FactorInv'
  <1> SUFFICES ASSUME Inv, FactorInv, [Next]_vars PROVE FactorInv'
    OBVIOUS
  <1>1. CASE Balance
    BY <1>1, BalanceFactor
  <1>2. CASE Halve
    BY <1>2, HalveFactor
  <1>3. CASE Divide
    BY <1>3, DivideFactor
  <1>4. CASE Halved \/ Trial \/ NextDivisor
    BY <1>4, TrialFactor
  <1>5. CASE Factored
    BY <1>5, FactoredFactor
  <1>6. CASE Split
    BY <1>6, SplitFactor
  <1>7. CASE CartCreate
    BY <1>7, CartCreateFactor
  <1>8. CASE UNCHANGED vars
    BY <1>8 DEF vars, given, factoring, FactorInv, Factoring, Product
  <1> QED BY <1>1, <1>2, <1>3, <1>4, <1>5, <1>6, <1>7, <1>8 DEF Next

LEMMA FactorInvariance == Spec => []FactorInv
  BY InitFactor, NextFactor, Invariance, PTL DEF Spec

LEMMA FactorInvCorrect == Inv /\ FactorInv => FactorsCorrect
  <1> SUFFICES ASSUME Inv, FactorInv, pc = "split", ndim = 2, dims[0] = 1, dims[1] = 1
               PROVE  /\ Product(factors) = numproc
                      /\ \A f \in 1 .. Len(factors) : Prime(factors[f]) \/ numproc = 1
    BY DEF FactorsCorrect
  <1>1. (1 * 1) * Product(factors) = numproc
    BY DEF FactorInv
  <1>2. Product(factors) \in Nat
    BY ProductType DEF Inv, Types, Pos
  <1>3. Product(factors) = numproc
    BY <1>1, <1>2
  <1> QED BY <1>3 DEF FactorInv

LEMMA FactorInvTypes == Inv /\ FactorInv => TypeOK
  <1> SUFFICES ASSUME Inv, FactorInv PROVE TypeOK
    OBVIOUS
  <1>1. \A a \in Axes : dims[a] \in {-1} \cup (Nat \ {0})
    <2>1. dims[0] \in Int /\ dims[1] \in Int /\ dims[2] = 1
      BY AxesAre DEF Inv, Types, ChoiceInv
    <2>2. (dims[0] = -1 /\ dims[1] = -1) \/ (dims[0] >= 1 /\ dims[1] >= 1)
      BY DEF Inv, ChoiceInv
    <2> QED BY <2>1, <2>2, AxesAre
  <1>2. \A a \in Axes : dims_ij[a] \in Nat \ {0}
    BY DEF Inv, Types, FactorInv
  <1>3. free \subseteq Used
    <2>1. ndim - 1 \in {1, 2}
      BY DEF Inv, Types
    <2> QED BY <2>1 DEF Inv, Types, Used
  <1>4. dims \in [Axes -> {-1} \cup (Nat \ {0})] /\ dims_ij \in [Axes -> Nat \ {0}]
    BY <1>1, <1>2 DEF Inv, Types
  <1>5. /\ pc \in {"balance", "halve", "trial", "divide", "split", "done", "abort"}
        /\ numproc \in Processes
    BY DEF Inv, Types, FactorInv
  <1>6. ndim \in 2 .. 3
    BY DEF Inv, Types
  <1> QED BY <1>3, <1>4, <1>5, <1>6 DEF Inv, Types, TypeOK

(* Every variable keeps its type, and the dims are always those MPI wants. *)
THEOREM TypeCorrect == Spec => []TypeOK
  BY Invariance, FactorInvariance, FactorInvTypes, PTL

(* prime_factors() returns primes whose product is the number it was given. *)
THEOREM FactorsAreCorrect == Spec => []FactorsCorrect
  BY Invariance, FactorInvariance, FactorInvCorrect, PTL

-----------------------------------------------------------------------------
(* MPG_Cart_decomp() gets to an end.                                        *)

(* s can be sorted with the largest first. *)
Sortable(s) ==
  \E p \in Bijection(DOMAIN s, DOMAIN s) : \A k \in 1 .. Len(s) - 1 : s[p[k]] >= s[p[k + 1]]

(* What prime_factors() has to sort when no more divisor is to be tried. *)
Found == IF n > 2 THEN Append(factors, n) ELSE factors

(* The guards of Next. *)
CanStep ==
  \/ pc \in {"balance", "halve", "divide", "split"}
  \/ pc = "trial" /\ (i * i <= n \/ Sortable(Found))

(* The steps that are left of a call, at most: to deal out the factors there *)
(* are, before that to try the divisors up to what is left, and before that  *)
(* all of it.                                                                *)
OfCall ==
  CASE pc = "balance" -> 5 * numproc + 6
    [] pc = "halve"   -> (numproc + 2) + 2 * n + 2 * (numproc + 3 - i) + 2
    [] pc = "trial"   -> (numproc + 2) + 2 * n + 2 * (numproc + 3 - i) + 1
    [] pc = "divide"  -> (numproc + 2) + 2 * n + 2 * (numproc + 3 - i)
    [] pc = "split"   -> Len(factors) + 1
    [] OTHER          -> 0

(* The same for both calls. *)
ToGo == IF Ended THEN 0 ELSE OfCall + (IF ndim = 2 THEN 5 * numproc + 7 ELSE 0)

Running == IF Ended THEN ToGo = 0 ELSE CanStep /\ ToGo \in 1 .. 10 * numproc + 13

(* A trial divisor is no larger than the number it may divide, and what goes *)
(* over to the factors leaves less for others.                               *)
PaceInv ==
  /\ i >= 3
  /\ pc = "halve" => i = 3
  /\ pc \in {"halve", "trial"} => i <= numproc + 2
  /\ pc = "divide" => i <= numproc
  /\ Factoring => Len(factors) + n <= numproc + 1
  /\ pc = "split" => Len(factors) <= numproc

(* p puts s in order as far as the places after m go. *)
SortedAfter(s, m, p) ==
  /\ p \in [1 .. Len(s) -> 1 .. Len(s)]
  /\ \A a, b \in 1 .. Len(s) : a # b => p[a] # p[b]
  /\ \A b \in 1 .. Len(s) : \E a \in 1 .. Len(s) : p[a] = b
  /\ \A a, b \in 1 .. Len(s) : a < b /\ b > m => s[p[a]] >= s[p[b]]

(* Every sequence can be sorted: exchange the least member of those in front *)
(* of the sorted end with the last of them.                                  *)
LEMMA AllSortable ==
  ASSUME NEW s \in Seq(Nat \ {0}) PROVE Sortable(s)
  <1> DEFINE L == Len(s)
             D == 1 .. L
             S == {k \in Nat : k <= L => \E p : SortedAfter(s, L - k, p)}
  <1>1. L \in Nat /\ DOMAIN s = D /\ \A a \in D : s[a] \in Nat
    BY LenProperties
  <1>2. 0 \in S
    <2> DEFINE p == [a \in D |-> a]
    <2>1. SortedAfter(s, L - 0, p)
      BY <1>1 DEF SortedAfter
    <2> QED BY <2>1
  <1>3. ASSUME NEW k \in Nat, k \in S PROVE k + 1 \in S
    <2> SUFFICES ASSUME k + 1 <= L PROVE \E q : SortedAfter(s, L - (k + 1), q)
      OBVIOUS
    <2> DEFINE m == L - k
    <2>0. PICK p : SortedAfter(s, m, p)
      BY <1>1, <1>3
    <2>1. /\ p \in [D -> D]
          /\ \A a, b \in D : a # b => p[a] # p[b]
          /\ \A b \in D : \E a \in D : p[a] = b
          /\ \A a, b \in D : a < b /\ b > m => s[p[a]] >= s[p[b]]
      BY <2>0 DEF SortedAfter
    <2>2. m \in D /\ m \in Nat /\ L - (k + 1) = m - 1
      BY <1>1
    <2> HIDE DEF S, L, m, D
    <2> DEFINE V == {s[p[a]] : a \in 1 .. m}
    <2>3. ASSUME NEW a \in 1 .. m PROVE a \in D /\ s[p[a]] \in Nat
      <3>1. a \in D
        BY <1>1, <2>2
      <3> QED BY <1>1, <2>1, <3>1
    <2>4. V \subseteq Nat /\ V # {}
      <3>1. m \in 1 .. m
        BY <1>1, <2>2
      <3> QED BY <2>3, <3>1
    <2>5. PICK v \in V : \A w \in V : v <= w
      <3> HIDE DEF V
      <3> QED BY <2>4, LeastNumber
    <2>6. PICK j \in 1 .. m : v = s[p[j]]
      OBVIOUS
    <2>7. \A a \in 1 .. m : s[p[a]] >= s[p[j]]
      <3> TAKE a \in 1 .. m
      <3>1. s[p[a]] \in V
        OBVIOUS
      <3> QED BY <2>3, <2>5, <2>6, <3>1
    <2> DEFINE turn == [a \in D |-> IF a = m THEN j ELSE IF a = j THEN m ELSE a]
               q    == [a \in D |-> p[turn[a]]]
    <2>8. /\ turn \in [D -> D]
          /\ \A a \in D : turn[a] = IF a = m THEN j ELSE IF a = j THEN m ELSE a
          /\ \A a \in D : turn[turn[a]] = a
      <3>1. j \in D
        BY <2>3
      <3> QED BY <2>2, <3>1
    <2>9. \A a \in D : q[a] = p[turn[a]]
      OBVIOUS
    <2> HIDE DEF turn, V
    <2>10. q \in [D -> D]
      BY <2>1, <2>8
    <2> HIDE DEF q
    <2>11. ASSUME NEW a \in D, NEW b \in D, a # b PROVE q[a] # q[b]
      <3>1. turn[a] \in D /\ turn[b] \in D /\ turn[a] # turn[b]
        BY <2>8, <2>11
      <3> QED BY <2>1, <2>9, <3>1
    <2>12. ASSUME NEW b \in D PROVE \E a \in D : q[a] = b
      <3>1. PICK a \in D : p[a] = b
        BY <2>1
      <3>2. turn[a] \in D /\ turn[turn[a]] = a
        BY <2>8
      <3> QED BY <2>9, <3>1, <3>2
    <2>13. ASSUME NEW a \in D, NEW b \in D, a < b, b > m - 1 PROVE s[q[a]] >= s[q[b]]
      <3>1. a \in Nat /\ b \in Nat /\ a >= 1 /\ j \in 1 .. m
        BY <1>1
      <3>2. turn[a] \in D /\ q[a] = p[turn[a]] /\ q[b] = p[turn[b]]
        BY <2>8, <2>9
      <3>3. CASE b = m
        <4>1. turn[b] = j
          BY <2>8, <3>3
        <4>2. turn[a] \in 1 .. m
          BY <2>2, <2>8, <2>13, <3>1, <3>3
        <4> QED BY <2>7, <3>2, <4>1, <4>2
      <3>4. CASE b # m
        <4>1. b > m /\ b # j
          BY <2>2, <2>13, <3>1, <3>4
        <4>2. turn[b] = b
          BY <2>8, <4>1
        <4>3. turn[a] < b
          BY <2>2, <2>8, <2>13, <3>1, <4>1
        <4> QED BY <2>1, <3>2, <4>1, <4>2, <4>3
      <3> QED BY <3>3, <3>4
    <2>14. SortedAfter(s, m - 1, q)
      <3>1. D = 1 .. Len(s)
        BY DEF D, L
      <3> QED BY <2>10, <2>11, <2>12, <2>13, <3>1 DEF SortedAfter
    <2> QED BY <2>2, <2>14
  <1> HIDE DEF S
  <1>4. L \in S
    BY <1>1, <1>2, <1>3, SetInduction
  <1>5. PICK p : SortedAfter(s, L - L, p)
    BY <1>1, <1>4 DEF S
  <1>6. p \in Bijection(DOMAIN s, DOMAIN s)
    BY <1>1, <1>5 DEF SortedAfter, Bijection, Injection, Surjection, IsInjective
  <1>7. ASSUME NEW k \in 1 .. Len(s) - 1 PROVE s[p[k]] >= s[p[k + 1]]
    <2>1. k \in D /\ k + 1 \in D /\ k < k + 1 /\ k + 1 > L - L
      BY <1>1
    <2> QED BY <1>5, <2>1 DEF SortedAfter
  <1> QED BY <1>6, <1>7 DEF Sortable

LEMMA InitPace == Init => PaceInv
  <1> SUFFICES ASSUME Init PROVE PaceInv
    OBVIOUS
  <1> QED BY DEF Init, PaceInv, Factoring

(* A quotient is smaller. *)
LEMMA QuotientSmaller ==
  ASSUME NEW m \in Nat \ {0}, NEW d \in Nat, d >= 2, m % d = 0
  PROVE  m \div d \in Nat /\ m \div d >= 1 /\ m \div d <= m - 1
  <1> DEFINE q == m \div d
  <1>1. q \in Nat \ {0} /\ d * q = m
    BY QuotientOfFactor, QuotientDivides DEF Pos
  <1> HIDE DEF q
  <1>2. 2 * q <= d * q
    <2>1. q * 2 <= q * d /\ q * 2 = 2 * q /\ q * d = d * q
      BY <1>1, TimesMonotone
    <2> QED BY <2>1
  <1> QED BY <1>1, <1>2 DEF q

(* A divisor that is tried is at most the number. *)
LEMMA RootAtMost ==
  ASSUME NEW m \in Nat, NEW d \in Nat \ {0}, d * d <= m PROVE d <= m
  <1>1. d * 1 <= d * d
    BY TimesMonotone
  <1> QED BY <1>1

LEMMA NextPace == Inv /\ PaceInv /\ [Next]_vars => PaceInv'
  <1> SUFFICES ASSUME Inv, PaceInv, [Next]_vars PROVE PaceInv'
    OBVIOUS
  <1>1. /\ n \in Nat \ {0} /\ i \in Nat \ {0} /\ numproc \in Nat \ {0} /\ ndim \in {2, 3}
        /\ factors \in Seq(Nat \ {0}) /\ Len(factors) \in Nat /\ i >= 3
    BY LenProperties DEF Inv, Types, PaceInv
  <1>2. CASE Balance
    <2>1. /\ pc = "balance" /\ numproc' = numproc /\ i' = 3 /\ n' = Left /\ pc' \in {"halve", "abort"}
          /\ factors' = IF Left = 1 THEN << 1 >> ELSE << >>
      BY <1>2 DEF Balance, given
    <2>2. n' \in Nat \ {0} /\ n' <= numproc
      BY <1>1, <2>1, LeftIs
    <2>3. Len(factors') + n' <= numproc + 1
      BY <1>1, <2>1, <2>2
    <2> QED BY <1>1, <2>1, <2>3 DEF PaceInv, Factoring
  <1>3. CASE Halve
    <2>1. /\ pc = "halve" /\ pc' = "halve" /\ UNCHANGED <<numproc, i>>
          /\ n % 2 = 0 /\ n' = n \div 2 /\ factors' = Append(factors, 2)
      BY <1>3 DEF Halve, given
    <2>2. n' \in Nat /\ n' <= n - 1
      BY <1>1, <2>1, QuotientSmaller
    <2>3. Len(factors') = Len(factors) + 1
      BY <1>1, <2>1
    <2> QED BY <1>1, <2>1, <2>2, <2>3 DEF PaceInv, Factoring
  <1>4. CASE Halved
    BY <1>1, <1>4 DEF Halved, Goto, given, factoring, PaceInv, Factoring
  <1>5. CASE Trial
    <2>1. /\ pc = "trial" /\ pc' = "divide" /\ UNCHANGED <<numproc, n, i, factors>> /\ i * i <= n
      BY <1>5 DEF Trial, Goto, given, factoring
    <2>2. i <= n
      BY <1>1, <2>1, RootAtMost
    <2>3. Len(factors) + n <= numproc + 1 /\ i <= numproc + 2
      BY <2>1 DEF PaceInv, Factoring
    <2>4. i <= numproc
      <3>1. CASE n = numproc + 1
        <4>1. i # n
          <5>1. i = n => 3 * i <= i
            <6>1. i * 3 <= i * i
              BY <1>1, TimesMonotone
            <6> QED BY <1>1, <2>1, <6>1
          <5> QED BY <1>1, <5>1
        <4> QED BY <1>1, <2>2, <3>1, <4>1
      <3> QED BY <1>1, <2>2, <2>3, <3>1
    <2> QED BY <1>1, <2>1, <2>3, <2>4 DEF PaceInv, Factoring
  <1>6. CASE Divide
    <2>1. /\ pc = "divide" /\ pc' = "divide" /\ UNCHANGED <<numproc, i>>
          /\ n % i = 0 /\ n' = n \div i /\ factors' = Append(factors, i)
      BY <1>6 DEF Divide, given
    <2>2. i \in Nat /\ i >= 2
      BY <1>1
    <2>3. n' \in Nat /\ n' <= n - 1
      BY <1>1, <2>1, <2>2, QuotientSmaller
    <2>4. Len(factors') = Len(factors) + 1
      BY <1>1, <2>1
    <2> QED BY <1>1, <2>1, <2>3, <2>4 DEF PaceInv, Factoring
  <1>7. CASE NextDivisor
    <2>1. pc = "divide" /\ pc' = "trial" /\ UNCHANGED <<numproc, n, factors>> /\ i' = i + 2
      BY <1>7 DEF NextDivisor, Goto, given
    <2> QED BY <1>1, <2>1 DEF PaceInv, Factoring
  <1>8. CASE Factored
    <2>1. /\ pc = "trial" /\ pc' = "split" /\ UNCHANGED <<numproc, i>>
          /\ \E p \in Bijection(DOMAIN Found, DOMAIN Found) : factors' = [k \in DOMAIN Found |-> Found[p[k]]]
      BY <1>8 DEF Factored, Goto, given, Found
    <2>2. Found \in Seq(Nat \ {0}) /\ Len(Found) <= numproc
      <3>1. Len(factors) + n <= numproc + 1
        BY <2>1 DEF PaceInv, Factoring
      <3>2. CASE n > 2
        BY <1>1, <3>1, <3>2 DEF Found
      <3>3. CASE ~(n > 2)
        BY <1>1, <3>1, <3>3 DEF Found
      <3> QED BY <3>2, <3>3
    <2>3. Len(factors') = Len(Found)
      <3>1. DOMAIN Found = 1 .. Len(Found) /\ Len(Found) \in Nat
        BY <2>2, LenProperties
      <3>2. factors' \in Seq(Nat \ {0}) /\ DOMAIN factors' = DOMAIN Found
        BY <2>1, <2>2, SortedFactors
      <3>3. DOMAIN factors' = 1 .. Len(factors') /\ Len(factors') \in Nat
        BY <3>2, LenProperties
      <3> QED BY <3>1, <3>2, <3>3
    <2> QED BY <1>1, <2>1, <2>2, <2>3 DEF PaceInv, Factoring
  <1>9. CASE Split
    <2>1. /\ pc = "split" /\ pc' \in {"split", "abort"} /\ UNCHANGED <<numproc, i>>
          /\ factors # << >> /\ factors' = Tail(factors)
      BY <1>9 DEF Split, given
    <2>2. Len(factors') \in Nat /\ Len(factors') <= Len(factors)
      BY <1>1, <2>1
    <2> QED BY <1>1, <2>1, <2>2 DEF PaceInv, Factoring
  <1>10. CASE CartCreate
    <2>1. /\ pc' \in {"mpi_error", "balance", "done"} /\ i' = i
      BY <1>10 DEF CartCreate
    <2> QED BY <1>1, <2>1 DEF PaceInv, Factoring
  <1>11. CASE UNCHANGED vars
    BY <1>11 DEF vars, given, factoring, PaceInv, Factoring
  <1> QED BY <1>2, <1>3, <1>4, <1>5, <1>6, <1>7, <1>8, <1>9, <1>10, <1>11 DEF Next

LEMMA Pace == Spec => [](Inv /\ FactorInv /\ PaceInv)
  BY Invariance, FactorInvariance, InitPace, NextPace, PTL DEF Spec

(* How far a call is at most from its end, stage by stage. *)
OfCallByStage ==
  /\ pc = "balance" => OfCall = 5 * numproc + 6
  /\ pc = "halve" => OfCall = (numproc + 2) + 2 * n + 2 * (numproc + 3 - i) + 2
  /\ pc = "trial" => OfCall = (numproc + 2) + 2 * n + 2 * (numproc + 3 - i) + 1
  /\ pc = "divide" => OfCall = (numproc + 2) + 2 * n + 2 * (numproc + 3 - i)
  /\ pc = "split" => OfCall = Len(factors) + 1

LEMMA OfCallIs == OfCallByStage
  <1>1. CASE pc = "balance"
    BY <1>1 DEF OfCall, OfCallByStage
  <1>2. CASE pc = "halve"
    BY <1>2 DEF OfCall, OfCallByStage
  <1>3. CASE pc = "trial"
    BY <1>3 DEF OfCall, OfCallByStage
  <1>4. CASE pc = "divide"
    BY <1>4 DEF OfCall, OfCallByStage
  <1>5. CASE pc = "split"
    BY <1>5 DEF OfCall, OfCallByStage
  <1> QED BY <1>1, <1>2, <1>3, <1>4, <1>5 DEF OfCallByStage

LEMMA GoesOn == Inv /\ FactorInv /\ PaceInv => Running
  <1> SUFFICES ASSUME Inv, FactorInv, PaceInv PROVE Running
    OBVIOUS
  <1>1. /\ n \in Nat \ {0} /\ i \in Nat \ {0} /\ numproc \in Nat \ {0} /\ ndim \in {2, 3}
        /\ factors \in Seq(Nat \ {0}) /\ Len(factors) \in Nat
        /\ pc \in {"balance", "halve", "trial", "divide", "split", "done", "abort"}
    BY LenProperties DEF Inv, Types, FactorInv
  <1>2. CASE Ended
    BY <1>2 DEF Running, ToGo
  <1>3. CASE ~Ended
    <2>1. Found \in Seq(Nat \ {0})
      BY <1>1 DEF Found
    <2>2. CanStep
      BY <1>1, <1>3, <2>1, AllSortable DEF CanStep, Ended
    <2>3. OfCall \in 1 .. 5 * numproc + 6
      <3>1. pc \in {"balance", "halve", "trial", "divide", "split"}
        BY <1>1, <1>3 DEF Ended
      <3>2. Factoring => n <= numproc + 1 /\ Len(factors) + n <= numproc + 1
        BY <1>1 DEF PaceInv
      <3> QED BY <1>1, <3>1, <3>2, OfCallIs DEF OfCallByStage, PaceInv, Factoring
    <2>4. ToGo = OfCall + (IF ndim = 2 THEN 5 * numproc + 7 ELSE 0)
      BY <1>3 DEF ToGo
    <2>5. ToGo \in 1 .. 10 * numproc + 13
      BY <1>1, <2>3, <2>4
    <2> QED BY <1>3, <2>2, <2>5 DEF Running
  <1> QED BY <1>2, <1>3

LEMMA StepGetsOn == Inv /\ Inv' /\ FactorInv /\ PaceInv /\ PaceInv' /\ Next => ToGo' < ToGo
  <1> SUFFICES ASSUME Inv, Inv', FactorInv, PaceInv, PaceInv', Next PROVE ToGo' < ToGo
    OBVIOUS
  <1>1. /\ n \in Nat \ {0} /\ i \in Nat \ {0} /\ numproc \in Nat \ {0} /\ ndim \in {2, 3}
        /\ factors \in Seq(Nat \ {0}) /\ Len(factors) \in Nat
    BY LenProperties DEF Inv, Types
  <1>2. n' \in Nat \ {0} /\ i' \in Nat \ {0} /\ ndim' \in {2, 3} /\ Len(factors)' \in Nat
    <2>1. factors' \in Seq(Nat \ {0})
      BY DEF Inv, Types
    <2>2. Len(factors') \in Nat
      BY <2>1, LenProperties
    <2> QED BY <2>2 DEF Inv, Types
  <1>3. OfCallByStage /\ OfCallByStage'
    BY OfCallIs, PTL
  <1>4. ~Ended => ToGo = OfCall + (IF ndim = 2 THEN 5 * numproc + 7 ELSE 0)
    BY DEF ToGo
  <1>5. ~Ended' => ToGo' = OfCall' + (IF ndim' = 2 THEN 5 * numproc' + 7 ELSE 0)
    BY DEF ToGo
  <1>6. pc \in {"balance", "halve", "trial", "divide", "split"} => ~Ended /\ ToGo \in Nat /\ ToGo >= 1
    BY GoesOn, <1>1 DEF Running, Ended
  <1>7. ASSUME Ended', pc \in {"balance", "halve", "trial", "divide", "split"} PROVE ToGo' < ToGo
    <2>1. ToGo' = 0
      BY <1>7 DEF ToGo
    <2> QED BY <1>6, <1>7, <2>1
  (* Within a call it is enough to look at the call. *)
  <1>8. ASSUME UNCHANGED <<numproc, ndim>>, ~Ended, ~Ended', OfCall \in Int, OfCall' \in Int, OfCall' < OfCall
        PROVE  ToGo' < ToGo
    <2>1. (IF ndim' = 2 THEN 5 * numproc' + 7 ELSE 0) = (IF ndim = 2 THEN 5 * numproc + 7 ELSE 0)
      BY <1>8
    <2> QED BY <1>1, <1>4, <1>5, <1>8, <2>1
  <1>9. CASE Balance
    <2>1. /\ pc = "balance" /\ UNCHANGED <<numproc, ndim>> /\ i' = 3 /\ n' = Left
          /\ pc' \in {"halve", "abort"}
      BY <1>9 DEF Balance, given
    <2>2. n' <= numproc
      BY <1>1, <2>1, LeftIs
    <2>3. CASE pc' = "halve"
      <3>1. OfCall = 5 * numproc + 6 /\ OfCall' = (numproc + 2) + 2 * n' + 2 * (numproc + 3 - 3) + 2
        BY <1>3, <2>1, <2>3 DEF OfCallByStage
      <3>2. ~Ended /\ ~Ended'
        BY <2>1, <2>3 DEF Ended
      <3> QED BY <1>1, <1>2, <1>8, <2>1, <2>2, <3>1, <3>2
    <2>4. CASE pc' = "abort"
      BY <1>7, <2>1, <2>4 DEF Ended
    <2> QED BY <2>1, <2>3, <2>4
  <1>10. CASE Halve \/ Divide
    <2>1. /\ pc \in {"halve", "divide"} /\ pc' = pc /\ UNCHANGED <<numproc, ndim, i>>
      BY <1>10 DEF Halve, Divide, given
    <2>2. n' <= n - 1
      <3>1. 2 \in Nat /\ 2 >= 2 /\ i \in Nat /\ i >= 2
        BY <1>1 DEF PaceInv
      <3> QED BY <1>1, <1>10, <3>1, QuotientSmaller DEF Halve, Divide
    <2>3. ~Ended /\ ~Ended'
      BY <2>1 DEF Ended
    <2>4. \/ /\ OfCall = (numproc + 2) + 2 * n + 2 * (numproc + 3 - i) + 2
             /\ OfCall' = (numproc + 2) + 2 * n' + 2 * (numproc + 3 - i) + 2
          \/ /\ OfCall = (numproc + 2) + 2 * n + 2 * (numproc + 3 - i)
             /\ OfCall' = (numproc + 2) + 2 * n' + 2 * (numproc + 3 - i)
      BY <1>3, <2>1 DEF OfCallByStage
    <2> QED BY <1>1, <1>2, <1>8, <2>1, <2>2, <2>3, <2>4
  <1>11. CASE Halved \/ Trial
    <2>1. /\ \/ pc = "halve" /\ pc' = "trial"
             \/ pc = "trial" /\ pc' = "divide"
          /\ UNCHANGED <<numproc, ndim, i, n>>
      BY <1>11 DEF Halved, Trial, Goto, given, factoring
    <2>2. ~Ended /\ ~Ended'
      BY <2>1 DEF Ended
    <2>3. \/ /\ OfCall = (numproc + 2) + 2 * n + 2 * (numproc + 3 - i) + 2
             /\ OfCall' = (numproc + 2) + 2 * n + 2 * (numproc + 3 - i) + 1
          \/ /\ OfCall = (numproc + 2) + 2 * n + 2 * (numproc + 3 - i) + 1
             /\ OfCall' = (numproc + 2) + 2 * n + 2 * (numproc + 3 - i)
      BY <1>3, <2>1 DEF OfCallByStage
    <2> QED BY <1>1, <1>8, <2>1, <2>2, <2>3
  <1>12. CASE NextDivisor
    <2>1. pc = "divide" /\ pc' = "trial" /\ UNCHANGED <<numproc, ndim, n>> /\ i' = i + 2
      BY <1>12 DEF NextDivisor, Goto, given
    <2>2. ~Ended /\ ~Ended'
      BY <2>1 DEF Ended
    <2>3. /\ OfCall = (numproc + 2) + 2 * n + 2 * (numproc + 3 - i)
          /\ OfCall' = (numproc + 2) + 2 * n + 2 * (numproc + 3 - (i + 2)) + 1
      BY <1>3, <2>1 DEF OfCallByStage
    <2> QED BY <1>1, <1>8, <2>1, <2>2, <2>3
  <1>13. CASE Factored
    <2>1. pc = "trial" /\ pc' = "split" /\ UNCHANGED <<numproc, ndim>>
      BY <1>13 DEF Factored, Goto, given
    <2>2. ~Ended /\ ~Ended'
      BY <2>1 DEF Ended
    <2>3. /\ OfCall = (numproc + 2) + 2 * n + 2 * (numproc + 3 - i) + 1
          /\ OfCall' = Len(factors)' + 1
      BY <1>3, <2>1 DEF OfCallByStage
    <2>4. i <= numproc + 2 /\ Len(factors)' <= numproc
      BY <2>1 DEF PaceInv
    <2> QED BY <1>1, <1>2, <1>8, <2>1, <2>2, <2>3, <2>4
  <1>14. CASE Split
    <2>1. /\ pc = "split" /\ pc' \in {"split", "abort"} /\ UNCHANGED <<numproc, ndim>>
          /\ factors # << >> /\ factors' = Tail(factors)
      BY <1>14 DEF Split, given
    <2>2. Len(factors)' = Len(factors) - 1
      BY <1>1, <2>1
    <2>3. CASE pc' = "split"
      <3>1. OfCall = Len(factors) + 1 /\ OfCall' = Len(factors)' + 1
        BY <1>3, <2>1, <2>3 DEF OfCallByStage
      <3>2. ~Ended /\ ~Ended'
        BY <2>1, <2>3 DEF Ended
      <3> QED BY <1>1, <1>2, <1>8, <2>1, <2>2, <3>1, <3>2
    <2>4. CASE pc' = "abort"
      BY <1>7, <2>1, <2>4 DEF Ended
    <2> QED BY <2>1, <2>3, <2>4
  <1>15. CASE CartCreate
    <2>1. /\ pc = "split" /\ ndim' = 3 /\ UNCHANGED numproc
          /\ pc' = IF Together # numproc THEN "mpi_error" ELSE IF ndim = 2 THEN "balance" ELSE "done"
      BY <1>15 DEF CartCreate, given
    <2>2. pc' # "mpi_error"
      BY NextFactor DEF FactorInv
    <2>3. CASE ndim = 2
      <3>1. pc' = "balance"
        BY <2>1, <2>2, <2>3
      <3>2. OfCall = Len(factors) + 1 /\ OfCall' = 5 * numproc + 6
        BY <1>3, <2>1, <3>1 DEF OfCallByStage
      <3>3. ~Ended /\ ~Ended'
        BY <2>1, <3>1 DEF Ended
      <3> QED BY <1>1, <1>4, <1>5, <2>1, <2>3, <3>2, <3>3
    <2>4. CASE ndim # 2
      <3>1. pc' = "done"
        BY <2>1, <2>2, <2>4
      <3> QED BY <1>7, <2>1, <3>1 DEF Ended
    <2> QED BY <2>3, <2>4
  <1> QED BY <1>9, <1>10, <1>11, <1>12, <1>13, <1>14, <1>15 DEF Next

(* For every number of processes MPG_Cart_decomp() can go on until it is done *)
(* or aborts, and every step leaves less to do, of at most 10 * numproc + 13:  *)
(* no divisor is tried for ever and no factor is left lying.  Terminates adds  *)
(* that the steps are taken.                                                   *)
THEOREM StepsLead == Spec => /\ []Running
                             /\ [][Next => ToGo' < ToGo]_vars
  <1>1. /\ Inv /\ FactorInv /\ PaceInv /\ (Inv /\ FactorInv /\ PaceInv)' /\ [Next]_vars
        => [Next => ToGo' < ToGo]_vars
    BY StepGetsOn
  <1> QED BY <1>1, Pace, GoesOn, PTL DEF Spec

=============================================================================

----------------------------- MODULE CartDecomp -----------------------------
(***************************************************************************)
(* How mpispec_init() divides the grid among the processes: it calls       *)
(* MPG_Cart_decomp() for the communicator of two dimensions and for the    *)
(* one of three, each call balances the number of processes over the axes  *)
(* (balance() and prime_factors() in mpi/mpg/map_decomp.c) and takes the   *)
(* process's block of each axis.  The steps are the loops of the code.     *)
(* Axes are 0 zonal, 1 meridional and 2 vertical.                          *)
(***************************************************************************)
EXTENDS Integers, Sequences, Functions, Subgrids

CONSTANTS
  Processes,  \* sizes of para.comm
  Ni, Nj, Nk  \* values of grid.ni, grid.nj and grid.nk

ASSUME SizesAssumption ==
  /\ Processes \subseteq Nat \ {0}
  /\ Ni \subseteq Nat \ {0} /\ Nj \subseteq Nat /\ Nk \subseteq Nat \ {0}

VARIABLES
  pc,        \* where MPG_Cart_decomp() is
  geometry,  \* grid.geometry and grid.f_plane_map
  numproc,
  length,    \* para.dimlen
  ndim,      \* dimensions of the communicator that is being made
  dims,      \* para.nprocs, negative where balance() is to choose
  free,      \* the axes with a negative entry when balance() began
  copy,      \* length_copy
  n, i,      \* the loop variables of prime_factors()
  factors,
  dims_ij    \* para.nprocs when para.comm_ij was made

given     == <<geometry, numproc, length>>
factoring == <<n, i, factors>>
vars      == <<pc, given, ndim, dims, free, copy, factoring, dims_ij>>

Axes == 0 .. 2
Used == 0 .. ndim - 1
nj   == IF Wrap(geometry) THEN length[1] ELSE length[1] - 1


Init ==
  /\ geometry \in Geometries
  /\ numproc \in Processes
  /\ \E ni \in Ni, rows \in Nj, nk \in Nk :
       /\ rows >= JStart(geometry)
       /\ length = [a \in Axes |-> <<ni, rows - JStart(geometry) + 1, nk>>[a + 1]]
  /\ pc = "balance" /\ ndim = 2
  /\ dims = [a \in Axes |-> IF a = 2 THEN 1 ELSE -1]
  /\ free = {} /\ copy = length
  /\ n = 1 /\ i = 3 /\ factors = << >>
  /\ dims_ij = [a \in Axes |-> 1]

Goto(here, there) == pc = here /\ pc' = there

(* The processes the axes in use have together; one that is still to be chosen *)
(* counts as one.  What is left of numproc goes to the free axes.              *)
Along(a) == IF a \in Used /\ dims[a] > 0 THEN dims[a] ELSE 1
Together == Along(0) * Along(1) * Along(2)
Left     == numproc \div Together

Balance ==
  /\ pc = "balance"
  /\ pc' = IF Left < 1 THEN "abort" ELSE "halve"
  /\ free' = {a \in Used : dims[a] < 0}
  /\ dims' = [a \in Axes |-> IF a \in free' THEN 1 ELSE dims[a]]
  /\ copy' = length
  /\ n' = Left /\ i' = 3
  /\ factors' = IF Left = 1 THEN << 1 >> ELSE << >>
  /\ UNCHANGED <<given, ndim, dims_ij>>

(* prime_factors(): first the twos, then odd trial divisors up to the root.  *)
Halve ==
  /\ pc = "halve" /\ n % 2 = 0
  /\ factors' = Append(factors, 2)
  /\ n' = n \div 2
  /\ UNCHANGED <<pc, given, ndim, dims, free, copy, i, dims_ij>>

Halved ==
  /\ Goto("halve", "trial") /\ n % 2 # 0
  /\ UNCHANGED <<given, ndim, dims, free, copy, factoring, dims_ij>>

Trial ==
  /\ Goto("trial", "divide") /\ i * i <= n
  /\ UNCHANGED <<given, ndim, dims, free, copy, factoring, dims_ij>>

Divide ==
  /\ pc = "divide" /\ n % i = 0
  /\ factors' = Append(factors, i)
  /\ n' = n \div i
  /\ UNCHANGED <<pc, given, ndim, dims, free, copy, i, dims_ij>>

(* A mistake to test against: the divisor stays. *)
NextDivisor_Same ==
  /\ Goto("divide", "trial") /\ n % i # 0
  /\ UNCHANGED <<given, ndim, dims, free, copy, factoring, dims_ij>>

NextDivisor ==
  /\ Goto("divide", "trial") /\ n % i # 0
  /\ i' = i + 2
  /\ UNCHANGED <<given, ndim, dims, free, copy, n, factors, dims_ij>>

(* A mistake to test against: what is left over is forgotten. *)
Factored_NoRest ==
  /\ Goto("trial", "split") /\ i * i > n
  /\ \E p \in Bijection(DOMAIN factors, DOMAIN factors) :
       /\ factors' = [k \in DOMAIN factors |-> factors[p[k]]]
       /\ \A k \in 1 .. Len(factors) - 1 : factors'[k] >= factors'[k + 1]
  /\ UNCHANGED <<given, ndim, dims, free, copy, n, i, dims_ij>>

(* What is left is prime; the factors are sorted with the largest first. *)
Factored ==
  /\ Goto("trial", "split") /\ i * i > n
  /\ LET all == IF n > 2 THEN Append(factors, n) ELSE factors
     IN  \E p \in Bijection(DOMAIN all, DOMAIN all) :
           /\ factors' = [k \in DOMAIN all |-> all[p[k]]]
           /\ \A k \in 1 .. Len(all) - 1 : factors'[k] >= factors'[k + 1]
  /\ UNCHANGED <<given, ndim, dims, free, copy, n, i, dims_ij>>

(* balance(): the next factor goes to the free axis whose blocks are longest, *)
(* the last of them if several are.                                           *)
Longest ==
  CHOOSE a \in free : \A b \in free : copy[b] < copy[a] \/ (copy[b] = copy[a] /\ b <= a)

(* A mistake to test against: the blocks are not checked to last. *)
Split_Unchecked ==
  /\ pc = "split" /\ factors # << >> /\ free # {}
  /\ factors' = Tail(factors)
  /\ copy' = [copy EXCEPT ![Longest] = @ \div Head(factors)]
  /\ dims' = [dims EXCEPT ![Longest] = @ * Head(factors)]
  /\ UNCHANGED <<pc, given, ndim, free, n, i, dims_ij>>

Split ==
  /\ pc = "split" /\ factors # << >> /\ free # {}
  /\ factors' = Tail(factors)
  /\ copy' = [copy EXCEPT ![Longest] = @ \div Head(factors)]
  /\ IF copy'[Longest] < 1
       THEN pc' = "abort" /\ UNCHANGED dims
       ELSE dims' = [dims EXCEPT ![Longest] = @ * Head(factors)] /\ UNCHANGED pc
  /\ UNCHANGED <<given, ndim, free, n, i, dims_ij>>

(* A mistake to test against: each communicator is balanced from the start. *)
CartCreate_Anew ==
  /\ pc = "split" /\ (factors = << >> \/ free = {})
  /\ factors' = << >>
  /\ pc' = IF ndim = 2 THEN "balance" ELSE "done"
  /\ ndim' = 3
  /\ dims_ij' = IF ndim = 2 THEN dims ELSE dims_ij
  /\ dims' = IF ndim = 2 THEN [a \in Axes |-> -1] ELSE dims
  /\ UNCHANGED <<given, free, copy, n, i>>

(* MPI_Dims_create() and MPI_Cart_create() fail if the dims are not those of *)
(* the communicator; nobody looks at what they return.                       *)
CartCreate ==
  /\ pc = "split" /\ (factors = << >> \/ free = {})
  /\ factors' = << >>
  /\ pc' = IF Together # numproc THEN "mpi_error"
           ELSE IF ndim = 2 THEN "balance" ELSE "done"
  /\ ndim' = 3
  /\ dims_ij' = IF ndim = 2 THEN dims ELSE dims_ij
  /\ UNCHANGED <<given, dims, free, copy, n, i>>

Next ==
  \/ Balance \/ Halve \/ Halved \/ Trial \/ Divide \/ NextDivisor \/ Factored
  \/ Split \/ CartCreate

Spec     == Init /\ [][Next]_vars
FairSpec == Spec /\ WF_vars(Next)

-----------------------------------------------------------------------------

Ended == pc \in {"done", "abort"}

(* Every variable has its type, and no call fails in MPI. *)
TypeOK ==
  /\ pc \in {"balance", "halve", "trial", "divide", "split", "done", "abort"}
  /\ geometry \in Geometries /\ numproc \in Processes
  /\ length \in [Axes -> Nat \ {0}] /\ copy \in [Axes -> Nat]
  /\ ndim \in 2 .. 3 /\ free \subseteq Used
  /\ dims \in [Axes -> {-1} \cup (Nat \ {0})]
  /\ dims_ij \in [Axes -> Nat \ {0}]
  /\ n \in Nat \ {0} /\ i \in Nat \ {0}
  /\ factors \in Seq(Nat \ {0})

(* "This replaces the original program factor(), which did not return        *)
(* correct results": when prime_factors() returns, the factors multiply up to *)
(* the number and each is prime, for one as for any other.                    *)
Product(s) ==
  LET upto[k \in 0 .. Len(s)] == IF k = 0 THEN 1 ELSE upto[k - 1] * s[k]
  IN  upto[Len(s)]
Prime(p) == p > 1 /\ \A d \in 2 .. p - 1 : p % d # 0

FactorsCorrect ==
  pc = "split" /\ ndim = 2 /\ dims[0] = 1 /\ dims[1] = 1 =>
    /\ Product(factors) = numproc
    /\ \A f \in 1 .. Len(factors) : Prime(factors[f]) \/ numproc = 1

(* The process at coordinate c of axis a has the indices lo .. hi. *)
Start(a) == IF a = 1 THEN JStart(geometry) ELSE 1
Lo(a, c) == MyLo(Start(a), length[a], dims[a], c)
Hi(a, c) == MyHi(Start(a), length[a], dims[a], c)
Coords(a) == 0 .. dims[a] - 1

(* Every point is in the block of one process, no process is without points,  *)
(* and the rows V is marched on, JFIRST .. JHI, are shared out the same way   *)
(* although the two ends of the grid have one less.                           *)
EveryPointOwnedOnce ==
  pc = "done" =>
    /\ \A a \in Axes :
         /\ \A x \in Start(a) .. Start(a) + length[a] - 1 :
              \E c \in Coords(a) : \A d \in Coords(a) : (x \in Lo(a, d) .. Hi(a, d)) <=> d = c
         /\ \A c \in Coords(a) : Start(a) <= Lo(a, c) /\ Lo(a, c) <= Hi(a, c)
                                 /\ Hi(a, c) < Start(a) + length[a]
    /\ \A x \in 1 .. nj :
         \E c \in Coords(1) : \A d \in Coords(1) :
           (x \in JFIRST(geometry, Lo(1, d)) .. Hi(1, d)) <=> d = c

(* The loops over JLOPAD .. JHIPAD, which calculate a field "on the pads too", *)
(* go over the rows a process has and those a neighbour lends it, and over no  *)
(* row outside of the grid, where nothing is defined: also when all it has is  *)
(* the one row next to a pole.                                                 *)
PadLoopsReach ==
  pc = "done" => \A c \in Coords(1) :
    LET lo == Lo(1, c)
        hi == Hi(1, c)
    IN  JLOPAD(geometry, lo) .. JHIPAD(geometry, nj, hi)
          = {j \in lo - JPAD .. hi + JPAD : Wrap(geometry) \/ j \in JStart(geometry) .. nj}

(* Fields of two and of three dimensions are divided alike: para.mylo and     *)
(* para.myhi are those of comm_ijk, the exchanges of TWODIM fields go by       *)
(* comm_ij.                                                                    *)
DividedAlike == pc = "done" => \A a \in 0 .. 1 : dims[a] = dims_ij[a]

(* It comes to an end for every number of processes. *)
Terminates == <>Ended

=============================================================================

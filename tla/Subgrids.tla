------------------------------ MODULE Subgrids ------------------------------
(***************************************************************************)
(* The part of the horizontal grid a process has: MPE_Decomp1d() of one    *)
(* axis (mpi/mpg/mpich_decomp.c), the indices mpispec_init() sets from it  *)
(* (mpi/m_epic_functions.c), and the ranges of J that the loops of the     *)
(* model go over (include/epic.h).                                         *)
(***************************************************************************)
EXTENDS Integers

(* The block s .. e of 1 .. n that process rank of size has. *)
MPE_Decomp1d(n, size, rank) ==
  LET deficit == n % size
      nlocal  == n \div size + (IF rank < deficit THEN 1 ELSE 0)
      s       == rank * (n \div size) + 1 + (IF rank < deficit THEN rank ELSE deficit)
      e       == s + nlocal - 1
  IN  [s |-> s, e |-> IF e > n \/ rank = size - 1 THEN n ELSE e]

(* para.mylo and para.myhi along an axis whose indices begin at start. *)
MyLo(start, n, size, rank) == MPE_Decomp1d(n, size, rank).s - 1 + start
MyHi(start, n, size, rank) == MPE_Decomp1d(n, size, rank).e - 1 + start

-----------------------------------------------------------------------------
(* The meridional axis.  On a globe and on a polar f-plane J = 0 is an       *)
(* interior row; a cartesian f-plane is periodic and begins at J = 1.        *)

Geometries == {"globe", "f-plane cartesian", "f-plane polar"}

Wrap(geometry) == geometry = "f-plane cartesian"
JStart(geometry) == IF Wrap(geometry) THEN 1 ELSE 0

JPAD == 1
IPAD == 1

(* para.jfirst and para.jlast of the process with the rows jlo .. jhi. *)
JFIRST(geometry, jlo) ==
  LET low == JStart(geometry) + (IF Wrap(geometry) THEN 0 ELSE 1)
  IN  IF low >= jlo THEN low ELSE jlo

(* A mistake to test against: the top row is not told apart. *)
JLAST_NoTop(geometry, nj, jhi) == jhi

JLAST(geometry, nj, jhi) ==
  LET high == IF Wrap(geometry) THEN nj ELSE nj - 1
  IN  IF high <= jhi THEN high ELSE jhi

JLOPAD(geometry, jlo)     == JFIRST(geometry, jlo) - JPAD
JHIPAD(geometry, nj, jhi) == JLAST(geometry, nj, jhi) + JPAD

=============================================================================

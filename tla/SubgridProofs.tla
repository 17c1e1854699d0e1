---------------------------- MODULE SubgridProofs ----------------------------
(***************************************************************************)
(* What MPE_Decomp1d() promises for every length of an axis and every      *)
(* number of processes that is not larger: the blocks are in order, none   *)
(* is empty, each begins where the one before it ends, and together they   *)
(* are the axis.  And two facts about the natural numbers that the proofs  *)
(* about other modules use too.                                            *)
(***************************************************************************)
EXTENDS Subgrids, TLAPS, WellFoundedInduction

(* Of any numbers there is a least one. *)
LEMMA LeastNumber ==
  ASSUME NEW T, T \subseteq Nat, T # {}
  PROVE  \E x \in T : \A y \in T : x <= y
  <1> DEFINE R == {ss \in Nat \X Nat : ss[1] < ss[2]}
  <1>1. OpToRel(<, Nat) = R
    BY DEF OpToRel
  <1>2. IsWellFoundedOn(R, Nat)
    BY <1>1, NatLessThanWellFounded
  <1> HIDE DEF R
  <1>3. PICK x \in T : \A y \in T : ~(<<y, x>> \in R)
    BY <1>2, WFMin
  <1>4. ASSUME NEW y \in T PROVE x <= y
    <2>1. x \in Nat /\ y \in Nat /\ <<y, x>> \notin R
      BY <1>3
    <2>2. ~(y < x)
      BY <2>1 DEF R
    <2> QED BY <2>1, <2>2
  <1> QED BY <1>4

(* Induction over the natural numbers, in a form that speaks of a set: a set *)
(* without the least number that it could lack lacks none.                   *)
LEMMA SetInduction ==
  ASSUME NEW S, 0 \in S, \A k \in Nat : k \in S => k + 1 \in S
  PROVE  \A k \in Nat : k \in S
  <1> DEFINE T == Nat \ S
  <1> SUFFICES ASSUME T # {} PROVE FALSE
    OBVIOUS
  <1>1. PICK x \in T : \A y \in T : x <= y
    BY LeastNumber
  <1>2. x \in Nat /\ x # 0 /\ x \notin S
    OBVIOUS
  <1>3. x - 1 \in Nat /\ ~(x <= x - 1) /\ (x - 1) + 1 = x
    BY <1>2
  <1>4. x - 1 \in S
    BY <1>1, <1>2, <1>3
  <1> QED BY <1>2, <1>3, <1>4

(* Division with remainder. *)
LEMMA DivMod ==
  ASSUME NEW n \in Nat, NEW d \in Nat \ {0}
  PROVE  /\ n \div d \in Nat /\ n % d \in Nat /\ n % d < d
         /\ n = d * (n \div d) + (n % d)
  BY SMT

(* The larger of two naturals leaves the product with a natural larger. *)
LEMMA TimesMonotone ==
  \A a, b, q \in Nat : a <= b => a * q <= b * q
  BY SMT

(* The first index of a block, in terms of quotient q and remainder d: the   *)
(* first d processes have one index more than the others.                    *)
Before(q, d, r) == r * q + (IF r < d THEN r ELSE d)

(* A block begins after all the earlier ones and ends before all later ones. *)
LEMMA BlockIs ==
  ASSUME NEW n \in Nat \ {0}, NEW size \in 1 .. n, NEW r \in 0 .. size - 1
  PROVE  /\ MPE_Decomp1d(n, size, r).s = Before(n \div size, n % size, r) + 1
         /\ MPE_Decomp1d(n, size, r).e = Before(n \div size, n % size, r + 1)
  <1> DEFINE q == n \div size
             d == n % size
             nlocal == q + (IF r < d THEN 1 ELSE 0)
             s == r * q + 1 + (IF r < d THEN r ELSE d)
             e == s + nlocal - 1
  <1>1. q \in Nat /\ d \in Nat /\ d < size /\ n = size * q + d
    BY DivMod
  <1>2. MPE_Decomp1d(n, size, r) = [s |-> s, e |-> IF e > n \/ r = size - 1 THEN n ELSE e]
    BY DEF MPE_Decomp1d
  <1>3. r \in Nat /\ size \in Nat /\ r + 1 \in Nat /\ r + 1 <= size
    OBVIOUS
  <1> HIDE DEF q, d
  <1>4. r * q \in Nat /\ (r + 1) * q = r * q + q
    BY <1>1, <1>3, SMT
  <1>5. s = Before(q, d, r) + 1
    BY <1>1, <1>3, <1>4, SMT DEF Before
  <1>6. e = Before(q, d, r + 1)
    BY <1>1, <1>3, <1>4, SMT DEF Before
  <1>7. r = size - 1 => e = n
    <2> SUFFICES ASSUME r = size - 1 PROVE e = n
      OBVIOUS
    <2>1. (r + 1) * q = size * q
      BY <1>3
    <2> QED BY <1>1, <1>3, <1>4, <2>1, SMT
  <1>8. e <= n
    <2>1. (r + 1) * q <= size * q
      BY <1>1, <1>3, TimesMonotone
    <2>2. size * q \in Nat
      BY <1>1, <1>3, SMT
    <2> QED BY <1>1, <1>3, <1>4, <2>1, <2>2, SMT
  <1>9. e \in Int
    BY <1>1, <1>3, <1>4
  <1> HIDE DEF e, s
  <1> QED BY <1>2, <1>5, <1>6, <1>7, <1>8, <1>9 DEF q, d

(* Later blocks begin where earlier ones have ended, with quotients of one   *)
(* or more nowhere at the same index.                                        *)
LEMMA BeforeMonotone ==
  ASSUME NEW q \in Nat \ {0}, NEW d \in Nat, NEW a \in Nat, NEW b \in Nat
  PROVE  /\ Before(q, d, a) \in Nat
         /\ a <= b => Before(q, d, a) <= Before(q, d, b)
         /\ Before(q, d, a) < Before(q, d, a + 1)
  <1>1. a * q \in Nat /\ b * q \in Nat /\ (a + 1) * q = a * q + q
    BY SMT
  <1>2. a <= b => a * q <= b * q
    BY TimesMonotone
  <1> QED BY <1>1, <1>2, SMT DEF Before

(* With at most one process per index, every process has an index. *)
LEMMA QuotientPositive ==
  ASSUME NEW n \in Nat \ {0}, NEW size \in 1 .. n
  PROVE  /\ n \div size \in Nat \ {0} /\ n % size \in Nat /\ n % size < size
         /\ n = size * (n \div size) + (n % size)
  <1> DEFINE q == n \div size
             d == n % size
  <1>1. q \in Nat /\ d \in Nat /\ d < size /\ n = size * q + d
    BY DivMod
  <1> HIDE DEF q, d
  <1>2. q = 0 => size * q = 0
    BY <1>1, SMT
  <1>3. q # 0
    BY <1>1, <1>2, SMT
  <1> QED BY <1>1, <1>3 DEF q, d

(* The blocks lie within the axis, in order, and none is empty. *)
LEMMA BlocksInOrder ==
  ASSUME NEW n \in Nat \ {0}, NEW size \in 1 .. n, NEW r \in 0 .. size - 1
  PROVE  /\ MPE_Decomp1d(n, size, r).s \in Nat \ {0}
         /\ MPE_Decomp1d(n, size, r).e \in Nat
         /\ MPE_Decomp1d(n, size, r).s <= MPE_Decomp1d(n, size, r).e
         /\ MPE_Decomp1d(n, size, r).e <= n
         /\ r = 0 => MPE_Decomp1d(n, size, r).s = 1
         /\ r = size - 1 => MPE_Decomp1d(n, size, r).e = n
         /\ \A t \in 0 .. size - 1 :
              r < t => MPE_Decomp1d(n, size, r).e < MPE_Decomp1d(n, size, t).s
  <1> DEFINE q == n \div size
             d == n % size
  <1>1. q \in Nat \ {0} /\ d \in Nat /\ d < size /\ n = size * q + d
    BY QuotientPositive
  <1>2. \A t \in 0 .. size - 1 : /\ MPE_Decomp1d(n, size, t).s = Before(q, d, t) + 1
                                 /\ MPE_Decomp1d(n, size, t).e = Before(q, d, t + 1)
    BY BlockIs
  <1> HIDE DEF q, d
  <1>3. r \in Nat /\ r + 1 \in Nat /\ size \in Nat /\ r + 1 <= size
    OBVIOUS
  <1>4. Before(q, d, size) = n
    <2>1. ~(size < d)
      BY <1>1, <1>3
    <2> QED BY <1>1, <2>1 DEF Before
  <1>5. Before(q, d, 0) = 0
    BY <1>1, SMT DEF Before
  <1>6. Before(q, d, r) \in Nat /\ Before(q, d, r + 1) \in Nat /\ Before(q, d, r) < Before(q, d, r + 1)
    BY <1>1, <1>3, BeforeMonotone
  <1>7. Before(q, d, r + 1) <= n
    BY <1>1, <1>3, <1>4, BeforeMonotone
  <1>8. ASSUME NEW t \in 0 .. size - 1, r < t
        PROVE  MPE_Decomp1d(n, size, r).e < MPE_Decomp1d(n, size, t).s
    <2>1. t \in Nat /\ r + 1 <= t
      BY <1>3, <1>8
    <2>2. Before(q, d, r + 1) <= Before(q, d, t) /\ Before(q, d, t) \in Nat
      BY <1>1, <1>3, <2>1, BeforeMonotone
    <2> QED BY <1>2, <1>6, <2>2
  <1>9. r = size - 1 => Before(q, d, r + 1) = n
    <2>1. r = size - 1 => r + 1 = size
      BY <1>3
    <2> QED BY <1>4, <2>1
  <1> QED BY <1>2, <1>5, <1>6, <1>7, <1>8, <1>9

(* Every index is in some block: in one of the d long ones, or else in one of *)
(* the others.                                                                *)
LEMMA EveryIndexOwned ==
  ASSUME NEW n \in Nat \ {0}, NEW size \in 1 .. n, NEW x \in 1 .. n
  PROVE  \E r \in 0 .. size - 1 :
           MPE_Decomp1d(n, size, r).s <= x /\ x <= MPE_Decomp1d(n, size, r).e
  <1> DEFINE q == n \div size
             d == n % size
             y == x - 1
             long == d * (q + 1)
  <1>1. q \in Nat \ {0} /\ d \in Nat /\ d < size /\ n = size * q + d
    BY QuotientPositive
  <1>2. \A r \in 0 .. size - 1 : /\ MPE_Decomp1d(n, size, r).s = Before(q, d, r) + 1
                                 /\ MPE_Decomp1d(n, size, r).e = Before(q, d, r + 1)
    BY BlockIs
  <1>3. y \in Nat /\ y < n /\ x = y + 1 /\ size \in Nat
    OBVIOUS
  <1> HIDE DEF q, d, y
  <1>4. d * q \in Nat /\ long = d * q + d /\ long \in Nat /\ size * q \in Nat
    BY <1>1, <1>3, SMT
  <1>5. CASE y < long
    <2> DEFINE r == y \div (q + 1)
               o == y % (q + 1)
    <2>1. r \in Nat /\ o \in Nat /\ o < q + 1 /\ y = (q + 1) * r + o
      <3>1. q + 1 \in Nat \ {0} /\ y \in Nat
        BY <1>1, <1>3
      <3> HIDE DEF long
      <3> QED BY <3>1, DivMod
    <2> HIDE DEF r, o
    <2>2. r * q \in Nat /\ (q + 1) * r = r * q + r /\ (r + 1) * q = r * q + q
      BY <1>1, <2>1, SMT
    <2>3. r < d
      <3>1. d <= r => d * q <= r * q
        BY <1>1, <2>1, TimesMonotone
      <3> QED BY <1>1, <1>3, <1>4, <1>5, <2>1, <2>2, <3>1, SMT
    <2>4. r \in 0 .. size - 1
      BY <1>1, <1>3, <2>1, <2>3
    <2>5. Before(q, d, r) + 1 <= x /\ x <= Before(q, d, r + 1)
      BY <1>1, <1>3, <2>1, <2>2, <2>3, SMT DEF Before
    <2> QED BY <1>2, <2>4, <2>5
  <1>6. CASE ~(y < long)
    <2> DEFINE z == y - long
               t == z \div q
               o == z % q
               r == d + t
    <2>1. z \in Nat /\ y = z + long
      BY <1>3, <1>4, <1>6
    <2> HIDE DEF z
    <2>2. t \in Nat /\ o \in Nat /\ o < q /\ z = q * t + o
      BY <1>1, <2>1, DivMod
    <2> HIDE DEF t, o
    <2>3. /\ t * q \in Nat /\ q * t = t * q
          /\ r * q = d * q + t * q /\ (r + 1) * q = d * q + t * q + q
      BY <1>1, <2>2, SMT
    <2>4. r < size
      <3>1. size <= r => size * q <= r * q
        BY <1>1, <1>3, <2>2, TimesMonotone
      <3> QED BY <1>1, <1>3, <1>4, <2>1, <2>2, <2>3, <3>1, SMT
    <2>5. r \in 0 .. size - 1 /\ r \in Nat /\ ~(r < d) /\ ~(r + 1 < d)
      BY <1>1, <1>3, <2>2, <2>4
    <2> HIDE DEF r
    <2>6. Before(q, d, r) + 1 <= x /\ x <= Before(q, d, r + 1)
      BY <1>1, <1>3, <1>4, <2>1, <2>2, <2>3, <2>5, SMT DEF Before
    <2> QED BY <1>2, <2>5, <2>6
  <1> QED BY <1>5, <1>6

(* A decomposition of an axis of any length among at most as many processes: *)
(* every index belongs to exactly one of them.                               *)
THEOREM Decomp1dPartitions ==
  ASSUME NEW n \in Nat \ {0}, NEW size \in 1 .. n, NEW x \in 1 .. n
  PROVE  \E c \in 0 .. size - 1 : \A r \in 0 .. size - 1 :
           (x \in MPE_Decomp1d(n, size, r).s .. MPE_Decomp1d(n, size, r).e) <=> r = c
  <1> DEFINE s(r) == MPE_Decomp1d(n, size, r).s
             e(r) == MPE_Decomp1d(n, size, r).e
  <1>1. PICK c \in 0 .. size - 1 : s(c) <= x /\ x <= e(c)
    BY EveryIndexOwned
  <1>2. \A r \in 0 .. size - 1 : s(r) \in Nat /\ e(r) \in Nat
    BY BlocksInOrder
  <1>3. \A r, t \in 0 .. size - 1 : r < t => e(r) < s(t)
    BY BlocksInOrder
  <1> HIDE DEF s, e
  <1>4. ASSUME NEW r \in 0 .. size - 1 PROVE (x \in s(r) .. e(r)) <=> r = c
    <2>1. (x \in s(r) .. e(r)) <=> (s(r) <= x /\ x <= e(r))
      BY <1>2
    <2>2. r < c => e(r) < x
      BY <1>1, <1>2, <1>3
    <2>3. c < r => x < s(r)
      BY <1>1, <1>2, <1>3
    <2>4. r < c \/ c < r \/ r = c
      OBVIOUS
    <2> QED BY <1>1, <1>2, <2>1, <2>2, <2>3, <2>4
  <1> QED BY <1>4 DEF s, e

=============================================================================

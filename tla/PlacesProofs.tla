---------------------------- MODULE PlacesProofs ----------------------------
(* Proofs for Places: for tables of any size, the searches of                *)
(* core/epic_funcs_util.c read no entry that is not there, return the        *)
(* interval x is in, set its width, and do not go round in circles.          *)
EXTENDS Places, TLAPS

(* x is at or past entry i, or not past it, in the order of the table; the   *)
(* entries -1 and n stand for the outside.                                   *)
Past(i) == i = -1 \/ (i \in 0 .. n - 1 /\ IF ascend THEN cmp[i] >= 0 ELSE cmp[i] <= 0)

NotPast(i) == i = n \/ (i \in 0 .. n - 1 /\ IF ascend THEN cmp[i] <= 0 ELSE cmp[i] >= 0)

Types ==
  /\ pc \in {"find", "hunt", "up", "down", "bisect", "done"}
  /\ n \in 2 .. MaxN /\ ascend \in BOOLEAN
  /\ cmp \in [0 .. n - 1 -> {-1, 0, 1}]
  /\ il \in Int /\ dx \in Int /\ iu \in Nat /\ inc \in Nat

(* Table entries and x compare in order. *)
InOrder ==
  \A i, j \in 0 .. n - 1 : i <= j => IF ascend THEN cmp[i] >= cmp[j] ELSE cmp[i] <= cmp[j]

(* A search keeps x between il and iu, once it has looked at them, and hunts *)
(* with a stride.                                                            *)
Bounds ==
  pc \in {"up", "down", "bisect"} =>
    /\ Within /\ il < iu
    /\ pc = "up" => Past(il) /\ il >= 0 /\ iu <= n - 1 /\ inc >= 1
    /\ pc = "down" => il >= 0 /\ NotPast(iu) /\ inc >= 1
    /\ pc = "bisect" => Past(il) /\ NotPast(iu)

(* What a search returns. *)
Result ==
  pc = "done" =>
    /\ il \in 0 .. n - 2 /\ dx = il
    /\ il > 0 => Past(il)
    /\ il < n - 2 => NotPast(il + 1)

IInv == Types /\ InOrder /\ Bounds /\ Result

-----------------------------------------------------------------------------

(* fcmp() with the entries of a sorted table goes up or down with the table. *)
LEMMA ComparisonsInOrder ==
  ASSUME NEW size \in Int, NEW up \in BOOLEAN, NEW c \in Comparisons(size, up)
  PROVE  /\ c \in [0 .. size - 1 -> {-1, 0, 1}]
         /\ \A i, j \in 0 .. size - 1 : i <= j => IF up THEN c[i] >= c[j] ELSE c[i] <= c[j]
<1>1. PICK p \in -1 .. 2 * size - 1 :
        c = [i \in 0 .. size - 1 |-> Sign(IF up THEN p - 2 * i ELSE 2 * i - p)]
  BY DEF Comparisons
<1>2. \A d \in Int : Sign(d) \in {-1, 0, 1}
  BY DEF Sign
<1>3. \A d, e \in Int : d <= e => Sign(d) <= Sign(e)
  BY DEF Sign
<1>4. \A i \in 0 .. size - 1 : /\ p - 2 * i \in Int /\ 2 * i - p \in Int
                               /\ c[i] = Sign(IF up THEN p - 2 * i ELSE 2 * i - p)
  BY <1>1
<1>5. c \in [0 .. size - 1 -> {-1, 0, 1}]
  BY <1>1, <1>2, <1>4
<1>6. ASSUME NEW i \in 0 .. size - 1, NEW j \in 0 .. size - 1, i <= j
      PROVE  IF up THEN c[i] >= c[j] ELSE c[i] <= c[j]
  <2>1. CASE up
    <3>1. p - 2 * j \in Int /\ p - 2 * i \in Int /\ p - 2 * j <= p - 2 * i
      BY <1>6
    <3>2. Sign(p - 2 * j) <= Sign(p - 2 * i)
      BY <3>1, <1>3
    <3>3. c[i] = Sign(p - 2 * i) /\ c[j] = Sign(p - 2 * j)
      BY <1>4, <2>1
    <3>4. Sign(p - 2 * j) \in {-1, 0, 1} /\ Sign(p - 2 * i) \in {-1, 0, 1}
      BY <3>1, <1>2
    <3> QED
      BY <2>1, <3>2, <3>3, <3>4
  <2>2. CASE ~up
    <3>1. 2 * i - p \in Int /\ 2 * j - p \in Int /\ 2 * i - p <= 2 * j - p
      BY <1>6
    <3>2. Sign(2 * i - p) <= Sign(2 * j - p)
      BY <3>1, <1>3
    <3>3. c[i] = Sign(2 * i - p) /\ c[j] = Sign(2 * j - p)
      BY <1>4, <2>2
    <3> QED
      BY <2>2, <3>2, <3>3
  <2> QED
    BY <2>1, <2>2
<1> QED
  BY <1>5, <1>6

(* The conditions of the loops say on which side of an entry x is. *)
LEMMA Sides ==
  ASSUME Types, NEW i \in 0 .. n - 1
  PROVE  /\ AtOrPast(i) => Past(i)
         /\ ~AtOrPast(i) => NotPast(i)
         /\ AtOrBefore(i) => NotPast(i)
         /\ ~AtOrBefore(i) => Past(i)
<1>1. cmp[i] \in {-1, 0, 1} /\ ascend \in BOOLEAN
  BY DEF Types
<1>2. CASE ascend
  <2>1. (AtOrPast(i) <=> cmp[i] >= 0) /\ (AtOrBefore(i) <=> cmp[i] <= 0)
    BY <1>2 DEF AtOrPast, AtOrBefore
  <2>2. (Past(i) <=> cmp[i] >= 0 \/ i = -1) /\ (NotPast(i) <=> cmp[i] <= 0 \/ i = n)
    BY <1>2 DEF Past, NotPast
  <2> QED
    BY <1>1, <2>1, <2>2
<1>3. CASE ~ascend
  <2>1. (AtOrPast(i) <=> ~(cmp[i] >= 0)) /\ (AtOrBefore(i) <=> ~(cmp[i] <= 0))
    BY <1>3, <1>1 DEF AtOrPast, AtOrBefore
  <2>2. (Past(i) <=> cmp[i] <= 0 \/ i = -1) /\ (NotPast(i) <=> cmp[i] >= 0 \/ i = n)
    BY <1>3 DEF Past, NotPast
  <2> QED
    BY <1>1, <2>1, <2>2
<1> QED
  BY <1>2, <1>3

(* Within the table x is past the first entry and not past the last. *)
LEMMA Inside ==
  ASSUME Types, Within
  PROVE  ~NotPast(0) /\ ~Past(n - 1)
<1>1. n \in Int /\ n >= 2 /\ 0 \in 0 .. n - 1 /\ n - 1 \in 0 .. n - 1
  BY PlacesAssumption DEF Types
<1>2. cmp[0] \in {-1, 0, 1} /\ cmp[n - 1] \in {-1, 0, 1}
  BY <1>1 DEF Types
<1> QED
  BY <1>1, <1>2 DEF Within, BelowTable, AboveTable, Past, NotPast

-----------------------------------------------------------------------------

LEMMA InitInv == Init => IInv
<1> SUFFICES ASSUME Init PROVE IInv
  OBVIOUS
<1>1. n \in 2 .. MaxN /\ ascend \in BOOLEAN /\ n \in Int
  BY PlacesAssumption DEF Init
<1>2. cmp \in [0 .. n - 1 -> {-1, 0, 1}] /\ InOrder
  BY <1>1, ComparisonsInOrder DEF Init, InOrder
<1>3. Types
  BY <1>1, <1>2 DEF Init, Types
<1> QED
  BY <1>2, <1>3 DEF Init, IInv, Bounds, Result

(* What an action that leaves the table alone need not prove again. *)
LEMMA SameTable ==
  ASSUME IInv, UNCHANGED table
  PROVE  /\ n' = n /\ n \in Int /\ n >= 2 /\ n' \in 2 .. MaxN /\ ascend' \in BOOLEAN
         /\ cmp' \in [0 .. n' - 1 -> {-1, 0, 1}]
         /\ InOrder'
         /\ Within' <=> Within
         /\ \A i \in Int : (Past(i))' <=> Past(i)
         /\ \A i \in Int : (NotPast(i))' <=> NotPast(i)
<1>1. n' = n /\ ascend' = ascend /\ cmp' = cmp
  BY DEF table
<1> QED
  BY <1>1, PlacesAssumption
  DEF IInv, Types, InOrder, Within, BelowTable, AboveTable, Past, NotPast

LEMMA NextInv == IInv /\ [Next]_vars => IInv'
<1> SUFFICES ASSUME IInv, [Next]_vars PROVE IInv'
  OBVIOUS
<1> USE DEF IInv
<1>0. /\ n \in Int /\ n >= 2 /\ n <= MaxN /\ MaxN \in Int
      /\ il \in Int /\ dx \in Int /\ iu \in Int /\ iu >= 0 /\ inc \in Int /\ inc >= 0
  BY PlacesAssumption DEF Types
<1>1. CASE BeyondEnds
  <2>0. UNCHANGED table
    BY <1>1 DEF BeyondEnds, Return
  <2>1. CASE BelowTable /\ Return(0)
    <3>1. pc' = "done" /\ il' = 0 /\ dx' = 0 /\ iu' = 0 /\ inc' = 0
      BY <2>1 DEF Return
    <3>2. NotPast(0)
      BY <2>1, <1>0 DEF BelowTable, NotPast
    <3>3. 0 < n - 2 => NotPast(1)
      BY <3>2, <1>0 DEF Types, InOrder, NotPast
    <3>4. (0 < n - 2 => NotPast(1))'
      BY <3>3, <2>0, SameTable
    <3> QED
      BY <3>1, <3>4, <1>0, <2>0, SameTable DEF Types, Bounds, Result
  <2>2. CASE ~BelowTable /\ AboveTable /\ Return(n - 2)
    <3>1. pc' = "done" /\ il' = n - 2 /\ dx' = n - 2 /\ iu' = 0 /\ inc' = 0
      BY <2>2 DEF Return
    <3>2. Past(n - 1)
      BY <2>2, <1>0 DEF AboveTable, Past
    <3>3. n - 2 > 0 => Past(n - 2)
      BY <3>2, <1>0 DEF Types, InOrder, Past
    <3>4. (n - 2 > 0 => Past(n - 2))'
      BY <3>3, <1>0, <2>0, SameTable DEF Past
    <3>5. Types'
      BY <3>1, <1>0, <2>0, SameTable DEF Types
    <3>6. Result'
      BY <3>1, <3>4, <1>0, <2>0, SameTable DEF Result
    <3> QED
      BY <3>1, <3>5, <3>6, <2>0, SameTable DEF Bounds
  <2> QED
    BY <1>1, <2>1, <2>2 DEF BeyondEnds
<1>2. ASSUME Find \/ HuntOffTable PROVE IInv'
  <2>1. /\ UNCHANGED table /\ Within
        /\ pc' = "bisect" /\ il' = -1 /\ iu' = n /\ inc' = inc /\ dx' = dx
    BY <1>2 DEF Find, HuntOffTable, Goto, BisectAll
  <2>2. Past(-1) /\ NotPast(n)
    BY DEF Past, NotPast
  <2>3. Types' /\ InOrder'
    BY <2>1, <1>0, SameTable DEF Types
  <2>4. Bounds'
    BY <2>1, <2>2, <1>0, SameTable DEF Bounds
  <2> QED
    BY <2>1, <2>3, <2>4 DEF Result
<1>3. CASE HuntUp
  <2>0. UNCHANGED table /\ dx' = dx /\ Within /\ il \in 0 .. n - 1 /\ Past(il)
    BY <1>3, Sides DEF HuntUp
  <2>1. il # n - 1
    BY <2>0, Inside
  <2>2. pc' = "up" /\ iu' = il + 1 /\ inc' = 1 /\ il' = il
    BY <1>3, <2>1 DEF HuntUp
  <2>3. Types' /\ InOrder'
    BY <2>0, <2>2, <1>0, SameTable DEF Types
  <2>4. Bounds'
    BY <2>0, <2>1, <2>2, <1>0, SameTable DEF Bounds
  <2> QED
    BY <2>2, <2>3, <2>4 DEF Result
<1>4. CASE HuntDown
  <2>0. UNCHANGED table /\ dx' = dx /\ Within /\ il \in 0 .. n - 1 /\ NotPast(il)
    BY <1>4, Sides DEF HuntDown
  <2>1. il # 0
    BY <2>0, Inside
  <2>2. pc' = "down" /\ iu' = il /\ inc' = 1 /\ il' = il - 1
    BY <1>4, <2>1 DEF HuntDown
  <2>3. Types' /\ InOrder'
    BY <2>0, <2>2, <1>0, SameTable DEF Types
  <2>4. Bounds'
    BY <2>0, <2>1, <2>2, <1>0, SameTable DEF Bounds
  <2> QED
    BY <2>2, <2>3, <2>4 DEF Result
<1>5. CASE Up
  <2>0. UNCHANGED table /\ dx' = dx /\ Within /\ il < iu /\ Past(il) /\ il >= 0 /\ iu \in 0 .. n - 1
    BY <1>5, <1>0 DEF Up, Bounds
  <2>1. CASE AtOrPast(iu)
    <3>1. il' = iu /\ inc' = 2 * inc /\ Past(iu)
      BY <1>5, <2>0, <2>1, Sides DEF Up
    <3>2. CASE iu + 2 * inc > n - 1
      <4>1. pc' = "bisect" /\ iu' = n
        BY <1>5, <2>1, <3>2 DEF Up
      <4>2. NotPast(n)
        BY DEF NotPast
      <4>3. Types' /\ InOrder'
        BY <2>0, <3>1, <4>1, <1>0, SameTable DEF Types
      <4>4. Bounds'
        BY <2>0, <3>1, <4>1, <4>2, <1>0, SameTable DEF Bounds
      <4> QED
        BY <4>1, <4>3, <4>4 DEF Result
    <3>3. CASE ~(iu + 2 * inc > n - 1)
      <4>1. pc' = "up" /\ iu' = iu + 2 * inc
        BY <1>5, <2>1, <3>3 DEF Up
      <4>2. inc >= 1
        BY <1>0, <1>5 DEF Up, Types, Bounds
      <4>3. Types' /\ InOrder'
        BY <2>0, <3>1, <4>1, <1>0, SameTable DEF Types
      <4>4. Bounds'
        BY <2>0, <3>1, <3>3, <4>1, <4>2, <1>0, SameTable DEF Bounds
      <4> QED
        BY <4>1, <4>3, <4>4 DEF Result
    <3> QED
      BY <3>2, <3>3
  <2>2. CASE ~AtOrPast(iu)
    <3>1. pc' = "bisect" /\ il' = il /\ iu' = iu /\ inc' = inc /\ NotPast(iu)
      BY <1>5, <2>0, <2>2, Sides DEF Up
    <3>2. Types' /\ InOrder'
      BY <2>0, <3>1, <1>0, SameTable DEF Types
    <3>3. Bounds'
      BY <2>0, <3>1, <1>0, SameTable DEF Bounds
    <3> QED
      BY <3>1, <3>2, <3>3 DEF Result
  <2> QED
    BY <2>1, <2>2
<1>6. CASE Down
  <2>0. UNCHANGED table /\ dx' = dx /\ Within /\ il < iu /\ NotPast(iu) /\ il >= 0 /\ il \in 0 .. n - 1
    BY <1>6, <1>0 DEF Down, Bounds, NotPast
  <2>1. CASE AtOrBefore(il)
    <3>1. iu' = il /\ inc' = 2 * inc /\ NotPast(il)
      BY <1>6, <2>0, <2>1, Sides DEF Down
    <3>2. il # 0
      BY <2>0, <3>1, Inside
    <3>3. CASE 2 * inc >= il
      <4>1. pc' = "bisect" /\ il' = -1
        BY <1>6, <2>1, <3>3 DEF Down
      <4>2. Past(-1)
        BY DEF Past
      <4>3. Types' /\ InOrder'
        BY <2>0, <3>1, <4>1, <1>0, SameTable DEF Types
      <4>4. Bounds'
        BY <2>0, <3>1, <4>1, <4>2, <1>0, SameTable DEF Bounds
      <4> QED
        BY <4>1, <4>3, <4>4 DEF Result
    <3>4. CASE ~(2 * inc >= il)
      <4>1. pc' = "down" /\ il' = il - 2 * inc
        BY <1>6, <2>1, <3>4 DEF Down
      <4>2. inc >= 1
        BY <1>0, <1>6 DEF Down, Types, Bounds
      <4>3. Types' /\ InOrder'
        BY <2>0, <3>1, <4>1, <1>0, SameTable DEF Types
      <4>4. Bounds'
        BY <2>0, <3>1, <3>4, <4>1, <4>2, <1>0, SameTable DEF Bounds
      <4> QED
        BY <4>1, <4>3, <4>4 DEF Result
    <3> QED
      BY <3>3, <3>4
  <2>2. CASE ~AtOrBefore(il)
    <3>1. pc' = "bisect" /\ il' = il /\ iu' = iu /\ inc' = inc /\ Past(il)
      BY <1>6, <2>0, <2>2, Sides DEF Down
    <3>2. Types' /\ InOrder'
      BY <2>0, <3>1, <1>0, SameTable DEF Types
    <3>3. Bounds'
      BY <2>0, <3>1, <1>0, SameTable DEF Bounds
    <3> QED
      BY <3>1, <3>2, <3>3 DEF Result
  <2> QED
    BY <2>1, <2>2
<1>7. CASE Bisect
  <2> DEFINE im == (iu + il) \div 2
  <2>0. /\ UNCHANGED table /\ pc' = pc /\ pc = "bisect" /\ dx' = dx /\ inc' = inc
        /\ Within /\ iu - il > 1 /\ Past(il) /\ NotPast(iu)
    BY <1>7 DEF Bisect, Bounds
  <2>1. il >= -1 /\ iu <= n
    BY <2>0, <1>0 DEF Past, NotPast
  <2>2. im \in Int /\ il < im /\ im < iu /\ im \in 0 .. n - 1
    BY <2>0, <2>1, <1>0
  <2>3. IF AtOrPast(im) THEN il' = im /\ iu' = iu ELSE iu' = im /\ il' = il
    BY <1>7 DEF Bisect
  <2> HIDE DEF im
  <2>4. CASE AtOrPast(im)
    <3>1. il' = im /\ iu' = iu /\ Past(im)
      BY <2>2, <2>3, <2>4, Sides
    <3>2. Types' /\ InOrder'
      BY <2>0, <2>2, <3>1, <1>0, SameTable DEF Types
    <3>3. Bounds'
      BY <2>0, <2>2, <3>1, <1>0, SameTable DEF Bounds
    <3> QED
      BY <2>0, <3>2, <3>3 DEF Result
  <2>5. CASE ~AtOrPast(im)
    <3>1. il' = il /\ iu' = im /\ NotPast(im)
      BY <2>2, <2>3, <2>5, Sides
    <3>2. Types' /\ InOrder'
      BY <2>0, <2>2, <3>1, <1>0, SameTable DEF Types
    <3>3. Bounds'
      BY <2>0, <2>2, <3>1, <1>0, SameTable DEF Bounds
    <3> QED
      BY <2>0, <3>2, <3>3 DEF Result
  <2> QED
    BY <2>4, <2>5
<1>8. CASE Found
  <2>0. /\ UNCHANGED table /\ pc' = "done" /\ il' = il /\ dx' = il /\ iu' = 0 /\ inc' = 0
        /\ Within /\ iu - il <= 1 /\ il < iu /\ Past(il) /\ NotPast(iu)
    BY <1>8 DEF Found, Return, Bounds
  <2>1. iu = il + 1
    BY <2>0, <1>0
  <2>2. il # -1 /\ iu # n
    <3>1. il = -1 => NotPast(0)
      BY <2>0, <2>1, <1>0
    <3>2. iu = n => Past(n - 1)
      BY <2>0, <2>1, <1>0
    <3> QED
      BY <2>0, <3>1, <3>2, Inside
  <2>3. il \in 0 .. n - 2
    BY <2>0, <2>1, <2>2, <1>0 DEF Past, NotPast
  <2>4. Types' /\ InOrder'
    BY <2>0, <1>0, SameTable DEF Types
  <2>5. Result'
    BY <2>0, <2>1, <2>3, <1>0, SameTable DEF Result
  <2> QED
    BY <2>0, <2>4, <2>5 DEF Bounds
<1>9. CASE NextSearch
  <2>1. pc' = "hunt" /\ n' = n /\ ascend' = ascend /\ cmp' \in Comparisons(n, ascend)
        /\ dx' = -1 /\ il' = il /\ iu' = iu /\ inc' = inc
    BY <1>9 DEF NextSearch, Goto
  <2>2. cmp' \in [0 .. n - 1 -> {-1, 0, 1}] /\ InOrder'
    BY <2>1, <1>0, ComparisonsInOrder DEF Types, InOrder
  <2>3. Types'
    BY <2>1, <2>2, <1>0 DEF Types
  <2> QED
    BY <2>1, <2>2, <2>3 DEF Bounds, Result
<1>10. CASE UNCHANGED vars
  BY <1>10 DEF vars, table, Types, InOrder, Bounds, Result, Within, BelowTable, AboveTable, Past, NotPast
<1> QED
  BY <1>1, <1>2, <1>3, <1>4, <1>5, <1>6, <1>7, <1>8, <1>9, <1>10 DEF Next, Search

LEMMA Invariance == Spec => []IInv
  BY InitInv, NextInv, PTL DEF Spec

LEMMA InvTypeOK == IInv => TypeOK
<1> SUFFICES ASSUME IInv PROVE TypeOK
  OBVIOUS
<1>1. n \in Int /\ n >= 2 /\ Types
  BY PlacesAssumption DEF IInv, Types
<1>2. pc \in {"up", "down", "bisect"} => il \in -1 .. n - 1 /\ iu \in 0 .. n
  BY <1>1 DEF IInv, Types, Bounds, Past, NotPast
<1> QED
  BY <1>1, <1>2 DEF TypeOK, Types

LEMMA InvReadsInTable == IInv => ReadsInTable
<1> SUFFICES ASSUME IInv PROVE ReadsInTable
  OBVIOUS
<1>1. n \in Int /\ n >= 2 /\ il \in Int /\ iu \in Int /\ iu >= 0
  BY PlacesAssumption DEF IInv, Types
<1>2. pc = "up" => iu \in 0 .. n - 1
  BY <1>1 DEF IInv, Bounds
<1>3. pc = "down" => il \in 0 .. n - 1
  BY <1>1 DEF IInv, Bounds, NotPast
<1>4. pc = "bisect" => il >= -1 /\ iu <= n
  BY <1>1 DEF IInv, Bounds, Past, NotPast
<1>5. pc = "bisect" /\ iu - il > 1 => (iu + il) \div 2 \in 0 .. n - 1
  BY <1>1, <1>4
<1>6. pc = "done" => il \in 0 .. n - 2
  BY DEF IInv, Result
<1> QED
  BY <1>2, <1>3, <1>5, <1>6 DEF ReadsInTable

LEMMA InvBracketed == IInv => Bracketed
<1> SUFFICES ASSUME IInv, pc = "done"
             PROVE  IF ascend THEN (il > 0 => cmp[il] >= 0) /\ (il < n - 2 => cmp[il + 1] <= 0)
                              ELSE (il > 0 => cmp[il] <= 0) /\ (il < n - 2 => cmp[il + 1] >= 0)
  BY DEF Bracketed
<1>1. n \in Int /\ n >= 2 /\ il \in 0 .. n - 2
  BY PlacesAssumption DEF IInv, Types, Result
<1>2. (il > 0 => Past(il)) /\ (il < n - 2 => NotPast(il + 1))
  BY DEF IInv, Result
<1> QED
  BY <1>1, <1>2 DEF Past, NotPast

-----------------------------------------------------------------------------

(* Every search in a table of any size keeps its bounds within it. *)
THEOREM TypeCorrect == Spec => []TypeOK
  BY Invariance, InvTypeOK, PTL

(* No search reads outside a table of any size, from the guess a caller     *)
(* starts with or the place found before.                                   *)
THEOREM InTable == Spec => []ReadsInTable
  BY Invariance, InvReadsInTable, PTL

(* What a search in a table of any size returns is the interval x is in. *)
THEOREM RightInterval == Spec => []Bracketed
  BY Invariance, InvBracketed, PTL

(* No search returns without having set *dx. *)
THEOREM WidthKnown == Spec => []WidthSet
<1>1. IInv => WidthSet
  BY DEF IInv, Result, WidthSet
<1> QED
  BY <1>1, Invariance, PTL

-----------------------------------------------------------------------------

(* What a search has left to do: to hunt, at most over the table, and to     *)
(* bisect what lies between its bounds.                                      *)
Left ==
  CASE pc \in {"find", "hunt"} -> 2 * n + 3
    [] pc = "up"               -> (n + 1) + (n - iu)
    [] pc = "down"             -> (n + 1) + (il + 1)
    [] pc = "bisect"           -> iu - il
    [] pc = "done"             -> 0

(* The guards of Search. *)
CanSearch ==
  \/ pc \in {"find", "hunt"} /\ (BelowTable \/ AboveTable)
  \/ pc = "find" /\ Within
  \/ pc = "hunt" /\ Within /\ (il <= -1 \/ il > n - 1 \/ il \in 0 .. n - 1)
  \/ pc \in {"up", "down", "bisect"}

(* A search under way can go on, and has something left; one that returned   *)
(* has not.                                                                  *)
Running == IF pc = "done" THEN Left = 0 ELSE CanSearch /\ Left \in 1 .. 2 * MaxN + 3

LeftByStage ==
  /\ pc \in {"find", "hunt"} => Left = 2 * n + 3
  /\ pc = "up" => Left = (n + 1) + (n - iu)
  /\ pc = "down" => Left = (n + 1) + (il + 1)
  /\ pc = "bisect" => Left = iu - il
  /\ pc = "done" => Left = 0

LEMMA LeftIs == LeftByStage
<1>1. CASE pc \in {"find", "hunt"}
  BY <1>1 DEF Left, LeftByStage
<1>2. CASE pc = "up"
  BY <1>2 DEF Left, LeftByStage
<1>3. CASE pc = "down"
  BY <1>3 DEF Left, LeftByStage
<1>4. CASE pc = "bisect"
  BY <1>4 DEF Left, LeftByStage
<1>5. CASE pc = "done"
  BY <1>5 DEF Left, LeftByStage
<1> QED
  BY <1>1, <1>2, <1>3, <1>4, <1>5 DEF LeftByStage

(* The bounds of a search as numbers. *)
LEMMA Numbers ==
  IInv =>
    /\ n \in Int /\ n >= 2 /\ n <= MaxN /\ MaxN \in Int
    /\ il \in Int /\ iu \in Int /\ inc \in Int
    /\ pc \in {"find", "hunt", "up", "down", "bisect", "done"}
    /\ pc = "up" => il >= 0 /\ il < iu /\ iu <= n - 1 /\ inc >= 1
    /\ pc = "down" => il >= 0 /\ il < iu /\ iu <= n /\ inc >= 1
    /\ pc = "bisect" => il >= -1 /\ il < iu /\ iu <= n
<1> SUFFICES ASSUME IInv
             PROVE  /\ n \in Int /\ n >= 2 /\ n <= MaxN /\ MaxN \in Int
                    /\ il \in Int /\ iu \in Int /\ inc \in Int
                    /\ pc \in {"find", "hunt", "up", "down", "bisect", "done"}
                    /\ pc = "up" => il >= 0 /\ il < iu /\ iu <= n - 1 /\ inc >= 1
                    /\ pc = "down" => il >= 0 /\ il < iu /\ iu <= n /\ inc >= 1
                    /\ pc = "bisect" => il >= -1 /\ il < iu /\ iu <= n
  OBVIOUS
<1>1. /\ n \in Int /\ n >= 2 /\ n <= MaxN /\ MaxN \in Int
      /\ il \in Int /\ iu \in Int /\ inc \in Int
      /\ pc \in {"find", "hunt", "up", "down", "bisect", "done"}
  BY PlacesAssumption DEF IInv, Types
<1>2. pc = "up" => il >= 0 /\ il < iu /\ iu <= n - 1 /\ inc >= 1
  BY DEF IInv, Bounds
<1>3. pc = "down" => il >= 0 /\ il < iu /\ NotPast(iu) /\ inc >= 1
  BY DEF IInv, Bounds
<1>4. pc = "bisect" => il < iu /\ Past(il) /\ NotPast(iu)
  BY DEF IInv, Bounds
<1>5. NotPast(iu) => iu <= n
  BY <1>1 DEF NotPast
<1>6. Past(il) => il >= -1
  BY <1>1 DEF Past
<1> QED
  BY <1>1, <1>2, <1>3, <1>4, <1>5, <1>6

LEMMA GoesOn == IInv => Running
<1> SUFFICES ASSUME IInv PROVE Running
  OBVIOUS
<1>1. pc = "done" => Left = 0
  BY LeftIs DEF LeftByStage
<1>2. pc # "done" => CanSearch
  BY Numbers DEF CanSearch, Within
<1>3. pc # "done" => Left \in 1 .. 2 * MaxN + 3
  BY Numbers, LeftIs DEF LeftByStage
<1> QED
  BY <1>1, <1>2, <1>3 DEF Running

LEMMA SearchGetsOn == IInv /\ IInv' /\ Search => Left' < Left
<1> SUFFICES ASSUME IInv, IInv', Search PROVE Left' < Left
  OBVIOUS
<1>1. /\ n \in Int /\ n >= 2 /\ n <= MaxN /\ MaxN \in Int
      /\ il \in Int /\ iu \in Int /\ inc \in Int
      /\ pc = "up" => il >= 0 /\ il < iu /\ iu <= n - 1 /\ inc >= 1
      /\ pc = "down" => il >= 0 /\ il < iu /\ iu <= n /\ inc >= 1
      /\ pc = "bisect" => il >= -1 /\ il < iu /\ iu <= n
  BY Numbers
<1>2. /\ pc' \in {"find", "hunt"} => Left' = 2 * n' + 3
      /\ pc' = "up" => Left' = (n' + 1) + (n' - iu')
      /\ pc' = "down" => Left' = (n' + 1) + (il' + 1)
      /\ pc' = "bisect" => Left' = iu' - il'
      /\ pc' = "done" => Left' = 0
  <2>1. LeftByStage'
    BY LeftIs, PTL
  <2> QED
    BY <2>1 DEF LeftByStage
<1>3. pc # "done" => Left \in Int /\ Left >= 1
  BY GoesOn, <1>1 DEF Running
<1>4. CASE BeyondEnds \/ Found
  <2>1. pc' = "done" /\ pc # "done"
    BY <1>4 DEF BeyondEnds, Found, Return
  <2> QED
    BY <2>1, <1>2, <1>3
<1>5. CASE Find \/ HuntOffTable
  <2>1. pc \in {"find", "hunt"} /\ pc' = "bisect" /\ il' = -1 /\ iu' = n
    BY <1>5 DEF Find, HuntOffTable, Goto, BisectAll
  <2>2. Left = 2 * n + 3
    BY <2>1, LeftIs DEF LeftByStage
  <2> QED
    BY <2>1, <2>2, <1>1, <1>2
<1>6. CASE HuntUp
  <2>1. pc = "hunt" /\ il \in 0 .. n - 1 /\ n' = n
    BY <1>6 DEF HuntUp, table
  <2>2. Left = 2 * n + 3
    BY <2>1, LeftIs DEF LeftByStage
  <2>3. CASE il = n - 1
    <3>1. pc' = "done"
      BY <1>6, <2>3 DEF HuntUp
    <3> QED
      BY <3>1, <2>1, <1>2, <1>3
  <2>4. CASE il # n - 1
    <3>1. pc' = "up" /\ iu' = il + 1
      BY <1>6, <2>4 DEF HuntUp
    <3> QED
      BY <3>1, <2>1, <2>2, <1>1, <1>2
  <2> QED
    BY <2>3, <2>4
<1>7. CASE HuntDown
  <2>1. pc = "hunt" /\ il \in 0 .. n - 1 /\ n' = n
    BY <1>7 DEF HuntDown, table
  <2>2. Left = 2 * n + 3
    BY <2>1, LeftIs DEF LeftByStage
  <2>3. CASE il = 0
    <3>1. pc' = "done"
      BY <1>7, <2>3 DEF HuntDown
    <3> QED
      BY <3>1, <2>1, <1>2, <1>3
  <2>4. CASE il # 0
    <3>1. pc' = "down" /\ il' = il - 1
      BY <1>7, <2>4 DEF HuntDown
    <3> QED
      BY <3>1, <2>1, <2>2, <1>1, <1>2
  <2> QED
    BY <2>3, <2>4
<1>8. CASE Up
  <2>1. pc = "up" /\ n' = n /\ Left = (n + 1) + (n - iu)
    BY <1>8, LeftIs DEF LeftByStage, Up, table
  <2>2. \/ pc' = "bisect" /\ il' = iu /\ iu' = n
        \/ pc' = "up" /\ iu' = iu + 2 * inc
        \/ pc' = "bisect" /\ il' = il /\ iu' = iu
    BY <1>8 DEF Up
  <2> QED
    BY <2>1, <2>2, <1>1, <1>2
<1>9. CASE Down
  <2>1. pc = "down" /\ n' = n /\ Left = (n + 1) + (il + 1)
    BY <1>9, LeftIs DEF LeftByStage, Down, table
  <2>2. \/ pc' = "bisect" /\ il' = -1 /\ iu' = il
        \/ pc' = "down" /\ il' = il - 2 * inc
        \/ pc' = "bisect" /\ il' = il /\ iu' = iu
    BY <1>9 DEF Down
  <2> QED
    BY <2>1, <2>2, <1>1, <1>2
<1>10. CASE Bisect
  <2> DEFINE im == (iu + il) \div 2
  <2>1. pc = "bisect" /\ pc' = "bisect" /\ iu - il > 1 /\ Left = iu - il
    BY <1>10, LeftIs DEF LeftByStage, Bisect
  <2>2. \/ il' = im /\ iu' = iu
        \/ il' = il /\ iu' = im
    BY <1>10 DEF Bisect
  <2>3. im \in Int /\ il < im /\ im < iu
    BY <2>1, <1>1
  <2> HIDE DEF im
  <2> QED
    BY <2>1, <2>2, <2>3, <1>1, <1>2
<1> QED
  BY <1>4, <1>5, <1>6, <1>7, <1>8, <1>9, <1>10 DEF Search

(* A search of a table of any size that has not returned can go on, from     *)
(* whatever guess, and each of its steps leaves less to do: what it has left *)
(* is never more than 2 * MaxN + 3 and never negative.  So no hunt goes      *)
(* round in circles and no bisection keeps its middle; that the steps are    *)
(* taken is the fairness of SearchEnds.                                      *)
THEOREM SearchLeads == Spec => /\ []Running
                               /\ [][Search => Left' < Left]_vars
<1>1. IInv /\ [Next]_vars => [Search => Left' < Left]_vars
  BY NextInv, SearchGetsOn
<1> QED
  BY <1>1, Invariance, GoesOn, PTL DEF Spec

=============================================================================

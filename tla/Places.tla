------------------------------- MODULE Places -------------------------------
(***************************************************************************)
(* find_place_in_table() and hunt_place_in_table()                         *)
(* (core/epic_funcs_util.c): in which interval of a table is x?  The one   *)
(* bisects, the other first hunts from the place it found before, which    *)
(* its callers keep (mu_p(), the set-up of grids and fields); before the   *)
(* first search of a table they set it to -2.  Of x and the table only     *)
(* the results of fcmp(x,table[i].x) matter; x may equal an entry.         *)
(***************************************************************************)
EXTENDS Integers

CONSTANT MaxN  \* bound: entries of a table

ASSUME PlacesAssumption == MaxN \in Nat \ {0, 1}

VARIABLES
  pc,
  n, ascend,    \* entries of the table, and whether they ascend
  cmp,          \* cmp[i] is fcmp(x,table[i].x)
  il, iu, inc,
  dx            \* the interval whose width *dx holds

table == <<n, ascend, cmp>>
vars  == <<pc, table, il, iu, inc, dx>>

Sign(d) == IF d > 0 THEN 1 ELSE IF d < 0 THEN -1 ELSE 0

(* x compared with the entries of a sorted table: it is in place p, where the *)
(* entries have the even places and the gaps between them the odd ones.       *)
Comparisons(size, up) ==
  {[i \in 0 .. size - 1 |-> Sign(IF up THEN p - 2 * i ELSE 2 * i - p)] : p \in -1 .. 2 * size - 1}

Init ==
  /\ pc \in {"find", "hunt"}
  /\ n \in 2 .. MaxN /\ ascend \in BOOLEAN /\ cmp \in Comparisons(n, ascend)
  /\ il = -2
  /\ iu = 0 /\ inc = 0 /\ dx = -1

Goto(here, there) == pc = here /\ pc' = there

AtOrPast_Ascending(i) == cmp[i] >= 0  \* variant: every table ascends

(* The conditions of the loops, (fcmp(x,table[i].x) >= 0) == ascend and the *)
(* same with <=.                                                            *)
AtOrPast(i) == (cmp[i] >= 0) = ascend

AtOrBefore(i) == (cmp[i] <= 0) = ascend

BelowTable_Strict == IF ascend THEN cmp[0] < 0 ELSE cmp[0] > 0  \* variant

BelowTable == IF ascend THEN cmp[0] <= 0 ELSE cmp[0] >= 0

AboveTable == IF ascend THEN cmp[n - 1] >= 0 ELSE cmp[n - 1] <= 0

Within == ~BelowTable /\ ~AboveTable

Return(i) == pc' = "done" /\ il' = i /\ dx' = i /\ iu' = 0 /\ inc' = 0 /\ UNCHANGED table

(* x at or beyond an end of the table belongs to the first or last interval. *)
BeyondEnds ==
  /\ pc \in {"find", "hunt"}
  /\ \/ BelowTable /\ Return(0)
     \/ ~BelowTable /\ AboveTable /\ Return(n - 2)

BisectAll_PastEnd == il' = -1 /\ iu' = n + 1  \* variant

BisectAll == il' = -1 /\ iu' = n

Find == Goto("find", "bisect") /\ Within /\ BisectAll /\ UNCHANGED <<table, inc, dx>>

HuntOffTable ==
  /\ Goto("hunt", "bisect") /\ Within
  /\ il <= -1 \/ il > n - 1
  /\ BisectAll
  /\ UNCHANGED <<table, inc, dx>>

(* The early return does not set *dx. *)
HuntUp ==
  /\ pc = "hunt" /\ Within /\ il \in 0 .. n - 1
  /\ AtOrPast(il)
  /\ IF il = n - 1 THEN pc' = "done" /\ il' = n - 2 /\ UNCHANGED <<iu, inc>>
                   ELSE pc' = "up" /\ iu' = il + 1 /\ inc' = 1 /\ UNCHANGED il
  /\ UNCHANGED <<table, dx>>

HuntDown ==
  /\ pc = "hunt" /\ Within /\ il \in 0 .. n - 1
  /\ ~AtOrPast(il)
  /\ IF il = 0 THEN pc' = "done" /\ UNCHANGED <<il, iu, inc>>
               ELSE pc' = "down" /\ iu' = il /\ il' = il - 1 /\ inc' = 1
  /\ UNCHANGED <<table, dx>>

Up_PastEnd ==  \* variant: the end of the table is passed by one
  /\ pc = "up"
  /\ IF AtOrPast(iu)
       THEN /\ il' = iu /\ inc' = 2 * inc
            /\ IF iu + 2 * inc > n THEN pc' = "bisect" /\ iu' = n
                                   ELSE pc' = "up" /\ iu' = iu + 2 * inc
       ELSE pc' = "bisect" /\ UNCHANGED <<il, iu, inc>>
  /\ UNCHANGED <<table, dx>>

(* Not done hunting: double the increment, or fall off the end. *)
Up ==
  /\ pc = "up"
  /\ IF AtOrPast(iu)
       THEN /\ il' = iu /\ inc' = 2 * inc
            /\ IF iu + 2 * inc > n - 1 THEN pc' = "bisect" /\ iu' = n
                                       ELSE pc' = "up" /\ iu' = iu + 2 * inc
       ELSE pc' = "bisect" /\ UNCHANGED <<il, iu, inc>>
  /\ UNCHANGED <<table, dx>>

Down ==
  /\ pc = "down"
  /\ IF AtOrBefore(il)
       THEN /\ iu' = il /\ inc' = 2 * inc
            /\ IF 2 * inc >= il THEN pc' = "bisect" /\ il' = -1
                                ELSE pc' = "down" /\ il' = il - 2 * inc
       ELSE pc' = "bisect" /\ UNCHANGED <<il, iu, inc>>
  /\ UNCHANGED <<table, dx>>

Bisect_KeepsMiddle ==  \* variant: the middle stays in the upper half
  /\ pc = "bisect"
  /\ iu - il > 1
  /\ LET im == (iu + il) \div 2
     IN  IF AtOrPast(im) THEN il' = im /\ UNCHANGED iu ELSE iu' = im + 1 /\ UNCHANGED il
  /\ UNCHANGED <<pc, table, inc, dx>>

Bisect ==
  /\ pc = "bisect"
  /\ iu - il > 1
  /\ LET im == (iu + il) \div 2
     IN  IF AtOrPast(im) THEN il' = im /\ UNCHANGED iu ELSE iu' = im /\ UNCHANGED il
  /\ UNCHANGED <<pc, table, inc, dx>>

Found == pc = "bisect" /\ iu - il <= 1 /\ Return(il)

(* The next search of the table hunts from the place found for another x. *)
NextSearch ==
  /\ Goto("done", "hunt")
  /\ cmp' \in Comparisons(n, ascend)
  /\ dx' = -1
  /\ UNCHANGED <<n, ascend, il, iu, inc>>

Search == BeyondEnds \/ Find \/ HuntOffTable \/ HuntUp \/ HuntDown \/ Up \/ Down \/ Bisect \/ Found

Next == Search \/ NextSearch

Spec == Init /\ [][Next]_vars

(* A function that is called runs on. *)
FairSpec == Spec /\ WF_vars(Search)

-----------------------------------------------------------------------------

(* Every variable has its type; a search under way keeps its bounds on the *)
(* table or next to it.                                                    *)
TypeOK ==
  /\ pc \in {"find", "hunt", "up", "down", "bisect", "done"}
  /\ n \in 2 .. MaxN /\ ascend \in BOOLEAN
  /\ cmp \in [0 .. n - 1 -> {-1, 0, 1}]
  /\ {il, dx} \subseteq Int /\ {iu, inc} \subseteq Nat
  /\ pc \in {"up", "down", "bisect"} => il \in -1 .. n - 1 /\ iu \in 0 .. n

(* No search reads outside the table, whatever the guess: neither the entries *)
(* it compares x with nor, when it returns, the two ends of the interval.     *)
ReadsInTable ==
  /\ pc = "up" => iu \in 0 .. n - 1
  /\ pc = "down" => il \in 0 .. n - 1
  /\ pc = "bisect" /\ iu - il > 1 => (iu + il) \div 2 \in 0 .. n - 1
  /\ pc = "done" => il \in 0 .. n - 2

(* The interval a search returns is the one x is in, or the one next to it at *)
(* an end of the table; a hunt finds the same from every guess, unless x is   *)
(* an entry.                                                                  *)
Bracketed ==
  pc = "done" =>
    IF ascend THEN (il > 0 => cmp[il] >= 0) /\ (il < n - 2 => cmp[il + 1] <= 0)
              ELSE (il > 0 => cmp[il] <= 0) /\ (il < n - 2 => cmp[il + 1] >= 0)

(* A search that returns has set *dx, to the width of the interval it       *)
(* returns: the two returns of hunt_place_in_table() that leave it as it is *)
(* are never taken.                                                         *)
WidthSet == pc = "done" => dx = il

(* Every search ends. *)
SearchEnds == pc \in {"find", "hunt"} ~> pc = "done"

=============================================================================

------------------------------- MODULE Qsort -------------------------------
(***************************************************************************)
(* sort of gcc/qsort.c: quicksort with an explicit stack and insertion     *)
(* sort for what is short.  A pointer p into the array is the number p of  *)
(* the element before it, so that p[-1] is a[p], the array a[1 .. n].      *)
(***************************************************************************)
EXTENDS Integers, Sequences, FiniteSets, Powers

CONSTANTS
  Threshold,   \* INSERTION_THRESHOLD
  MaxN,        \* bound: elements,
  Elements     \* and their values

\* Choosing the partitioning element takes three.
ASSUME QsortAssumption == Threshold \in Nat /\ Threshold >= 2 /\ MaxN \in Nat /\ Elements \subseteq Int

VARIABLES
  a,            \* the array
  a0,           \* history: the array at the beginning
  l, ir,        \* the subarray in hand, l .. ir
  up, down,     \* the scans i and j
  pivot,        \* the partitioning element, a in the code
  stackp,       \* the subarrays put off
  qpc           \* "round", "up", "down", "exchange", "insert", "sorted"

qsortVars == <<a, a0, l, ir, up, down, pivot, stackp, qpc>>

Occurs(s, x) == Cardinality({k \in DOMAIN s : s[k] = x})

Inputs == UNION {[1 .. n -> Elements] : n \in 0 .. MaxN}

QsortInit ==
  /\ a \in Inputs
  /\ a0 = a
  /\ l = 1 /\ ir = Len(a) /\ up = 0 /\ down = 0 /\ pivot = 0
  /\ stackp = <<>> /\ qpc = "round"

Swap(s, x, y) == [s EXCEPT ![x] = s[y], ![y] = s[x]]
SwapIfGreater(s, x, y) == IF s[x] > s[y] THEN Swap(s, x, y) ELSE s

\* A short subarray.
Short ==
  /\ qpc = "round" /\ ir - l < Threshold
  /\ qpc' = "insert" /\ up' = l + 1
  /\ UNCHANGED <<a, a0, l, ir, down, pivot, stackp>>

\* One round of insertion_sort: a[up] moves before the greater elements.
insertion_sort ==
  /\ qpc = "insert" /\ up <= ir
  /\ LET at == CHOOSE p \in l .. up :
                 /\ \A k \in p .. up - 1 : a[up] < a[k]
                 /\ p > l => a[up] >= a[p - 1]
     IN a' = [k \in DOMAIN a |-> IF k = at THEN a[up]
                                 ELSE IF k \in at + 1 .. up THEN a[k - 1] ELSE a[k]]
  /\ up' = up + 1
  /\ UNCHANGED <<a0, l, ir, down, pivot, stackp, qpc>>

Pop ==
  /\ qpc = "insert" /\ up > ir
  /\ IF stackp = <<>> THEN qpc' = "sorted" /\ UNCHANGED <<l, ir, stackp>>
     ELSE /\ l' = Head(stackp)[1] /\ ir' = Head(stackp)[2] /\ stackp' = Tail(stackp)
          /\ qpc' = "round"
  /\ UNCHANGED <<a, a0, up, down, pivot>>

\* The median of three elements comes to l + 1.
Choose ==
  /\ qpc = "round" /\ ir - l >= Threshold
  /\ LET s0 == Swap(a, (l + ir) \div 2, l + 1)
         s1 == SwapIfGreater(s0, l, ir)
         s2 == SwapIfGreater(s1, l + 1, ir)
     IN a' = SwapIfGreater(s2, l, l + 1)
  /\ pivot' = a'[l + 1]
  /\ up' = l + 1 /\ down' = ir /\ qpc' = "up"
  /\ UNCHANGED <<a0, l, ir, stackp>>

ScanUp ==
  /\ qpc = "up"
  /\ up' = up + 1
  /\ qpc' = IF a[up'] < pivot THEN "up" ELSE "down"
  /\ UNCHANGED <<a, a0, l, ir, down, pivot, stackp>>

ScanDown ==
  /\ qpc = "down"
  /\ down' = down - 1
  /\ qpc' = IF a[down'] > pivot THEN "down" ELSE "exchange"
  /\ UNCHANGED <<a, a0, l, ir, up, pivot, stackp>>

Exchange ==
  /\ qpc = "exchange" /\ down >= up
  /\ a' = Swap(a, up, down)
  /\ qpc' = "up"
  /\ UNCHANGED <<a0, l, ir, up, down, pivot, stackp>>

\* Mutant: the larger part is taken first.
PutOff_smaller ==
  IF ir - up + 1 < down - l
  THEN stackp' = <<<<up, ir>>>> \o stackp /\ ir' = down - 1 /\ UNCHANGED l
  ELSE stackp' = <<<<l, down - 1>>>> \o stackp /\ l' = up /\ UNCHANGED ir

\* The larger part is put off.
PutOff ==
  IF ir - up + 1 >= down - l
  THEN stackp' = <<<<up, ir>>>> \o stackp /\ ir' = down - 1 /\ UNCHANGED l
  ELSE stackp' = <<<<l, down - 1>>>> \o stackp /\ l' = up /\ UNCHANGED ir

Divide ==
  /\ qpc = "exchange" /\ down < up
  /\ a' = [a EXCEPT ![l + 1] = a[down], ![down] = pivot]
  /\ PutOff
  /\ qpc' = "round"
  /\ UNCHANGED <<a0, up, down, pivot>>

QsortNext ==
  \/ Short \/ insertion_sort \/ Pop
  \/ Choose \/ ScanUp \/ ScanDown \/ Exchange \/ Divide

QsortSpec == QsortInit /\ [][QsortNext]_qsortVars

------------------------------------------------------------------------------
(* Properties. *)

\* The subarrays still to be sorted.
Parts == {<<l, ir>>} \cup {stackp[k] : k \in DOMAIN stackp}

Together(j, k) == \E q \in Parts : j \in q[1] .. q[2] /\ k \in q[1] .. q[2]

\* The scans, which look at no bound, stop inside the subarray.
ScansStop == (qpc = "up" => up < ir) /\ (qpc = "down" => down > l)

\* What no subarray in hand or put off holds together is in order.
PartsInOrder == \A j, k \in DOMAIN a : j < k /\ ~Together(j, k) => a[j] <= a[k]

\* No element is lost or doubled.
SameElements == \A x \in Elements : Occurs(a, x) = Occurs(a0, x)

\* Every subarray put off halves what is in hand at least: the fixed stack is
\* large enough.
StackFits == (ir - l + 1) * Pow2[Len(stackp)] <= Len(a)

\* sort sorts, without leaving the subarray or the stack on the way.
SortsInPlace ==
  /\ ScansStop /\ PartsInOrder /\ SameElements /\ StackFits
  /\ qpc = "sorted" => \A j, k \in DOMAIN a : j < k => a[j] <= a[k]
=============================================================================

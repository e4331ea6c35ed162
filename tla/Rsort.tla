------------------------------- MODULE Rsort -------------------------------
(***************************************************************************)
(* sort of gcc/rsort.c: radix sort, the lowest digit first, between the    *)
(* array and a scratch array, which change roles after each pass.          *)
(***************************************************************************)
EXTENDS Integers, Sequences, FiniteSets, Powers

CONSTANTS
  LogBase,     \* LOG_BASE: bits of a digit
  IntBits,     \* bits of an unsigned int
  MaxKeys,     \* bound: elements,
  KeyValues    \* and their values

\* After an even number of passes the array is where it was.  After an odd
\* number memcpy(arr, scratch, ...) would copy the wrong way.
ASSUME RsortAssumption ==
  /\ LogBase \in Nat \ {0} /\ IntBits \in Nat /\ IntBits % (2 * LogBase) = 0
  /\ MaxKeys \in Nat /\ KeyValues \subseteq 0 .. Pow2[IntBits] - 1

VARIABLES
  arr, scratch,
  unsorted,     \* history: the array at the beginning
  log_exp,      \* bits already sorted by
  bucket, b,    \* and the next bucket to add to
  p,            \* the element to be placed next
  ppc           \* "pass", "count", "place", "printed"

rsortVars == <<arr, scratch, unsorted, log_exp, bucket, b, p, ppc>>

BaseR == Pow2[LogBase]
Digit(x) == (x \div Pow2[log_exp]) % BaseR

RsortInit ==
  /\ arr \in UNION {[1 .. n -> KeyValues] : n \in 0 .. MaxKeys}
  /\ unsorted = arr
  /\ scratch = [k \in DOMAIN arr |-> 0]
  /\ log_exp = 0 /\ bucket = [d \in 0 .. BaseR - 1 |-> 0] /\ b = 1 /\ p = 0 /\ ppc = "pass"

\* Occurrences of each digit.
Count ==
  /\ ppc = "pass" /\ log_exp < IntBits
  /\ bucket' = [d \in DOMAIN bucket |-> Cardinality({k \in DOMAIN arr : Digit(arr[k]) = d})]
  /\ b' = 1 /\ ppc' = "count"
  /\ UNCHANGED <<arr, scratch, unsorted, log_exp, p>>

\* Each bucket gets where it ends in the scratch array.
Accumulate ==
  /\ ppc = "count" /\ b < BaseR
  /\ bucket' = [bucket EXCEPT ![b] = @ + bucket[b - 1]]
  /\ b' = b + 1
  /\ UNCHANGED <<arr, scratch, unsorted, log_exp, p, ppc>>

StartPlacing ==
  /\ ppc = "count" /\ b = BaseR
  /\ p' = Len(arr) /\ ppc' = "place"
  /\ UNCHANGED <<arr, scratch, unsorted, log_exp, bucket, b>>

\* Mutant: from the front.
Place_forward ==
  /\ ppc = "place" /\ p > 0
  /\ LET x == arr[Len(arr) + 1 - p]
     IN /\ scratch' = [scratch EXCEPT ![bucket[Digit(x)]] = x]
        /\ bucket' = [bucket EXCEPT ![Digit(x)] = @ - 1]
  /\ p' = p - 1
  /\ UNCHANGED <<arr, unsorted, log_exp, b, ppc>>

\* From the last element on, into its bucket from the end.
Place ==
  /\ ppc = "place" /\ p > 0
  /\ LET x == arr[p]
     IN /\ scratch' = [scratch EXCEPT ![bucket[Digit(x)]] = x]
        /\ bucket' = [bucket EXCEPT ![Digit(x)] = @ - 1]
  /\ p' = p - 1
  /\ UNCHANGED <<arr, unsorted, log_exp, b, ppc>>

EndPass ==
  /\ ppc = "place" /\ p = 0
  /\ arr' = scratch /\ scratch' = arr
  /\ log_exp' = log_exp + LogBase
  /\ ppc' = "pass"
  /\ UNCHANGED <<unsorted, bucket, b, p>>

Show ==
  /\ ppc = "pass" /\ log_exp = IntBits
  /\ ppc' = "printed"
  /\ UNCHANGED <<arr, scratch, unsorted, log_exp, bucket, b, p>>

RsortNext == Count \/ Accumulate \/ StartPlacing \/ Place \/ EndPass \/ Show

RsortSpec == RsortInit /\ [][RsortNext]_rsortVars

------------------------------------------------------------------------------
(* Properties. *)

\* Between two passes the array has its elements, in the order of the bits
\* sorted by so far, although a pass looks at one digit only; it is sorted in
\* the end; and no pass writes in front of a bucket.
PassesSort ==
  /\ ppc \in {"pass", "printed"} =>
       /\ \A k \in 1 .. Len(arr) - 1 : arr[k] % Pow2[log_exp] <= arr[k + 1] % Pow2[log_exp]
       /\ \A x \in KeyValues : Cardinality({k \in DOMAIN arr : arr[k] = x})
                              = Cardinality({k \in DOMAIN unsorted : unsorted[k] = x})
  /\ ppc = "printed" => \A k \in 1 .. Len(arr) - 1 : arr[k] <= arr[k + 1]
  /\ ppc = "place" /\ p > 0 => bucket[Digit(arr[p])] \in DOMAIN arr
=============================================================================

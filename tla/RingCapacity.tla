----------------------------- MODULE RingCapacity -----------------------------
(***************************************************************************)
(* The constructor of cache::ringqueue rounds the capacity asked for up to *)
(* a power of two, on unsigned integers of Width bits (64 in the build):   *)
(* capacityMask_ is spread to the right by doubling shifts, and a counter  *)
(* that grows for ever is turned into a cell by `& capacityMask_`.         *)
(* RingQueue.tla takes for granted what is checked here: that the mask is  *)
(* the remainder by the capacity.                                          *)
(*                                                                         *)
(* The operators of C++ on bits are functions that recur over the number   *)
(* of bits to look at, lowest first; the proofs of RingQueueProofs reason  *)
(* about them, which they cannot about the RECURSIVE ones of Bitwise.      *)
(***************************************************************************)
EXTENDS Integers, FiniteSets

CONSTANT Width      \* bits of size_t and of a pointer

Pow2[n \in Nat] == IF n = 0 THEN 1 ELSE 2 * Pow2[n - 1]
ASSUME WidthAssumption == \E n \in 0 .. 6 : Width = Pow2[n]

Sizes == 0 .. Pow2[Width] - 1       \* the values of a size_t

AND == [x \in {0, 1} |-> [y \in {0, 1} |-> IF x = 1 THEN y ELSE 0]]
OR == [x \in {0, 1} |-> [y \in {0, 1} |-> IF x = 1 THEN 1 ELSE y]]
BitByBit(table) ==
  LET result[w \in Nat] ==
        [a \in Nat |-> [b \in Nat |->
           IF w = 0 THEN 0
           ELSE table[a % 2][b % 2] + 2 * result[w - 1][a \div 2][b \div 2]]]
  IN result
And(a, b) == BitByBit(AND)[Width][a][b]
Or(a, b) == BitByBit(OR)[Width][a][b]
shiftR(m, i) == m \div Pow2[i]

\* capacity - 1, which wraps when 0 is asked for
FirstMask_AsAsked(asked) == asked                           \* mutant
FirstMask(asked) == (asked - 1) % Pow2[Width]

\* i <= sizeof(void *) * 4, which is half of the width
Continues_Strictly(i) == i < Width \div 2                   \* mutant
Continues(i) == i <= Width \div 2

\* for (i = 1; Continues(i); i <<= 1): the mask after k rounds, and how many there are
Spread(asked) ==
  LET mask[k \in Nat] ==
        IF k = 0 THEN FirstMask(asked)
        ELSE Or(mask[k - 1], shiftR(mask[k - 1], Pow2[k - 1]))
  IN mask
Rounds == Cardinality({n \in 0 .. Width : Continues(Pow2[n])})
capacityMask(asked) == Spread(asked)[Rounds]
capacity(asked) == (capacityMask(asked) + 1) % Pow2[Width]

LeastPowerOfTwo(asked) ==
  LET fits == {n \in 0 .. Width - 1 : Pow2[n] >= asked}
  IN IF asked = 0 \/ fits = {} THEN 0 ELSE Pow2[CHOOSE n \in fits : \A k \in fits : n <= k]

-----------------------------------------------------------------------------
\* The capacity is the least power of two that holds what was asked for.  It
\* wraps to 0, and the queue has no cell, exactly when no power of two of the
\* type does, or when 0 was asked for.  Masking a counter is taking its
\* remainder, up to and across the wrap of the counter itself: push() and
\* pop() go through the cells in turn.
MaskFitsCapacity ==
  \A asked \in Sizes :
    LET c == capacity(asked)
        mask == capacityMask(asked)
    IN /\ c = LeastPowerOfTwo(asked)
       /\ c > 0 => \A i \in 0 .. 2 * c + 1 : \A n \in {i, Pow2[Width] - 1 - i} \cap Sizes :
                     And(n, mask) = n % c
===============================================================================

---------------------------- MODULE SubscribeFlags ----------------------------
(***************************************************************************)
(* The instrument types of a CustomSubscribe are or-ed into one unsigned   *)
(* integer (longfist/enums.h, SubscribeInstrumentType).                    *)
(***************************************************************************)
EXTENDS Integers, Bitwise

\* SubscribeInstrumentType
Flag == [All |-> 0, Stock |-> 1, Future |-> 2, Bond |-> 4, StockOption |-> 8,
         FutureOption |-> 16, Fund |-> 32, Index |-> 64, HKT |-> 128]

VARIABLES asked,   \* the enumerators a strategy has or-ed together
          mask     \* their value
vars == <<asked, mask>>

Init == asked = {} /\ mask = 0

Ask(f) ==
  /\ asked' = asked \cup {f}
  /\ mask' = mask | Flag[f]

Next == \E f \in DOMAIN Flag : Ask(f)
Spec == Init /\ [][Next]_vars

-----------------------------------------------------------------------------

\* The comment beside the enumerators: SubscribeInstrumentType(All | Stock) has
\* no enumerator but is no error, and has the value 3.
AllOrStockIsThree == asked = {"All", "Stock"} => mask = 3
===============================================================================

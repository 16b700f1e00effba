----------------------------- MODULE BasketOrders -----------------------------
(***************************************************************************)
(* The orders of one basket order as BasketOrderState keeps them           *)
(* (wingchun/basketorder/basketorder.h): a map from order id to the last   *)
(* update seen of it, from which is_all_order_end and                      *)
(* get_total_traded_volume are computed.  The trader goes on updating the  *)
(* orders on its own; the engine reads the updates of each order in their  *)
(* order, later, or skips to the last one when it restores from a bank.    *)
(***************************************************************************)
EXTENDS Integers, Sequences, FiniteSets, FiniteSetsExt

CONSTANTS Orders,     \* the orders the basket may be split into
          Volume      \* bound: the volume of each
ASSUME VolumeAssumption == Volume \in Nat \ {0}
ASSUME OrdersAssumption == IsFiniteSet(Orders)

VARIABLES
  written,    \* the updates of each order the trader has written
  seen        \* how many of them the engine has read; 0: not in its map
basket == <<written, seen>>

\* The statuses after which nothing is expected of an order
is_final_status_PartialToo(s) == s \notin {"Submitted", "Pending", "Unknown"}
is_final_status_LostIsOpen(s) ==
  s \notin {"Submitted", "Pending", "PartialFilledActive", "Unknown", "Lost"}
is_final_status(s) == s \notin {"Submitted", "Pending", "PartialFilledActive", "Unknown"}

\* BasketOrderState::orders
InMap == {o \in Orders : seen[o] > 0}
Kept(o) == written[o][seen[o]]

is_all_order_end == \A o \in InMap : is_final_status(Kept(o).status)

Traded(u) == Volume - u.volume_left
get_total_traded_volume == MapThenSumSet(LAMBDA o : Traded(Kept(o)), InMap)

BasketInit == written = [o \in Orders |-> <<>>] /\ seen = [o \in Orders |-> 0]

\* order_from_input: the first update of an order
Insert(o) ==
  /\ written[o] = <<>>
  /\ written' = [written EXCEPT ![o] = <<[status |-> "Pending", volume_left |-> Volume]>>]
  /\ UNCHANGED seen

\* What a trader reports after u: nothing once the order is at its end; trades
\* only lessen the volume left
Reported(u) ==
  LET at(s, left) == [status |-> s, volume_left |-> left]
  IN CASE u.status \in {"Cancelled", "Error", "Filled", "PartialFilledNotActive", "Lost"} -> {}
       [] u.status \in {"Pending", "Submitted"} ->
            (IF u.status = "Pending" THEN {at("Submitted", Volume)} ELSE {}) \cup
            {at("Error", Volume), at("Cancelled", Volume), at("Lost", Volume), at("Filled", 0)} \cup
            {at("PartialFilledActive", left) : left \in 1 .. Volume - 1}
       [] OTHER ->
            {at("PartialFilledNotActive", u.volume_left), at("Lost", u.volume_left), at("Filled", 0)}
            \cup {at("PartialFilledActive", left) : left \in 1 .. u.volume_left - 1}

Last(o) == written[o][Len(written[o])]

Report(o) ==
  /\ written[o] # <<>>
  /\ \E u \in Reported(Last(o)) :
       written' = [written EXCEPT ![o] = Append(@, u)]
  /\ UNCHANGED seen

\* The engine reads the next update of an order
Read(o) ==
  /\ seen[o] < Len(written[o])
  /\ seen' = [seen EXCEPT ![o] = @ + 1]
  /\ UNCHANGED written

\* It restarts and restores: the bank has the last update of every order
Restore ==
  /\ seen' = [o \in Orders |-> Len(written[o])]
  /\ UNCHANGED written

BasketNext == Restore \/ \E o \in Orders : Insert(o) \/ Report(o) \/ Read(o)
BasketSpec == BasketInit /\ [][BasketNext]_basket
\* The engine's reader is polled for ever
FairBasketSpec == BasketSpec /\ \A o \in Orders : WF_basket(Read(o))

-----------------------------------------------------------------------------

\* What the trader has traded so far of each order, and of all
TradedOf(o) == IF written[o] = <<>> THEN 0 ELSE Traded(Last(o))
traded_by_trader == MapThenSumSet(LAMBDA o : TradedOf(o), Orders)

\* When every order the trader knows is in the map and is_all_order_end says so,
\* the traded volume is final: the trader has nothing more to report, read or
\* unread.
EndMeansNothingMore ==
  (\A o \in Orders : written[o] # <<>> => o \in InMap) /\ is_all_order_end =>
    get_total_traded_volume = traded_by_trader

\* When the trader has come to the end with an order, so does the basket in the
\* end: the statuses a trader stops at are all final.
EndIsSeen ==
  \A o \in Orders :
    (written[o] # <<>> /\ Reported(Last(o)) = {}) ~> (o \in InMap /\ is_final_status(Kept(o).status))
===============================================================================

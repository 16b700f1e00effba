--------------------------------- MODULE Books ---------------------------------
(***************************************************************************)
(* The ledger's books (wingchun/book/bookkeeper.h, book.h,                 *)
(* service/ledger.h): a trade of an account is applied to the account's    *)
(* book and, if a strategy made it, to the strategy's book, on the         *)
(* position its side and offset name (wingchun/common.h, get_direction);   *)
(* then the ledger writes what changed to the owners of the two books.     *)
(*                                                                         *)
(* One instrument of each type is traded, one unit at a time.  `held` is   *)
(* what the market gave each owner; it changes when the trade is made, and *)
(* the ledger handles the trades one by one, later.  An exception in a     *)
(* handler stops the ledger (rx::interrupt_on_error raises SIGINT).        *)
(***************************************************************************)
EXTENDS Integers, Sequences, FiniteSets, FiniteSetsExt

CONSTANTS Accounts, Strategies,
          Types,        \* the instrument types traded
          WithMethod,   \* those of accounting_methods_
          MaxTrades,    \* bound on the trades made
          MaxWaiting    \* bound on those waiting for the ledger

PUBLIC == "public"      \* location::PUBLIC: no strategy of ours made the trade

ASSUME TypesAssumption == WithMethod \subseteq Types
ASSUME OwnersAssumption ==
  /\ IsFiniteSet(Accounts) /\ IsFiniteSet(Strategies)
  /\ Accounts \cap Strategies = {} /\ PUBLIC \notin Strategies

Owners == Accounts \cup Strategies
Directions == {"Long", "Short"}
Offsets == {"Open", "Close", "CloseToday", "CloseYesterday"}

VARIABLES inbox,      \* the trades the ledger has not handled yet
          held,       \* the market's truth, by <<account, strategy or PUBLIC>>
          hasBook,    \* the owners get_book has made a book for
          position,   \* each book's positions, by type and direction
          asset,      \* each book's asset: the trades it accounts for
          applied,    \* is the first trade of inbox in the books already?
          writers,    \* the owners the ledger has a writer to
          toldPosition, toldAsset,   \* what was last written to each owner
          running,
          made        \* the trades made

books == <<hasBook, position, asset>>
told == <<toldPosition, toldAsset>>
vars == <<inbox, held, books, applied, writers, told, running, made>>

Flat == [ty \in Types |-> [dir \in Directions |-> 0]]

Init ==
  /\ inbox = << >>
  /\ held = [o \in Accounts \X (Strategies \cup {PUBLIC}) |-> Flat]
  /\ hasBook = {}
  /\ position = [o \in Owners |-> Flat]
  /\ asset = [o \in Owners |-> 0]
  /\ applied = FALSE
  /\ writers = {}
  /\ toldPosition = [o \in Owners |-> Flat]
  /\ toldAsset = [o \in Owners |-> 0]
  /\ running = TRUE
  /\ made = 0

--------------------------------------------------------------------------------
(* What the exchanges mean by a side and an offset                              *)

Credit == {"MarginTrade", "ShortSell", "RepayMargin", "RepayStock"}
Plain == {"Buy", "Sell"}
CashOnly(ty) == ty \in {"Stock", "Bond", "Fund", "TechStock", "Index", "Repo"}

\* The change a trade makes, as <<direction, +1 or -1>>; << >> for none.  Credit
\* sides and cash instruments carry no offset.
Change(ty, side, offset) ==
  CASE side = "MarginTrade" -> <<"Long", 1>>
    [] side = "RepayMargin" -> <<"Long", -1>>
    [] side = "ShortSell" -> <<"Short", 1>>
    [] side = "RepayStock" -> <<"Short", -1>>
    [] side = "Buy" /\ (CashOnly(ty) \/ offset = "Open") -> <<"Long", 1>>
    [] side = "Sell" /\ (CashOnly(ty) \/ offset # "Open") -> <<"Long", -1>>
    [] side = "Buy" /\ ~CashOnly(ty) /\ offset # "Open" -> <<"Short", -1>>
    [] side = "Sell" /\ ~CashOnly(ty) /\ offset = "Open" -> <<"Short", 1>>
    [] OTHER -> << >>

Kinds(ty) ==
  IF CashOnly(ty) THEN (Plain \cup Credit \cup {"Lock"}) \X {"Open"}
  ELSE Plain \X Offsets \cup {<<"Lock", "Open">>}

\* A trade is made for an account, by a strategy or from outside.
Trade(account, by, ty, side, offset) ==
  LET change == Change(ty, side, offset)
  IN /\ made < MaxTrades /\ Len(inbox) < MaxWaiting
     /\ made' = made + 1
     /\ IF change = << >> THEN held' = held
        ELSE /\ held[<<account, by>>][ty][change[1]] + change[2] >= 0
             /\ held' = [held EXCEPT ![<<account, by>>][ty][change[1]] = @ + change[2]]
     /\ inbox' = Append(inbox, [account |-> account, by |-> by, type |-> ty,
                                side |-> side, offset |-> offset])
     /\ UNCHANGED <<books, applied, writers, told, running>>

--------------------------------------------------------------------------------
(* The ledger                                                                   *)

is_shortable(ty) == ~CashOnly(ty)
Closes_NotYesterday(offset) == offset \in {"Close", "CloseToday"}
Closes(offset) == offset \in {"Close", "CloseToday", "CloseYesterday"}

CreditDirection_RepayLong(side) == IF side = "ShortSell" THEN "Short" ELSE "Long"
CreditDirection(side) == IF side \in {"MarginTrade", "RepayMargin"} THEN "Long" ELSE "Short"

Throws == "throws"
get_direction(ty, side, offset) ==
  IF side \in Credit THEN CreditDirection(side)
  ELSE IF side = "Exec" \/ ~is_shortable(ty) THEN "Long"
  ELSE CASE side = "Buy" /\ offset = "Open" -> "Long"
         [] side = "Sell" /\ Closes(offset) -> "Long"
         [] side = "Sell" /\ offset = "Open" -> "Short"
         [] side = "Buy" /\ Closes(offset) -> "Short"
         [] OTHER -> Throws

Direction(trade) == get_direction(trade.type, trade.side, trade.offset)

\* AccountingMethod::apply_trade: a unit more or less on the trade's position
Amount(trade) ==
  LET change == Change(trade.type, trade.side, trade.offset)
  IN IF change = << >> THEN 0 ELSE change[2]

\* Bookkeeper::update_book: the source's book, then the dest's
Updated(trade) == {trade.account} \cup ({trade.by} \ {PUBLIC})

UpdateBook ==
  /\ running /\ inbox # << >> /\ ~applied
  /\ LET trade == Head(inbox)
     IN \/ /\ trade.type \notin WithMethod
           /\ applied' = TRUE
           /\ UNCHANGED <<books, running>>
        \/ /\ trade.type \in WithMethod /\ Direction(trade) = Throws
           /\ running' = FALSE
           /\ UNCHANGED <<books, applied>>
        \/ /\ trade.type \in WithMethod /\ Direction(trade) # Throws
           /\ hasBook' = hasBook \cup Updated(trade)
           /\ position' = [o \in Owners |->
                IF o \in Updated(trade)
                  THEN [position[o] EXCEPT ![trade.type][Direction(trade)] = @ + Amount(trade)]
                  ELSE position[o]]
           /\ asset' = [o \in Owners |-> asset[o] + IF o \in Updated(trade) THEN 1 ELSE 0]
           /\ applied' = TRUE
           /\ UNCHANGED running
  /\ UNCHANGED <<inbox, held, writers, told, made>>

\* Ledger::write_book, for the account and for the strategy: the position of the
\* trade and the assets, if there is someone to write to
Written_PositionOnly(o, trade) == [position |-> TRUE, asset |-> FALSE]
Written(o, trade) == [position |-> TRUE, asset |-> TRUE]

WriteBook ==
  /\ running /\ applied
  /\ LET trade == Head(inbox)
         ty == trade.type
         dir == Direction(trade)
         to == {trade.account, trade.by} \cap hasBook \cap writers
     IN \/ /\ to # {} /\ dir = Throws
           /\ running' = FALSE
           /\ UNCHANGED <<told, inbox, applied>>
        \/ /\ to = {} \/ dir # Throws
           /\ toldPosition' = [o \in Owners |->
                IF o \in to /\ Written(o, trade).position
                  THEN [toldPosition[o] EXCEPT ![ty][dir] = position[o][ty][dir]]
                  ELSE toldPosition[o]]
           /\ toldAsset' = [o \in Owners |->
                IF o \in to /\ Written(o, trade).asset THEN asset[o] ELSE toldAsset[o]]
           /\ inbox' = Tail(inbox)
           /\ applied' = FALSE
           /\ UNCHANGED running
  /\ UNCHANGED <<held, books, writers, made>>

\* A channel to an owner opens between two trades: its whole book is written.
Connect(o) ==
  /\ running /\ ~applied /\ o \notin writers
  /\ writers' = writers \cup {o}
  /\ toldPosition' = [toldPosition EXCEPT ![o] = position[o]]
  /\ toldAsset' = [toldAsset EXCEPT ![o] = asset[o]]
  /\ UNCHANGED <<inbox, held, books, applied, running, made>>

\* The owner deregisters: its writer is gone, and it hears nothing more.
Disconnect(o) ==
  /\ running /\ ~applied /\ o \in writers
  /\ writers' = writers \ {o}
  /\ UNCHANGED <<inbox, held, books, applied, told, running, made>>

Next ==
  \/ \E account \in Accounts, by \in Strategies \cup {PUBLIC}, ty \in Types :
       \E kind \in Kinds(ty) : Trade(account, by, ty, kind[1], kind[2])
  \/ UpdateBook \/ WriteBook
  \/ \E o \in Owners : Connect(o) \/ Disconnect(o)

Spec == Init /\ [][Next]_vars

--------------------------------------------------------------------------------

Total(position_, owners, ty, dir) ==
  MapThenSumSet(LAMBDA o : position_[o][ty][dir], owners)

\* No book ever holds less than nothing: what closes was opened on that side.
\* Once the ledger has handled every trade, each strategy's book holds what its
\* trades gave it, over all accounts, and each account's book everything made in
\* it, in the right direction (get_direction, update_book).
BooksMatchTrades ==
  /\ \A o \in Owners, ty \in Types, dir \in Directions : position[o][ty][dir] >= 0
  /\ running /\ inbox = << >> =>
       \A ty \in WithMethod, dir \in Directions :
         /\ \A s \in Strategies :
              position[s][ty][dir] = Total(held, Accounts \X {s}, ty, dir)
         /\ \A a \in Accounts :
              position[a][ty][dir] = Total(held, {a} \X (Strategies \cup {PUBLIC}), ty, dir)

\* What an owner the ledger can write to was last told is what its book holds,
\* positions and assets, before the next trade is handled (write_book writes only
\* the position of the trade).
ToldIsCurrent ==
  running /\ ~applied =>
    \A o \in writers : toldPosition[o] = position[o] /\ toldAsset[o] = asset[o]

\* Only a side that has no direction stops the ledger: never a trade that opens
\* or closes a position, whichever close it is (get_direction throws).
OrdinaryTradesNeverStop ==
  ~running => Head(inbox).side \notin Plain \cup Credit
================================================================================

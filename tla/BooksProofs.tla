------------------------------- MODULE BooksProofs -------------------------------
(***************************************************************************)
(* That no ordinary trade stops the ledger, that every owner knows its     *)
(* book and that books match the trades, for any accounts, strategies,     *)
(* instrument types and number of trades.  After that, from the same facts *)
(* about sums over finite sets, that the volume of a basket at its end is  *)
(* final, for any orders; and that the tables the books are kept by agree, *)
(* for any codes of four digits and a tail.                                *)
(***************************************************************************)
EXTENDS MCBooks, BasketOrders, FiniteSetTheorems, TLAPS

Sides == Plain \cup Credit \cup {"Lock"}
Trades == [account : Accounts, by : Strategies \cup {PUBLIC}, type : Types,
           side : Sides, offset : Offsets]
Positions == [Owners -> [Types -> [Directions -> Int]]]

TypeOK ==
  /\ inbox \in Seq(Trades)
  /\ hasBook \subseteq Owners /\ writers \subseteq Owners
  /\ position \in Positions /\ toldPosition \in Positions
  /\ asset \in [Owners -> Int] /\ toldAsset \in [Owners -> Int]
  /\ applied \in BOOLEAN /\ running \in BOOLEAN
  /\ applied => inbox # << >>

(* What stopped the ledger is still at the head of its inbox.              *)
StoppedByThrow == ~running => inbox # << >> /\ Direction(Head(inbox)) = Throws

(* Between update_book and write_book the owners the trade concerns are    *)
(* out of date, in that position and in the assets.                        *)
Concerns(o) == Head(inbox).type \in WithMethod /\ o \in Updated(Head(inbox))

OutOfDate ==
  running /\ applied =>
    /\ Head(inbox).type \in WithMethod => Direction(Head(inbox)) # Throws
    /\ \A o \in writers :
         /\ Concerns(o) => o \in hasBook
         /\ ~Concerns(o) => toldAsset[o] = asset[o]
         /\ \A ty \in Types, dir \in Directions :
              \/ toldPosition[o][ty][dir] = position[o][ty][dir]
              \/ Concerns(o) /\ ty = Head(inbox).type /\ dir = Direction(Head(inbox))

IInv == TypeOK /\ StoppedByThrow /\ OutOfDate /\ ToldIsCurrent

-----------------------------------------------------------------------------

(* Only Lock throws; any other side and offset name a direction.           *)
LEMMA DirectionOf ==
  ASSUME NEW ty, NEW side \in Sides, NEW offset \in Offsets
  PROVE  /\ get_direction(ty, side, offset) \in Directions \cup {Throws}
         /\ get_direction(ty, side, offset) = Throws => side = "Lock"
  BY DEF get_direction, Sides, Plain, Credit, Offsets, Directions, Throws, CreditDirection, Closes

LEMMA AmountIsInt == ASSUME NEW trade PROVE Amount(trade) \in Int
  BY DEF Amount, Change

LEMMA HeadIsTrade ==
  ASSUME inbox \in Seq(Trades), inbox # << >>
  PROVE  /\ Head(inbox) \in Trades /\ Tail(inbox) \in Seq(Trades)
         /\ Direction(Head(inbox)) \in Directions \cup {Throws}
  <1>1. Head(inbox) \in Trades /\ Tail(inbox) \in Seq(Trades)
    OBVIOUS
  <1> QED
    BY <1>1, DirectionOf DEF Trades, Direction

LEMMA KindsAreSides ==
  ASSUME NEW ty, NEW kind \in Kinds(ty)
  PROVE  kind[1] \in Sides /\ kind[2] \in Offsets
  BY DEF Kinds, Sides, Plain, Credit, Offsets

LEMMA InitIInv == Init => IInv
  <1> SUFFICES ASSUME Init PROVE IInv
    OBVIOUS
  <1>1. Flat \in [Types -> [Directions -> Int]]
    BY DEF Flat
  <1>2. position \in Positions /\ toldPosition \in Positions
    BY <1>1 DEF Init, Positions
  <1>3. asset \in [Owners -> Int] /\ toldAsset \in [Owners -> Int]
    BY DEF Init
  <1>4. inbox \in Seq(Trades)
    BY DEF Init
  <1>5. TypeOK
    BY <1>2, <1>3, <1>4 DEF Init, TypeOK
  <1>6. StoppedByThrow /\ OutOfDate /\ ToldIsCurrent
    BY DEF Init, StoppedByThrow, OutOfDate, ToldIsCurrent
  <1> QED
    BY <1>5, <1>6 DEF IInv

LEMMA TradeIInv ==
  ASSUME IInv, NEW account \in Accounts, NEW by \in Strategies \cup {PUBLIC}, NEW ty \in Types,
         NEW kind \in Kinds(ty), Trade(account, by, ty, kind[1], kind[2])
  PROVE  IInv'
  <1> DEFINE trade == [account |-> account, by |-> by, type |-> ty,
                       side |-> kind[1], offset |-> kind[2]]
  <1>1. inbox' = Append(inbox, trade) /\ UNCHANGED <<books, applied, writers, told, running>>
    BY DEF Trade
  <1>2. trade \in Trades
    BY KindsAreSides DEF Trades
  <1>3. inbox \in Seq(Trades)
    BY DEF IInv, TypeOK
  <1> HIDE DEF trade
  <1>4. inbox' \in Seq(Trades) /\ inbox' # << >>
    BY <1>1, <1>2, <1>3
  <1>5. inbox # << >> => Head(inbox') = Head(inbox)
    BY <1>1, <1>2, <1>3
  <1>6. TypeOK'
    BY <1>1, <1>4 DEF IInv, TypeOK, books, told
  <1>7. StoppedByThrow'
    BY <1>1, <1>4, <1>5 DEF IInv, StoppedByThrow
  <1>8. OutOfDate'
    BY <1>1, <1>5 DEF IInv, TypeOK, OutOfDate, Concerns, books, told
  <1>9. ToldIsCurrent'
    BY <1>1 DEF IInv, ToldIsCurrent, books, told
  <1> QED
    BY <1>6, <1>7, <1>8, <1>9 DEF IInv

LEMMA UpdateBookIInv == IInv /\ UpdateBook => IInv'
  <1> SUFFICES ASSUME IInv, UpdateBook PROVE IInv'
    OBVIOUS
  <1> DEFINE trade == Head(inbox)
  <1>0. TypeOK /\ StoppedByThrow /\ ToldIsCurrent
    BY DEF IInv
  <1>1. /\ running /\ inbox # << >> /\ ~applied
        /\ UNCHANGED <<inbox, held, writers, told, made>>
    BY DEF UpdateBook
  <1>2. trade \in Trades /\ Direction(trade) \in Directions \cup {Throws}
    BY <1>0, <1>1, HeadIsTrade DEF TypeOK
  <1>3. \A o \in writers : toldPosition[o] = position[o] /\ toldAsset[o] = asset[o]
    BY <1>0, <1>1 DEF ToldIsCurrent
  <1>4. CASE trade.type \notin WithMethod /\ applied' = TRUE /\ UNCHANGED <<books, running>>
    <2>1. TypeOK' /\ StoppedByThrow' /\ ToldIsCurrent'
      BY <1>0, <1>1, <1>4 DEF TypeOK, StoppedByThrow, ToldIsCurrent, books, told
    <2>2. OutOfDate'
      BY <1>1, <1>3, <1>4 DEF OutOfDate, Concerns, books, told
    <2> QED
      BY <2>1, <2>2 DEF IInv
  <1>5. CASE trade.type \in WithMethod /\ Direction(trade) = Throws
             /\ running' = FALSE /\ UNCHANGED <<books, applied>>
    BY <1>0, <1>1, <1>5 DEF IInv, TypeOK, StoppedByThrow, OutOfDate, ToldIsCurrent, books, told
  <1>6. CASE /\ trade.type \in WithMethod /\ Direction(trade) # Throws
             /\ hasBook' = hasBook \cup Updated(trade)
             /\ position' = [o \in Owners |->
                  IF o \in Updated(trade)
                    THEN [position[o] EXCEPT ![trade.type][Direction(trade)] = @ + Amount(trade)]
                    ELSE position[o]]
             /\ asset' = [o \in Owners |-> asset[o] + IF o \in Updated(trade) THEN 1 ELSE 0]
             /\ applied' = TRUE
             /\ UNCHANGED running
    <2> DEFINE dir == Direction(trade)
               ty == trade.type
    <2>1. dir \in Directions /\ ty \in Types
      BY <1>2, <1>6 DEF Trades
    <2>2. Updated(trade) \subseteq Owners
      BY <1>2 DEF Updated, Trades, Owners
    <2>3. Amount(trade) \in Int
      BY AmountIsInt
    <2> HIDE DEF dir, ty
    <2>4. \A o \in Owners : position[o] \in [Types -> [Directions -> Int]] /\ asset[o] \in Int
      BY <1>0 DEF TypeOK, Positions
    <2>5. \A o \in Owners :
            [position[o] EXCEPT ![ty][dir] = @ + Amount(trade)] \in [Types -> [Directions -> Int]]
      BY <2>1, <2>3, <2>4
    <2>6. position' \in Positions
      BY <1>6, <2>4, <2>5 DEF Positions, ty, dir
    <2>7. asset' \in [Owners -> Int]
      BY <1>6, <2>4
    <2>8. TypeOK'
      BY <2>2, <2>6, <2>7, <1>0, <1>1, <1>6 DEF TypeOK, told
    <2>9. OutOfDate'
      <3>1. ASSUME NEW o \in writers
            PROVE  /\ o \in Updated(trade) => o \in hasBook'
                   /\ o \notin Updated(trade) => toldAsset[o] = asset'[o]
                   /\ \A t \in Types, d \in Directions :
                        \/ toldPosition[o][t][d] = position'[o][t][d]
                        \/ o \in Updated(trade) /\ t = ty /\ d = dir
        <4>1. o \in Owners /\ toldPosition[o] = position[o] /\ toldAsset[o] = asset[o]
          BY <1>0, <1>3 DEF TypeOK
        <4>2. CASE o \in Updated(trade)
          <5>1. position'[o] = [position[o] EXCEPT ![ty][dir] = @ + Amount(trade)]
            BY <4>1, <4>2, <1>6 DEF ty, dir
          <5>2. \A t \in Types, d \in Directions :
                  t # ty \/ d # dir => position'[o][t][d] = position[o][t][d]
            BY <5>1, <4>1, <2>1, <2>4
          <5> QED
            BY <5>2, <4>1, <4>2, <1>6
        <4>3. CASE o \notin Updated(trade)
          <5>1. position'[o] = position[o] /\ asset'[o] = asset[o]
            BY <4>1, <4>3, <1>6, <2>4
          <5> QED
            BY <5>1, <4>1, <4>3
        <4> QED
          BY <4>2, <4>3
      <3>2. inbox' = inbox /\ writers' = writers /\ toldPosition' = toldPosition /\ toldAsset' = toldAsset
        BY <1>1 DEF told
      <3>3. \A o : Concerns(o)' <=> o \in Updated(trade)
        BY <3>2, <1>6 DEF Concerns
      <3>4. Direction(Head(inbox))' = dir /\ Head(inbox)'.type = ty /\ dir # Throws
        BY <3>2, <1>6 DEF ty, dir
      <3> QED
        BY <3>1, <3>2, <3>3, <3>4 DEF OutOfDate
    <2>10. StoppedByThrow' /\ ToldIsCurrent'
      BY <1>1, <1>6 DEF StoppedByThrow, ToldIsCurrent
    <2> QED
      BY <2>8, <2>9, <2>10 DEF IInv
  <1> QED
    BY <1>4, <1>5, <1>6 DEF UpdateBook

LEMMA WriteBookIInv == IInv /\ WriteBook => IInv'
  <1> SUFFICES ASSUME IInv, WriteBook PROVE IInv'
    OBVIOUS
  <1> DEFINE trade == Head(inbox)
             ty == trade.type
             dir == Direction(trade)
             to == {trade.account, trade.by} \cap hasBook \cap writers
  <1>0. TypeOK /\ StoppedByThrow /\ OutOfDate
    BY DEF IInv
  <1>1. running /\ applied /\ inbox # << >> /\ UNCHANGED <<held, books, writers, made>>
    BY <1>0 DEF WriteBook, TypeOK
  <1>2. /\ trade \in Trades /\ Tail(inbox) \in Seq(Trades)
        /\ dir \in Directions \cup {Throws}
    BY <1>0, <1>1, HeadIsTrade DEF TypeOK
  <1>3. CASE to # {} /\ dir = Throws /\ running' = FALSE /\ UNCHANGED <<told, inbox, applied>>
    BY <1>0, <1>1, <1>3 DEF IInv, TypeOK, StoppedByThrow, OutOfDate, ToldIsCurrent, books, told
  <1>4. CASE /\ to = {} \/ dir # Throws
             /\ toldPosition' = [o \in Owners |->
                  IF o \in to /\ Written(o, trade).position
                    THEN [toldPosition[o] EXCEPT ![ty][dir] = position[o][ty][dir]]
                    ELSE toldPosition[o]]
             /\ toldAsset' = [o \in Owners |->
                  IF o \in to /\ Written(o, trade).asset THEN asset[o] ELSE toldAsset[o]]
             /\ inbox' = Tail(inbox)
             /\ applied' = FALSE
             /\ UNCHANGED running
    <2>1. ty \in Types /\ (to # {} => dir \in Directions)
      BY <1>2, <1>4 DEF Trades
    <2>2. /\ toldPosition' = [o \in Owners |->
               IF o \in to THEN [toldPosition[o] EXCEPT ![ty][dir] = position[o][ty][dir]]
                           ELSE toldPosition[o]]
          /\ toldAsset' = [o \in Owners |-> IF o \in to THEN asset[o] ELSE toldAsset[o]]
      BY <1>4 DEF Written
    <2>3. \A o \in writers :
            /\ Concerns(o) => o \in to
            /\ ~Concerns(o) => toldAsset[o] = asset[o]
            /\ \A t \in Types, d \in Directions :
                 toldPosition[o][t][d] = position[o][t][d] \/ (Concerns(o) /\ t = ty /\ d = dir)
      BY <1>0, <1>1 DEF OutOfDate, Concerns, Updated
    <2> HIDE DEF ty, dir, to
    <2>4. \A o \in Owners :
            /\ position[o] \in [Types -> [Directions -> Int]]
            /\ toldPosition[o] \in [Types -> [Directions -> Int]]
            /\ asset[o] \in Int /\ toldAsset[o] \in Int
      BY <1>0 DEF TypeOK, Positions
    <2>5. ASSUME NEW o \in Owners
          PROVE  toldPosition'[o] \in [Types -> [Directions -> Int]]
      <3>1. CASE o \in to
        BY <2>1, <2>2, <2>4, <3>1
      <3>2. CASE o \notin to
        BY <2>2, <2>4, <3>2
      <3> QED
        BY <3>1, <3>2
    <2>6. toldPosition' \in Positions
      BY <2>2, <2>5 DEF Positions
    <2>7. toldAsset' \in [Owners -> Int]
      BY <2>2, <2>4
    <2>8. TypeOK'
      BY <2>6, <2>7, <1>0, <1>1, <1>2, <1>4 DEF TypeOK, books
    <2>9. ASSUME NEW o \in writers
          PROVE  toldPosition'[o] = position[o] /\ toldAsset'[o] = asset[o]
      <3>1. o \in Owners
        BY <1>0 DEF TypeOK
      <3>2. ASSUME NEW t \in Types, NEW d \in Directions
            PROVE  toldPosition'[o][t][d] = position[o][t][d]
        <4>1. CASE o \in to
          <5>1. toldPosition'[o] = [toldPosition[o] EXCEPT ![ty][dir] = position[o][ty][dir]]
            BY <2>2, <3>1, <4>1
          <5>2. toldPosition'[o][t][d] =
                  IF t = ty /\ d = dir THEN position[o][t][d] ELSE toldPosition[o][t][d]
            BY <5>1, <2>1, <2>4, <3>1, <4>1
          <5> QED
            BY <5>2, <2>3
        <4>2. CASE o \notin to
          BY <2>2, <2>3, <3>1, <4>2
        <4> QED
          BY <4>1, <4>2
      <3>3. toldPosition'[o] = position[o]
        <4>1. \A t \in Types : toldPosition'[o][t] = position[o][t]
          BY <2>4, <2>5, <3>1, <3>2
        <4> QED
          BY <4>1, <2>4, <2>5, <3>1
      <3>4. toldAsset'[o] = asset[o]
        BY <2>2, <2>3, <3>1
      <3> QED
        BY <3>3, <3>4
    <2>10. ToldIsCurrent'
      BY <1>1, <2>9 DEF ToldIsCurrent, books
    <2>11. StoppedByThrow' /\ OutOfDate'
      BY <1>1, <1>4 DEF StoppedByThrow, OutOfDate
    <2> QED
      BY <2>8, <2>10, <2>11 DEF IInv
  <1> QED
    BY <1>3, <1>4 DEF WriteBook

LEMMA ConnectIInv == ASSUME IInv, NEW o \in Owners, Connect(o) PROVE IInv'
  <1>1. TypeOK'
    <2>1. position[o] \in [Types -> [Directions -> Int]] /\ asset[o] \in Int
      BY DEF IInv, TypeOK, Positions
    <2>2. toldPosition' \in Positions
      BY <2>1 DEF IInv, TypeOK, Positions, Connect
    <2>3. toldAsset' \in [Owners -> Int]
      BY <2>1 DEF IInv, TypeOK, Connect
    <2> QED
      BY <2>2, <2>3 DEF IInv, TypeOK, Connect, books
  <1>2. ToldIsCurrent'
    BY DEF IInv, TypeOK, Positions, ToldIsCurrent, Connect, books
  <1>3. StoppedByThrow' /\ OutOfDate'
    BY DEF IInv, StoppedByThrow, OutOfDate, Connect
  <1> QED
    BY <1>1, <1>2, <1>3 DEF IInv

LEMMA DisconnectIInv == ASSUME IInv, NEW o \in Owners, Disconnect(o) PROVE IInv'
  <1>1. TypeOK' /\ ToldIsCurrent'
    BY DEF IInv, TypeOK, ToldIsCurrent, Disconnect, books, told
  <1>2. StoppedByThrow' /\ OutOfDate'
    BY DEF IInv, StoppedByThrow, OutOfDate, Disconnect
  <1> QED
    BY <1>1, <1>2 DEF IInv

LEMMA StutterIInv == IInv /\ UNCHANGED vars => IInv'
  BY DEF vars, books, told, IInv, TypeOK, StoppedByThrow, OutOfDate, Concerns, ToldIsCurrent

LEMMA NextIInv == IInv /\ [Next]_vars => IInv'
  <1> SUFFICES ASSUME IInv, [Next]_vars PROVE IInv'
    OBVIOUS
  <1>1. ASSUME NEW account \in Accounts, NEW by \in Strategies \cup {PUBLIC}, NEW ty \in Types,
               NEW kind \in Kinds(ty), Trade(account, by, ty, kind[1], kind[2])
        PROVE  IInv'
    BY <1>1, TradeIInv
  <1>2. CASE UpdateBook
    BY <1>2, UpdateBookIInv
  <1>3. CASE WriteBook
    BY <1>3, WriteBookIInv
  <1>4. ASSUME NEW o \in Owners, Connect(o) PROVE IInv'
    BY <1>4, ConnectIInv
  <1>5. ASSUME NEW o \in Owners, Disconnect(o) PROVE IInv'
    BY <1>5, DisconnectIInv
  <1>6. CASE UNCHANGED vars
    BY <1>6, StutterIInv
  <1> QED
    BY <1>1, <1>2, <1>3, <1>4, <1>5, <1>6 DEF Next

-----------------------------------------------------------------------------

(* The strengthened invariant holds in every state: what stopped the       *)
(* ledger throws, and between update_book and write_book only the owners   *)
(* of the trade are out of date (book/bookkeeper.h, service/ledger.h).     *)
THEOREM Invariance == Spec => []IInv
  <1> QED
    BY InitIInv, NextIInv, PTL DEF Spec

(* No trade that opens or closes a position ever stops the ledger: what    *)
(* makes get_direction throw is a side without direction                   *)
(* (wingchun/common.h:502-540).                                            *)
THEOREM NeverStoppedByATrade == Spec => []OrdinaryTradesNeverStop
  <1>1. IInv => OrdinaryTradesNeverStop
    <2> SUFFICES ASSUME IInv, ~running PROVE Head(inbox).side \notin Plain \cup Credit
      BY DEF OrdinaryTradesNeverStop
    <2>1. inbox # << >> /\ Direction(Head(inbox)) = Throws /\ inbox \in Seq(Trades)
      BY DEF IInv, StoppedByThrow, TypeOK
    <2>2. Head(inbox).side \in Sides /\ Head(inbox).offset \in Offsets
      BY <2>1, HeadIsTrade DEF Trades
    <2>3. Head(inbox).side = "Lock"
      BY <2>1, <2>2, DirectionOf DEF Direction
    <2> QED
      BY <2>3 DEF Plain, Credit
  <1> QED
    BY <1>1, Invariance, PTL

(* Every owner the ledger can write to knows its book between two trades,  *)
(* though write_book sends only the position the trade is about            *)
(* (service/ledger.h, write_book).                                         *)
THEOREM OwnersKnowTheirBook == Spec => []ToldIsCurrent
  <1>1. IInv => ToldIsCurrent
    BY DEF IInv
  <1> QED
    BY <1>1, Invariance, PTL

-----------------------------------------------------------------------------
(* Sums over finite sets. Induction over the subsets of a finite set is by *)
(* a least one among those that fail, which exists because the strict      *)
(* subset ordering is well founded.                                        *)
LEMMA LeastSubset ==
  ASSUME NEW S, IsFiniteSet(S), NEW B \in SUBSET (SUBSET S), B # {}
  PROVE  \E T \in B : \A U \in SUBSET T : U # T => U \notin B
  <1>1. IsWellFoundedOn(StrictSubsetOrdering(S), FiniteSubsetsOf(S))
    BY FS_StrictSubsetOrderingWellFounded
  <1>2. B \subseteq FiniteSubsetsOf(S) BY FS_Subset DEF FiniteSubsetsOf
  <1>3. PICK T \in B : \A U \in B : ~(<<U, T>> \in StrictSubsetOrdering(S))
    BY <1>1, <1>2, WFMin
  <1> QED BY <1>2, <1>3 DEF StrictSubsetOrdering, FiniteSubsetsOf

(* The fold of the community modules takes some element of the set, and    *)
(* folds the rest with the recursive function g; Sums is that function,    *)
(* Sum the fold.                                                           *)
Some(s) == CHOOSE x \in s : TRUE
Rest(s) == s \ {Some(s)}
SumsOf(f, S, g) ==
  g = [s \in SUBSET S |-> IF s = {} THEN 0 ELSE f[Some(s)] + g[Rest(s)]]
Sums(f, S) == CHOOSE g : SumsOf(f, S, g)
Sum(f, S) == MapThenSumSet(LAMBDA x : f[x], S)

(* What the fold computes is the last value of its recursive function.     *)
LEMMA SumIsLast == \A f, S : Sum(f, S) = Sums(f, S)[S]
  BY DEF Sum, Sums, SumsOf, Some, Rest, MapThenSumSet, MapThenFoldSet

LEMMA RestIsLess == \A s : s # {} => Some(s) \in s /\ Rest(s) \subseteq s /\ Rest(s) # s
  BY DEF Some, Rest

(* The recursive functions of two sets agree where both are defined.       *)
LEMMA SumsAgree ==
  ASSUME NEW f, NEW S, IsFiniteSet(S), NEW T \in SUBSET S,
         NEW g, NEW h, SumsOf(f, S, g), SumsOf(f, T, h)
  PROVE  \A s \in SUBSET T : g[s] = h[s]
  <1> DEFINE B == {s \in SUBSET T : g[s] # h[s]}
  <1> SUFFICES ASSUME B # {} PROVE FALSE
    OBVIOUS
  <1>1. PICK s \in B : \A u \in SUBSET s : u # s => u \notin B
    <2>1. B \in SUBSET (SUBSET S) OBVIOUS
    <2> HIDE DEF B
    <2> QED BY <2>1, LeastSubset
  <1>2. s # {} BY <1>1 DEF SumsOf
  <1>3. g[s] = f[Some(s)] + g[Rest(s)] /\ h[s] = f[Some(s)] + h[Rest(s)]
    BY <1>1, <1>2 DEF SumsOf
  <1>4. g[Rest(s)] = h[Rest(s)]
    BY <1>1, <1>2, RestIsLess
  <1> QED BY <1>1, <1>3, <1>4

(* The recursive function exists: the equation that CHOOSE picks by has a  *)
(* solution.                                                               *)
LEMMA SumsExist ==
  ASSUME NEW f, NEW S, IsFiniteSet(S)
  PROVE  SumsOf(f, S, Sums(f, S))
  <1> DEFINE B == {T \in SUBSET S : ~SumsOf(f, T, Sums(f, T))}
  <1> SUFFICES ASSUME B # {} PROVE FALSE
    OBVIOUS
  <1>1. PICK T \in B : \A U \in SUBSET T : U # T => U \notin B
    <2>1. B \in SUBSET (SUBSET S) OBVIOUS
    <2> HIDE DEF B
    <2> QED BY <2>1, LeastSubset
  <1> DEFINE h == [s \in SUBSET T |->
                     IF s = T /\ s # {} THEN f[Some(T)] + Sums(f, Rest(T))[Rest(T)]
                     ELSE IF s = {} THEN 0 ELSE Sums(f, s)[s]]
  <1>2. \A U \in SUBSET T : U # T => SumsOf(f, U, Sums(f, U))
    BY <1>1
  <1>3. ASSUME NEW s \in SUBSET T, s # {} PROVE h[s] = f[Some(s)] + h[Rest(s)]
    <2>1. Rest(s) \in SUBSET T /\ Rest(s) # T /\ IsFiniteSet(s) /\ s \in SUBSET s
      BY <1>3, RestIsLess, FS_Subset
    <2>2. SumsOf(f, Rest(s), Sums(f, Rest(s)))
      BY <2>1, <1>2
    <2>3. h[Rest(s)] = Sums(f, Rest(s))[Rest(s)]
      BY <2>1, <2>2 DEF SumsOf
    <2>4. CASE s = T
      BY <2>3, <2>4, <1>3
    <2>5. CASE s # T
      <3>1. SumsOf(f, s, Sums(f, s)) BY <1>2, <2>5
      <3>2. h[s] = Sums(f, s)[s] BY <2>5, <1>3
      <3>3. Sums(f, s)[s] = f[Some(s)] + Sums(f, s)[Rest(s)]
        BY <3>1, <1>3, <2>1 DEF SumsOf
      <3>4. Sums(f, s)[Rest(s)] = Sums(f, Rest(s))[Rest(s)]
        BY <3>1, <2>2, <2>1, RestIsLess, <1>3, SumsAgree
      <3> QED BY <3>2, <3>3, <3>4, <2>3
    <2> QED BY <2>4, <2>5
  <1>4. h[{}] = 0 OBVIOUS
  <1>5. SumsOf(f, T, h)
    <2> DEFINE k == [s \in SUBSET T |-> IF s = {} THEN 0 ELSE f[Some(s)] + h[Rest(s)]]
    <2>1. \A s \in SUBSET T : h[s] = k[s]
      BY <1>3, <1>4
    <2>2. h = k
      BY <2>1
    <2> HIDE DEF h
    <2> QED BY <2>2 DEF SumsOf
  <1>6. SumsOf(f, T, Sums(f, T))
    <2> HIDE DEF h
    <2> QED BY <1>5 DEF Sums
  <1> QED BY <1>1, <1>6

LEMMA SumOfNone == \A f : Sum(f, {}) = 0
  <1> SUFFICES ASSUME NEW f PROVE Sum(f, {}) = 0
    OBVIOUS
  <1>1. IsFiniteSet({}) BY FS_EmptySet
  <1>2. SumsOf(f, {}, Sums(f, {})) BY <1>1, SumsExist
  <1>3. Sums(f, {})[{}] = 0 BY <1>2 DEF SumsOf
  <1> QED BY <1>3, SumIsLast

(* So the sum may be unfolded once, by the element CHOOSE takes,           *)
LEMMA SumOfRest ==
  ASSUME NEW f, NEW S, IsFiniteSet(S), S # {}
  PROVE  Sum(f, S) = f[Some(S)] + Sum(f, Rest(S))
  <1>1. Rest(S) \in SUBSET S /\ IsFiniteSet(Rest(S)) BY RestIsLess, FS_Subset
  <1>2. SumsOf(f, S, Sums(f, S)) /\ SumsOf(f, Rest(S), Sums(f, Rest(S)))
    BY <1>1, SumsExist
  <1>3. Sums(f, S)[Rest(S)] = Sums(f, Rest(S))[Rest(S)]
    BY <1>1, <1>2, SumsAgree
  <1>4. Sums(f, S)[S] = f[Some(S)] + Sums(f, S)[Rest(S)]
    BY <1>2 DEF SumsOf
  <1> QED BY <1>3, <1>4, SumIsLast

(* it is an integer,                                                       *)
LEMMA SumIsInt ==
  ASSUME NEW f, NEW S, IsFiniteSet(S), \A x \in S : f[x] \in Int
  PROVE  \A T \in SUBSET S : Sum(f, T) \in Int
  <1> DEFINE B == {T \in SUBSET S : Sum(f, T) \notin Int}
  <1> SUFFICES ASSUME B # {} PROVE FALSE
    OBVIOUS
  <1>1. PICK T \in B : \A U \in SUBSET T : U # T => U \notin B
    <2>1. B \in SUBSET (SUBSET S) OBVIOUS
    <2> HIDE DEF B
    <2> QED BY <2>1, LeastSubset
  <1>2. T # {}
    <2>1. Sum(f, {}) \in Int BY SumOfNone
    <2> QED BY <2>1, <1>1
  <1>3. IsFiniteSet(T) BY FS_Subset
  <1>4. Sum(f, Rest(T)) \in Int
    BY <1>1, <1>2, RestIsLess
  <1>5. f[Some(T)] \in Int BY <1>2, RestIsLess
  <1>6. Sum(f, T) = f[Some(T)] + Sum(f, Rest(T)) BY <1>2, <1>3, SumOfRest
  <1> QED BY <1>1, <1>4, <1>5, <1>6

(* or a natural number,                                                    *)
LEMMA SumIsNat ==
  ASSUME NEW f, NEW S, IsFiniteSet(S), \A x \in S : f[x] \in Nat
  PROVE  \A T \in SUBSET S : Sum(f, T) \in Nat
  <1> DEFINE B == {T \in SUBSET S : Sum(f, T) \notin Nat}
  <1> SUFFICES ASSUME B # {} PROVE FALSE
    OBVIOUS
  <1>1. PICK T \in B : \A U \in SUBSET T : U # T => U \notin B
    <2>1. B \in SUBSET (SUBSET S) OBVIOUS
    <2> HIDE DEF B
    <2> QED BY <2>1, LeastSubset
  <1>2. T # {}
    <2>1. Sum(f, {}) \in Nat BY SumOfNone
    <2> QED BY <2>1, <1>1
  <1>3. IsFiniteSet(T) BY FS_Subset
  <1>4. Sum(f, Rest(T)) \in Nat
    BY <1>1, <1>2, RestIsLess
  <1>5. f[Some(T)] \in Nat BY <1>2, RestIsLess
  <1>6. Sum(f, T) = f[Some(T)] + Sum(f, Rest(T)) BY <1>2, <1>3, SumOfRest
  <1> QED BY <1>1, <1>4, <1>5, <1>6

LEMMA SumOfZeros ==
  ASSUME NEW f, NEW S, IsFiniteSet(S), \A x \in S : f[x] = 0
  PROVE  Sum(f, S) = 0
  <1> DEFINE B == {T \in SUBSET S : Sum(f, T) # 0}
  <1> SUFFICES ASSUME B # {} PROVE FALSE
    <2>1. S \in SUBSET S OBVIOUS
    <2> QED BY <2>1
  <1>1. PICK T \in B : \A U \in SUBSET T : U # T => U \notin B
    <2>1. B \in SUBSET (SUBSET S) OBVIOUS
    <2> HIDE DEF B
    <2> QED BY <2>1, LeastSubset
  <1>2. T # {} /\ IsFiniteSet(T) BY <1>1, SumOfNone, FS_Subset
  <1>3. Sum(f, Rest(T)) = 0
    BY <1>1, <1>2, RestIsLess
  <1>4. f[Some(T)] = 0 BY <1>2, RestIsLess
  <1>5. Sum(f, T) = f[Some(T)] + Sum(f, Rest(T)) BY <1>2, SumOfRest
  <1> QED BY <1>1, <1>3, <1>4, <1>5

(* and it may be unfolded by any element: the order of the fold does not   *)
(* matter.                                                                 *)
LEMMA SumWithout ==
  ASSUME NEW f, NEW S, IsFiniteSet(S), \A x \in S : f[x] \in Int
  PROVE  \A T \in SUBSET S : \A x \in T : Sum(f, T) = f[x] + Sum(f, T \ {x})
  <1> DEFINE B == {T \in SUBSET S : \E x \in T : Sum(f, T) # f[x] + Sum(f, T \ {x})}
  <1> SUFFICES ASSUME B # {} PROVE FALSE
    OBVIOUS
  <1>1. PICK T \in B : \A U \in SUBSET T : U # T => U \notin B
    <2>1. B \in SUBSET (SUBSET S) OBVIOUS
    <2> HIDE DEF B
    <2> QED BY <2>1, LeastSubset
  <1>2. PICK x \in T : Sum(f, T) # f[x] + Sum(f, T \ {x}) BY <1>1
  <1> DEFINE y == Some(T)
  <1>3. IsFiniteSet(T) BY FS_Subset
  <1>4. Sum(f, T) = f[y] + Sum(f, T \ {y}) /\ y \in T
    BY <1>2, <1>3, SumOfRest, RestIsLess DEF Rest
  <1> HIDE DEF y
  <1>5. x # y BY <1>2, <1>4
  <1>6. Sum(f, T \ {y}) = f[x] + Sum(f, (T \ {y}) \ {x})
    <2>1. T \ {y} \in SUBSET T /\ T \ {y} # T /\ x \in T \ {y} BY <1>4, <1>5
    <2> QED BY <2>1, <1>1
  <1>7. Sum(f, T \ {x}) = f[y] + Sum(f, (T \ {x}) \ {y})
    <2>1. T \ {x} \in SUBSET T /\ T \ {x} # T /\ y \in T \ {x} BY <1>4, <1>5
    <2> QED BY <2>1, <1>1
  <1>8. (T \ {y}) \ {x} = (T \ {x}) \ {y} OBVIOUS
  <1>9. f[x] \in Int /\ f[y] \in Int /\ Sum(f, (T \ {x}) \ {y}) \in Int
    <2>1. (T \ {x}) \ {y} \in SUBSET S OBVIOUS
    <2> QED BY <2>1, <1>4, SumIsInt
  <1>10. Sum(f, T) = f[y] + (f[x] + Sum(f, (T \ {x}) \ {y})) BY <1>4, <1>6, <1>8
  <1>11. f[x] + Sum(f, T \ {x}) = f[x] + (f[y] + Sum(f, (T \ {x}) \ {y})) BY <1>7
  <1>12. \A a, b, c \in Int : a + (b + c) = b + (a + c) OBVIOUS
  <1> QED BY <1>2, <1>9, <1>10, <1>11, <1>12

(* A sum depends only on the summands,                                     *)
LEMMA SumSame ==
  ASSUME NEW f, NEW g, NEW S, IsFiniteSet(S), \A x \in S : f[x] = g[x]
  PROVE  Sum(f, S) = Sum(g, S)
  <1> DEFINE B == {T \in SUBSET S : Sum(f, T) # Sum(g, T)}
  <1> SUFFICES ASSUME B # {} PROVE FALSE
    OBVIOUS
  <1>1. PICK T \in B : \A U \in SUBSET T : U # T => U \notin B
    <2>1. B \in SUBSET (SUBSET S) OBVIOUS
    <2> HIDE DEF B
    <2> QED BY <2>1, LeastSubset
  <1>2. T # {} /\ IsFiniteSet(T) BY <1>1, SumOfNone, FS_Subset
  <1>3. Sum(f, T) = f[Some(T)] + Sum(f, Rest(T)) /\ Sum(g, T) = g[Some(T)] + Sum(g, Rest(T))
    BY <1>2, SumOfRest
  <1>4. Sum(f, Rest(T)) = Sum(g, Rest(T)) BY <1>1, <1>2, RestIsLess
  <1>5. f[Some(T)] = g[Some(T)] BY <1>2, RestIsLess
  <1> QED BY <1>1, <1>3, <1>4, <1>5

(* and changes with one of them by as much.                                *)
LEMMA SumMore ==
  ASSUME NEW f, NEW g, NEW S, IsFiniteSet(S), \A x \in S : f[x] \in Int,
         NEW x \in S, NEW d \in Int, g[x] = f[x] + d, \A y \in S \ {x} : g[y] = f[y]
  PROVE  Sum(g, S) = Sum(f, S) + d
  <1>1. Sum(f, S) = f[x] + Sum(f, S \ {x}) /\ Sum(g, S) = g[x] + Sum(g, S \ {x})
    <2>1. \A y \in S : g[y] \in Int BY f[x] \in Int
    <2> QED BY <2>1, SumWithout
  <1>2. IsFiniteSet(S \ {x}) BY FS_Subset
  <1>3. Sum(g, S \ {x}) = Sum(f, S \ {x})
    <2> DEFINE R == S \ {x}
    <2>1. IsFiniteSet(R) /\ \A y \in R : g[y] = f[y] BY <1>2
    <2> HIDE DEF R
    <2>2. Sum(g, R) = Sum(f, R) BY <2>1, SumSame
    <2> QED BY <2>2 DEF R
  <1>4. Sum(f, S \ {x}) \in Int /\ f[x] \in Int
    <2>1. S \ {x} \in SUBSET S OBVIOUS
    <2> QED BY <2>1, SumIsInt
  <1> QED BY <1>1, <1>3, <1>4

(* What the accounts and strategies of a book hold together is such a sum. *)
LEMMA TotalIsSum ==
  ASSUME NEW h, NEW S, NEW ty, NEW dir
  PROVE  Total(h, S, ty, dir) = Sum([o \in S |-> h[o][ty][dir]], S)
  <1> DEFINE f == [o \in S |-> h[o][ty][dir]]
             A(g) == g = [s \in SUBSET S |-> IF s = {} THEN 0 ELSE h[Some(s)][ty][dir] + g[Rest(s)]]
  <1>1. Total(h, S, ty, dir) = (CHOOSE g : A(g))[S]
    BY DEF Total, Some, Rest, MapThenSumSet, MapThenFoldSet
  <1>2. \A g : A(g) <=> SumsOf(f, S, g)
    <2> SUFFICES ASSUME NEW g PROVE A(g) <=> SumsOf(f, S, g)
      OBVIOUS
    <2>1. \A s \in SUBSET S : s # {} => f[Some(s)] = h[Some(s)][ty][dir]
      BY RestIsLess
    <2> HIDE DEF f
    <2>2. [s \in SUBSET S |-> IF s = {} THEN 0 ELSE h[Some(s)][ty][dir] + g[Rest(s)]]
          = [s \in SUBSET S |-> IF s = {} THEN 0 ELSE f[Some(s)] + g[Rest(s)]]
      BY <2>1
    <2> QED BY <2>2 DEF SumsOf
  <1>3. (CHOOSE g : A(g)) = (CHOOSE g : SumsOf(f, S, g))
    <2> HIDE DEF A, f
    <2> QED BY <1>2
  <1> HIDE DEF A, f
  <1>4. Sum(f, S) = (CHOOSE g : SumsOf(f, S, g))[S]
    BY SumIsLast DEF Sums
  <1> QED BY <1>1, <1>3, <1>4 DEF f

-----------------------------------------------------------------------------
(* The books against the market. What is held, trade by trade: p[i] is     *)
(* what the accounts held before the trade i + 1 that the ledger has still *)
(* to handle.                                                              *)
Shares == Accounts \X (Strategies \cup {PUBLIC})
Holdings == [Shares -> [Types -> [Directions -> Nat]]]
SharesOf(o) == IF o \in Strategies THEN Accounts \X {o} ELSE {o} \X (Strategies \cup {PUBLIC})

ChangeOf(t) == Change(t.type, t.side, t.offset)
After(h, t) ==
  IF ChangeOf(t) = << >> THEN h
  ELSE [h EXCEPT ![<<t.account, t.by>>][t.type][ChangeOf(t)[1]] = @ + ChangeOf(t)[2]]

History(p) ==
  /\ p \in [0 .. Len(inbox) -> Holdings]
  /\ p[Len(inbox)] = held
  /\ \A i \in 1 .. Len(inbox) : p[i] = After(p[i - 1], inbox[i])

(* The books hold what the shares of their owners add up to,               *)
InBooks(h) ==
  \A o \in Owners, dir \in Directions :
    /\ \A ty \in WithMethod : position[o][ty][dir] = Total(h, SharesOf(o), ty, dir)
    /\ \A ty \in Types \ WithMethod : position[o][ty][dir] = 0

(* counting the trades up to the one the ledger is at: before update_book  *)
(* has run, those already removed from the inbox, and after it the one at  *)
(* the head too.                                                           *)
BooksFollow == \E p : History(p) /\ InBooks(p[IF applied THEN 1 ELSE 0])

LEMMA SharesFinite ==
  ASSUME NEW o \in Owners
  PROVE  IsFiniteSet(SharesOf(o)) /\ SharesOf(o) \subseteq Shares
  <1>1. IsFiniteSet(Strategies \cup {PUBLIC})
    BY OwnersAssumption, FS_AddElement
  <1>2. IsFiniteSet({o}) BY FS_Singleton
  <1>3. IsFiniteSet(Accounts \X {o}) /\ IsFiniteSet({o} \X (Strategies \cup {PUBLIC}))
    BY <1>1, <1>2, OwnersAssumption, FS_Product
  <1> QED BY <1>3 DEF SharesOf, Shares, Owners

(* update_book is called for the two owners whose shares the trade         *)
(* changes.                                                                *)
LEMMA TheirShares ==
  ASSUME NEW t \in Trades, NEW o \in Owners
  PROVE  <<t.account, t.by>> \in SharesOf(o) <=> o \in Updated(t)
  <1>1. t.account \in Accounts /\ t.by \in Strategies \cup {PUBLIC}
    BY DEF Trades
  <1> QED BY <1>1, OwnersAssumption DEF SharesOf, Updated, Owners

LEMMA ChangeType ==
  ASSUME NEW t
  PROVE  \/ ChangeOf(t) = << >>
         \/ \E d \in Directions, n \in {1, -1} : ChangeOf(t) = <<d, n>>
  BY DEF ChangeOf, Change, Directions

(* Where get_direction names a direction, it is the one in which the       *)
(* exchanges change a position,                                            *)
LEMMA ChangeIsDirected ==
  ASSUME NEW ty, NEW side \in Sides, NEW offset \in Offsets,
         Change(ty, side, offset) # << >>, get_direction(ty, side, offset) # Throws
  PROVE  Change(ty, side, offset)[1] = get_direction(ty, side, offset)
  <1>1. CASE side \in Credit
    BY <1>1 DEF Change, get_direction, Credit, CreditDirection
  <1>2. CASE side = "Lock"
    BY <1>2 DEF Change
  <1>3. CASE side = "Buy"
    <2>1. Change(ty, side, offset)[1] = IF CashOnly(ty) \/ offset = "Open" THEN "Long" ELSE "Short"
      BY <1>3 DEF Change
    <2>2. get_direction(ty, side, offset) =
            IF CashOnly(ty) \/ offset = "Open" THEN "Long" ELSE "Short"
      BY <1>3 DEF get_direction, Credit, is_shortable, Closes, Offsets
    <2> QED BY <2>1, <2>2
  <1>4. CASE side = "Sell"
    <2>1. Change(ty, side, offset)[1] = IF CashOnly(ty) \/ offset # "Open" THEN "Long" ELSE "Short"
      BY <1>4 DEF Change
    <2>2. get_direction(ty, side, offset) =
            IF CashOnly(ty) \/ offset # "Open" THEN "Long" ELSE "Short"
      BY <1>4 DEF get_direction, Credit, is_shortable, Closes, Offsets
    <2> QED BY <2>1, <2>2
  <1> QED BY <1>1, <1>2, <1>3, <1>4 DEF Sides, Plain

(* and the amount that update_book applies is the change.                  *)
LEMMA ChangeIsApplied ==
  ASSUME NEW t \in Trades, Direction(t) # Throws
  PROVE  \/ ChangeOf(t) = << >> /\ Amount(t) = 0
         \/ ChangeOf(t) # << >> /\ ChangeOf(t)[1] = Direction(t) /\ ChangeOf(t)[2] = Amount(t)
  <1>1. t.side \in Sides /\ t.offset \in Offsets BY DEF Trades
  <1>2. ChangeOf(t) # << >> => ChangeOf(t)[1] = Direction(t)
    BY <1>1, ChangeIsDirected DEF ChangeOf, Direction
  <1>3. ChangeOf(t) = << >> => Amount(t) = 0
    BY DEF Amount, ChangeOf
  <1>4. ChangeOf(t) # << >> => ChangeOf(t)[2] = Amount(t)
    BY DEF Amount, ChangeOf
  <1> QED BY <1>2, <1>3, <1>4

(* One trade changes one cell of what is held,                             *)
LEMMA AfterAt ==
  ASSUME NEW h \in Holdings, NEW t \in Trades
  PROVE  /\ After(h, t) \in [Shares -> [Types -> [Directions -> Int]]]
         /\ \A y \in Shares, ty \in Types, dir \in Directions :
              After(h, t)[y][ty][dir] =
                h[y][ty][dir] +
                  IF /\ ChangeOf(t) # << >> /\ y = <<t.account, t.by>> /\ ty = t.type
                     /\ dir = ChangeOf(t)[1]
                  THEN ChangeOf(t)[2] ELSE 0
  <1> DEFINE x == <<t.account, t.by>>
  <1>1. x \in Shares /\ t.type \in Types
    BY DEF Trades, Shares
  <1>2. CASE ChangeOf(t) = << >>
    BY <1>2 DEF After, Holdings
  <1>3. CASE \E d \in Directions, n \in {1, -1} : ChangeOf(t) = <<d, n>>
    <2>1. PICK d \in Directions, n \in {1, -1} : ChangeOf(t) = <<d, n>>
      BY <1>3
    <2> DEFINE row == [h[x][t.type] EXCEPT ![d] = h[x][t.type][d] + n]
               table == [h[x] EXCEPT ![t.type] = row]
    <2>2. ChangeOf(t) # << >> /\ ChangeOf(t)[1] = d /\ ChangeOf(t)[2] = n
      BY <2>1
    <2>3. After(h, t) = [h EXCEPT ![x] = table]
      BY <1>1, <2>2 DEF After, Holdings
    <2>4. h[x] \in [Types -> [Directions -> Nat]] /\ h[x][t.type] \in [Directions -> Nat]
      BY <1>1 DEF Holdings
    <2>5. /\ row \in [Directions -> Int]
          /\ \A dir \in Directions : row[dir] = h[x][t.type][dir] + IF dir = d THEN n ELSE 0
      <3> DEFINE r == h[x][t.type]
      <3>1. r \in [Directions -> Nat] BY <2>4
      <3> HIDE DEF r
      <3>2. n \in Int /\ \A dir \in Directions : r[dir] \in Int /\ r[dir] + 0 = r[dir]
        BY <3>1
      <3>3. [r EXCEPT ![d] = r[d] + n] \in [Directions -> Int]
        BY <3>1, <3>2
      <3>4. \A dir \in Directions :
              [r EXCEPT ![d] = r[d] + n][dir] = r[dir] + IF dir = d THEN n ELSE 0
        BY <3>1, <3>2
      <3> QED BY <3>3, <3>4 DEF r
    <2> HIDE DEF row
    <2>6. /\ table \in [Types -> [Directions -> Int]]
          /\ \A ty \in Types : table[ty] = IF ty = t.type THEN row ELSE h[x][ty]
      <3> DEFINE r == h[x]
      <3> HIDE DEF r
      <3>1. r \in [Types -> [Directions -> Int]]
        <4>1. r \in [Types -> [Directions -> Nat]] BY <2>4 DEF r
        <4>2. ASSUME NEW ty \in Types PROVE r[ty] \in [Directions -> Int]
          <5>1. r[ty] \in [Directions -> Nat] BY <4>1
          <5> QED BY <5>1
        <4> QED BY <4>1, <4>2
      <3>2. /\ [r EXCEPT ![t.type] = row] \in [Types -> [Directions -> Int]]
            /\ \A ty \in Types :
                 [r EXCEPT ![t.type] = row][ty] = IF ty = t.type THEN row ELSE r[ty]
        BY <3>1, <2>5
      <3> QED BY <3>2 DEF r
    <2> HIDE DEF table
    <2>7. /\ After(h, t) \in [Shares -> [Types -> [Directions -> Int]]]
          /\ \A y \in Shares : After(h, t)[y] = IF y = x THEN table ELSE h[y]
      BY <1>1, <2>3, <2>6 DEF Holdings
    <2> HIDE DEF x
    <2>8. ASSUME NEW y \in Shares, NEW ty \in Types, NEW dir \in Directions
          PROVE  After(h, t)[y][ty][dir] =
                   h[y][ty][dir] + IF y = x /\ ty = t.type /\ dir = d THEN n ELSE 0
      <3>1. h[y][ty][dir] \in Int BY DEF Holdings
      <3> QED BY <3>1, <2>5, <2>6, <2>7
    <2> QED BY <2>2, <2>7, <2>8 DEF x
  <1> QED BY <1>2, <1>3, ChangeType

LEMMA TotalIsNat ==
  ASSUME NEW h \in Holdings, NEW o \in Owners, NEW ty \in Types, NEW dir \in Directions
  PROVE  Total(h, SharesOf(o), ty, dir) \in Nat
  <1> DEFINE S == SharesOf(o)
             f == [y \in S |-> h[y][ty][dir]]
  <1>1. IsFiniteSet(S) /\ S \in SUBSET S /\ \A y \in S : f[y] \in Nat
    BY SharesFinite DEF Holdings
  <1>2. Total(h, S, ty, dir) = Sum(f, S)
    BY TotalIsSum
  <1> HIDE DEF f, S
  <1> QED BY <1>1, <1>2, SumIsNat DEF S

(* hence the total of each owner it concerns by the amount, and no other.  *)
LEMMA TotalAfter ==
  ASSUME NEW h \in Holdings, NEW t \in Trades, NEW o \in Owners, NEW ty \in Types,
         NEW dir \in Directions
  PROVE  Total(After(h, t), SharesOf(o), ty, dir) =
           Total(h, SharesOf(o), ty, dir) +
             IF /\ ChangeOf(t) # << >> /\ o \in Updated(t) /\ ty = t.type
                /\ dir = ChangeOf(t)[1]
             THEN ChangeOf(t)[2] ELSE 0
  <1> DEFINE x == <<t.account, t.by>>
             S == SharesOf(o)
             f == [y \in S |-> h[y][ty][dir]]
             g == [y \in S |-> After(h, t)[y][ty][dir]]
             d == IF ChangeOf(t) # << >> /\ ty = t.type /\ dir = ChangeOf(t)[1]
                  THEN ChangeOf(t)[2] ELSE 0
  <1>1. IsFiniteSet(S) /\ S \subseteq Shares
    BY SharesFinite
  <1>2. \A y \in S : f[y] \in Int
    BY <1>1 DEF Holdings
  <1>3. \A y \in S : g[y] = f[y] + IF y = x THEN d ELSE 0
    BY <1>1, AfterAt
  <1>4. x \in S <=> o \in Updated(t)
    BY TheirShares
  <1>5. d \in Int
    BY ChangeType
  <1>6. Total(h, S, ty, dir) = Sum(f, S) /\ Total(After(h, t), S, ty, dir) = Sum(g, S)
    BY TotalIsSum
  <1> HIDE DEF f, g, d, S, x
  <1>7. Sum(f, S) \in Int
    <2>1. S \in SUBSET S OBVIOUS
    <2> QED BY <2>1, <1>1, <1>2, SumIsInt
  <1>8. CASE x \in S
    <2>1. g[x] = f[x] + d /\ \A y \in S \ {x} : g[y] = f[y]
      BY <1>2, <1>3, <1>8
    <2>2. Sum(g, S) = Sum(f, S) + d
      BY <1>1, <1>2, <1>5, <1>8, <2>1, SumMore
    <2> QED BY <1>4, <1>6, <1>7, <1>8, <2>2 DEF d, S
  <1>9. CASE x \notin S
    <2>1. \A y \in S : f[y] = g[y]
      BY <1>2, <1>3, <1>9
    <2>2. Sum(f, S) = Sum(g, S)
      BY <1>1, <2>1, SumSame
    <2> QED BY <1>4, <1>6, <1>7, <1>9, <2>2 DEF S
  <1> QED BY <1>8, <1>9

(* BooksFollow is inductive, with TypeOK.                                  *)
LEMMA InitFollows == Init => BooksFollow
  <1> SUFFICES ASSUME Init PROVE BooksFollow
    OBVIOUS
  <1> DEFINE p == [i \in 0 .. 0 |-> held]
  <1>1. held \in Holdings
    BY DEF Init, Flat, Holdings, Shares
  <1>2. Len(inbox) = 0 /\ applied = FALSE /\ p[0] = held
    BY DEF Init
  <1>3. History(p)
    <2>1. 1 .. 0 = {} OBVIOUS
    <2> QED BY <1>1, <1>2, <2>1 DEF History
  <1>4. InBooks(held)
    <2>1. ASSUME NEW o \in Owners, NEW dir \in Directions, NEW ty \in Types
          PROVE  position[o][ty][dir] = 0 /\ Total(held, SharesOf(o), ty, dir) = 0
      <3> DEFINE f == [y \in SharesOf(o) |-> held[y][ty][dir]]
      <3>1. \A y \in SharesOf(o) : f[y] = 0
        BY SharesFinite DEF Init, Flat, Shares
      <3>2. Total(held, SharesOf(o), ty, dir) = Sum(f, SharesOf(o))
        BY TotalIsSum
      <3> HIDE DEF f
      <3>3. Sum(f, SharesOf(o)) = 0
        BY <3>1, SharesFinite, SumOfZeros
      <3> QED BY <3>2, <3>3 DEF Init, Flat
    <2> QED BY <2>1, TypesAssumption DEF InBooks
  <1> HIDE DEF p
  <1> QED BY <1>2, <1>3, <1>4 DEF BooksFollow

(* A trade of the market adds a state to the history.                      *)
LEMMA TradeFollows ==
  ASSUME TypeOK, BooksFollow, NEW account \in Accounts, NEW by \in Strategies \cup {PUBLIC},
         NEW ty \in Types, NEW kind \in Kinds(ty), Trade(account, by, ty, kind[1], kind[2])
  PROVE  BooksFollow'
  <1> DEFINE trade == [account |-> account, by |-> by, type |-> ty,
                       side |-> kind[1], offset |-> kind[2]]
             n == Len(inbox)
  <1>1. PICK p : History(p) /\ InBooks(p[IF applied THEN 1 ELSE 0])
    BY DEF BooksFollow
  <1>2. trade \in Trades
    BY KindsAreSides DEF Trades
  <1>3. held \in Holdings /\ held' = After(held, trade) /\ held' \in Holdings
    <2>1. held \in Holdings
      <3>1. n \in Nat /\ n \in 0 .. n BY DEF TypeOK
      <3> QED BY <3>1, <1>1 DEF History
    <2>2. CASE ChangeOf(trade) = << >>
      BY <2>1, <2>2 DEF Trade, After, ChangeOf
    <2>3. CASE ChangeOf(trade) # << >>
      <3> DEFINE c == ChangeOf(trade)
      <3>1. PICK d \in Directions, m \in {1, -1} : c = <<d, m>>
        BY <2>3, ChangeType
      <3>2. held[<<account, by>>][ty][c[1]] + c[2] >= 0 /\ held' = After(held, trade)
        BY <2>3 DEF Trade, After, ChangeOf
      <3>3. <<account, by>> \in Shares /\ c[1] \in Directions
        BY <3>1 DEF Shares
      <3> HIDE DEF c
      <3>4. ASSUME NEW y \in Shares, NEW t \in Types, NEW dir \in Directions
            PROVE  held'[y][t][dir] \in Nat
        <4>1. held[y][t][dir] \in Nat BY <2>1 DEF Holdings
        <4>2. held'[y][t][dir] = held[y][t][dir] +
                IF y = <<account, by>> /\ t = ty /\ dir = c[1] THEN c[2] ELSE 0
          BY <1>2, <2>1, <2>3, <3>2, AfterAt DEF c
        <4>3. c[2] \in Int BY <3>1
        <4> QED BY <4>1, <4>2, <4>3, <3>2
      <3>5. held' \in [Shares -> [Types -> [Directions -> Int]]]
        BY <1>2, <2>1, <3>2, AfterAt
      <3> QED BY <2>1, <3>2, <3>4, <3>5 DEF Holdings
    <2> QED BY <2>2, <2>3
  <1>4. inbox' = Append(inbox, trade) /\ applied' = applied /\ position' = position
    BY DEF Trade, books
  <1> HIDE DEF trade
  <1>5. /\ n \in Nat /\ Len(inbox') = n + 1 /\ inbox'[n + 1] = trade
        /\ \A i \in 1 .. n : inbox'[i] = inbox[i]
    BY <1>2, <1>4 DEF TypeOK
  <1> DEFINE q == [i \in 0 .. n + 1 |-> IF i = n + 1 THEN held' ELSE p[i]]
  <1>6. /\ q \in [0 .. n + 1 -> Holdings] /\ q[n + 1] = held'
        /\ \A i \in 1 .. n + 1 : q[i] = After(q[i - 1], inbox'[i])
        /\ q[IF applied' THEN 1 ELSE 0] = p[IF applied THEN 1 ELSE 0]
    <2>1. p \in [0 .. n -> Holdings] /\ p[n] = held
          /\ \A i \in 1 .. n : p[i] = After(p[i - 1], inbox[i])
      BY <1>1 DEF History
    <2>2. applied \in BOOLEAN /\ (applied => n >= 1)
      BY <1>5 DEF TypeOK
    <2> HIDE DEF n
    <2>3. q \in [0 .. n + 1 -> Holdings] /\ q[n + 1] = held'
      BY <1>3, <1>5, <2>1
    <2>4. ASSUME NEW i \in 1 .. n + 1 PROVE q[i] = After(q[i - 1], inbox'[i])
      <3>1. CASE i = n + 1
        BY <1>3, <1>5, <2>1, <3>1
      <3>2. CASE i # n + 1
        <4>1. i \in 1 .. n /\ i \in 0 .. n + 1 /\ i - 1 \in 0 .. n + 1 /\ i - 1 # n + 1
          BY <1>5, <3>2
        <4> QED BY <4>1, <3>2, <1>5, <2>1
      <3> QED BY <3>1, <3>2
    <2>5. q[IF applied' THEN 1 ELSE 0] = p[IF applied THEN 1 ELSE 0]
      BY <1>4, <1>5, <2>2
    <2> HIDE DEF q
    <2> QED BY <2>3, <2>4, <2>5
  <1> HIDE DEF q, n
  <1>7. PICK past : /\ past \in [0 .. n + 1 -> Holdings] /\ past[n + 1] = held'
                    /\ \A i \in 1 .. n + 1 : past[i] = After(past[i - 1], inbox'[i])
                    /\ past[IF applied' THEN 1 ELSE 0] = p[IF applied THEN 1 ELSE 0]
    BY <1>6
  <1>8. History(past)'
    BY <1>5, <1>7 DEF History
  <1>9. InBooks(past[IF applied THEN 1 ELSE 0])'
    <2>1. PICK b : b = p[IF applied THEN 1 ELSE 0] OBVIOUS
    <2>2. InBooks(b)' BY <1>1, <1>4, <2>1 DEF InBooks
    <2>3. past[IF applied' THEN 1 ELSE 0] = b BY <1>7, <2>1
    <2> QED BY <2>2, <2>3
  <1> QED BY <1>8, <1>9 DEF BooksFollow

(* update_book goes to the next state of the history.                      *)
LEMMA UpdateBookFollows == TypeOK /\ BooksFollow /\ UpdateBook => BooksFollow'
  <1> SUFFICES ASSUME TypeOK, BooksFollow, UpdateBook PROVE BooksFollow'
    OBVIOUS
  <1> DEFINE trade == Head(inbox)
  <1>1. PICK p : History(p) /\ InBooks(p[IF applied THEN 1 ELSE 0])
    BY DEF BooksFollow
  <1>2. ~applied /\ inbox # << >> /\ UNCHANGED <<inbox, held>>
    BY DEF UpdateBook
  <1>3. trade \in Trades /\ Len(inbox) \in Nat /\ Len(inbox) >= 1 /\ trade = inbox[1]
    BY <1>2 DEF TypeOK
  <1>4. History(p)'
    BY <1>1, <1>2 DEF History
  <1>5. p[0] \in Holdings /\ p[1] = After(p[0], trade) /\ InBooks(p[0])
    BY <1>1, <1>2, <1>3 DEF History
  <1>6. CASE trade.type \notin WithMethod /\ applied' = TRUE /\ UNCHANGED <<books, running>>
    <2>1. ASSUME NEW o \in Owners, NEW dir \in Directions, NEW ty \in WithMethod
          PROVE  Total(p[1], SharesOf(o), ty, dir) = Total(p[0], SharesOf(o), ty, dir)
      <3>1. ty \in Types /\ ty # trade.type BY <1>6, TypesAssumption
      <3>2. Total(p[0], SharesOf(o), ty, dir) \in Int
        BY <1>5, <3>1, TotalIsNat
      <3> QED BY <1>3, <1>5, <3>1, <3>2, TotalAfter
    <2>2. InBooks(p[1])
      BY <1>5, <2>1 DEF InBooks
    <2>3. InBooks(p[1])'
      BY <1>6, <2>2 DEF InBooks, books
    <2> QED BY <1>4, <1>6, <2>3 DEF BooksFollow
  <1>7. CASE running' = FALSE /\ UNCHANGED <<books, applied>>
    <2>1. InBooks(p[0])'
      BY <1>5, <1>7 DEF InBooks, books
    <2> QED BY <1>2, <1>4, <1>7, <2>1 DEF BooksFollow
  <1>8. CASE /\ trade.type \in WithMethod /\ Direction(trade) # Throws
             /\ position' = [o \in Owners |->
                  IF o \in Updated(trade)
                    THEN [position[o] EXCEPT ![trade.type][Direction(trade)] = @ + Amount(trade)]
                    ELSE position[o]]
             /\ applied' = TRUE
    <2> DEFINE d == Direction(trade)
               ty == trade.type
               m == Amount(trade)
    <2>1. d \in Directions /\ ty \in Types /\ m \in Int /\ ty \in WithMethod
      BY <1>2, <1>3, <1>8, HeadIsTrade, AmountIsInt DEF Trades, TypeOK
    <2>2. ASSUME NEW o \in Owners, NEW t \in Types, NEW dir \in Directions
          PROVE  position'[o][t][dir] =
                   position[o][t][dir] + IF o \in Updated(trade) /\ t = ty /\ dir = d THEN m ELSE 0
      <3>1. position[o] \in [Types -> [Directions -> Int]] /\ position[o][t][dir] \in Int
        BY DEF TypeOK, Positions
      <3>2. position'[o] = IF o \in Updated(trade)
                             THEN [position[o] EXCEPT ![ty][d] = @ + m] ELSE position[o]
        BY <1>8
      <3> HIDE DEF d, ty, m
      <3>3. [position[o] EXCEPT ![ty][d] = @ + m][t][dir] =
              position[o][t][dir] + IF t = ty /\ dir = d THEN m ELSE 0
        BY <3>1, <2>1
      <3> QED BY <3>1, <3>2, <3>3
    <2>3. ASSUME NEW o \in Owners, NEW t \in Types, NEW dir \in Directions
          PROVE  Total(p[1], SharesOf(o), t, dir) =
                   Total(p[0], SharesOf(o), t, dir) +
                     IF o \in Updated(trade) /\ t = ty /\ dir = d THEN m ELSE 0
      <3>1. Total(p[0], SharesOf(o), t, dir) \in Int
        BY <1>5, TotalIsNat
      <3>2. Total(p[1], SharesOf(o), t, dir) =
              Total(p[0], SharesOf(o), t, dir) +
                IF /\ ChangeOf(trade) # << >> /\ o \in Updated(trade) /\ t = ty
                   /\ dir = ChangeOf(trade)[1]
                THEN ChangeOf(trade)[2] ELSE 0
        BY <1>3, <1>5, TotalAfter
      <3>3. \/ ChangeOf(trade) = << >> /\ m = 0
            \/ ChangeOf(trade) # << >> /\ ChangeOf(trade)[1] = d /\ ChangeOf(trade)[2] = m
        BY <1>3, <1>8, ChangeIsApplied
      <3> HIDE DEF d, ty, m, trade
      <3> QED BY <3>1, <3>2, <3>3
    <2> HIDE DEF d, ty, m
    <2>4. InBooks(p[1])'
      <3>1. ASSUME NEW o \in Owners, NEW dir \in Directions, NEW t \in WithMethod
            PROVE  position'[o][t][dir] = Total(p[1], SharesOf(o), t, dir)
        <4>1. t \in Types BY TypesAssumption
        <4>2. position[o][t][dir] = Total(p[0], SharesOf(o), t, dir) BY <1>5 DEF InBooks
        <4> QED BY <4>1, <4>2, <2>2, <2>3
      <3>2. ASSUME NEW o \in Owners, NEW dir \in Directions, NEW t \in Types \ WithMethod
            PROVE  position'[o][t][dir] = 0
        <4>1. position[o][t][dir] = 0 /\ t # ty BY <1>5, <2>1 DEF InBooks
        <4> QED BY <4>1, <2>2
      <3> QED BY <3>1, <3>2 DEF InBooks
    <2> QED BY <1>4, <1>8, <2>4 DEF BooksFollow
  <1> QED BY <1>6, <1>7, <1>8 DEF UpdateBook

(* write_book removes the trade, whose state becomes the first of the      *)
(* history.                                                                *)
LEMMA WriteBookFollows == TypeOK /\ BooksFollow /\ WriteBook => BooksFollow'
  <1> SUFFICES ASSUME TypeOK, BooksFollow, WriteBook PROVE BooksFollow'
    OBVIOUS
  <1> DEFINE n == Len(inbox)
  <1>1. PICK p : History(p) /\ InBooks(p[IF applied THEN 1 ELSE 0])
    BY DEF BooksFollow
  <1>2. applied /\ inbox # << >> /\ held' = held /\ position' = position
    BY DEF WriteBook, TypeOK, books
  <1>3. CASE UNCHANGED <<inbox, applied>>
    BY <1>1, <1>2, <1>3 DEF BooksFollow, History, InBooks
  <1>4. CASE inbox' = Tail(inbox) /\ applied' = FALSE
    <2> DEFINE q == [i \in 0 .. n - 1 |-> p[i + 1]]
    <2>1. /\ n \in Nat /\ n >= 1 /\ Len(inbox') = n - 1
          /\ \A i \in 1 .. n - 1 : inbox'[i] = inbox[i + 1]
      BY <1>2, <1>4 DEF TypeOK
    <2>2. p \in [0 .. n -> Holdings] /\ p[n] = held
          /\ \A i \in 1 .. n : p[i] = After(p[i - 1], inbox[i])
      BY <1>1 DEF History
    <2>3. InBooks(p[1])
      BY <1>1, <1>2
    <2> HIDE DEF n
    <2>4. q \in [0 .. n - 1 -> Holdings] /\ q[n - 1] = held /\ q[0] = p[1]
      BY <2>1, <2>2
    <2>5. ASSUME NEW i \in 1 .. n - 1 PROVE q[i] = After(q[i - 1], inbox'[i])
      <3>1. /\ i + 1 \in 1 .. n /\ i \in 0 .. n - 1 /\ i - 1 \in 0 .. n - 1
            /\ (i - 1) + 1 = i /\ (i + 1) - 1 = i
        BY <2>1
      <3>2. q[i] = p[i + 1] /\ q[i - 1] = p[i]
        BY <3>1
      <3>3. p[i + 1] = After(p[i], inbox[i + 1])
        BY <3>1, <2>2
      <3> HIDE DEF q
      <3> QED BY <3>2, <3>3, <2>1
    <2> HIDE DEF q
    <2>6. PICK past : /\ past \in [0 .. n - 1 -> Holdings] /\ past[n - 1] = held
                      /\ past[0] = p[1]
                      /\ \A i \in 1 .. n - 1 : past[i] = After(past[i - 1], inbox'[i])
      BY <2>4, <2>5
    <2>7. History(past)'
      BY <1>2, <2>1, <2>6 DEF History
    <2>8. InBooks(past[0])'
      BY <1>2, <2>3, <2>6 DEF InBooks
    <2> QED BY <1>4, <2>7, <2>8 DEF BooksFollow
  <1> QED BY <1>3, <1>4 DEF WriteBook, told

LEMMA OthersFollow ==
  BooksFollow /\ UNCHANGED <<inbox, held, position, applied>> => BooksFollow'
  <1> SUFFICES ASSUME BooksFollow, UNCHANGED <<inbox, held, position, applied>>
               PROVE  BooksFollow'
    OBVIOUS
  <1> PICK p : History(p) /\ InBooks(p[IF applied THEN 1 ELSE 0])
    BY DEF BooksFollow
  <1> QED BY DEF BooksFollow, History, InBooks

LEMMA NextFollows == TypeOK /\ BooksFollow /\ [Next]_vars => BooksFollow'
  BY TradeFollows, UpdateBookFollows, WriteBookFollows, OthersFollow
  DEF Next, Connect, Disconnect, vars, books, told

(* With nothing in the inbox, the history has one state: what is held now. *)
LEMMA BooksMatch == TypeOK /\ BooksFollow => BooksMatchTrades
  <1> SUFFICES ASSUME TypeOK, BooksFollow PROVE BooksMatchTrades
    OBVIOUS
  <1>1. PICK p : History(p) /\ InBooks(p[IF applied THEN 1 ELSE 0])
    BY DEF BooksFollow
  <1> DEFINE h == p[IF applied THEN 1 ELSE 0]
  <1>2. h \in Holdings /\ InBooks(h)
    <2>1. Len(inbox) \in Nat /\ (applied => Len(inbox) >= 1) /\ applied \in BOOLEAN
      BY DEF TypeOK
    <2> QED BY <1>1, <2>1 DEF History
  <1>3. inbox = << >> => h = held
    BY <1>1 DEF TypeOK, History
  <1> HIDE DEF h
  <1>4. ASSUME NEW o \in Owners, NEW ty \in Types, NEW dir \in Directions
        PROVE  position[o][ty][dir] >= 0
    BY <1>2, TotalIsNat DEF InBooks
  <1>5. ASSUME inbox = << >>, NEW ty \in WithMethod, NEW dir \in Directions
        PROVE  /\ \A s \in Strategies :
                    position[s][ty][dir] = Total(held, Accounts \X {s}, ty, dir)
               /\ \A a \in Accounts :
                    position[a][ty][dir] = Total(held, {a} \X (Strategies \cup {PUBLIC}), ty, dir)
    <2>1. \A s \in Strategies : s \in Owners /\ SharesOf(s) = Accounts \X {s}
      BY DEF Owners, SharesOf
    <2>2. \A a \in Accounts : a \in Owners /\ SharesOf(a) = {a} \X (Strategies \cup {PUBLIC})
      BY OwnersAssumption DEF Owners, SharesOf
    <2>3. h = held
      BY <1>3, <1>5
    <2>4. \A o \in Owners : position[o][ty][dir] = Total(held, SharesOf(o), ty, dir)
      BY <1>2, <1>5, <2>3 DEF InBooks
    <2> QED BY <2>1, <2>2, <2>4
  <1> QED BY <1>4, <1>5 DEF BooksMatchTrades

(* Whenever the ledger has handled every trade, the books of each account  *)
(* and strategy hold what the market says it holds (Bookkeeper::on_trade,  *)
(* get_direction).                                                         *)
THEOREM BooksAreRight == Spec => []BooksMatchTrades
  <1>1. Init => BooksFollow /\ TypeOK
    BY InitFollows, InitIInv DEF IInv
  <1>2. IInv /\ BooksFollow /\ [Next]_vars => BooksFollow'
    BY NextFollows DEF IInv
  <1>3. IInv /\ BooksFollow => BooksMatchTrades
    BY BooksMatch DEF IInv
  <1> QED BY <1>1, <1>2, <1>3, Invariance, PTL DEF Spec

-----------------------------------------------------------------------------
(* Baskets. Summands that are 0 may be left out of a sum.                  *)
LEMMA SumOfSome ==
  ASSUME NEW f, NEW S, IsFiniteSet(S), NEW R \in SUBSET S,
         \A x \in S : f[x] \in Int, \A x \in S \ R : f[x] = 0
  PROVE  Sum(f, S) = Sum(f, R)
  <1> DEFINE B == {T \in SUBSET S : R \subseteq T /\ Sum(f, T) # Sum(f, R)}
  <1> SUFFICES ASSUME B # {} PROVE FALSE
    <2>1. S \in SUBSET S OBVIOUS
    <2> QED BY <2>1
  <1>1. PICK T \in B : \A U \in SUBSET T : U # T => U \notin B
    <2>1. B \in SUBSET (SUBSET S) OBVIOUS
    <2> HIDE DEF B
    <2> QED BY <2>1, LeastSubset
  <1>2. PICK x \in T : x \notin R
    <2>1. T # R BY <1>1
    <2> QED BY <2>1, <1>1
  <1>3. Sum(f, T) = f[x] + Sum(f, T \ {x})
    BY SumWithout
  <1>4. T \ {x} \in SUBSET T /\ T \ {x} # T /\ T \ {x} \in SUBSET S /\ R \subseteq T \ {x}
    BY <1>1, <1>2
  <1>5. Sum(f, T \ {x}) = Sum(f, R)
    BY <1>1, <1>4
  <1>6. f[x] = 0 /\ Sum(f, T \ {x}) \in Int
    BY <1>2, <1>4, SumIsInt
  <1> QED BY <1>1, <1>3, <1>5, <1>6

(* Updates as the trader writes them.                                      *)
Statuses == {"Pending", "Submitted", "Error", "Cancelled", "Lost", "Filled",
             "PartialFilledActive", "PartialFilledNotActive"}
Updates == [status : Statuses, volume_left : 0 .. Volume]

BasketTypeOK ==
  /\ written \in [Orders -> Seq(Updates)]
  /\ seen \in [Orders -> Nat]

(* The engine is behind the trader, and only the last update is final.     *)
LastIsFinal ==
  \A o \in Orders :
    /\ seen[o] <= Len(written[o])
    /\ \A i \in 1 .. Len(written[o]) - 1 : ~is_final_status(written[o][i].status)

BasketIInv == BasketTypeOK /\ LastIsFinal

(* What the trader reports next for an order whose last update is not      *)
(* final.                                                                  *)
LEMMA ReportedUpdates ==
  ASSUME NEW u \in Updates
  PROVE  /\ Reported(u) \subseteq Updates
         /\ is_final_status(u.status) => Reported(u) = {}
  <1>0. u.status \in Statuses /\ u.volume_left \in 0 .. Volume BY DEF Updates
  <1>1. is_final_status(u.status) => Reported(u) = {}
    BY <1>0 DEF Statuses, is_final_status, Reported
  <1> DEFINE at(s, left) == [status |-> s, volume_left |-> left]
  <1>2. \A s \in Statuses, left \in 0 .. Volume : at(s, left) \in Updates
    BY DEF Updates
  <1>3. /\ 0 \in 0 .. Volume /\ Volume \in 0 .. Volume
        /\ 1 .. Volume - 1 \subseteq 0 .. Volume /\ 1 .. u.volume_left - 1 \subseteq 0 .. Volume
    BY <1>0, VolumeAssumption
  <1>4. CASE is_final_status(u.status)
    BY <1>1, <1>4
  <1>5. CASE u.status \in {"Pending", "Submitted"}
    <2>1. Reported(u) =
            (IF u.status = "Pending" THEN {at("Submitted", Volume)} ELSE {}) \cup
            {at("Error", Volume), at("Cancelled", Volume), at("Lost", Volume), at("Filled", 0)} \cup
            {at("PartialFilledActive", left) : left \in 1 .. Volume - 1}
      BY <1>5 DEF Reported
    <2> HIDE DEF at
    <2> QED BY <2>1, <1>1, <1>2, <1>3, <1>5 DEF Statuses, is_final_status
  <1>6. CASE u.status = "PartialFilledActive"
    <2>1. Reported(u) =
            {at("PartialFilledNotActive", u.volume_left), at("Lost", u.volume_left), at("Filled", 0)}
            \cup {at("PartialFilledActive", left) : left \in 1 .. u.volume_left - 1}
      BY <1>6 DEF Reported
    <2> HIDE DEF at
    <2> QED BY <2>1, <1>0, <1>1, <1>2, <1>3, <1>6 DEF Statuses, is_final_status
  <1> QED BY <1>0, <1>4, <1>5, <1>6 DEF Statuses, is_final_status

LEMMA BasketInitIInv == BasketInit => BasketIInv
  BY DEF BasketInit, BasketIInv, BasketTypeOK, LastIsFinal

LEMMA BasketNextIInv == BasketIInv /\ [BasketNext]_basket => BasketIInv'
  <1> SUFFICES ASSUME BasketIInv, [BasketNext]_basket PROVE BasketIInv'
    OBVIOUS
  <1>0. /\ written \in [Orders -> Seq(Updates)] /\ seen \in [Orders -> Nat]
        /\ \A o \in Orders : Len(written[o]) \in Nat /\ seen[o] <= Len(written[o])
    BY DEF BasketIInv, BasketTypeOK, LastIsFinal
  <1>1. ASSUME NEW o \in Orders, Insert(o) PROVE BasketIInv'
    <2> DEFINE u == [status |-> "Pending", volume_left |-> Volume]
    <2>1. u \in Updates BY VolumeAssumption DEF Updates, Statuses
    <2>2. written' = [written EXCEPT ![o] = <<u>>] /\ seen' = seen /\ Len(written[o]) = 0
      BY <1>1 DEF Insert
    <2> HIDE DEF u
    <2>3. <<u>> \in Seq(Updates) /\ Len(<<u>>) = 1 BY <2>1
    <2> QED BY <2>2, <2>3, <1>0 DEF BasketIInv, BasketTypeOK, LastIsFinal
  <1>2. ASSUME NEW o \in Orders, Report(o) PROVE BasketIInv'
    <2> DEFINE w == written[o]
               n == Len(written[o])
    <2>1. w \in Seq(Updates) /\ n \in Nat /\ n >= 1 /\ w[n] \in Updates /\ Last(o) = w[n]
      BY <1>0, <1>2 DEF Report, Last
    <2>2. PICK u \in Reported(Last(o)) : written' = [written EXCEPT ![o] = Append(w, u)]
      BY <1>2 DEF Report
    <2>3. u \in Updates /\ ~is_final_status(w[n].status)
      BY <2>1, <2>2, ReportedUpdates
    <2>4. seen' = seen BY <1>2 DEF Report
    <2>5. \A i \in 1 .. n - 1 : ~is_final_status(w[i].status)
      BY DEF BasketIInv, LastIsFinal
    <2>6. seen[o] <= n BY <1>0
    <2> HIDE DEF w, n
    <2>7. /\ Append(w, u) \in Seq(Updates) /\ Len(Append(w, u)) = n + 1
          /\ \A i \in 1 .. n : Append(w, u)[i] = w[i]
      BY <2>1, <2>3 DEF n, w
    <2>8. \A i \in 1 .. n : ~is_final_status(Append(w, u)[i].status)
      BY <2>1, <2>3, <2>5, <2>7
    <2>9. BasketTypeOK'
      BY <1>0, <2>2, <2>4, <2>7 DEF BasketTypeOK
    <2>10. ASSUME NEW p \in Orders
           PROVE  /\ seen'[p] <= Len(written'[p])
                  /\ \A i \in 1 .. Len(written'[p]) - 1 : ~is_final_status(written'[p][i].status)
      <3>1. CASE p = o
        <4>1. written'[p] = Append(w, u) /\ seen'[p] = seen[o] /\ (n + 1) - 1 = n
          BY <1>0, <2>1, <2>2, <2>4, <3>1
        <4> QED BY <4>1, <1>0, <2>1, <2>6, <2>7, <2>8
      <3>2. CASE p # o
        <4>1. written'[p] = written[p] /\ seen'[p] = seen[p]
          BY <1>0, <2>2, <2>4, <3>2
        <4> QED BY <4>1 DEF BasketIInv, LastIsFinal
      <3> QED BY <3>1, <3>2
    <2> QED BY <2>9, <2>10 DEF BasketIInv, LastIsFinal
  <1>3. ASSUME NEW o \in Orders, Read(o) PROVE BasketIInv'
    BY <1>0, <1>3 DEF Read, BasketIInv, BasketTypeOK, LastIsFinal
  <1>4. CASE Restore
    BY <1>0, <1>4 DEF Restore, BasketIInv, BasketTypeOK, LastIsFinal
  <1>5. CASE UNCHANGED basket
    BY <1>5 DEF basket, BasketIInv, BasketTypeOK, LastIsFinal
  <1> QED BY <1>1, <1>2, <1>3, <1>4, <1>5 DEF BasketNext

(* The two volumes as sums,                                                *)
LEMMA TradedIsSum ==
  LET f == [o \in InMap |-> Traded(Kept(o))]
  IN  get_total_traded_volume = Sum(f, InMap)
  <1> DEFINE f == [o \in InMap |-> Traded(Kept(o))]
             A(g) == g = [s \in SUBSET InMap |->
                            IF s = {} THEN 0 ELSE Traded(Kept(Some(s))) + g[Rest(s)]]
  <1>1. get_total_traded_volume = (CHOOSE g : A(g))[InMap]
    BY DEF get_total_traded_volume, Some, Rest, MapThenSumSet, MapThenFoldSet
  <1>2. ASSUME NEW g PROVE A(g) <=> SumsOf(f, InMap, g)
    <2>1. \A s \in SUBSET InMap : s # {} => f[Some(s)] = Traded(Kept(Some(s)))
      BY RestIsLess
    <2> HIDE DEF f
    <2>2. [s \in SUBSET InMap |-> IF s = {} THEN 0 ELSE Traded(Kept(Some(s))) + g[Rest(s)]]
          = [s \in SUBSET InMap |-> IF s = {} THEN 0 ELSE f[Some(s)] + g[Rest(s)]]
      BY <2>1
    <2> QED BY <2>2 DEF SumsOf
  <1>3. (CHOOSE g : A(g)) = (CHOOSE g : SumsOf(f, InMap, g))
    <2> HIDE DEF A, f
    <2> QED BY <1>2
  <1> HIDE DEF A, f
  <1>4. Sum(f, InMap) = (CHOOSE g : SumsOf(f, InMap, g))[InMap]
    BY SumIsLast DEF Sums
  <1> QED BY <1>1, <1>3, <1>4 DEF f

LEMMA TraderIsSum ==
  LET f == [o \in Orders |-> TradedOf(o)]
  IN  traded_by_trader = Sum(f, Orders)
  <1> DEFINE f == [o \in Orders |-> TradedOf(o)]
             A(g) == g = [s \in SUBSET Orders |->
                            IF s = {} THEN 0 ELSE TradedOf(Some(s)) + g[Rest(s)]]
  <1>1. traded_by_trader = (CHOOSE g : A(g))[Orders]
    BY DEF traded_by_trader, Some, Rest, MapThenSumSet, MapThenFoldSet
  <1>2. ASSUME NEW g PROVE A(g) <=> SumsOf(f, Orders, g)
    <2>1. \A s \in SUBSET Orders : s # {} => f[Some(s)] = TradedOf(Some(s))
      BY RestIsLess
    <2> HIDE DEF f
    <2>2. [s \in SUBSET Orders |-> IF s = {} THEN 0 ELSE TradedOf(Some(s)) + g[Rest(s)]]
          = [s \in SUBSET Orders |-> IF s = {} THEN 0 ELSE f[Some(s)] + g[Rest(s)]]
      BY <2>1
    <2> QED BY <2>2 DEF SumsOf
  <1>3. (CHOOSE g : A(g)) = (CHOOSE g : SumsOf(f, Orders, g))
    <2> HIDE DEF A, f
    <2> QED BY <1>2
  <1> HIDE DEF A, f
  <1>4. Sum(f, Orders) = (CHOOSE g : SumsOf(f, Orders, g))[Orders]
    BY SumIsLast DEF Sums
  <1> QED BY <1>1, <1>3, <1>4 DEF f

(* which have the same summands when each order in the map is at its end:  *)
(* the engine has then read the last update of each, and other orders have *)
(* traded nothing.                                                         *)
LEMMA NothingMore == BasketIInv => EndMeansNothingMore
  <1> SUFFICES ASSUME BasketIInv, is_all_order_end,
                      \A o \in Orders : written[o] # <<>> => o \in InMap
               PROVE  get_total_traded_volume = traded_by_trader
    BY DEF EndMeansNothingMore
  <1> DEFINE f == [o \in InMap |-> Traded(Kept(o))]
             h == [o \in Orders |-> TradedOf(o)]
  <1>1. ASSUME NEW o \in InMap
        PROVE  o \in Orders /\ written[o] # <<>> /\ seen[o] = Len(written[o])
               /\ written[o] \in Seq(Updates)
    <2>1. /\ o \in Orders /\ seen[o] \in Nat /\ seen[o] > 0 /\ seen[o] <= Len(written[o])
          /\ written[o] \in Seq(Updates) /\ Len(written[o]) \in Nat
      BY DEF InMap, BasketIInv, BasketTypeOK, LastIsFinal
    <2>2. is_final_status(written[o][seen[o]].status)
      BY DEF is_all_order_end, Kept
    <2>3. ~(seen[o] \in 1 .. Len(written[o]) - 1)
      BY <2>1, <2>2 DEF BasketIInv, LastIsFinal
    <2> QED BY <2>1, <2>3
  <1>2. \A o \in InMap : f[o] = h[o]
    BY <1>1 DEF TradedOf, Traded, Kept, Last
  <1>3. \A o \in Orders \ InMap : h[o] = 0
    BY DEF TradedOf
  <1>4. \A o \in Orders : h[o] \in Int
    <2>1. ASSUME NEW o \in Orders, written[o] # <<>>
          PROVE  Traded(Last(o)) \in Int
      <3>1. Last(o) \in Updates
        BY <2>1 DEF Last, BasketIInv, BasketTypeOK
      <3> QED BY <3>1, VolumeAssumption DEF Updates, Traded
    <2> QED BY <2>1 DEF TradedOf
  <1>5. IsFiniteSet(InMap) /\ InMap \in SUBSET Orders
    BY OrdersAssumption, FS_Subset DEF InMap
  <1>6. get_total_traded_volume = Sum(f, InMap) /\ traded_by_trader = Sum(h, Orders)
    BY TradedIsSum, TraderIsSum
  <1> HIDE DEF f, h
  <1>7. Sum(f, InMap) = Sum(h, InMap)
    BY <1>2, <1>5, SumSame
  <1>8. Sum(h, Orders) = Sum(h, InMap)
    BY <1>3, <1>4, <1>5, OrdersAssumption, SumOfSome
  <1> QED BY <1>6, <1>7, <1>8

(* When the engine finds every order of a basket at its end, the volume it *)
(* adds up is what the trader has traded                                   *)
(* (BasketOrderState::is_all_order_end, get_total_traded_volume).          *)
THEOREM TradedVolumeIsFinal == BasketSpec => []EndMeansNothingMore
  <1> QED BY BasketInitIInv, BasketNextIInv, NothingMore, PTL DEF BasketSpec

-----------------------------------------------------------------------------
(* Instruments. The digits of a code, by division of its first four.       *)
LEMMA Firsts ==
  ASSUME NEW i \in Ids
  PROVE  /\ First(i, 4) = i.prefix \div 1 /\ First(i, 3) = i.prefix \div 10
         /\ First(i, 2) = i.prefix \div 100 /\ First(i, 1) = i.prefix \div 1000
  BY DEF First

LEMMA DigitsOfDigits ==
  ASSUME NEW n \in Nat, n <= 9999
  PROVE  /\ n \div 10 = 204 => n \div 100 = 20 /\ n \div 1000 = 2
         /\ n \div 1 = 1318 => n \div 10 = 131 /\ n \div 100 = 13 /\ n \div 1000 = 1
         /\ n \div 10 \in {117, 123, 125, 126, 127, 128} => n \div 100 \in {11, 12} /\ n \div 1000 = 1
         /\ n \div 10 \in {110, 113} => n \div 100 = 11 /\ n \div 1000 = 1
  OBVIOUS

(* A range of numbers of six digits fixes their first digits.              *)
LEMMA NumberSplit ==
  ASSUME NEW p \in Nat, NEW u \in Nat, p <= 9999, u <= 99
  PROVE  /\ 204001 <= 100 * p + u /\ 100 * p + u <= 204182 => p \div 10 = 204
         /\ 131800 <= 100 * p + u /\ 100 * p + u <= 131811 => p \div 1 = 1318
  OBVIOUS

LEMMA FirstsOfFirsts ==
  ASSUME NEW i \in Ids
  PROVE  /\ First(i, 3) = 204 => First(i, 2) = 20 /\ First(i, 1) = 2
         /\ First(i, 4) = 1318 => First(i, 3) = 131 /\ First(i, 2) = 13 /\ First(i, 1) = 1
         /\ First(i, 3) \in {117, 123, 125, 126, 127, 128} =>
              First(i, 2) \in {11, 12} /\ First(i, 1) = 1
         /\ First(i, 3) \in {110, 113} => First(i, 2) = 11 /\ First(i, 1) = 1
  BY IdsAssumption, Firsts, DigitsOfDigits

(* Each two tables of the China exchanges give the same answer.            *)
LEMMA TypeOnChina ==
  \A i : /\ get_instrument_type("SSE", i) = TypeOnSSE(i)
         /\ get_instrument_type("SZE", i) = TypeOnSZE(i)
  BY DEF get_instrument_type, StockExchanges, FutureExchanges

LEMMA ReposAgree ==
  ASSUME NEW i \in Ids, i.length = 6, NEW x \in {"SSE", "SZE"}, is_repo(x, i)
  PROVE  get_instrument_type(x, i) = "Repo"
  <1>1. CASE x = "SSE"
    <2>1. First(i, 3) = 204 BY <1>1 DEF is_repo
    <2>2. First(i, 2) = 20 /\ First(i, 1) = 2 BY <2>1, FirstsOfFirsts
    <2>3. TypeOnSSE(i) = "Repo" BY <2>1, <2>2 DEF TypeOnSSE
    <2> QED BY <2>3, <1>1, TypeOnChina
  <1>2. CASE x = "SZE"
    <2>1. First(i, 4) = 1318 BY <1>2 DEF is_repo
    <2>2. First(i, 3) = 131 /\ First(i, 2) = 13 /\ First(i, 1) = 1 BY <2>1, FirstsOfFirsts
    <2>3. TypeOnSZE(i) = "Repo" BY <2>2 DEF TypeOnSZE
    <2> QED BY <2>3, <1>2, TypeOnChina
  <1> QED BY <1>1, <1>2

LEMMA BondsAgree ==
  ASSUME NEW i \in Ids, i.length = 6, NEW x \in {"SSE", "SZE"}, is_convertible_bond(x, i)
  PROVE  get_instrument_type(x, i) = "Bond"
  <1>1. CASE x = "SSE"
    <2>1. First(i, 3) \in {110, 113} BY <1>1 DEF is_convertible_bond
    <2>2. First(i, 2) = 11 /\ First(i, 1) = 1 BY <2>1, FirstsOfFirsts
    <2>3. TypeOnSSE(i) = "Bond" BY <2>1, <2>2 DEF TypeOnSSE
    <2> QED BY <2>3, <1>1, TypeOnChina
  <1>2. CASE x = "SZE"
    <2>1. First(i, 3) \in {117, 123, 125, 126, 127, 128} BY <1>2 DEF is_convertible_bond
    <2>2. First(i, 2) \in {11, 12} /\ First(i, 1) = 1 BY <2>1, FirstsOfFirsts
    <2>3. TypeOnSZE(i) = "Bond" BY <2>1, <2>2 DEF TypeOnSZE
    <2> QED BY <2>3, <1>2, TypeOnChina
  <1> QED BY <1>1, <1>2

LEMMA TermsAgree ==
  ASSUME NEW i \in Ids
  PROVE  /\ get_repo_expire_days(i) > 0 <=> get_repo_commission_rate(i) > 0
         /\ get_repo_expire_days(i) > 0 => is_repo("SSE", i) \/ is_repo("SZE", i)
  <1>1. get_repo_expire_days(i) > 0 <=> get_repo_commission_rate(i) > 0
    BY DEF get_repo_expire_days, get_repo_commission_rate
  <1>2. get_repo_expire_days(i) > 0 =>
          \/ 204001 <= Number(i) /\ Number(i) <= 204182
          \/ 131800 <= Number(i) /\ Number(i) <= 131811
    BY DEF get_repo_expire_days
  <1>3. /\ 204001 <= Number(i) /\ Number(i) <= 204182 => First(i, 3) = 204
        /\ 131800 <= Number(i) /\ Number(i) <= 131811 => First(i, 4) = 1318
    BY IdsAssumption, Firsts, NumberSplit DEF Number
  <1> QED BY <1>1, <1>2, <1>3 DEF is_repo

LEMMA ProductsAreDistinct ==
  ASSUME NEW x \in DOMAIN Products, NEW y \in DOMAIN Products, NEW p \in Products[x], p \in Products[y]
  PROVE  x = y
  BY DEF Products, INEProducts

(* No product is traded on two futures exchanges, so the lookup finds its  *)
(* own.                                                                    *)
LEMMA ExchangeOf ==
  ASSUME NEW x \in DOMAIN Products, NEW p \in Products[x]
  PROVE  get_exchange_id_from_future_instrument_id(p) = x
  <1>1. \A y \in DOMAIN Products : p \in Products[y] <=> y = x
    BY ProductsAreDistinct
  <1>2. (CHOOSE y \in DOMAIN Products : p \in Products[y]) = x
    BY <1>1
  <1> DEFINE found == CHOOSE y \in DOMAIN Products : p \in Products[y]
  <1>3. get_exchange_id_from_future_instrument_id(p)
          = IF \E y \in DOMAIN Products : p \in Products[y] THEN found ELSE NoExchange
    BY DEF get_exchange_id_from_future_instrument_id
  <1> HIDE DEF found
  <1>4. found = x BY <1>2 DEF found
  <1> QED BY <1>3, <1>4

LEMMA FuturesAgree ==
  ASSUME NEW x \in DOMAIN Products, NEW p \in Products[x]
  PROVE  get_instrument_type(get_exchange_id_from_future_instrument_id(p), p) = "Future"
  <1>1. x \in {"DCE", "CZCE", "SHFE", "CFFEX", "INE"}
    BY DEF Products
  <1> QED
    BY <1>1, ExchangeOf DEF get_instrument_type, FutureExchanges, StockExchanges

(* No two ranges of the rules for Hong Kong codes overlap.                 *)
Within(q, n) == q[1] <= n /\ n <= q[2]
Apart(a, b) ==
  \A q \in HKRules[a], r \in HKRules[b] : \A n \in Nat :
    Within(q, n) /\ Within(r, n) => a = b /\ q = r

LEMMA RangesApart ==
  ASSUME NEW a \in DOMAIN HKRules, NEW b \in DOMAIN HKRules
  PROVE  Apart(a, b)
  <1>1. Apart("Fund", "Fund")         BY DEF Apart, HKRules, FundRanges, Within
  <1>2. Apart("Bond", "Bond")         BY DEF Apart, HKRules, Within
  <1>3. Apart("Stock", "Stock")       BY DEF Apart, HKRules, Within
  <1>4. Apart("StockOption", "StockOption") BY DEF Apart, HKRules, Within
  <1>5. Apart("Warrant", "Warrant")   BY DEF Apart, HKRules, Within
  <1>6. Apart("Fund", "Bond")         BY DEF Apart, HKRules, FundRanges, Within
  <1>7. Apart("Fund", "Stock")        BY DEF Apart, HKRules, FundRanges, Within
  <1>8. Apart("Fund", "StockOption")  BY DEF Apart, HKRules, FundRanges, Within
  <1>9. Apart("Fund", "Warrant")      BY DEF Apart, HKRules, FundRanges, Within
  <1>10. Apart("Bond", "Stock")       BY DEF Apart, HKRules, Within
  <1>11. Apart("Bond", "StockOption") BY DEF Apart, HKRules, Within
  <1>12. Apart("Bond", "Warrant")     BY DEF Apart, HKRules, Within
  <1>13. Apart("Stock", "StockOption") BY DEF Apart, HKRules, Within
  <1>14. Apart("Stock", "Warrant")    BY DEF Apart, HKRules, Within
  <1>15. Apart("StockOption", "Warrant") BY DEF Apart, HKRules, Within
  <1>16. \A c, d : Apart(c, d) => Apart(d, c)
    BY DEF Apart
  <1>17. DOMAIN HKRules = {"Fund", "Bond", "Stock", "StockOption", "Warrant"}
    BY DEF HKRules
  <1> QED
    BY <1>1, <1>2, <1>3, <1>4, <1>5, <1>6, <1>7, <1>8, <1>9, <1>10, <1>11, <1>12, <1>13,
       <1>14, <1>15, <1>16, <1>17

LEMMA OneRange ==
  ASSUME NEW n \in Nat
  PROVE  Cardinality(RulesFor(n)) <= 1
  <1>1. \A u \in RulesFor(n) : \E a \in DOMAIN HKRules : \E q \in HKRules[a] :
          u = <<a, q>> /\ Within(q, n)
    BY DEF RulesFor, Within
  <1>2. \A u, v \in RulesFor(n) : u = v
    <2> TAKE u, v \in RulesFor(n)
    <2>1. PICK a \in DOMAIN HKRules : \E q \in HKRules[a] : u = <<a, q>> /\ Within(q, n)
      BY <1>1
    <2>2. PICK q \in HKRules[a] : u = <<a, q>> /\ Within(q, n)
      BY <2>1
    <2>3. PICK b \in DOMAIN HKRules : \E r \in HKRules[b] : v = <<b, r>> /\ Within(r, n)
      BY <1>1
    <2>4. PICK r \in HKRules[b] : v = <<b, r>> /\ Within(r, n)
      BY <2>3
    <2>5. Apart(a, b)
      BY RangesApart
    <2> QED
      BY <2>2, <2>4, <2>5 DEF Apart
  <1>3. RulesFor(n) = {} \/ \E u : RulesFor(n) = {u}
    BY <1>2
  <1>4. CASE RulesFor(n) = {}
    BY <1>4, FS_EmptySet
  <1>5. CASE \E u : RulesFor(n) = {u}
    <2>1. PICK u : RulesFor(n) = {u}
      BY <1>5
    <2>2. Cardinality({u}) = 1
      BY FS_Singleton
    <2> QED BY <2>1, <2>2
  <1> QED BY <1>3, <1>4, <1>5

LEMMA OneRule == OneRulePerCode
  <1>1. \A i \in Ids : Number(i) \in Nat
    BY IdsAssumption DEF Number
  <1> QED BY <1>1, OneRange, ExchangeOf DEF OneRulePerCode

LEMMA Tables == TablesAgree
  BY ReposAgree, BondsAgree, TermsAgree, FuturesAgree DEF TablesAgree

(* The functions that find the type of an instrument independently give    *)
(* the same answer for every code (is_repo, is_convertible_bond,           *)
(* get_instrument_type and the tables of repo terms and products).         *)
THEOREM TypesAlwaysAgree == Spec => []TypesAgree
  <1>1. TypesAgree BY Tables DEF TypesAgree
  <1> QED BY <1>1, PTL

(* At most one rule applies to a code, so that the answer does not depend  *)
(* on the order of the rules (get_instrument_type_by_exchange_hk,          *)
(* get_exchange_id_from_future_instrument_id).                             *)
THEOREM TypesAreAlwaysUnique == Spec => []TypesAreUnique
  <1>1. TypesAreUnique BY OneRule DEF TypesAreUnique
  <1> QED BY <1>1, PTL
=================================================================================

--------------------------- MODULE RingQueueProofs ---------------------------
(***************************************************************************)
(* Proofs about RingQueue for every capacity and any number of pushes, and *)
(* about the rounding of its capacity for every width up to 64 bits.       *)
(***************************************************************************)
EXTENDS MCRingQueue, FiniteSetTheorems, WellFoundedInduction, TLAPS

(***************************************************************************)
(* Two cells less than Capacity places apart are different cells.          *)
(***************************************************************************)
LEMMA ModSpec ==
  ASSUME NEW N \in Nat \ {0}, NEW i \in Nat
  PROVE  /\ i % N \in 0 .. N - 1
         /\ i \div N \in Nat
         /\ i = N * (i \div N) + (i % N)
  OBVIOUS

LEMMA NextMultiple ==
  ASSUME NEW N \in Nat \ {0}, NEW a \in Nat, NEW b \in Nat, a < b
  PROVE  N * a + N <= N * b
  OBVIOUS

LEMMA CellType == \A i \in Nat : Cell(i) \in 0 .. Capacity - 1
  BY CapacityAssumption, ModSpec DEF Cell

LEMMA CellsDiffer ==
  ASSUME NEW i \in Nat, NEW j \in Nat, i < j, j - i < Capacity
  PROVE  Cell(i) # Cell(j)
<1> DEFINE a == i \div Capacity
           b == j \div Capacity
<1>1. /\ Capacity \in Nat \ {0}
      /\ a \in Nat /\ b \in Nat
      /\ Cell(i) \in Nat /\ Cell(j) \in Nat
      /\ i = Capacity * a + Cell(i)
      /\ j = Capacity * b + Cell(j)
  BY CapacityAssumption, ModSpec DEF Cell
<1> HIDE DEF a, b
<1>2. SUFFICES ASSUME Cell(i) = Cell(j) PROVE FALSE
  OBVIOUS
<1>3. Capacity * a \in Int /\ Capacity * b \in Int
  BY <1>1
<1>4. a < b
  <2>1. CASE a = b
    BY <1>1, <1>2, <2>1
  <2>2. CASE b < a
    <3>1. Capacity * b + Capacity <= Capacity * a
      BY <1>1, <2>2, NextMultiple
    <3> QED BY <1>1, <1>2, <1>3, <3>1
  <2> QED BY <1>1, <2>1, <2>2
<1>5. Capacity * a + Capacity <= Capacity * b
  BY <1>1, <1>4, NextMultiple
<1> QED BY <1>1, <1>2, <1>3, <1>5

-----------------------------------------------------------------------------
(***************************************************************************)
(* The inductive invariant.                                                *)
(***************************************************************************)

(* head_ never passes tail_, and never falls a whole buffer behind.        *)
Counters ==
  /\ head <= tail
  /\ tail - head <= Limit
  /\ Len(log) = tail

(* What each thread remembers of the shared counters is old, never wrong.  *)
Stale ==
  /\ ppc # "idle" => seenHead <= head
  /\ cpc # "idle" => head < tail
  /\ opc = "loaded" => sizeHead <= head

(* The items in the log are earlier pushes, in the order of their pushes.  *)
LogOrdered ==
  /\ \A i \in 1 .. Len(log) : log[i] <= offered /\ (ppc # "idle" => log[i] < offered)
  /\ \A i, j \in 1 .. Len(log) : i < j => log[i] < log[j]

(* The buffers the two threads fill hold what they should.                 *)
InHand ==
  /\ ppc # "idle" => offered # 0
  /\ ppc = "publish" => slot[Cell(tail)] = offered
  /\ cpc \in {"destroy", "advance"} => popValue = log[head + 1]
  /\ delivered = (IF head = 0 THEN Zero ELSE log[head])
  /\ cpc = "idle" /\ result => head # 0

IInv ==
  /\ TypeOK
  /\ Counters
  /\ Stale
  /\ LogOrdered
  /\ InHand
  /\ WaitingIntact
  /\ ResultStable
-----------------------------------------------------------------------------
LEMMA InitIInv == Init => IInv
<1> SUFFICES ASSUME Init PROVE IInv
  OBVIOUS
<1> USE CapacityAssumption, MaxPushAssumption DEF Init, Zero
<1>1. log \in Seq(Item) /\ Len(log) = 0
  OBVIOUS
<1>2. TypeOK
  <2>1. slot \in [0 .. Capacity - 1 -> {Zero} \cup Item]
    OBVIOUS
  <2>2. Zero \in {Zero} \cup Item /\ 0 \in Nat /\ 0 \in 0 .. MaxPush
    OBVIOUS
  <2> QED BY <1>1, <2>1, <2>2 DEF TypeOK
<1>3. Counters /\ Stale /\ LogOrdered /\ WaitingIntact
  BY <1>1 DEF Counters, Stale, LogOrdered, WaitingIntact, Limit
<1>4. InHand /\ ResultStable
  BY DEF InHand, ResultStable
<1> QED BY <1>2, <1>3, <1>4 DEF IInv

(* What a step of one side needs to know of the cells: the cell at tail_   *)
(* is none of the waiting ones, and neither is the one at head_ of another.*)
LEMMA WaitingCells ==
  ASSUME TypeOK, Counters
  PROVE  /\ Cell(tail) \in 0 .. Capacity - 1
         /\ Cell(head) \in 0 .. Capacity - 1
         /\ \A i \in head .. tail - 1 : Cell(i) # Cell(tail) /\ Cell(i) \in 0 .. Capacity - 1
         /\ \A i \in head + 1 .. tail : Cell(i) # Cell(head)
<1>1. /\ head \in Nat /\ tail \in Nat /\ Capacity \in Nat \ {0}
      /\ head <= tail /\ tail - head < Capacity
  BY CapacityAssumption DEF TypeOK, Counters, Limit
<1>2. ASSUME NEW i \in head .. tail - 1
      PROVE  Cell(i) # Cell(tail)
  BY <1>1, CellsDiffer
<1>3. ASSUME NEW i \in head + 1 .. tail
      PROVE  Cell(i) # Cell(head)
  BY <1>1, CellsDiffer
<1> QED BY <1>1, <1>2, <1>3, CellType

LEMMA ProducerIInv == IInv /\ Producer => IInv'
<1> SUFFICES ASSUME IInv, Producer PROVE IInv'
  OBVIOUS
<1> USE CapacityAssumption, MaxPushAssumption DEF Zero, Item
<1>0. TypeOK /\ Counters /\ Stale /\ LogOrdered /\ InHand /\ WaitingIntact /\ ResultStable
  BY DEF IInv
<1>1. CASE PushLoad
  BY <1>0, <1>1
  DEF PushLoad, consumerVars, observerVars, IInv, TypeOK, Counters, Stale, LogOrdered,
      InHand, WaitingIntact, ResultStable
<1>2. CASE PushClear
  <2>1. \A i \in head .. tail - 1 : slot'[Cell(i)] = slot[Cell(i)]
    BY <1>0, <1>2, WaitingCells DEF PushClear, TypeOK
  <2>2. slot' \in [0 .. Capacity - 1 -> {Zero} \cup Item]
    BY <1>0, <1>2, WaitingCells DEF PushClear, TypeOK
  <2> QED
    BY <1>0, <1>2, <2>1, <2>2
    DEF PushClear, consumerVars, observerVars, IInv, TypeOK, Counters, Stale, LogOrdered,
        InHand, WaitingIntact, ResultStable
<1>3. CASE PushConstruct
  <2>1. \A i \in head .. tail - 1 : slot'[Cell(i)] = slot[Cell(i)]
    BY <1>0, <1>3, WaitingCells DEF PushConstruct, TypeOK
  <2>2. /\ slot' \in [0 .. Capacity - 1 -> {Zero} \cup Item]
        /\ slot'[Cell(tail)] = offered
    BY <1>0, <1>3, WaitingCells DEF PushConstruct, TypeOK, InHand
  <2>3. Cell(tail)' = Cell(tail)
    BY <1>3 DEF PushConstruct, Cell
  <2> QED
    BY <1>0, <1>3, <2>1, <2>2, <2>3
    DEF PushConstruct, consumerVars, observerVars, IInv, TypeOK, Counters, Stale,
        LogOrdered, InHand, WaitingIntact, ResultStable
<1>4. CASE PushPublish
  <2>1. CASE HasRoom
    <3> DEFINE n == Len(log)
    <3>1. /\ tail' = tail + 1 /\ log' = Append(log, offered)
          /\ ppc = "publish" /\ ppc' = "idle"
          /\ UNCHANGED <<slot, head, offered, seenHead, consumerVars, observerVars>>
      BY <1>4, <2>1 DEF PushPublish
    <3>2. /\ log' \in Seq(Item) /\ Len(log') = tail'
          /\ \A i \in 1 .. tail : log'[i] = log[i]
          /\ log'[tail + 1] = offered
      <4> HIDE DEF Item
      <4>1. offered \in Item
        BY <1>0, <3>1 DEF TypeOK, InHand, Item
      <4>2. log \in Seq(Item) /\ Len(log) = tail
        BY <1>0 DEF TypeOK, Counters
      <4> QED BY <3>1, <4>1, <4>2
    <3>3. TypeOK'
      BY <1>0, <3>1, <3>2 DEF TypeOK, consumerVars, observerVars
    <3>4. Counters'
      BY <1>0, <2>1, <3>1, <3>2 DEF Counters, TypeOK, Stale, HasRoom, Limit
    <3>5. Stale'
      BY <1>0, <3>1 DEF Stale, TypeOK, consumerVars, observerVars
    <3>6. LogOrdered'
      <4>1. \A i \in 1 .. tail : log[i] < offered
        BY <1>0, <3>1 DEF LogOrdered, Counters
      <4>2. offered \in Nat /\ \A i \in 1 .. tail : log[i] \in Nat
        BY <1>0 DEF TypeOK, Counters
      <4>3. ASSUME NEW i \in 1 .. tail + 1
            PROVE  log'[i] <= offered
        <5>1. i \in 1 .. tail \/ i = tail + 1
          BY <1>0 DEF TypeOK
        <5> QED BY <3>2, <4>1, <4>2, <5>1
      <4>4. ASSUME NEW i \in 1 .. tail + 1, NEW j \in 1 .. tail + 1, i < j
            PROVE  log'[i] < log'[j]
        <5>1. i \in 1 .. tail /\ (j \in 1 .. tail \/ j = tail + 1)
          BY <1>0, <4>4 DEF TypeOK
        <5>2. j \in 1 .. tail => log[i] < log[j]
          BY <1>0, <4>4, <5>1 DEF LogOrdered, Counters
        <5> QED BY <3>2, <4>1, <5>1, <5>2
      <4> QED BY <3>1, <3>2, <4>3, <4>4 DEF LogOrdered
    <3>7. InHand'
      BY <1>0, <3>1, <3>2 DEF InHand, Counters, Stale, TypeOK, consumerVars
    <3>8. WaitingIntact'
      <4>1. \A i \in head .. tail - 1 : slot[Cell(i)] = log[i + 1] \/ (i = head /\ cpc = "advance")
        BY <1>0 DEF WaitingIntact
      <4>2. \A i \in head .. tail - 1 : log'[i + 1] = log[i + 1]
        BY <1>0, <3>2 DEF TypeOK
      <4>3. slot[Cell(tail)] = log'[tail + 1]
        BY <1>0, <3>1, <3>2 DEF InHand
      <4>4. ASSUME NEW i \in head .. tail' - 1
            PROVE  slot[Cell(i)] = log'[i + 1] \/ (i = head /\ cpc = "advance")
        <5>1. i \in head .. tail - 1 \/ i = tail
          BY <1>0, <3>1 DEF TypeOK
        <5> QED BY <4>1, <4>2, <4>3, <5>1
      <4> QED BY <3>1, <3>2, <4>4 DEF WaitingIntact, consumerVars, Cell
    <3>9. ResultStable'
      BY <1>0, <3>1, <3>2 DEF ResultStable, InHand, TypeOK, Counters, consumerVars
    <3> QED BY <3>3, <3>4, <3>5, <3>6, <3>7, <3>8, <3>9 DEF IInv
  <2>2. CASE ~HasRoom
    BY <1>0, <1>4, <2>2
    DEF PushPublish, consumerVars, observerVars, IInv, TypeOK, Counters, Stale,
        LogOrdered, InHand, WaitingIntact, ResultStable
  <2> QED BY <2>1, <2>2
<1> QED BY <1>1, <1>2, <1>3, <1>4 DEF Producer

LEMMA ConsumerIInv == IInv /\ Consumer => IInv'
<1> SUFFICES ASSUME IInv, Consumer PROVE IInv'
  OBVIOUS
<1> USE CapacityAssumption, MaxPushAssumption DEF Zero, Item
<1>0. TypeOK /\ Counters /\ Stale /\ LogOrdered /\ InHand /\ WaitingIntact /\ ResultStable
  BY DEF IInv
<1>1. CASE PopLoad
  <2>1. /\ cpc = "idle" /\ result' = FALSE
        /\ cpc' = "idle" \/ (cpc' = "clear" /\ head < tail)
        /\ UNCHANGED <<slot, head, tail, popValue, delivered, producerVars, observerVars, log>>
    BY <1>0, <1>1 DEF PopLoad, LooksEmpty, TypeOK
  <2>2. TypeOK' /\ Counters' /\ Stale' /\ LogOrdered'
    BY <1>0, <2>1
    DEF TypeOK, Counters, Stale, LogOrdered, producerVars, observerVars
  <2>3. InHand' /\ WaitingIntact' /\ ResultStable'
    BY <1>0, <2>1
    DEF InHand, WaitingIntact, ResultStable, producerVars, Cell
  <2> QED BY <2>2, <2>3 DEF IInv
<1>2. CASE PopClear
  BY <1>0, <1>2
  DEF PopClear, producerVars, observerVars, IInv, TypeOK, Counters, Stale,
      LogOrdered, InHand, WaitingIntact, ResultStable
<1>3. CASE PopCopy
  <2>1. slot[Cell(head)] = log[head + 1] /\ slot[Cell(head)] \in {Zero} \cup Item
    BY <1>0, <1>3, WaitingCells DEF PopCopy, WaitingIntact, Stale, TypeOK
  <2> QED
    BY <1>0, <1>3, <2>1
    DEF PopCopy, producerVars, observerVars, IInv, TypeOK, Counters, Stale,
        LogOrdered, InHand, WaitingIntact, ResultStable
<1>4. CASE PopDestroy
  <2>1. \A i \in head + 1 .. tail : slot'[Cell(i)] = slot[Cell(i)]
    BY <1>0, <1>4, WaitingCells DEF PopDestroy, TypeOK
  <2>2. slot' \in [0 .. Capacity - 1 -> {Zero} \cup Item]
    BY <1>0, <1>4 DEF PopDestroy, TypeOK
  <2>3. tail \in head + 1 .. tail
    BY <1>0, <1>4 DEF PopDestroy, TypeOK, Stale
  <2>4. Cell(tail)' = Cell(tail) /\ \A i : Cell(i)' = Cell(i)
    BY <1>4 DEF PopDestroy, Cell
  <2>5. WaitingIntact'
    BY <1>0, <1>4, <2>1, <2>4 DEF PopDestroy, WaitingIntact, TypeOK
  <2>6. InHand'
    BY <1>0, <1>4, <2>1, <2>3, <2>4 DEF PopDestroy, InHand, producerVars
  <2> QED
    BY <1>0, <1>4, <2>2, <2>5, <2>6
    DEF PopDestroy, producerVars, observerVars, IInv, TypeOK, Counters, Stale,
        LogOrdered, ResultStable
<1>5. CASE PopAdvance
  <2>1. popValue = log[head + 1] /\ head < tail /\ cpc = "advance"
    BY <1>0, <1>5 DEF PopAdvance, InHand, Stale
  <2>2. head' = head + 1 /\ head' # 0 /\ head' \in Nat
    BY <1>0, <1>5 DEF PopAdvance, TypeOK
  <2>3. TypeOK'
    BY <1>0, <1>5, <2>2 DEF PopAdvance, TypeOK, producerVars, observerVars
  <2>4. Counters' /\ Stale' /\ LogOrdered'
    BY <1>0, <1>5, <2>1, <2>2
    DEF PopAdvance, TypeOK, Counters, Stale, LogOrdered, Limit, producerVars, observerVars
  <2>5. InHand' /\ ResultStable'
    BY <1>0, <1>5, <2>1, <2>2 DEF PopAdvance, InHand, ResultStable, producerVars
  <2>6. WaitingIntact'
    BY <1>0, <1>5, <2>1, <2>2 DEF PopAdvance, WaitingIntact, TypeOK
  <2> QED BY <2>3, <2>4, <2>5, <2>6 DEF IInv
<1> QED BY <1>1, <1>2, <1>3, <1>4, <1>5 DEF Consumer

LEMMA ObserverIInv == IInv /\ Observer => IInv'
<1> SUFFICES ASSUME IInv, Observer PROVE IInv'
  OBVIOUS
<1>0. /\ TypeOK /\ Counters /\ Stale /\ LogOrdered /\ InHand /\ WaitingIntact /\ ResultStable
      /\ UNCHANGED <<slot, head, tail, producerVars, consumerVars, log>>
  BY DEF IInv, Observer, SizeLoadHead, SizeReturn
<1>1. Counters' /\ LogOrdered' /\ InHand' /\ WaitingIntact' /\ ResultStable'
  BY <1>0
  DEF Counters, LogOrdered, InHand, WaitingIntact, ResultStable, producerVars,
      consumerVars, Cell
<1>2. CASE SizeLoadHead
  BY <1>0, <1>1, <1>2
  DEF SizeLoadHead, IInv, TypeOK, Stale, producerVars, consumerVars
<1>3. CASE SizeReturn
  BY <1>0, <1>1, <1>3
  DEF SizeReturn, IInv, TypeOK, Counters, Stale, producerVars, consumerVars
<1> QED BY <1>2, <1>3 DEF Observer

LEMMA NextIInv == IInv /\ [Next]_vars => IInv'
<1>1. IInv /\ UNCHANGED vars => IInv'
  BY DEF vars, producerVars, consumerVars, observerVars, IInv, TypeOK, Counters, Stale,
         LogOrdered, InHand, WaitingIntact, ResultStable, Cell
<1> QED BY <1>1, ProducerIInv, ConsumerIInv, ObserverIInv DEF Next

-----------------------------------------------------------------------------
(* The inductive invariant holds throughout: the buffer never holds more   *)
(* than capacity_ - 1 items, whatever the two threads remember of head_    *)
(* and tail_.                                                              *)
THEOREM Invariance == Spec => []IInv
  BY InitIInv, NextIInv, PTL DEF Spec

(* Every variable keeps its type, and size() never underflows.             *)
THEOREM TypeCorrect == Spec => []TypeOK
<1>1. IInv => TypeOK
  BY DEF IInv
<1> QED BY <1>1, Invariance, PTL

(* push() never touches a cell that pop() may be touching, nor one that    *)
(* still waits to be popped.                                               *)
THEOREM CellsNeverShared == Spec => []NoSharedCell
<1>1. IInv => NoSharedCell
  BY WaitingCells DEF IInv, NoSharedCell
<1> QED BY <1>1, Invariance, PTL

(* What waits in the buffer is what was published, in order.               *)
THEOREM NothingCorrupted == Spec => []WaitingIntact
<1>1. IInv => WaitingIntact
  BY DEF IInv
<1> QED BY <1>1, Invariance, PTL

(* The caller's pointer keeps its item until the next pop().               *)
THEOREM PointerStable == Spec => []ResultStable
<1>1. IInv => ResultStable
  BY DEF IInv
<1> QED BY <1>1, Invariance, PTL

(* Items are delivered in the order of their push() calls, none twice.     *)
THEOREM FirstInFirstOut == Spec => DeliversInOrder
<1>1. IInv /\ [Next]_vars => [delivered' # delivered => delivered' > delivered]_delivered
  <2> SUFFICES ASSUME IInv, [Next]_vars, delivered' # delivered
               PROVE  delivered' > delivered
    OBVIOUS
  <2>1. PopAdvance
    BY DEF Next, Producer, PushLoad, PushClear, PushConstruct, PushPublish, Consumer,
           PopLoad, PopClear, PopCopy, PopDestroy, Observer, SizeLoadHead, SizeReturn,
           vars, consumerVars
  <2>2. /\ delivered' = log[head + 1]
        /\ head \in Nat /\ head + 1 <= Len(log) /\ log \in Seq(Nat)
        /\ delivered = (IF head = 0 THEN 0 ELSE log[head])
    <3>1. \A x \in Item : x \in Nat
      BY MaxPushAssumption DEF Item
    <3>2. log \in Seq(Item)
      BY DEF IInv, TypeOK
    <3>3. log \in Seq(Nat)
      BY <3>1, <3>2
    <3> QED BY <2>1, <3>3 DEF PopAdvance, IInv, TypeOK, Counters, Stale, InHand, Zero
  <2>3. CASE head = 0
    <3>1. log[head + 1] \in Item
      BY <2>2 DEF IInv, TypeOK
    <3> QED BY <2>2, <2>3, <3>1, MaxPushAssumption DEF Item
  <2>4. CASE head # 0
    <3>1. log[head] < log[head + 1]
      BY <2>2, <2>4 DEF IInv, LogOrdered
    <3>2. log[head] \in Nat /\ log[head + 1] \in Nat
      BY <2>2, <2>4
    <3> QED BY <2>2, <2>4, <3>1, <3>2
  <2> QED BY <2>3, <2>4
<1> QED BY <1>1, Invariance, PTL DEF Spec, DeliversInOrder

(* The concurrent queue implements the atomic drop-newest FIFO.            *)
THEOREM Refinement == Spec => ImplementsDropNewest
<1> USE CapacityAssumption, MaxPushAssumption
<1>1. Init => Abstract!Init
  BY DEF Init, Abstract!Init, decidedBar, Zero
<1>2. IInv /\ [Next]_vars => [Abstract!Next]_(Abstract!vars)
  <2> SUFFICES ASSUME IInv, [Next]_vars
               PROVE  Abstract!Next \/ UNCHANGED Abstract!vars
    OBVIOUS
  <2> USE DEF Abstract!vars, Abstract!Next
  <2>0. /\ head \in Nat /\ tail \in Nat /\ seenHead \in Nat /\ offered \in Nat
        /\ Limit \in Int /\ log \in Seq(Item)
        /\ head <= tail /\ tail - head <= Limit /\ Len(log) = tail
        /\ ppc # "idle" => seenHead <= head
    BY DEF IInv, TypeOK, Counters, Stale, Limit
  <2>1. CASE PushLoad
    <3>1. CASE tail - head < Limit
      BY <2>0, <2>1, <3>1 DEF PushLoad, decidedBar, HasRoom, Limit, consumerVars
    <3>2. CASE tail - head = Limit
      BY <2>0, <2>1, <3>2
      DEF PushLoad, decidedBar, HasRoom, Limit, consumerVars, Abstract!Refuse
    <3> QED BY <2>0, <3>1, <3>2
  <2>2. CASE PushClear
    BY <2>2 DEF PushClear, decidedBar, HasRoom, Limit, consumerVars
  <2>3. CASE PushConstruct
    BY <2>3 DEF PushConstruct, decidedBar, HasRoom, Limit, consumerVars
  <2>4. CASE PushPublish
    <3>1. CASE HasRoom
      <4>1. decidedBar = offered - 1 /\ decidedBar' = offered
        BY <2>4, <3>1 DEF PushPublish, decidedBar
      <4>2. tail - head < Limit
        BY <2>0, <2>4, <3>1 DEF PushPublish, HasRoom
      <4>3. log' = Append(log, decidedBar') /\ decidedBar' = decidedBar + 1
        BY <2>0, <2>4, <3>1, <4>1 DEF PushPublish
      <4> QED
        BY <2>0, <2>4, <4>2, <4>3 DEF PushPublish, Abstract!Accept, consumerVars
    <3>2. CASE ~HasRoom
      BY <2>4, <3>2 DEF PushPublish, decidedBar, consumerVars
    <3> QED BY <3>1, <3>2
  <2>5. CASE PopLoad \/ PopClear \/ PopCopy \/ PopDestroy \/ Observer \/ UNCHANGED vars
    BY <2>5 DEF PopLoad, PopClear, PopCopy, PopDestroy, Observer, SizeLoadHead,
                SizeReturn, decidedBar, HasRoom, Limit, vars, producerVars, consumerVars
  <2>6. CASE PopAdvance
    <3>1. head < Len(log) /\ head' = head + 1 /\ delivered' = log[head']
      BY <2>0, <2>6 DEF PopAdvance, IInv, InHand, Stale
    <3>2. UNCHANGED <<decidedBar, log>>
      BY <2>6 DEF PopAdvance, decidedBar, HasRoom, Limit, producerVars
    <3> QED BY <3>1, <3>2 DEF Abstract!Take
  <2> QED
    BY <2>1, <2>2, <2>3, <2>4, <2>5, <2>6 DEF Next, Producer, Consumer
<1> QED BY <1>1, <1>2, Invariance, PTL DEF Spec, ImplementsDropNewest, Abstract!Spec

-----------------------------------------------------------------------------
(* Induction over a set of numbers. It is the least counterexample of      *)
(* well-founded orderings, as a set and not an operator is its parameter.  *)
LEMMA NatInduct ==
  ASSUME NEW B \in SUBSET Nat, 0 \in B, \A n \in B : n + 1 \in B
  PROVE  B = Nat
  <1> SUFFICES ASSUME Nat \ B # {} PROVE FALSE
    OBVIOUS
  <1>1. PICK n \in Nat \ B : \A m \in Nat \ B : ~ (<<m, n>> \in OpToRel(<, Nat))
    BY NatLessThanWellFounded, WFMin
  <1>2. n - 1 \in Nat /\ n - 1 < n /\ (n - 1) + 1 = n
    OBVIOUS
  <1>3. <<n - 1, n>> \in OpToRel(<, Nat)
    BY <1>2 DEF OpToRel
  <1> QED BY <1>1, <1>2, <1>3

(* The values of a recursive function from 0 to N: d first, then one step  *)
(* of G after the other.                                                   *)
Starts(T, d, G, N, f) ==
  /\ f \in [0 .. N -> T] /\ f[0] = d
  /\ \A n \in 0 .. N - 1 : f[n + 1] = G[n + 1][f[n]]

(* Two such beginnings agree as far as both go.                            *)
LEMMA StartsAgree ==
  ASSUME NEW T, NEW d, NEW G, NEW M \in Nat, NEW N \in Nat, NEW f, NEW g,
         Starts(T, d, G, M, f), Starts(T, d, G, N, g)
  PROVE  \A n \in Nat : n <= M /\ n <= N => f[n] = g[n]
  <1> DEFINE B == {n \in Nat : n <= M /\ n <= N => f[n] = g[n]}
  <1>1. 0 \in B
    BY DEF Starts
  <1>2. ASSUME NEW n \in B PROVE n + 1 \in B
    <2> SUFFICES ASSUME n + 1 <= M, n + 1 <= N PROVE f[n + 1] = g[n + 1]
      OBVIOUS
    <2>1. n \in 0 .. M - 1 /\ n \in 0 .. N - 1 /\ f[n] = g[n]
      OBVIOUS
    <2> QED BY <2>1 DEF Starts
  <1>3. B \in SUBSET Nat OBVIOUS
  <1> HIDE DEF B
  <1>4. B = Nat BY <1>1, <1>2, <1>3, NatInduct
  <1> QED BY <1>4 DEF B

(* There is one of every length.                                           *)
LEMMA StartsExist ==
  ASSUME NEW T, NEW d \in T, NEW G \in [Nat -> [T -> T]]
  PROVE  \A N \in Nat : \E f : Starts(T, d, G, N, f)
  <1> DEFINE B == {N \in Nat : \E f : Starts(T, d, G, N, f)}
  <1>1. 0 \in B
    <2>1. Starts(T, d, G, 0, [n \in 0 .. 0 |-> d])
      BY DEF Starts
    <2> QED BY <2>1
  <1>2. ASSUME NEW N \in B PROVE N + 1 \in B
    <2>1. PICK f : Starts(T, d, G, N, f)
      OBVIOUS
    <2> DEFINE g == [n \in 0 .. N + 1 |-> IF n = N + 1 THEN G[N + 1][f[N]] ELSE f[n]]
    <2>2. f[N] \in T /\ N + 1 \in Nat
      BY <2>1 DEF Starts
    <2>3. G[N + 1][f[N]] \in T
      BY <2>2
    <2>4. \A n \in 0 .. N + 1 : n # N + 1 => n \in 0 .. N
      OBVIOUS
    <2>5. g \in [0 .. N + 1 -> T]
      BY <2>1, <2>3, <2>4 DEF Starts
    <2>6. ASSUME NEW n \in 0 .. (N + 1) - 1 PROVE g[n + 1] = G[n + 1][g[n]]
      <3>1. g[n] = f[n] /\ n \in 0 .. N
        OBVIOUS
      <3>2. CASE n = N BY <3>1, <3>2
      <3>3. CASE n # N
        <4>1. n \in 0 .. N - 1 /\ g[n + 1] = f[n + 1] BY <3>3
        <4> QED BY <4>1, <3>1, <2>1 DEF Starts
      <3> QED BY <3>2, <3>3
    <2>7. g[0] = d
      BY <2>1 DEF Starts
    <2> HIDE DEF g
    <2>8. Starts(T, d, G, N + 1, g)
      BY <2>5, <2>6, <2>7 DEF Starts
    <2> QED BY <2>8
  <1>3. B \in SUBSET Nat OBVIOUS
  <1> HIDE DEF B
  <1>4. B = Nat BY <1>1, <1>2, <1>3, NatInduct
  <1> QED BY <1>4 DEF B

(* A function that is defined everywhere by its steps.                     *)
Iterates(f, d, G) == f[0] = d /\ \A n \in Nat : f[n + 1] = G[n + 1][f[n]]

(* There is one: the recursion over the natural numbers, which Pow2,       *)
(* BitByBit and Spread are instances of, defines a function.               *)
LEMMA Recursion ==
  ASSUME NEW T, NEW d \in T, NEW G \in [Nat -> [T -> T]]
  PROVE  \E f \in [Nat -> T] : Iterates(f, d, G)
  <1> DEFINE P(N, f) == Starts(T, d, G, N, f)
             h == [N \in Nat |-> CHOOSE f : P(N, f)]
             g == [n \in Nat |-> h[n][n]]
  <1>1. \A N \in Nat : P(N, h[N])
    BY StartsExist
  <1>2. \A M, N \in Nat : \A n \in Nat : n <= M /\ n <= N => h[M][n] = h[N][n]
    BY <1>1, StartsAgree
  <1> HIDE DEF h
  <1>3. g \in [Nat -> T]
    BY <1>1 DEF Starts
  <1>4. g[0] = d
    BY <1>1 DEF Starts
  <1>5. ASSUME NEW n \in Nat PROVE g[n + 1] = G[n + 1][g[n]]
    <2>1. h[n + 1][n + 1] = G[n + 1][h[n + 1][n]]
      BY <1>1 DEF Starts
    <2>2. h[n + 1][n] = h[n][n]
      BY <1>2
    <2> QED BY <2>1, <2>2
  <1> HIDE DEF g
  <1> QED BY <1>3, <1>4, <1>5 DEF Iterates

-----------------------------------------------------------------------------
(* Pow2 is the function its definition describes.                          *)
LEMMA Pow2Is ==
  /\ Pow2[0] = 1
  /\ \A n \in Nat : Pow2[n] \in Nat /\ Pow2[n] >= 1 /\ Pow2[n + 1] = 2 * Pow2[n]
  <1> DEFINE G == [n \in Nat |-> [x \in Nat |-> 2 * x]]
             A(f) == f = [n \in Nat |-> IF n = 0 THEN 1 ELSE 2 * f[n - 1]]
  <1>1. G \in [Nat -> [Nat -> Nat]] /\ \A n, x \in Nat : G[n][x] = 2 * x
    OBVIOUS
  <1> HIDE DEF G
  <1>2. PICK f \in [Nat -> Nat] : Iterates(f, 1, G)
    BY <1>1, Recursion
  <1>3. A(f)
    <2>1. \A n \in Nat : n # 0 => n - 1 \in Nat /\ (n - 1) + 1 = n
      OBVIOUS
    <2>2. \A n \in Nat : n # 0 => f[n] = 2 * f[n - 1]
      <3> SUFFICES ASSUME NEW n \in Nat, n # 0 PROVE f[n] = 2 * f[n - 1]
        OBVIOUS
      <3> DEFINE m == n - 1
      <3>1. m \in Nat /\ m + 1 = n BY <2>1
      <3> HIDE DEF m
      <3>2. f[m + 1] = G[m + 1][f[m]] BY <1>2, <3>1 DEF Iterates
      <3>3. f[m] \in Nat BY <1>2, <3>1
      <3> QED BY <1>1, <3>1, <3>2, <3>3 DEF m
    <2> QED BY <1>2, <2>2 DEF Iterates
  <1>4. A(Pow2)
    <2> HIDE DEF A
    <2>1. Pow2 = CHOOSE g : A(g)
      BY DEF Pow2, A
    <2> QED BY <1>3, <2>1
  <1>5. Pow2[0] = 1 /\ \A n \in Nat : Pow2[n + 1] = 2 * Pow2[n]
    <2>1. \A n \in Nat : n + 1 \in Nat /\ n + 1 # 0 /\ (n + 1) - 1 = n
      OBVIOUS
    <2> QED BY <1>4, <2>1
  <1> DEFINE B == {n \in Nat : Pow2[n] \in Nat /\ Pow2[n] >= 1}
  <1>6. 0 \in B BY <1>5
  <1>7. ASSUME NEW n \in B PROVE n + 1 \in B
    BY <1>5
  <1>8. B \in SUBSET Nat OBVIOUS
  <1> HIDE DEF B
  <1>9. B = Nat BY <1>6, <1>7, <1>8, NatInduct
  <1>10. \A n \in Nat : Pow2[n] \in Nat /\ Pow2[n] >= 1 BY <1>9 DEF B
  <1> QED BY <1>5, <1>10

(* Operations on bits, and on numbers a given number of bits of which are  *)
(* looked at.                                                              *)
Tables == [Nat -> [Nat -> Nat]]

(* A number is twice its half and its lowest bit.                          *)
LEMMA HalfIs ==
  ASSUME NEW a \in Nat
  PROVE  a \div 2 \in Nat /\ a = 2 * (a \div 2) + (a % 2) /\ a % 2 \in {0, 1}
  <1>1. a \div 2 \in Nat /\ a % 2 \in 0 .. 1 OBVIOUS
  <1>2. a = 2 * (a \div 2) + (a % 2) OBVIOUS
  <1> QED BY <1>1, <1>2

BitTables == [{0, 1} -> [{0, 1} -> {0, 1}]]

(* One bit is split off: the lowest of both numbers is looked at, and then *)
(* their halves.                                                           *)
Splits(bits, low, w, a, b) == bits[w + 1][a][b] = low + 2 * bits[w][a \div 2][b \div 2]

(* BitByBit is the function its definition describes: the lowest bits are  *)
(* combined by the table, the halves by BitByBit.                          *)
LEMMA BitsAre ==
  ASSUME NEW table \in BitTables
  PROVE  /\ \A w, a, b \in Nat : BitByBit(table)[w][a][b] \in Nat
         /\ \A a, b \in Nat : BitByBit(table)[0][a][b] = 0
         /\ \A w, a, b \in Nat : Splits(BitByBit(table), table[a % 2][b % 2], w, a, b)
  <1> DEFINE None == [a \in Nat |-> [b \in Nat |-> 0]]
             Once(h) == [a \in Nat |-> [b \in Nat |->
                           table[a % 2][b % 2] + 2 * h[a \div 2][b \div 2]]]
             G == [n \in Nat |-> [h \in Tables |-> Once(h)]]
             A(f) == f = [w \in Nat |-> [a \in Nat |-> [b \in Nat |->
                       IF w = 0 THEN 0
                       ELSE table[a % 2][b % 2] + 2 * f[w - 1][a \div 2][b \div 2]]]]
  <1> DEFINE bits == BitByBit(table)
  <1>0. \A a, b \in Nat : table[a % 2][b % 2] \in {0, 1}
    BY HalfIs DEF BitTables
  <1>1. None \in Tables
    BY DEF Tables
  <1>2. ASSUME NEW h \in Tables PROVE Once(h) \in Tables
    <2>1. ASSUME NEW a \in Nat, NEW b \in Nat
          PROVE  table[a % 2][b % 2] + 2 * h[a \div 2][b \div 2] \in Nat
      <3>1. a \div 2 \in Nat /\ b \div 2 \in Nat /\ table[a % 2][b % 2] \in Nat
        BY HalfIs, <1>0
      <3> DEFINE x == a \div 2
                 y == b \div 2
      <3> HIDE DEF x, y
      <3>2. h[x] \in [Nat -> Nat]
        BY <3>1 DEF Tables, x
      <3>3. h[x][y] \in Nat
        BY <3>1, <3>2 DEF y
      <3> QED BY <3>1, <3>3 DEF x, y
    <2> QED BY <2>1 DEF Tables
  <1> HIDE DEF Once, None
  <1>3. G \in [Nat -> [Tables -> Tables]] /\ \A n \in Nat, h \in Tables : G[n][h] = Once(h)
    BY <1>2
  <1> HIDE DEF G
  <1>4. PICK f \in [Nat -> Tables] : Iterates(f, None, G)
    BY <1>1, <1>3, Recursion
  <1>5. f[0] = None /\ \A n \in Nat : f[n + 1] = Once(f[n])
    BY <1>3, <1>4 DEF Iterates
  <1>6. A(f)
    <2> DEFINE g == [w \in Nat |-> [a \in Nat |-> [b \in Nat |->
                       IF w = 0 THEN 0
                       ELSE table[a % 2][b % 2] + 2 * f[w - 1][a \div 2][b \div 2]]]]
    <2>1. ASSUME NEW w \in Nat PROVE f[w] = g[w]
      <3>1. CASE w = 0 BY <3>1, <1>5 DEF None
      <3>2. CASE w # 0
        <4>1. w - 1 \in Nat /\ (w - 1) + 1 = w BY <3>2
        <4>2. f[w] = Once(f[w - 1]) BY <4>1, <1>5
        <4> QED BY <3>2, <4>2 DEF Once
      <3> QED BY <3>1, <3>2
    <2>2. f = g
      <3> HIDE DEF g
      <3>1. DOMAIN g = Nat BY DEF g
      <3>2. f = [w \in Nat |-> f[w]] OBVIOUS
      <3>3. g = [w \in Nat |-> g[w]] BY DEF g
      <3> QED BY <2>1, <3>2, <3>3, Zenon
    <2> QED BY <2>2
  <1>7. A(bits)
    <2> HIDE DEF A
    <2>1. bits = CHOOSE g : A(g)
      BY DEF BitByBit, A
    <2> QED BY <1>6, <2>1
  <1> HIDE DEF bits
  <1>8. \A a, b \in Nat : bits[0][a][b] = 0
    BY <1>7
  <1>9. ASSUME NEW w \in Nat, NEW a \in Nat, NEW b \in Nat
        PROVE  Splits(bits, table[a % 2][b % 2], w, a, b)
    <2> DEFINE u == w + 1
    <2>1. u \in Nat /\ u # 0 /\ u - 1 = w
      OBVIOUS
    <2> HIDE DEF u
    <2>2. bits[u] = [x \in Nat |-> [y \in Nat |->
             IF u = 0 THEN 0 ELSE table[x % 2][y % 2] + 2 * bits[u - 1][x \div 2][y \div 2]]]
      BY <1>7, <2>1
    <2>3. bits[u][a][b] = table[a % 2][b % 2] + 2 * bits[w][a \div 2][b \div 2]
      BY <2>1, <2>2
    <2> QED BY <2>3 DEF u, Splits
  <1> DEFINE B == {w \in Nat : \A a, b \in Nat : bits[w][a][b] \in Nat}
  <1>10. 0 \in B BY <1>8
  <1>11. ASSUME NEW w \in B PROVE w + 1 \in B
    <2> SUFFICES ASSUME NEW a \in Nat, NEW b \in Nat PROVE bits[w + 1][a][b] \in Nat
      OBVIOUS
    <2>1. bits[w][a \div 2][b \div 2] \in Nat
      <3>1. a \div 2 \in Nat /\ b \div 2 \in Nat BY HalfIs
      <3> QED BY <3>1
    <2>3. table[a % 2][b % 2] \in Nat
      <3>1. a % 2 \in {0, 1} /\ b % 2 \in {0, 1} BY HalfIs
      <3>2. \A x, y \in {0, 1} : table[x][y] \in Nat BY DEF BitTables
      <3> QED BY <3>1, <3>2
    <2>2. bits[w + 1][a][b] = table[a % 2][b % 2] + 2 * bits[w][a \div 2][b \div 2]
      <3>1. Splits(bits, table[a % 2][b % 2], w, a, b) BY <1>9
      <3> QED BY <3>1 DEF Splits
    <2> QED BY <2>1, <2>2, <2>3
  <1>12. B \in SUBSET Nat OBVIOUS
  <1> HIDE DEF B
  <1>13. B = Nat BY <1>10, <1>11, <1>12, NatInduct
  <1>14. \A w, a, b \in Nat : bits[w][a][b] \in Nat BY <1>13 DEF B
  <1> QED BY <1>8, <1>9, <1>14 DEF bits

(* Quotient and remainder are unique.                                      *)
LEMMA DivUnique ==
  ASSUME NEW d \in Nat \ {0}, NEW q \in Nat, NEW r \in Nat, r < d
  PROVE  (q * d + r) \div d = q /\ (q * d + r) % d = r
  <1> DEFINE n == q * d + r
             q2 == n \div d
             r2 == n % d
  <1>1. n \in Nat /\ q2 \in Nat /\ r2 \in 0 .. d - 1 /\ n = d * q2 + r2
    BY q * d \in Nat
  <1>2. q * d + r = q2 * d + r2
    BY <1>1
  <1> HIDE DEF q2, r2
  <1>3. q2 = q
    <2>1. CASE q2 < q
      <3>1. (q - q2) * d >= d BY <2>1, <1>1
      <3>2. (q - q2) * d = r2 - r BY <1>1, <1>2
      <3> QED BY <3>1, <3>2, <1>1
    <2>2. CASE q < q2
      <3>1. (q2 - q) * d >= d BY <2>2, <1>1
      <3>2. (q2 - q) * d = r - r2 BY <1>1, <1>2
      <3> QED BY <3>1, <3>2, <1>1
    <2> QED BY <2>1, <2>2, <1>1
  <1> QED BY <1>1, <1>2, <1>3 DEF q2, r2

LEMMA DivIs ==
  ASSUME NEW d \in Nat \ {0}, NEW n \in Nat
  PROVE  n \div d \in Nat /\ n % d \in Nat /\ n % d < d /\ n = (n \div d) * d + (n % d)
  OBVIOUS

(* Dividing by a power of two is halving first, and the lowest bit belongs *)
(* to the remainder.                                                       *)
LEMMA HalfFirst ==
  ASSUME NEW x \in Nat, NEW k \in Nat
  PROVE  /\ x \div Pow2[k + 1] = (x \div 2) \div Pow2[k]
         /\ x % Pow2[k + 1] = (x % 2) + 2 * ((x \div 2) % Pow2[k])
  <1> DEFINE P == Pow2[k]
             h == x \div 2
             b == x % 2
             q == h \div P
             r == h % P
  <1>1. P \in Nat \ {0} /\ Pow2[k + 1] = 2 * P
    BY Pow2Is
  <1>2. h \in Nat /\ b \in {0, 1} /\ x = 2 * h + b
    BY HalfIs
  <1> HIDE DEF P, h, b
  <1>3. q \in Nat /\ r \in Nat /\ r < P /\ h = q * P + r
    BY <1>1, <1>2, DivIs
  <1> HIDE DEF q, r
  <1>4. x = q * (2 * P) + (2 * r + b)
    <2>1. 2 * (q * P) = q * (2 * P) BY <1>1, <1>3
    <2>2. q * P \in Nat /\ q * (2 * P) \in Nat BY <1>1, <1>3
    <2> QED BY <2>1, <2>2, <1>2, <1>3
  <1>5. 2 * r + b \in Nat /\ 2 * r + b < 2 * P /\ 2 * P \in Nat \ {0}
    BY <1>1, <1>2, <1>3
  <1>6. x \div (2 * P) = q /\ x % (2 * P) = 2 * r + b
    <2> DEFINE D == 2 * P
               R == 2 * r + b
    <2>1. D \in Nat \ {0} /\ R \in Nat /\ R < D /\ x = q * D + R
      BY <1>4, <1>5
    <2> HIDE DEF D, R
    <2>2. x \div D = q /\ x % D = R
      BY <2>1, <1>3, DivUnique
    <2> QED BY <2>2 DEF D, R
  <1> QED BY <1>1, <1>2, <1>3, <1>6 DEF P, h, b, q, r

LEMMA ByOne == \A x \in Nat : x \div Pow2[0] = x /\ x % Pow2[0] = 0
  BY Pow2Is

(* The number whose k lowest bits are set.                                 *)
Ones(k) == Pow2[k] - 1

LEMMA OnesAre ==
  /\ Ones(0) = 0
  /\ \A k \in Nat : /\ Ones(k) \in Nat /\ Ones(k + 1) = 2 * Ones(k) + 1
                    /\ Ones(k + 1) \div 2 = Ones(k) /\ Ones(k + 1) % 2 = 1
  <1>1. Ones(0) = 0 BY Pow2Is DEF Ones
  <1>2. ASSUME NEW k \in Nat
        PROVE  /\ Ones(k) \in Nat /\ Ones(k + 1) = 2 * Ones(k) + 1
               /\ Ones(k + 1) \div 2 = Ones(k) /\ Ones(k + 1) % 2 = 1
    <2> DEFINE m == Ones(k)
    <2>1. m \in Nat /\ Ones(k + 1) = 2 * m + 1
      BY Pow2Is DEF Ones
    <2> HIDE DEF m
    <2>2. (2 * m + 1) \div 2 = m /\ (2 * m + 1) % 2 = 1
      BY <2>1
    <2> QED BY <2>1, <2>2 DEF m
  <1> QED BY <1>1, <1>2

LEMMA NoneIs == \A z \in Nat : z = 0 => z % 2 = 0 /\ z \div 2 = 0
  OBVIOUS

(* The two tables, as operations on the lowest bits.                       *)
AndBit(a, b) == IF a % 2 = 1 THEN b % 2 ELSE 0
OrBit(a, b) == IF a % 2 = 1 THEN 1 ELSE b % 2

(* `&` and `|`, bit by bit.                                                *)
LEMMA AndIs ==
  /\ \A w, a, b \in Nat : BitByBit(AND)[w][a][b] \in Nat
  /\ \A a, b \in Nat : BitByBit(AND)[0][a][b] = 0
  /\ \A w, a, b \in Nat : Splits(BitByBit(AND), AndBit(a, b), w, a, b)
  <1>1. AND \in BitTables BY DEF AND, BitTables
  <1>2. \A a, b \in Nat : AND[a % 2][b % 2] = AndBit(a, b)
    <2> TAKE a, b \in Nat
    <2>1. a % 2 \in {0, 1} /\ b % 2 \in {0, 1} BY HalfIs
    <2> QED BY <2>1 DEF AND, AndBit
  <1> DEFINE bits == BitByBit(AND)
  <1>3. /\ \A w, a, b \in Nat : bits[w][a][b] \in Nat
        /\ \A a, b \in Nat : bits[0][a][b] = 0
        /\ \A w, a, b \in Nat : Splits(bits, AND[a % 2][b % 2], w, a, b)
    BY <1>1, BitsAre
  <1> HIDE DEF bits
  <1>4. ASSUME NEW w \in Nat, NEW a \in Nat, NEW b \in Nat
        PROVE  Splits(bits, AndBit(a, b), w, a, b)
    <2>1. Splits(bits, AND[a % 2][b % 2], w, a, b) BY <1>3
    <2>2. AND[a % 2][b % 2] = AndBit(a, b) BY <1>2
    <2> QED BY <2>1, <2>2, Zenon
  <1> QED BY <1>3, <1>4, Zenon DEF bits

LEMMA OrIs ==
  /\ \A w, a, b \in Nat : BitByBit(OR)[w][a][b] \in Nat
  /\ \A a, b \in Nat : BitByBit(OR)[0][a][b] = 0
  /\ \A w, a, b \in Nat : Splits(BitByBit(OR), OrBit(a, b), w, a, b)
  <1>1. OR \in BitTables BY DEF OR, BitTables
  <1>2. \A a, b \in Nat : OR[a % 2][b % 2] = OrBit(a, b)
    <2> TAKE a, b \in Nat
    <2>1. a % 2 \in {0, 1} /\ b % 2 \in {0, 1} BY HalfIs
    <2> QED BY <2>1 DEF OR, OrBit
  <1> DEFINE bits == BitByBit(OR)
  <1>3. /\ \A w, a, b \in Nat : bits[w][a][b] \in Nat
        /\ \A a, b \in Nat : bits[0][a][b] = 0
        /\ \A w, a, b \in Nat : Splits(bits, OR[a % 2][b % 2], w, a, b)
    BY <1>1, BitsAre
  <1> HIDE DEF bits
  <1>4. ASSUME NEW w \in Nat, NEW a \in Nat, NEW b \in Nat
        PROVE  Splits(bits, OrBit(a, b), w, a, b)
    <2>1. Splits(bits, OR[a % 2][b % 2], w, a, b) BY <1>3
    <2>2. OR[a % 2][b % 2] = OrBit(a, b) BY <1>2
    <2> QED BY <2>1, <2>2, Zenon
  <1> QED BY <1>3, <1>4, Zenon DEF bits

-----------------------------------------------------------------------------
(* Powers of two grow, and outgrow their exponents.                        *)
LEMMA PowGrows ==
  /\ \A n, d \in Nat : Pow2[n] <= Pow2[n + d]
  /\ \A n \in Nat : n < Pow2[n]
  <1> DEFINE B == {d \in Nat : \A n \in Nat : Pow2[n] <= Pow2[n + d]}
             C == {n \in Nat : n < Pow2[n]}
  <1>1. 0 \in B
    <2>1. \A n \in Nat : Pow2[n] <= Pow2[n] /\ n + 0 = n BY Pow2Is
    <2> QED BY <2>1
  <1>2. ASSUME NEW d \in B PROVE d + 1 \in B
    <2> SUFFICES ASSUME NEW n \in Nat PROVE Pow2[n] <= Pow2[n + (d + 1)]
      OBVIOUS
    <2>1. n + d \in Nat /\ n + (d + 1) = (n + d) + 1 OBVIOUS
    <2>2. Pow2[n] <= Pow2[n + d] OBVIOUS
    <2>3. /\ Pow2[(n + d) + 1] = 2 * Pow2[n + d]
          /\ Pow2[n] \in Nat /\ Pow2[n + d] \in Nat
      BY <2>1, Pow2Is
    <2> QED BY <2>1, <2>2, <2>3
  <1>3. 0 \in C BY Pow2Is
  <1>4. ASSUME NEW n \in C PROVE n + 1 \in C BY Pow2Is
  <1>5. B \in SUBSET Nat /\ C \in SUBSET Nat OBVIOUS
  <1> HIDE DEF B, C
  <1>6. B = Nat /\ C = Nat BY <1>1, <1>2, <1>3, <1>4, <1>5, NatInduct
  <1> QED BY <1>6 DEF B, C

(* Shifting twice is shifting by the sum.                                  *)
LEMMA DivTwice ==
  ASSUME NEW a \in Nat, NEW b \in Nat, NEW n \in Nat
  PROVE  n \div Pow2[a + b] = (n \div Pow2[a]) \div Pow2[b]
  <1> DEFINE B == {c \in Nat : \A m \in Nat :
                    m \div Pow2[c + b] = (m \div Pow2[c]) \div Pow2[b]}
  <1>1. 0 \in B
    <2>1. ASSUME NEW m \in Nat PROVE m \div Pow2[0 + b] = (m \div Pow2[0]) \div Pow2[b]
      BY ByOne
    <2> QED BY <2>1
  <1>2. ASSUME NEW c \in B PROVE c + 1 \in B
    <2> SUFFICES ASSUME NEW m \in Nat
                 PROVE  m \div Pow2[(c + 1) + b] = (m \div Pow2[c + 1]) \div Pow2[b]
      OBVIOUS
    <2>1. (c + 1) + b = (c + b) + 1 /\ c + b \in Nat /\ m \div 2 \in Nat
      BY HalfIs
    <2>2. m \div Pow2[(c + b) + 1] = (m \div 2) \div Pow2[c + b]
      BY <2>1, HalfFirst
    <2>3. m \div Pow2[c + 1] = (m \div 2) \div Pow2[c]
      BY HalfFirst
    <2>4. (m \div 2) \div Pow2[c + b] = ((m \div 2) \div Pow2[c]) \div Pow2[b]
      BY <2>1
    <2> QED BY <2>1, <2>2, <2>3, <2>4
  <1>3. B \in SUBSET Nat OBVIOUS
  <1> HIDE DEF B
  <1>4. B = Nat BY <1>1, <1>2, <1>3, NatInduct
  <1> QED BY <1>4 DEF B

(* What is left of set bits when they are shifted.                         *)
LEMMA OnesShifted ==
  /\ \A d, s \in Nat : Ones(d + s) \div Pow2[d] = Ones(s)
  /\ \A d, s \in Nat : Ones(s) \div Pow2[s + d] = 0
  <1> DEFINE B == {d \in Nat : \A s \in Nat : Ones(d + s) \div Pow2[d] = Ones(s)}
  <1>1. 0 \in B
    <2>1. ASSUME NEW s \in Nat PROVE Ones(0 + s) \div Pow2[0] = Ones(s)
      BY ByOne, OnesAre
    <2> QED BY <2>1
  <1>2. ASSUME NEW d \in B PROVE d + 1 \in B
    <2> SUFFICES ASSUME NEW s \in Nat PROVE Ones((d + 1) + s) \div Pow2[d + 1] = Ones(s)
      OBVIOUS
    <2>1. (d + 1) + s = (d + s) + 1 /\ d + s \in Nat
      OBVIOUS
    <2>2. Ones((d + s) + 1) \in Nat /\ Ones((d + s) + 1) \div 2 = Ones(d + s)
      <3>1. (d + s) + 1 \in Nat BY <2>1
      <3> QED BY <2>1, <3>1, OnesAre
    <2>3. Ones((d + s) + 1) \div Pow2[d + 1] = Ones(d + s) \div Pow2[d]
      BY <2>2, HalfFirst
    <2> QED BY <2>1, <2>3
  <1>3. B \in SUBSET Nat OBVIOUS
  <1> HIDE DEF B
  <1>4. B = Nat BY <1>1, <1>2, <1>3, NatInduct
  <1>5. \A d, s \in Nat : Ones(d + s) \div Pow2[d] = Ones(s) BY <1>4 DEF B
  <1>6. ASSUME NEW d \in Nat, NEW s \in Nat PROVE Ones(s) \div Pow2[s + d] = 0
    <2>1. Ones(s) \div Pow2[s] = 0
      <3>1. Ones(s + 0) \div Pow2[s] = Ones(0) BY <1>5
      <3>2. s + 0 = s OBVIOUS
      <3> QED BY <3>1, <3>2, OnesAre
    <2>2. Ones(s) \div Pow2[s + d] = (Ones(s) \div Pow2[s]) \div Pow2[d]
      <3>1. Ones(s) \in Nat BY OnesAre
      <3> QED BY <3>1, DivTwice
    <2>3. 0 \div Pow2[d] = 0
      <3>1. Pow2[d] \in Nat \ {0} BY Pow2Is
      <3> QED BY <3>1
    <2> QED BY <2>1, <2>2, <2>3
  <1> QED BY <1>5, <1>6

(* Masking with set bits is taking the remainder by a power of two.        *)
LEMMA MaskIsRemainder ==
  ASSUME NEW w \in Nat, NEW k \in Nat, k <= w, NEW n \in Nat
  PROVE  BitByBit(AND)[w][n][Ones(k)] = n % Pow2[k]
  <1> DEFINE bits == BitByBit(AND)
             Right(v) == \A j, m \in Nat : j <= v => bits[v][m][Ones(j)] = m % Pow2[j]
  <1>0. /\ \A v, x, y \in Nat : bits[v][x][y] \in Nat
        /\ \A x, y \in Nat : bits[0][x][y] = 0
    BY AndIs
  <1>r. \A v, x, y \in Nat : Splits(bits, AndBit(x, y), v, x, y)
    BY AndIs
  <1> HIDE DEF bits
  <1>1. Right(0)
    <2>1. ASSUME NEW m \in Nat PROVE bits[0][m][Ones(0)] = m % Pow2[0]
      BY <1>0, OnesAre, ByOne
    <2>2. \A j \in Nat : j <= 0 => j = 0 OBVIOUS
    <2> QED BY <2>1, <2>2
  <1>2. ASSUME NEW v \in Nat, Right(v) PROVE Right(v + 1)
    <2> SUFFICES ASSUME NEW j \in Nat, NEW m \in Nat, j <= v + 1
                 PROVE  bits[v + 1][m][Ones(j)] = m % Pow2[j]
      OBVIOUS
    <2>1. m \div 2 \in Nat /\ m % 2 \in {0, 1} BY HalfIs
    <2>2. CASE j = 0
      <3> DEFINE z == Ones(0)
      <3>2. z = 0 /\ z \in Nat /\ z % 2 = 0 /\ z \div 2 = z BY OnesAre, NoneIs
      <3> HIDE DEF z
      <3>z. z \in Nat BY <3>2
      <3>1. bits[v + 1][m][z] = AndBit(m, z) + 2 * bits[v][m \div 2][z \div 2]
        <4>1. Splits(bits, AndBit(m, z), v, m, z) BY <1>r, <3>z
        <4> QED BY <4>1 DEF Splits
      <3>3. bits[v][m \div 2][z] \in Nat /\ bits[v][m \div 2][z] = (m \div 2) % Pow2[0] 
        <4>1. bits[v][m \div 2][z] \in Nat BY <1>0, <2>1, <3>z
        <4>2. bits[v][m \div 2][z] = (m \div 2) % Pow2[0] BY <1>2, <2>1 DEF z
        <4> QED BY <4>1, <4>2
      <3>4. bits[v + 1][m][z] = 0
        <4>1. AndBit(m, z) = 0 BY <2>1, <3>2 DEF AndBit
        <4>2. bits[v][m \div 2][z] = 0 BY <2>1, <3>3, ByOne
        <4> QED BY <3>1, <3>2, <4>1, <4>2
      <3> QED BY <2>2, <3>4, ByOne DEF z
    <2>3. CASE j # 0
      <3> DEFINE i == j - 1
      <3>1. i \in Nat /\ i <= v /\ j = i + 1 BY <2>3
      <3> HIDE DEF i
      <3>2. Ones(j) \in Nat /\ Ones(j) \div 2 = Ones(i) /\ Ones(j) % 2 = 1 BY <3>1, OnesAre
      <3>j. Ones(j) \in Nat BY <3>2
      <3>3. bits[v + 1][m][Ones(j)] =
              AndBit(m, Ones(j)) + 2 * bits[v][m \div 2][Ones(j) \div 2]
        <4>1. Splits(bits, AndBit(m, Ones(j)), v, m, Ones(j)) BY <1>r, <3>j
        <4> QED BY <4>1 DEF Splits
      <3>4. bits[v][m \div 2][Ones(i)] = (m \div 2) % Pow2[i] BY <1>2, <2>1, <3>1
      <3>5. m % Pow2[j] = (m % 2) + 2 * ((m \div 2) % Pow2[i]) BY <3>1, HalfFirst
      <3>6. AndBit(m, Ones(j)) = m % 2 BY <2>1, <3>2 DEF AndBit
      <3> QED BY <3>2, <3>3, <3>4, <3>5, <3>6
    <2> QED BY <2>2, <2>3
  <1> DEFINE B == {v \in Nat : Right(v)}
  <1>3. B = Nat
    <2> HIDE DEF Right
    <2>1. 0 \in B /\ \A v \in B : v + 1 \in B /\ B \in SUBSET Nat BY <1>1, <1>2
    <2> HIDE DEF B
    <2> QED BY <2>1, NatInduct
  <1>4. \A v \in Nat : Right(v) BY <1>3
  <1> QED BY <1>4 DEF bits

(* Or-ing no bit changes nothing.                                          *)
LEMMA OrOfNone ==
  ASSUME NEW w \in Nat, NEW j \in Nat, j <= w
  PROVE  BitByBit(OR)[w][Ones(j)][0] = Ones(j)
  <1> DEFINE bits == BitByBit(OR)
             Right(v) == \A i \in Nat : i <= v => bits[v][Ones(i)][0] = Ones(i)
  <1>0. /\ \A v, x, y \in Nat : bits[v][x][y] \in Nat
        /\ \A x, y \in Nat : bits[0][x][y] = 0
    BY OrIs
  <1>r. \A v, x, y \in Nat : Splits(bits, OrBit(x, y), v, x, y)
    BY OrIs
  <1> HIDE DEF bits
  <1> DEFINE z == Ones(0)
  <1>z. z = 0 /\ z \in Nat /\ z % 2 = 0 /\ z \div 2 = z BY OnesAre, NoneIs
  <1> HIDE DEF z
  <1>1. Right(0)
    <2>1. bits[0][Ones(0)][0] = Ones(0)
      BY <1>0, OnesAre
    <2>2. \A i \in Nat : i <= 0 => i = 0 OBVIOUS
    <2> QED BY <2>1, <2>2
  <1>2. ASSUME NEW v \in Nat, Right(v) PROVE Right(v + 1)
    <2> SUFFICES ASSUME NEW i \in Nat, i <= v + 1
                 PROVE  bits[v + 1][Ones(i)][0] = Ones(i)
      OBVIOUS
    <2>1. Ones(i) \in Nat BY OnesAre
    <2>z. z \in Nat BY <1>z
    <2>2. bits[v + 1][Ones(i)][z] =
            OrBit(Ones(i), z) + 2 * bits[v][Ones(i) \div 2][z \div 2]
      <3>1. Splits(bits, OrBit(Ones(i), z), v, Ones(i), z) BY <1>r, <2>z, <2>1
      <3> QED BY <3>1 DEF Splits
    <2>4. CASE i = 0
      <3>1. bits[v][z][z] = z
        <4>1. bits[v][Ones(0)][0] = Ones(0) BY <1>2
        <4> QED BY <1>z, <4>1 DEF z
      <3>2. OrBit(z, z) = 0 BY <1>z DEF OrBit
      <3>3. Ones(i) = z BY <2>4 DEF z
      <3> QED BY <1>z, <2>2, <3>1, <3>2, <3>3
    <2>5. CASE i # 0
      <3> DEFINE h == i - 1
      <3>1. h \in Nat /\ h <= v /\ i = h + 1 BY <2>5
      <3> HIDE DEF h
      <3>2. Ones(i) = 2 * Ones(h) + 1 /\ Ones(i) \div 2 = Ones(h) /\ Ones(i) % 2 = 1
        BY <3>1, OnesAre
      <3>3. bits[v][Ones(h)][0] = Ones(h) /\ Ones(h) \in Nat BY <1>2, <3>1, OnesAre
      <3>4. OrBit(Ones(i), z) = 1 BY <3>2 DEF OrBit
      <3> QED BY <1>z, <2>2, <3>2, <3>3, <3>4
    <2> QED BY <2>4, <2>5
  <1> DEFINE B == {v \in Nat : Right(v)}
  <1>3. B = Nat
    <2> HIDE DEF Right
    <2>1. 0 \in B /\ \A v \in B : v + 1 \in B /\ B \in SUBSET Nat BY <1>1, <1>2
    <2> HIDE DEF B
    <2> QED BY <2>1, NatInduct
  <1>4. \A v \in Nat : Right(v) BY <1>3
  <1> QED BY <1>4 DEF bits

(* l set bits fill the gap below j bits that are set.                      *)
LEMMA OrFills ==
  ASSUME NEW j \in Nat
  PROVE  \A l, w, n \in Nat : l + j <= w /\ n \div Pow2[l] = Ones(j) =>
           BitByBit(OR)[w][n][Ones(l)] = Ones(l + j)
  <1> DEFINE bits == BitByBit(OR)
             Right(i) == \A v, m \in Nat :
                    i + j <= v /\ m \div Pow2[i] = Ones(j)
                      => bits[v][m][Ones(i)] = Ones(i + j)
  <1>0. /\ \A v, x, y \in Nat : bits[v][x][y] \in Nat
        /\ \A x, y \in Nat : bits[0][x][y] = 0
    BY OrIs
  <1>r. \A v, x, y \in Nat : Splits(bits, OrBit(x, y), v, x, y)
    BY OrIs
  <1> HIDE DEF bits
  <1>1. Right(0)
    <2>1. ASSUME NEW v \in Nat, NEW m \in Nat, 0 + j <= v, m \div Pow2[0] = Ones(j)
          PROVE  bits[v][m][Ones(0)] = Ones(0 + j)
      <3>1. m = Ones(j) /\ 0 + j = j BY <2>1, ByOne
      <3>2. bits[v][Ones(j)][0] = Ones(j) 
        <4>1. j <= v BY <2>1
        <4> QED BY <4>1, OrOfNone DEF bits
      <3> QED BY <3>1, <3>2, OnesAre
    <2> QED BY <2>1
  <1>2. ASSUME NEW i \in Nat, Right(i) PROVE Right(i + 1)
    <2>s. SUFFICES ASSUME NEW u \in Nat, NEW m \in Nat,
                          (i + 1) + j <= u, m \div Pow2[i + 1] = Ones(j)
                 PROVE  bits[u][m][Ones(i + 1)] = Ones((i + 1) + j)
      OBVIOUS
    <2> DEFINE v == u - 1
    <2>1. /\ v \in Nat /\ u = v + 1 /\ i + j <= v
          /\ (i + 1) + j = (i + j) + 1 /\ i + j \in Nat
      BY <2>s
    <2> HIDE DEF v
    <2>2. m \div 2 \in Nat /\ m % 2 \in {0, 1} BY HalfIs
    <2>3. (m \div 2) \div Pow2[i] = Ones(j) BY <2>s, HalfFirst
    <2>4. Ones(i + 1) \in Nat /\ Ones(i + 1) \div 2 = Ones(i) /\ Ones(i + 1) % 2 = 1
      <3>1. i + 1 \in Nat OBVIOUS
      <3> QED BY <3>1, OnesAre
    <2>o. Ones(i + 1) \in Nat BY <2>4
    <2>w. v \in Nat BY <2>1
    <2>5. bits[v + 1][m][Ones(i + 1)] =
            OrBit(m, Ones(i + 1)) + 2 * bits[v][m \div 2][Ones(i + 1) \div 2]
      <3> DEFINE ones == Ones(i + 1)
      <3>1. ones \in Nat BY <2>o
      <3> HIDE DEF ones
      <3>2. bits[v + 1][m][ones] = OrBit(m, ones) + 2 * bits[v][m \div 2][ones \div 2]
        <4>1. Splits(bits, OrBit(m, ones), v, m, ones) BY <1>r, <2>w, <3>1
        <4> QED BY <4>1 DEF Splits
      <3> QED BY <3>2 DEF ones
    <2>6. bits[v][m \div 2][Ones(i)] = Ones(i + j) BY <1>2, <2>1, <2>2, <2>3
    <2>7. Ones(i + j) \in Nat /\ Ones((i + j) + 1) = 2 * Ones(i + j) + 1 BY <2>1, OnesAre
    <2>8. OrBit(m, Ones(i + 1)) = 1 BY <2>2, <2>4 DEF OrBit
    <2> QED BY <2>1, <2>4, <2>5, <2>6, <2>7, <2>8
  <1> DEFINE B == {i \in Nat : Right(i)}
  <1>3. B = Nat
    <2> HIDE DEF Right
    <2>1. 0 \in B /\ \A i \in B : i + 1 \in B /\ B \in SUBSET Nat BY <1>1, <1>2
    <2> HIDE DEF B
    <2> QED BY <2>1, NatInduct
  <1>4. \A i \in Nat : Right(i) BY <1>3
  <1> QED BY <1>4 DEF bits

(* Shifting commutes with `|`.                                             *)
OrCommutes(w, s, a, b) ==
  BitByBit(OR)[w + s][a][b] \div Pow2[s] =
    BitByBit(OR)[w][a \div Pow2[s]][b \div Pow2[s]]

LEMMA OrShifted ==
  ASSUME NEW s \in Nat, NEW w \in Nat, NEW a \in Nat, NEW b \in Nat
  PROVE  OrCommutes(w, s, a, b)
  <1> DEFINE bits == BitByBit(OR)
             Right(r) == \A x, y \in Nat :
                    bits[w + r][x][y] \div Pow2[r] =
                      bits[w][x \div Pow2[r]][y \div Pow2[r]]
  <1>0. /\ \A v, x, y \in Nat : bits[v][x][y] \in Nat
        /\ \A x, y \in Nat : bits[0][x][y] = 0
    BY OrIs
  <1>r. \A v, x, y \in Nat : Splits(bits, OrBit(x, y), v, x, y)
    BY OrIs
  <1> HIDE DEF bits
  <1>1. Right(0)
    <2>1. ASSUME NEW x \in Nat, NEW y \in Nat
          PROVE  bits[w + 0][x][y] \div Pow2[0] = bits[w][x \div Pow2[0]][y \div Pow2[0]]
      <3>1. w + 0 = w /\ bits[w][x][y] \in Nat
        <4>1. bits[w][x][y] \in Nat BY <1>0, Zenon
        <4> QED BY <4>1
      <3> QED BY <3>1, ByOne
    <2> QED BY <2>1
  <1>2. ASSUME NEW r \in Nat, Right(r) PROVE Right(r + 1)
    <2> SUFFICES ASSUME NEW x \in Nat, NEW y \in Nat
                 PROVE  bits[w + (r + 1)][x][y] \div Pow2[r + 1] =
                          bits[w][x \div Pow2[r + 1]][y \div Pow2[r + 1]]
      OBVIOUS
    <2> DEFINE v == w + r
               low == OrBit(x, y)
               high == bits[v][x \div 2][y \div 2]
    <2>1. v \in Nat /\ w + (r + 1) = v + 1 OBVIOUS
    <2>2. x \div 2 \in Nat /\ y \div 2 \in Nat /\ low \in {0, 1}
      <3>1. x % 2 \in {0, 1} /\ y % 2 \in {0, 1} BY HalfIs
      <3> QED BY <3>1, HalfIs DEF OrBit
    <2>3. high \div Pow2[r] =
            bits[w][(x \div 2) \div Pow2[r]][(y \div 2) \div Pow2[r]]
      BY <1>2, <2>2
    <2> HIDE DEF v
    <2>4. bits[v + 1][x][y] = low + 2 * high
      <3>1. v \in Nat BY <2>1
      <3>2. Splits(bits, OrBit(x, y), v, x, y) BY <1>r, <3>1
      <3> QED BY <3>2 DEF Splits
    <2>5. high \in Nat BY <2>1, <2>2, <1>0
    <2> HIDE DEF low, high
    <2>6. low + 2 * high \in Nat /\ (low + 2 * high) \div 2 = high BY <2>2, <2>5
    <2>7. (low + 2 * high) \div Pow2[r + 1] = high \div Pow2[r] BY <2>6, HalfFirst
    <2>8. /\ x \div Pow2[r + 1] = (x \div 2) \div Pow2[r]
          /\ y \div Pow2[r + 1] = (y \div 2) \div Pow2[r]
      BY HalfFirst
    <2> QED BY <2>1, <2>3, <2>4, <2>7, <2>8
  <1> DEFINE B == {r \in Nat : Right(r)}
  <1>3. B = Nat
    <2> HIDE DEF Right
    <2>1. 0 \in B /\ \A r \in B : r + 1 \in B /\ B \in SUBSET Nat BY <1>1, <1>2
    <2> HIDE DEF B
    <2> QED BY <2>1, NatInduct
  <1>4. \A r \in Nat : Right(r) BY <1>3
  <1> QED BY <1>4 DEF bits, OrCommutes

(* A number that fits in w bits has a leading one.                         *)
LEMMA LeadingBit ==
  ASSUME NEW w \in Nat, NEW m \in Nat, 1 <= m, m < Pow2[w]
  PROVE  \E t \in 0 .. w - 1 : Pow2[t] <= m /\ m < Pow2[t + 1]
  <1> DEFINE Led(v, x) == \E t \in 0 .. v - 1 : Pow2[t] <= x /\ x < Pow2[t + 1]
             B == {v \in Nat : \A x \in Nat : 1 <= x /\ x < Pow2[v] => Led(v, x)}
  <1>1. 0 \in B BY Pow2Is
  <1>2. ASSUME NEW v \in B PROVE v + 1 \in B
    <2>v. v \in Nat OBVIOUS
    <2> SUFFICES ASSUME NEW x \in Nat, 1 <= x, x < Pow2[v + 1] PROVE Led(v + 1, x)
      OBVIOUS
    <2>1. CASE x < Pow2[v]
      <3>1. PICK t \in 0 .. v - 1 : Pow2[t] <= x /\ x < Pow2[t + 1] BY <2>1
      <3>2. t \in 0 .. (v + 1) - 1 OBVIOUS
      <3> QED BY <3>1, <3>2
    <2>2. CASE Pow2[v] <= x
      <3>1. v \in 0 .. (v + 1) - 1 OBVIOUS
      <3> QED BY <2>2, <3>1
    <2> QED BY <2>1, <2>2, Pow2Is
  <1>3. B \in SUBSET Nat OBVIOUS
  <1> HIDE DEF B
  <1>4. B = Nat BY <1>1, <1>2, <1>3, NatInduct
  <1> QED BY <1>4 DEF B

-----------------------------------------------------------------------------
(* The shifts 1, 2, 4 ... are at most half of the width in as many rounds  *)
(* as the width has factors of two: the last of them doubles the set bits  *)
(* to the width.                                                           *)
LEMMA HalfOfWidth ==
  /\ Width \in Nat \ {0}
  /\ \E n \in Nat : Width = Pow2[n] /\ Rounds = n /\ n \in Nat
  <1>1. PICK N \in 0 .. 6 : Width = Pow2[N]
    BY WidthAssumption
  <1>2. N \in Nat /\ Width \in Nat \ {0}
    BY <1>1, Pow2Is
  <1> DEFINE R == {n \in 0 .. Width : Continues(Pow2[n])}
  <1>3. ASSUME NEW n \in Nat
        PROVE  (n \in 0 .. Width /\ Continues(Pow2[n])) <=> n < N
    <2> DEFINE M == N - 1
    <2>1. Width \in Nat /\ Width \div 2 \in Nat /\ Pow2[n] \in Nat /\ Pow2[n] >= 1
      BY <1>2, HalfIs, Pow2Is
    <2>2. CASE n < N
      <3>1. M \in Nat /\ N = M + 1 /\ M - n \in Nat /\ M = n + (M - n)
        BY <1>2, <2>2
      <3> HIDE DEF M
      <3>2. Width = 2 * Pow2[M] /\ Pow2[M] \in Nat BY <1>1, <3>1, Pow2Is
      <3>3. Width \div 2 = Pow2[M] BY <3>2
      <3>4. Pow2[n] <= Pow2[n + (M - n)] BY <3>1, PowGrows
      <3>5. n < Pow2[n] BY PowGrows
      <3>6. n <= Width BY <2>1, <3>1, <3>2, <3>4, <3>5
      <3> QED BY <2>2, <3>1, <3>3, <3>4, <3>6 DEF Continues
    <2>3. CASE N <= n
      <3>1. n - N \in Nat /\ n = N + (n - N) BY <1>2, <2>3
      <3>2. Pow2[N] <= Pow2[N + (n - N)] BY <1>2, <3>1, PowGrows
      <3>3. Width \div 2 < Width BY <1>2
      <3>4. ~ Continues(Pow2[n]) BY <1>1, <2>1, <3>1, <3>2, <3>3 DEF Continues
      <3> QED BY <2>3, <3>4, <1>2
    <2> QED BY <1>2, <2>2, <2>3
  <1>4. R = 0 .. N - 1
    <2>1. R \in SUBSET Nat /\ 0 .. N - 1 \in SUBSET Nat BY <1>2
    <2>2. \A n \in Nat : n \in R <=> n < N BY <1>3
    <2>3. \A n \in Nat : n \in 0 .. N - 1 <=> n < N BY <1>2
    <2> HIDE DEF R
    <2> QED BY <2>1, <2>2, <2>3
  <1>5. Rounds = N
    <2>1. Cardinality(0 .. N - 1) = IF 0 > N - 1 THEN 0 ELSE (N - 1) - 0 + 1
      BY <1>2, FS_Interval
    <2>2. Cardinality(0 .. N - 1) = N BY <1>2, <2>1
    <2>3. Rounds = Cardinality(R) BY DEF Rounds
    <2> HIDE DEF R
    <2> QED BY <1>4, <2>2, <2>3
  <1> QED BY <1>1, <1>2, <1>5

(* Spread is the function its definition describes, and the first mask     *)
(* fits in the width.                                                      *)
LEMMA SpreadIs ==
  ASSUME NEW asked \in Sizes
  PROVE  /\ FirstMask(asked) \in Nat /\ FirstMask(asked) < Pow2[Width]
         /\ \A k \in Nat : Spread(asked)[k] \in Nat
         /\ Spread(asked)[0] = FirstMask(asked)
         /\ \A k \in Nat : Spread(asked)[k + 1] =
              Or(Spread(asked)[k], shiftR(Spread(asked)[k], Pow2[k]))
  <1> DEFINE first == FirstMask(asked)
             Once(k, m) == Or(m, shiftR(m, Pow2[k - 1]))
             G == [k \in Nat |-> [m \in Nat |-> IF k = 0 THEN m ELSE Once(k, m)]]
             A(f) == f = [k \in Nat |-> IF k = 0 THEN FirstMask(asked)
                                        ELSE Or(f[k - 1], shiftR(f[k - 1], Pow2[k - 1]))]
             spread == Spread(asked)
  <1>1. first \in Nat /\ first < Pow2[Width]
    <2>1. Pow2[Width] \in Nat \ {0} /\ asked \in Nat BY HalfOfWidth, Pow2Is DEF Sizes
    <2> HIDE DEF first
    <2>2. first = (asked - 1) % Pow2[Width] BY DEF first, FirstMask
    <2>3. (asked - 1) % Pow2[Width] \in 0 .. Pow2[Width] - 1 BY <2>1
    <2> QED BY <2>1, <2>2, <2>3
  <1>2. ASSUME NEW k \in Nat \ {0}, NEW m \in Nat PROVE Once(k, m) \in Nat
    <2>1. k - 1 \in Nat OBVIOUS
    <2>2. Pow2[k - 1] \in Nat BY <2>1, Pow2Is
    <2>3. Pow2[Pow2[k - 1]] \in Nat \ {0} BY <2>2, Pow2Is
    <2>4. shiftR(m, Pow2[k - 1]) \in Nat BY <2>3, DivIs DEF shiftR
    <2> QED BY <2>4, OrIs, HalfOfWidth DEF Or
  <1> HIDE DEF Once
  <1>3. /\ G \in [Nat -> [Nat -> Nat]]
        /\ \A k, m \in Nat : k # 0 => G[k][m] = Once(k, m)
    BY <1>2
  <1> HIDE DEF G, first
  <1>4. PICK f \in [Nat -> Nat] : Iterates(f, first, G)
    BY <1>1, <1>3, Recursion
  <1>5. f[0] = first /\ \A k \in Nat : k # 0 => f[k] = Once(k, f[k - 1])
    <2>1. f[0] = first /\ \A k \in Nat : f[k + 1] = G[k + 1][f[k]]
      BY <1>4 DEF Iterates
    <2>2. \A k \in Nat : k # 0 => k - 1 \in Nat /\ (k - 1) + 1 = k
      OBVIOUS
    <2>3. ASSUME NEW k \in Nat, k # 0 PROVE f[k] = Once(k, f[k - 1])
      <3> DEFINE h == k - 1
      <3>1. h \in Nat /\ h + 1 = k BY <2>2, <2>3
      <3> HIDE DEF h
      <3>2. f[h + 1] = G[h + 1][f[h]] BY <2>1, <3>1
      <3>3. f[h] \in Nat BY <3>1, <1>4
      <3> QED BY <1>3, <2>3, <3>1, <3>2, <3>3 DEF h
    <2> QED BY <2>1, <2>3
  <1>6. A(f)
    <2> DEFINE g == [k \in Nat |-> IF k = 0 THEN FirstMask(asked)
                                   ELSE Or(f[k - 1], shiftR(f[k - 1], Pow2[k - 1]))]
    <2>1. ASSUME NEW k \in Nat PROVE f[k] = g[k]
      BY <1>5 DEF first, Once
    <2>2. f = g
      <3> HIDE DEF g
      <3>1. f = [k \in Nat |-> f[k]] OBVIOUS
      <3>2. g = [k \in Nat |-> g[k]] BY DEF g
      <3> QED BY <2>1, <3>1, <3>2, Zenon
    <2> QED BY <2>2
  <1>7. A(spread)
    <2> HIDE DEF A
    <2>1. spread = CHOOSE g : A(g) BY DEF Spread, A
    <2> QED BY <1>6, <2>1
  <1> HIDE DEF spread
  <1>8. spread[0] = first /\ \A k \in Nat : k # 0 => spread[k] = Once(k, spread[k - 1])
    BY <1>7 DEF first, Once
  <1>9. ASSUME NEW k \in Nat
        PROVE  spread[k + 1] = Or(spread[k], shiftR(spread[k], Pow2[k]))
    <2>1. k + 1 \in Nat /\ k + 1 # 0 /\ (k + 1) - 1 = k OBVIOUS
    <2>2. spread[k + 1] = Once(k + 1, spread[(k + 1) - 1]) BY <1>8, <2>1
    <2> QED BY <2>1, <2>2 DEF Once
  <1> DEFINE B == {k \in Nat : spread[k] \in Nat}
  <1>10. 0 \in B BY <1>1, <1>8
  <1>11. ASSUME NEW k \in B PROVE k + 1 \in B
    <2>1. k + 1 \in Nat \ {0} /\ (k + 1) - 1 = k OBVIOUS
    <2>2. spread[k + 1] = Once(k + 1, spread[(k + 1) - 1]) BY <1>8, <2>1
    <2> QED BY <1>2, <2>1, <2>2
  <1>12. B \in SUBSET Nat OBVIOUS
  <1> HIDE DEF B
  <1>13. B = Nat BY <1>10, <1>11, <1>12, NatInduct
  <1>14. \A k \in Nat : spread[k] \in Nat BY <1>13 DEF B
  <1> QED BY <1>1, <1>8, <1>9, <1>14 DEF spread, first

(* After k rounds, the 2^k bits from the leading one down are set, or all  *)
(* of them.                                                                *)
Filled(k, t) == IF Pow2[k] <= t + 1 THEN Pow2[k] ELSE t + 1
TopOnes(m, k, t) == m \div Pow2[(t + 1) - Filled(k, t)] = Ones(Filled(k, t))

(* The invariant of the loop: a round doubles the set bits.                *)
LEMMA FillsTop ==
  ASSUME NEW t \in Nat, t < Width, NEW k \in Nat, NEW m \in Nat, TopOnes(m, k, t)
  PROVE  TopOnes(Or(m, shiftR(m, Pow2[k])), k + 1, t)
  <1> DEFINE i == Pow2[k]
  <1>1. i \in Nat /\ i >= 1 /\ Pow2[k + 1] = 2 * i /\ Width \in Nat
    BY Pow2Is, HalfOfWidth
  <1> HIDE DEF i
  <1> DEFINE r == m \div Pow2[i]
  <1>2. r \in Nat /\ Or(m, shiftR(m, Pow2[k])) = BitByBit(OR)[Width][m][r]
    <2>1. Pow2[i] \in Nat \ {0} BY <1>1, Pow2Is
    <2> QED BY <2>1, DivIs DEF Or, shiftR, i
  <1> HIDE DEF r
  <1>3. CASE t + 1 <= i
    <2>1. Filled(k, t) = t + 1 /\ Filled(k + 1, t) = t + 1
      BY <1>1, <1>3 DEF Filled, i
    <2>2. m = Ones(t + 1)
      <3>1. (t + 1) - (t + 1) = 0 OBVIOUS
      <3> QED BY <2>1, <3>1, ByOne DEF TopOnes
    <2>3. r = 0
      <3> DEFINE d == i - (t + 1)
                 s == t + 1
      <3>1. d \in Nat /\ s \in Nat /\ i = s + d BY <1>1, <1>3
      <3> HIDE DEF d, s
      <3>2. Ones(s) \div Pow2[s + d] = 0 BY <3>1, OnesShifted
      <3> QED BY <2>2, <3>1, <3>2 DEF r, s
    <2>4. BitByBit(OR)[Width][Ones(t + 1)][0] = Ones(t + 1)
      <3>1. t + 1 \in Nat /\ t + 1 <= Width BY <1>1
      <3> QED BY <1>1, <3>1, OrOfNone
    <2>5. TopOnes(Ones(t + 1), k + 1, t)
      <3>1. (t + 1) - (t + 1) = 0 /\ t + 1 \in Nat OBVIOUS
      <3>2. Ones(t + 1) \in Nat BY <3>1, OnesAre
      <3> QED BY <2>1, <3>1, <3>2, ByOne DEF TopOnes
    <2> QED BY <1>2, <2>2, <2>3, <2>4, <2>5
  <1>4. CASE i < t + 1 /\ 2 * i <= t + 1
    <2> DEFINE s == (t + 1) - 2 * i
               w == Width - s
               y == m \div Pow2[s]
    <2>1. /\ s \in Nat /\ w \in Nat /\ w + s = Width /\ i + i <= w
          /\ (t + 1) - i = s + i /\ i + i = 2 * i
      BY <1>1, <1>4
    <2>2. Filled(k, t) = i /\ Filled(k + 1, t) = 2 * i
      BY <1>1, <1>4 DEF Filled, i
    <2>3. (t + 1) - 2 * i = s OBVIOUS
    <2> HIDE DEF s, w
    <2>4. m \div Pow2[s + i] = Ones(i) BY <2>1, <2>2 DEF TopOnes
    <2>5. y \in Nat /\ y \div Pow2[i] = Ones(i)
      <3>1. y \div Pow2[i] = m \div Pow2[s + i] BY <1>1, <2>1, DivTwice
      <3>2. Pow2[s] \in Nat \ {0} BY <2>1, Pow2Is
      <3>3. y \in Nat BY <3>2, DivIs
      <3> QED BY <2>4, <3>1, <3>3
    <2>6. r \div Pow2[s] = Ones(i)
      <3>1. r \div Pow2[s] = m \div Pow2[i + s] BY <1>1, <2>1, DivTwice DEF r
      <3>2. i + s = s + i BY <1>1, <2>1
      <3> QED BY <2>4, <3>1, <3>2
    <2> HIDE DEF y
    <2>7. BitByBit(OR)[Width][m][r] \div Pow2[s] = BitByBit(OR)[w][y][r \div Pow2[s]]
      <3>1. s \in Nat /\ w \in Nat /\ r \in Nat BY <1>2, <2>1
      <3>2. OrCommutes(w, s, m, r) BY <3>1, OrShifted
      <3> QED BY <2>1, <3>2 DEF OrCommutes, y
    <2>8. BitByBit(OR)[w][y][Ones(i)] = Ones(i + i)
      BY <1>1, <2>1, <2>5, OrFills
    <2> QED BY <1>2, <2>1, <2>2, <2>3, <2>6, <2>7, <2>8 DEF TopOnes
  <1>5. CASE i < t + 1 /\ t + 1 < 2 * i
    <2> DEFINE s == (t + 1) - i
               d == i - s
    <2>1. /\ s \in Nat /\ d \in Nat /\ s + d = i /\ d + s = i
          /\ s + i = t + 1 /\ s + i <= Width
      BY <1>1, <1>5
    <2>2. Filled(k, t) = i /\ Filled(k + 1, t) = t + 1
      BY <1>1, <1>5 DEF Filled, i
    <2>3. m \div Pow2[s] = Ones(i) BY <2>2 DEF TopOnes
    <2> HIDE DEF s, d
    <2>4. r = Ones(s)
      <3>0. s \in Nat /\ d \in Nat BY <2>1
      <3>1. m \div Pow2[s + d] = (m \div Pow2[s]) \div Pow2[d] BY <3>0, DivTwice
      <3>2. Ones(d + s) \div Pow2[d] = Ones(s) BY <3>0, OnesShifted
      <3> QED BY <2>1, <2>3, <3>1, <3>2 DEF r
    <2>5. BitByBit(OR)[Width][m][Ones(s)] = Ones(s + i)
      BY <1>1, <2>1, <2>3, OrFills
    <2>6. TopOnes(Ones(t + 1), k + 1, t)
      <3>1. (t + 1) - (t + 1) = 0 /\ t + 1 \in Nat OBVIOUS
      <3>2. Ones(t + 1) \in Nat BY <3>1, OnesAre
      <3> QED BY <2>2, <3>1, <3>2, ByOne DEF TopOnes
    <2> QED BY <1>2, <2>1, <2>4, <2>5, <2>6
  <1> QED BY <1>1, <1>3, <1>4, <1>5

(* So the loop sets every bit below the leading one.                       *)
LEMMA MaskIsOnes ==
  ASSUME NEW asked \in Sizes, NEW t \in Nat, t < Width,
         Pow2[t] <= FirstMask(asked), FirstMask(asked) < Pow2[t + 1]
  PROVE  capacityMask(asked) = Ones(t + 1)
  <1> DEFINE spread == Spread(asked)
             first == FirstMask(asked)
  <1>1. /\ first \in Nat /\ Pow2[t] <= first /\ first < Pow2[t + 1]
        /\ \A k \in Nat : spread[k] \in Nat
        /\ spread[0] = first
        /\ \A k \in Nat : spread[k + 1] = Or(spread[k], shiftR(spread[k], Pow2[k]))
    BY SpreadIs
  <1>2. TopOnes(first, 0, t)
    <2>1. Filled(0, t) = 1 /\ (t + 1) - 1 = t BY Pow2Is DEF Filled
    <2>2. Ones(1) = 1
      <3>1. Ones(0 + 1) = 2 * Ones(0) + 1 BY OnesAre
      <3> QED BY <3>1, OnesAre
    <2>3. first \div Pow2[t] = 1
      <3> DEFINE p == Pow2[t]
                 x == first - p
      <3>1. p \in Nat \ {0} /\ x \in Nat /\ x < p /\ first = 1 * p + x
        BY <1>1, Pow2Is
      <3> HIDE DEF p, x, first
      <3>2. (1 * p + x) \div p = 1 BY <3>1, DivUnique
      <3> QED BY <3>1, <3>2 DEF p
    <2> QED BY <2>1, <2>2, <2>3 DEF TopOnes
  <1> HIDE DEF spread, first
  <1> DEFINE B == {k \in Nat : TopOnes(spread[k], k, t)}
  <1>3. 0 \in B BY <1>1, <1>2
  <1>4. ASSUME NEW k \in B PROVE k + 1 \in B
    <2>1. k \in Nat /\ spread[k] \in Nat /\ TopOnes(spread[k], k, t) BY <1>1
    <2>2. spread[k + 1] = Or(spread[k], shiftR(spread[k], Pow2[k])) BY <1>1, <2>1
    <2> HIDE DEF B
    <2>3. TopOnes(Or(spread[k], shiftR(spread[k], Pow2[k])), k + 1, t)
      BY <2>1, FillsTop
    <2>4. TopOnes(spread[k + 1], k + 1, t) BY <2>2, <2>3
    <2> QED BY <2>1, <2>4 DEF B
  <1>5. B \in SUBSET Nat OBVIOUS
  <1> HIDE DEF B
  <1>6. B = Nat BY <1>3, <1>4, <1>5, NatInduct
  <1>7. PICK n \in Nat : Width = Pow2[n] /\ Rounds = n BY HalfOfWidth
  <1>8. TopOnes(spread[n], n, t) BY <1>6, <1>7 DEF B
  <1>9. Filled(n, t) = t + 1 /\ (t + 1) - (t + 1) = 0
    BY <1>7, HalfOfWidth DEF Filled
  <1>10. spread[n] = Ones(t + 1)
    <2>1. spread[n] \div Pow2[0] = Ones(t + 1) BY <1>8, <1>9 DEF TopOnes
    <2>2. spread[n] \in Nat BY <1>1, <1>7
    <2> QED BY <2>1, <2>2, ByOne
  <1> QED BY <1>7, <1>10 DEF capacityMask, spread

(* The mask of one cell stays empty.                                       *)
LEMMA MaskOfNone ==
  ASSUME NEW asked \in Sizes, FirstMask(asked) = 0
  PROVE  capacityMask(asked) = 0
  <1> DEFINE spread == Spread(asked)
  <1>1. /\ spread[0] = 0
        /\ \A k \in Nat : spread[k + 1] = Or(spread[k], shiftR(spread[k], Pow2[k]))
    BY SpreadIs
  <1> HIDE DEF spread
  <1> DEFINE B == {k \in Nat : spread[k] = 0}
  <1>2. 0 \in B BY <1>1
  <1>3. ASSUME NEW k \in B PROVE k + 1 \in B
    <2>1. k \in Nat /\ spread[k] = 0 OBVIOUS
    <2>2. shiftR(0, Pow2[k]) = 0
      <3>1. Pow2[k] \in Nat /\ Pow2[Pow2[k]] \in Nat \ {0} BY <2>1, Pow2Is
      <3> QED BY <3>1 DEF shiftR
    <2>3. Or(0, 0) = 0
      <3>1. BitByBit(OR)[Width][Ones(0)][0] = Ones(0) BY HalfOfWidth, OrOfNone
      <3> QED BY <3>1, OnesAre DEF Or
    <2>4. spread[k + 1] = Or(spread[k], shiftR(spread[k], Pow2[k])) BY <1>1, <2>1
    <2> QED BY <2>1, <2>2, <2>3, <2>4
  <1>4. B \in SUBSET Nat OBVIOUS
  <1> HIDE DEF B
  <1>5. B = Nat BY <1>2, <1>3, <1>4, NatInduct
  <1>6. Rounds \in Nat BY HalfOfWidth
  <1>7. spread[Rounds] = 0 BY <1>5, <1>6 DEF B
  <1> QED BY <1>7 DEF capacityMask, spread

(* The least power of two not below what is asked is the one that is not   *)
(* below it while every smaller one is.                                    *)
LEMMA LeastIs ==
  ASSUME NEW asked \in Sizes, asked # 0, NEW t \in Nat, t < Width,
         asked <= Pow2[t], \A n \in Nat : n < t => Pow2[n] < asked
  PROVE  LeastPowerOfTwo(asked) = Pow2[t]
  <1> DEFINE fits == {n \in 0 .. Width - 1 : Pow2[n] >= asked}
             least == CHOOSE n \in fits : \A k \in fits : n <= k
  <1>1. Width \in Nat /\ asked \in Nat /\ Pow2[Width] \in Nat
    BY HalfOfWidth, Pow2Is DEF Sizes
  <1>2. t \in fits /\ fits \in SUBSET Nat BY <1>1, Pow2Is
  <1>3. \A k \in fits : t <= k
    <2> TAKE k \in fits
    <2>1. k \in Nat /\ Pow2[k] \in Nat /\ ~ (Pow2[k] < asked) BY <1>1, Pow2Is
    <2> QED BY <2>1
  <1>4. least = t
    <2> HIDE DEF fits
    <2>1. least \in fits /\ \A k \in fits : least <= k
      <3>1. \E n \in fits : \A k \in fits : n <= k BY <1>2, <1>3
      <3> QED BY <3>1
    <2>2. least <= t /\ t <= least BY <1>2, <1>3, <2>1
    <2>3. least \in Nat BY <1>2, <2>1
    <2> HIDE DEF least
    <2> QED BY <2>2, <2>3
  <1>5. fits # {} BY <1>2
  <1>6. LeastPowerOfTwo(asked) = Pow2[least] BY <1>5 DEF LeastPowerOfTwo
  <1> QED BY <1>4, <1>6

(* Either the capacity wraps to 0, exactly when no power of two of the     *)
(* type suffices, or it is that power and the mask is one less.            *)
LEMMA CapacityIs ==
  ASSUME NEW asked \in Sizes
  PROVE  \/ capacity(asked) = 0 /\ LeastPowerOfTwo(asked) = 0
         \/ \E k \in Nat : /\ k < Width /\ capacityMask(asked) = Ones(k)
                           /\ capacity(asked) = Pow2[k] /\ LeastPowerOfTwo(asked) = Pow2[k]
  <1>1. /\ Width \in Nat \ {0} /\ asked \in Nat /\ asked < Pow2[Width]
        /\ Pow2[Width] \in Nat /\ Pow2[Width] >= 2
    <2>1. Width - 1 \in Nat /\ (Width - 1) + 1 = Width BY HalfOfWidth
    <2>2. Pow2[(Width - 1) + 1] = 2 * Pow2[Width - 1] /\ Pow2[Width - 1] \in Nat
          /\ Pow2[Width - 1] >= 1
      BY <2>1, Pow2Is
    <2>3. Pow2[Width] \in Nat /\ asked \in 0 .. Pow2[Width] - 1
      BY HalfOfWidth, Pow2Is DEF Sizes
    <2> QED BY <2>1, <2>2, <2>3, HalfOfWidth
  <1> DEFINE p == Pow2[Width]
  <1> HIDE DEF p
  <1>2. CASE asked = 0
    <2> DEFINE t == Width - 1
    <2>1. t \in Nat /\ t < Width /\ t + 1 = Width BY <1>1
    <2> HIDE DEF t
    <2>2. FirstMask(asked) = p - 1
      <3>1. (0 - 1) % p = p - 1
        <4>1. p \in Nat /\ p >= 2 BY <1>1 DEF p
        <4> QED BY <4>1
      <3> QED BY <1>2, <3>1 DEF FirstMask, p
    <2>3. Pow2[t] <= FirstMask(asked) /\ FirstMask(asked) < Pow2[t + 1]
      BY <1>1, <2>1, <2>2, Pow2Is DEF p
    <2>4. capacityMask(asked) = p - 1 BY <2>1, <2>3, MaskIsOnes DEF Ones, p
    <2>5. capacity(asked) = 0
      <3>1. p \in Nat /\ p >= 2 BY <1>1 DEF p
      <3>2. ((p - 1) + 1) % p = 0 BY <3>1
      <3> QED BY <2>4, <3>2 DEF capacity, p
    <2>6. LeastPowerOfTwo(asked) = 0 BY <1>2 DEF LeastPowerOfTwo
    <2> QED BY <2>5, <2>6
  <1>3. CASE asked = 1
    <2>1. p \in Nat /\ p >= 2 BY <1>1 DEF p
    <2>2. FirstMask(asked) = 0
      <3>1. (1 - 1) % p = 0 BY <2>1
      <3> QED BY <1>3, <3>1 DEF FirstMask, p
    <2>3. capacityMask(asked) = 0 BY <2>2, MaskOfNone
    <2>4. capacity(asked) = 1
      <3>1. (0 + 1) % p = 1 BY <2>1
      <3> QED BY <2>3, <3>1 DEF capacity, p
    <2>5. LeastPowerOfTwo(asked) = Pow2[0]
      <3>1. asked # 0 /\ 0 \in Nat /\ 0 < Width /\ asked <= Pow2[0] BY <1>1, <1>3, Pow2Is
      <3>2. \A n \in Nat : n < 0 => Pow2[n] < asked OBVIOUS
      <3> QED BY <3>1, <3>2, LeastIs
    <2>6. 0 \in Nat /\ 0 < Width /\ Ones(0) = 0 /\ Pow2[0] = 1 BY <1>1, OnesAre, Pow2Is
    <2> QED BY <2>3, <2>4, <2>5, <2>6
  <1>4. CASE asked > 1
    <2> DEFINE m == asked - 1
    <2>1. m \in Nat /\ 1 <= m /\ m < p /\ asked = m + 1 /\ p \in Nat BY <1>1, <1>4 DEF p
    <2>2. FirstMask(asked) = m
      <3>1. m % p = m BY <2>1
      <3> QED BY <3>1 DEF FirstMask, p
    <2> HIDE DEF m
    <2>3. PICK t \in 0 .. Width - 1 : Pow2[t] <= m /\ m < Pow2[t + 1]
      BY <1>1, <2>1, LeadingBit DEF p
    <2>4. t \in Nat /\ t < Width /\ t + 1 \in Nat BY <1>1, <2>3
    <2>5. capacityMask(asked) = Ones(t + 1) BY <2>2, <2>3, <2>4, MaskIsOnes
    <2>6. /\ Pow2[t + 1] \in Nat /\ Pow2[t + 1] >= 1
          /\ capacity(asked) = Pow2[t + 1] % p
      <3>1. Pow2[t + 1] \in Nat /\ Pow2[t + 1] >= 1 BY <2>4, Pow2Is
      <3>2. (Pow2[t + 1] - 1) + 1 = Pow2[t + 1] BY <3>1
      <3> QED BY <2>5, <3>1, <3>2 DEF capacity, Ones, p
    <2>7. \A n \in Nat : n < t + 1 => Pow2[n] < asked
      <3> SUFFICES ASSUME NEW n \in Nat, n < t + 1 PROVE Pow2[n] < asked
        OBVIOUS
      <3>1. t - n \in Nat /\ t = n + (t - n) BY <2>4
      <3>2. Pow2[n] <= Pow2[n + (t - n)] BY <3>1, PowGrows
      <3>3. Pow2[n] \in Nat /\ Pow2[t] \in Nat BY <2>4, Pow2Is
      <3> QED BY <2>1, <2>3, <3>1, <3>2, <3>3
    <2>8. CASE t + 1 = Width
      <3>1. capacity(asked) = 0
        <4>1. p % p = 0 BY <2>1
        <4> QED BY <2>6, <2>8, <4>1 DEF p
      <3>2. {n \in 0 .. Width - 1 : Pow2[n] >= asked} = {}
        <4> SUFFICES ASSUME NEW n \in 0 .. Width - 1, Pow2[n] >= asked PROVE FALSE
          OBVIOUS
        <4>1. n \in Nat /\ n < t + 1 /\ Pow2[n] \in Nat BY <1>1, <2>8, Pow2Is
        <4> QED BY <1>1, <2>7, <4>1
      <3>3. LeastPowerOfTwo(asked) = 0 BY <3>2 DEF LeastPowerOfTwo
      <3> QED BY <3>1, <3>3
    <2>9. CASE t + 1 # Width
      <3>1. t + 1 < Width /\ t + 1 \in Nat BY <1>1, <2>4, <2>9
      <3>2. Pow2[t + 1] < p
        <4>1. Width - (t + 2) \in Nat /\ Width = (t + 2) + (Width - (t + 2)) /\ t + 2 \in Nat
              /\ (t + 1) + 1 = t + 2
          BY <1>1, <3>1
        <4>2. Pow2[t + 2] <= Pow2[(t + 2) + (Width - (t + 2))] BY <4>1, PowGrows
        <4>3. Pow2[(t + 1) + 1] = 2 * Pow2[t + 1] BY <3>1, Pow2Is
        <4>4. 2 * Pow2[t + 1] <= p BY <4>1, <4>2, <4>3 DEF p
        <4> QED BY <2>1, <2>6, <4>4
      <3>3. capacity(asked) = Pow2[t + 1]
        <4> DEFINE q == Pow2[t + 1]
        <4>1. q \in Nat /\ q < p BY <2>6, <3>2
        <4> HIDE DEF q
        <4>2. q % p = q BY <2>1, <4>1
        <4> QED BY <2>6, <4>2 DEF q
      <3>4. asked <= Pow2[t + 1] BY <2>1, <2>3, <2>6
      <3>5. asked # 0 BY <1>4
      <3>6. LeastPowerOfTwo(asked) = Pow2[t + 1] BY <2>7, <3>1, <3>4, <3>5, LeastIs
      <3> QED BY <2>5, <3>1, <3>3, <3>6
    <2> QED BY <2>8, <2>9
  <1> QED BY <1>1, <1>2, <1>3, <1>4

(* The constructor makes a queue its mask can index, whatever it is asked  *)
(* for.                                                                    *)
LEMMA MaskAlwaysFits == MaskFitsCapacity
  <1> SUFFICES ASSUME NEW asked \in Sizes
               PROVE  /\ capacity(asked) = LeastPowerOfTwo(asked)
                      /\ capacity(asked) > 0 =>
                           \A i \in 0 .. 2 * capacity(asked) + 1 :
                             \A n \in {i, Pow2[Width] - 1 - i} \cap Sizes :
                               And(n, capacityMask(asked)) = n % capacity(asked)
    BY DEF MaskFitsCapacity
  <1>1. CASE capacity(asked) = 0 /\ LeastPowerOfTwo(asked) = 0
    BY <1>1
  <1>2. ASSUME NEW k \in Nat, k < Width, capacityMask(asked) = Ones(k),
               capacity(asked) = Pow2[k], LeastPowerOfTwo(asked) = Pow2[k]
        PROVE  /\ capacity(asked) = LeastPowerOfTwo(asked)
               /\ \A n \in Sizes : And(n, capacityMask(asked)) = n % capacity(asked)
    <2>1. ASSUME NEW n \in Sizes PROVE And(n, Ones(k)) = n % Pow2[k]
      <3>1. n \in Nat /\ Width \in Nat /\ k <= Width
        BY <1>2, HalfOfWidth, Pow2Is DEF Sizes
      <3> QED BY <3>1, MaskIsRemainder DEF And
    <2> QED BY <1>2, <2>1
  <1> QED BY <1>1, <1>2, CapacityIs

(* The queue the constructor makes, whatever was asked for, can be indexed *)
(* by its mask (ringqueue::ringqueue, push, pop), for every width of a     *)
(* size_t up to 64 bits.                                                   *)
THEOREM IndexedByItsMask == Spec => []IndexedByMask
<1>1. IndexedByMask
  BY MaskAlwaysFits DEF IndexedByMask
<1> QED BY <1>1, PTL
===============================================================================

------------------------------- MODULE RingQueue -------------------------------
(***************************************************************************)
(* cache::ringqueue (yijinjing/cache/ringqueue.h): one producer thread in  *)
(* push(), one consumer thread in pop(), one observer in size(), at the    *)
(* granularity of their accesses to shared memory.                         *)
(*                                                                         *)
(* tail_ is stored only by push and head_ only by pop, both by a           *)
(* sequentially consistent ++; each side loads the other's counter with    *)
(* acquire order, so the interleavings below are the executions of the     *)
(* build.  The counters are 64 bits wide and are not taken modulo 2^64: a  *)
(* wrap needs 2^64 pushes.                                                 *)
(*                                                                         *)
(* An item is the number of the push() call that carried it.  `log` and    *)
(* `delivered` are history variables: the items published by `tail_++`,    *)
(* and the item the last successful pop() returned.                        *)
(***************************************************************************)
EXTENDS Integers, Sequences

CONSTANTS Capacity,  \* capacity_, the rounded size of the buffer
          MaxPush    \* bound on the number of push calls

ASSUME CapacityAssumption == Capacity \in Nat \ {0}
ASSUME MaxPushAssumption == MaxPush \in Nat

VARIABLES slot,      \* queue_: what each cell holds
          head,      \* head_
          tail,      \* tail_
          popValue,  \* *pop_value_
          ppc,       \* where the producer is in push()
          offered,   \* push calls begun; also the item of the current one
          seenHead,  \* push(): the local copy of head_
          cpc,       \* where the consumer is in pop()
          result,    \* pop(): does the caller's pointer point to pop_value_?
          opc,       \* where the observer is in size()
          sizeHead,  \* size(): the local copy of head_
          reported,  \* the last value size() returned
          log, delivered

producerVars == <<ppc, offered, seenHead>>
consumerVars == <<cpc, result, popValue, delivered>>
observerVars == <<opc, sizeHead, reported>>
vars == <<slot, head, tail, producerVars, consumerVars, observerVars, log>>

Zero == 0                   \* memory cleared by memset, and a destroyed node
Item == 1 .. MaxPush
Cell(i) == i % Capacity     \* i & capacityMask_
Limit == Capacity - 1

Init ==
  /\ slot = [c \in 0 .. Capacity - 1 |-> Zero]
  /\ head = 0 /\ tail = 0
  /\ popValue = Zero
  /\ ppc = "idle" /\ offered = 0 /\ seenHead = 0
  /\ cpc = "idle" /\ result = FALSE
  /\ opc = "idle" /\ sizeHead = 0 /\ reported = 0
  /\ log = << >> /\ delivered = Zero

-----------------------------------------------------------------------------
(* push(): load the counters, clear the cell at tail_, construct the item  *)
(* there, and publish it if the head seen left room.                       *)

PushLoad_CachedHead ==      \* mutant: head_ is not reloaded
  /\ ppc = "idle"
  /\ offered < MaxPush
  /\ offered' = offered + 1
  /\ ppc' = "clear"
  /\ UNCHANGED <<slot, head, tail, seenHead, consumerVars, observerVars, log>>

PushLoad ==
  /\ ppc = "idle"
  /\ offered < MaxPush
  /\ offered' = offered + 1
  /\ seenHead' = head
  /\ ppc' = "clear"
  /\ UNCHANGED <<slot, head, tail, consumerVars, observerVars, log>>

PushClear ==
  /\ ppc = "clear"
  /\ slot' = [slot EXCEPT ![Cell(tail)] = Zero]
  /\ ppc' = "construct"
  /\ UNCHANGED <<head, tail, offered, seenHead, consumerVars, observerVars, log>>

PushConstruct ==
  /\ ppc = "construct"
  /\ slot' = [slot EXCEPT ![Cell(tail)] = offered]
  /\ ppc' = "publish"
  /\ UNCHANGED <<head, tail, offered, seenHead, consumerVars, observerVars, log>>

HasRoom_NoReserve == tail - seenHead < Capacity   \* mutant: no cell in reserve

HasRoom == tail - seenHead < Limit

PushPublish_Always ==       \* mutant: published whether or not there is room
  /\ ppc = "publish"
  /\ tail' = tail + 1 /\ log' = Append(log, offered)
  /\ ppc' = "idle"
  /\ UNCHANGED <<slot, head, offered, seenHead, consumerVars, observerVars>>

PushPublish ==
  /\ ppc = "publish"
  /\ IF HasRoom
       THEN tail' = tail + 1 /\ log' = Append(log, offered)
       ELSE UNCHANGED <<tail, log>>
  /\ ppc' = "idle"
  /\ UNCHANGED <<slot, head, offered, seenHead, consumerVars, observerVars>>

Producer == PushLoad \/ PushClear \/ PushConstruct \/ PushPublish

-----------------------------------------------------------------------------
(* pop(): nothing if the queue looks empty, else clear pop_value_, copy    *)
(* the cell at head_ into it, destroy the cell and advance head_.          *)

LooksEmpty_PastTail == head > tail            \* mutant: off by one
LooksEmpty_KeepsOne == head + 1 >= tail       \* mutant: off by one, the other way

LooksEmpty == head >= tail

PopLoad ==
  /\ cpc = "idle"
  /\ result' = FALSE
  /\ cpc' = IF LooksEmpty THEN "idle" ELSE "clear"
  /\ UNCHANGED <<slot, head, tail, popValue, delivered, producerVars, observerVars, log>>

PopClear ==
  /\ cpc = "clear"
  /\ popValue' = Zero
  /\ cpc' = "copy"
  /\ UNCHANGED <<slot, head, tail, result, delivered, producerVars, observerVars, log>>

PopCopy ==
  /\ cpc = "copy"
  /\ popValue' = slot[Cell(head)]
  /\ result' = TRUE
  /\ cpc' = "destroy"
  /\ UNCHANGED <<slot, head, tail, delivered, producerVars, observerVars, log>>

PopDestroy_Result ==        \* mutant: destroys *pop_value_ instead of the node
  /\ cpc = "destroy"
  /\ popValue' = Zero
  /\ cpc' = "advance"
  /\ UNCHANGED <<slot, head, tail, result, delivered, producerVars, observerVars, log>>

PopDestroy ==
  /\ cpc = "destroy"
  /\ slot' = [slot EXCEPT ![Cell(head)] = Zero]
  /\ cpc' = "advance"
  /\ UNCHANGED <<head, tail, popValue, result, delivered, producerVars, observerVars, log>>

PopAdvance ==
  /\ cpc = "advance"
  /\ head' = head + 1
  /\ delivered' = popValue
  /\ cpc' = "idle"
  /\ UNCHANGED <<slot, tail, popValue, result, producerVars, observerVars, log>>

Consumer == PopLoad \/ PopClear \/ PopCopy \/ PopDestroy \/ PopAdvance

-----------------------------------------------------------------------------
(* size(): head_ first, then tail_.                                        *)

SizeLoadHead ==
  /\ opc = "idle"
  /\ sizeHead' = head
  /\ opc' = "loaded"
  /\ UNCHANGED <<slot, head, tail, producerVars, consumerVars, reported, log>>

SizeReturn ==
  /\ opc = "loaded"
  /\ reported' = tail - sizeHead
  /\ opc' = "idle"
  /\ UNCHANGED <<slot, head, tail, producerVars, consumerVars, sizeHead, log>>

Observer == SizeLoadHead \/ SizeReturn

-----------------------------------------------------------------------------
Next == Producer \/ Consumer \/ Observer

Spec == Init /\ [][Next]_vars

(* The client that owns the consumer end polls for ever, and a push() that *)
(* has begun runs to its end; nobody is obliged to call push() or size().  *)
FairSpec ==
  /\ Spec
  /\ WF_vars(Consumer)
  /\ WF_vars(PushClear \/ PushConstruct \/ PushPublish)

-----------------------------------------------------------------------------
(* Every variable keeps its type.  That `reported` is a natural number     *)
(* says more: size(), called without a lock, never underflows to a huge    *)
(* size_t, because it loads head_ before tail_ and head_ never passes it.  *)
TypeOK ==
  /\ slot \in [0 .. Capacity - 1 -> {Zero} \cup Item]
  /\ head \in Nat /\ tail \in Nat
  /\ popValue \in {Zero} \cup Item
  /\ ppc \in {"idle", "clear", "construct", "publish"}
  /\ offered \in 0 .. MaxPush
  /\ seenHead \in Nat
  /\ cpc \in {"idle", "clear", "copy", "destroy", "advance"}
  /\ result \in BOOLEAN
  /\ opc \in {"idle", "loaded"}
  /\ sizeHead \in Nat
  /\ reported \in Nat
  /\ log \in Seq(Item)
  /\ delivered \in {Zero} \cup Item

(* The cell push() is clearing or constructing, published or not, is never *)
(* one pop() may be copying or destroying, nor any cell that still waits   *)
(* to be popped: the two threads share no cell, so the plain accesses to   *)
(* it do not race.  This is why push() keeps one cell in reserve.          *)
NoSharedCell ==
  ppc \in {"clear", "construct", "publish"} =>
    \A i \in head .. tail - 1 : Cell(i) # Cell(tail)

(* Every item published and not yet popped is intact in its cell (the      *)
(* cell at head_ may already have been copied out and destroyed), so pop() *)
(* hands out exactly what push() accepted, in order.                       *)
WaitingIntact ==
  /\ Len(log) = tail
  /\ \A i \in head .. tail - 1 :
       slot[Cell(i)] = log[i + 1] \/ (i = head /\ cpc = "advance")

(* The pointer pop() returned still points to the item it returned, until  *)
(* the client calls pop() again: pop_value_ is one buffer for all calls.   *)
ResultStable ==
  cpc = "idle" /\ result => popValue = log[head]

(* Items come out in the order of their push() calls, none twice: each     *)
(* delivery carries a later push() than the one before.                    *)
DeliversInOrder ==
  [][delivered' # delivered => delivered' > delivered]_delivered

(* Every item that was published is eventually handed out by a client that *)
(* keeps polling, however the producer behaves.                            *)
PublishedIsDelivered ==
  \A n \in Item : (tail >= n) ~> (head >= n)

(* The whole is a bounded drop-newest FIFO with atomic calls.  A push that *)
(* found the queue full is refused when it loaded head_; any other push is *)
(* accepted when it publishes.  A pop takes effect when it advances head_. *)
decidedBar ==
  IF ppc # "idle" /\ HasRoom THEN offered - 1 ELSE offered

Abstract == INSTANCE DropNewestQueue
              WITH decided <- decidedBar, taken <- head, out <- delivered

ImplementsDropNewest == Abstract!Spec
===============================================================================

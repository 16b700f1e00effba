------------------------- MODULE CompositeSubscription -------------------------
(***************************************************************************)
(* composite_subscription (rxcpp/rx-subscription.hpp): the scope to which  *)
(* every subscription of an event stream belongs.  Its set of children is  *)
(* guarded by a mutex, but the flag issubscribed is changed and first read *)
(* without it, and the children are unsubscribed after it is released.     *)
(* Several threads add, remove, clear and unsubscribe.                     *)
(***************************************************************************)
EXTENDS Naturals

CONSTANTS Threads,
          Children,      \* subscriptions given to this scope
          SelfRemoving,  \* those that remove themselves from it when they end,
                         \* as merge's inner subscriptions and a connection do
          Nobody,        \* the holder of a mutex no thread holds
          MaxCalls       \* bound on the calls made

ASSUME CompositeAssumption ==
  /\ SelfRemoving \subseteq Children
  /\ Nobody \notin Threads \cup Children
  /\ MaxCalls \in Nat

VARIABLES outer,         \* issubscribed of the scope's own subscription_state
          issubscribed,  \* issubscribed of composite_subscription_state
          subscriptions, \* its set
          lock,          \* the thread that holds its mutex
          subscribed,    \* the children whose issubscribed is true
          pc,            \* what a thread is about to do
          call,          \* the member function it is in
          arg,           \* the child it was called with
          batch,         \* the children it has yet to unsubscribe
          given,         \* history: children that were passed to add()
          calls          \* history: the number of calls

flags == <<outer, issubscribed>>
frame == <<call, arg>>
log == <<given, calls>>
vars == <<flags, subscriptions, lock, subscribed, pc, frame, batch, log>>

Init ==
  /\ outer = TRUE /\ issubscribed = TRUE
  /\ subscriptions = {}
  /\ lock = Nobody
  /\ subscribed = Children
  /\ pc = [t \in Threads |-> "idle"]
  /\ call = [t \in Threads |-> "none"]
  /\ arg = [t \in Threads |-> Nobody]
  /\ batch = [t \in Threads |-> {}]
  /\ given = {}
  /\ calls = 0

Goes(t, where) == pc' = [pc EXCEPT ![t] = where]
(* A call that ends returns to the loop it was made from, if any.          *)
Returns(t) == Goes(t, IF batch[t] = {} THEN "idle" ELSE "sweep")
Sweeps(t, victims) == batch' = [batch EXCEPT ![t] = victims] /\ Goes(t, "sweep")

-----------------------------------------------------------------------------
Called(t) == pc[t] = "idle" /\ calls < MaxCalls /\ calls' = calls + 1

Enter(t, f, c) ==
  /\ Called(t)
  /\ call' = [call EXCEPT ![t] = f]
  /\ arg' = [arg EXCEPT ![t] = c]
  /\ Goes(t, IF f = "unsubscribe" THEN "outer" ELSE "load")
  /\ UNCHANGED <<flags, subscriptions, lock, subscribed, batch>>

(* A child is given to one scope, once, by the one that made it.           *)
Add(t, c) == c \notin given /\ given' = given \cup {c} /\ Enter(t, "add", c)
Remove(t, c) == c \in given /\ Enter(t, "remove", c) /\ UNCHANGED given
Clear(t) == Enter(t, "clear", Nobody) /\ UNCHANGED given
Unsubscribe(t) == Enter(t, "unsubscribe", Nobody) /\ UNCHANGED given

(* A child is unsubscribed by its owner.                                   *)
Cancel(t, c) ==
  /\ Called(t)
  /\ Sweeps(t, {c})
  /\ UNCHANGED <<flags, subscriptions, lock, subscribed, frame, given>>

-----------------------------------------------------------------------------
(* The scope is closed: add() unsubscribes its child, the others return.   *)
Refused_Silently(t) == Returns(t) /\ UNCHANGED batch                \* mutant
Refused(t) ==
  \/ call[t] = "add" /\ Sweeps(t, {arg[t]})
  \/ call[t] # "add" /\ Returns(t) /\ UNCHANGED batch

(* The first look at issubscribed, without the lock.                       *)
Load(t) ==
  /\ pc[t] = "load"
  /\ IF issubscribed
     THEN Goes(t, IF call[t] = "add" THEN "child" ELSE "lock") /\ UNCHANGED batch
     ELSE Refused(t)
  /\ UNCHANGED <<flags, subscriptions, lock, subscribed, frame, log>>

(* add() asks its child too, and forgets one that has ended.               *)
Child(t) ==
  /\ pc[t] = "child"
  /\ IF arg[t] \in subscribed THEN Goes(t, "lock") ELSE Returns(t)
  /\ UNCHANGED <<flags, subscriptions, lock, subscribed, frame, batch, log>>

(* unsubscribe() exchanges two flags: subscription_state's, then its own.  *)
Outer(t) ==
  /\ pc[t] = "outer"
  /\ outer' = FALSE
  /\ IF outer THEN Goes(t, "inner") ELSE Returns(t)
  /\ UNCHANGED <<issubscribed, subscriptions, lock, subscribed, frame, batch, log>>

Inner(t) ==
  /\ pc[t] = "inner"
  /\ issubscribed' = FALSE
  /\ IF issubscribed THEN Goes(t, "lock") ELSE Returns(t)
  /\ UNCHANGED <<outer, subscriptions, lock, subscribed, frame, batch, log>>

LooksAgain_Never(t) == FALSE           \* mutant: issubscribed is not loaded again
LooksAgain(t) == call[t] # "unsubscribe"

Lock(t) ==
  /\ pc[t] = "lock" /\ lock = Nobody
  /\ lock' = t
  /\ Goes(t, IF LooksAgain(t) THEN "check" ELSE "change")
  /\ UNCHANGED <<flags, subscriptions, subscribed, frame, batch, log>>

(* The second look, with the lock.  The lock is released before add()      *)
(* unsubscribes its child.                                                 *)
Check(t) ==
  /\ pc[t] = "check"
  /\ \/ issubscribed /\ Goes(t, "change") /\ UNCHANGED <<lock, batch>>
     \/ ~issubscribed /\ lock' = Nobody /\ Refused(t)
  /\ UNCHANGED <<flags, subscriptions, subscribed, frame, log>>

(* The set is changed, and the lock released.                              *)
Released_AfterLoop(t) ==                                             \* mutant
  IF call[t] \in {"clear", "unsubscribe"} THEN t ELSE Nobody
Released(t) == Nobody

Change(t) ==
  /\ pc[t] = "change"
  /\ lock' = Released(t)
  /\ \/ /\ call[t] = "add"
        /\ subscriptions' = subscriptions \cup {arg[t]}
        /\ Returns(t) /\ UNCHANGED batch
     \/ /\ call[t] = "remove"
        /\ subscriptions' = subscriptions \ {arg[t]}
        /\ Returns(t) /\ UNCHANGED batch
     \/ /\ call[t] \in {"clear", "unsubscribe"}
        /\ subscriptions' = {}
        /\ Sweeps(t, subscriptions)
  /\ UNCHANGED <<flags, subscribed, frame, log>>

(* The next child is unsubscribed, in an order no one relies on.  The one  *)
(* that exchanges its flag runs its callback, which may call remove().     *)
Sweep(t, c) ==
  /\ pc[t] = "sweep" /\ c \in batch[t]
  /\ batch' = [batch EXCEPT ![t] = @ \ {c}]
  /\ subscribed' = subscribed \ {c}
  /\ \/ /\ c \in subscribed \cap SelfRemoving
        /\ call' = [call EXCEPT ![t] = "remove"]
        /\ arg' = [arg EXCEPT ![t] = c]
        /\ Goes(t, "load")
     \/ /\ c \notin subscribed \cap SelfRemoving
        /\ UNCHANGED <<frame, pc>>
  /\ UNCHANGED <<flags, subscriptions, lock, log>>

Swept(t) ==
  /\ pc[t] = "sweep" /\ batch[t] = {}
  /\ Goes(t, "idle")
  /\ UNCHANGED <<flags, subscriptions, lock, subscribed, frame, batch, log>>

Run(t) ==
  \/ Load(t) \/ Child(t) \/ Outer(t) \/ Inner(t) \/ Lock(t) \/ Check(t) \/ Change(t)
  \/ \E c \in Children : Sweep(t, c)
  \/ Swept(t)

Next ==
  \E t \in Threads :
    \/ \E c \in Children : Add(t, c) \/ Remove(t, c) \/ Cancel(t, c)
    \/ Clear(t) \/ Unsubscribe(t)
    \/ Run(t)

Spec == Init /\ [][Next]_vars

(* A thread in a call runs on.  Whoever holds the mutex releases it, and   *)
(* the calls are finitely many, so weak fairness is enough to get it.      *)
FairSpec == Spec /\ \A t \in Threads : WF_vars(Run(t))

-----------------------------------------------------------------------------
(* The thread that closed the scope has yet to take the children.          *)
Closing == \E t \in Threads : call[t] = "unsubscribe" /\ pc[t] \in {"lock", "change"}

(* No child is left in a scope that has been closed, with nobody to        *)
(* unsubscribe it: neither one added while the flag was being cleared, nor *)
(* one whose add() read the flag, with or without the lock, before that.   *)
NoOrphan == ~issubscribed /\ subscriptions # {} => Closing

(* "Never call subscription::unsubscribe with lock held"                   *)
(* (rx-subscription.hpp:253): a thread on its way to unsubscribe a child,  *)
(* or in a call made by the end of one, holds no lock it would wait for.   *)
NoCallUnderLock ==
  \A t \in Threads : lock = t => pc[t] \in {"check", "change"}

(* The code keeps the promise of Scope, with the effect of a call at one   *)
(* moment: closing when the inner flag is exchanged, though the children   *)
(* are taken later; removing when the flag is read under the lock; adding, *)
(* when the child is inserted, or handed back.  Every child that is doomed *)
(* is unsubscribed, and every add() ends.                                  *)
Before == {"load", "child", "lock", "check", "change"}
Adding(t) == call[t] = "add" /\ pc[t] \in Before
Erasing(t) == call[t] = "remove" /\ pc[t] = "change"

Unsettled == {c \in Children : \E t \in Threads : Adding(t) /\ arg[t] = c}
Kept == {c \in subscriptions : \A t \in Threads : Erasing(t) => arg[t] # c}
Unswept == {c \in Children : \E t \in Threads : c \in batch[t]}

Promise ==
  INSTANCE Scope WITH
    Subscriptions <- Children,
    open    <- issubscribed,
    adding  <- Unsettled,
    members <- IF issubscribed THEN Kept ELSE {},
    doomed  <- (IF issubscribed THEN Unswept ELSE Unswept \cup Kept) \cap subscribed,
    torn    <- Children \ subscribed
ImplementsScope == Promise!Spec
================================================================================

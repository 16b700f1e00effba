---------------------- MODULE CompositeSubscriptionProofs ----------------------
(***************************************************************************)
(* Theorems about CompositeSubscription, for any threads, children and     *)
(* number of calls.                                                        *)
(***************************************************************************)
EXTENDS CompositeSubscription, TLAPS

Stages == {"idle", "outer", "inner", "sweep"} \cup Before

TypeOK ==
  /\ outer \in BOOLEAN /\ issubscribed \in BOOLEAN
  /\ subscriptions \in SUBSET Children /\ subscribed \in SUBSET Children
  /\ lock \in Threads \cup {Nobody}
  /\ pc \in [Threads -> Stages]
  /\ call \in [Threads -> {"none", "add", "remove", "clear", "unsubscribe"}]
  /\ arg \in [Threads -> Children \cup {Nobody}]
  /\ batch \in [Threads -> SUBSET Children]
  /\ given \in SUBSET Children
  /\ calls \in Nat

(* The mutex is held exactly around the second look and the change.        *)
Mutex == \A t \in Threads : lock = t <=> pc[t] \in {"check", "change"}

(* What a stage says of the call: its child, whether it is made from a     *)
(* loop, and that unsubscribe() waits for the lock with the flag cleared.  *)
Frames ==
  \A t \in Threads :
    /\ pc[t] \in Before => call[t] # "none"
    /\ pc[t] \in Before /\ call[t] \in {"add", "remove"} => arg[t] \in Children
    /\ pc[t] = "child" => call[t] = "add"
    /\ pc[t] \in Before /\ call[t] # "remove" => batch[t] = {}
    /\ pc[t] \in {"idle", "outer", "inner"} => batch[t] = {}
    /\ pc[t] \in {"outer", "inner"} => call[t] = "unsubscribe"
    /\ call[t] = "unsubscribe" => pc[t] # "check" /\ pc[t] # "load"
    /\ call[t] = "unsubscribe" /\ pc[t] \in {"lock", "change"} => ~issubscribed

(* No two calls are adding the same child.                                 *)
AddedOnce ==
  \A t \in Threads : Adding(t) =>
    /\ arg[t] \in given
    /\ \A u \in Threads : Adding(u) /\ arg[u] = arg[t] => u = t

(* Once the children of a closed scope have been taken, none is left, and  *)
(* no add() is past its second look.                                       *)
TakenForGood ==
  ~issubscribed /\ ~Closing =>
    /\ subscriptions = {}
    /\ \A t \in Threads : ~(call[t] = "add" /\ pc[t] = "change")

IInv == TypeOK /\ Mutex /\ Frames /\ AddedOnce /\ TakenForGood

-----------------------------------------------------------------------------
LEMMA InitIInv == Init => IInv
  BY CompositeAssumption
  DEF Init, IInv, TypeOK, Mutex, Frames, Adding, AddedOnce, TakenForGood, Stages, Before

LEMMA StepTypeOK == IInv /\ [Next]_vars => TypeOK'
<1> SUFFICES ASSUME IInv, [Next]_vars PROVE TypeOK'
  OBVIOUS
<1> USE CompositeAssumption DEF IInv, TypeOK, Stages, Before, flags, frame, log
<1>1. CASE UNCHANGED vars
  BY <1>1 DEF vars
<1>2. ASSUME NEW t \in Threads, NEW c \in Children, Add(t, c) \/ Remove(t, c) PROVE TypeOK'
  BY <1>2 DEF Add, Remove, Enter, Called, Goes
<1>3. ASSUME NEW t \in Threads, Clear(t) \/ Unsubscribe(t) PROVE TypeOK'
  BY <1>3 DEF Clear, Unsubscribe, Enter, Called, Goes
<1>4. ASSUME NEW t \in Threads, NEW c \in Children, Cancel(t, c) PROVE TypeOK'
  BY <1>4 DEF Cancel, Called, Sweeps, Goes
<1>5. ASSUME NEW t \in Threads, Load(t) \/ Check(t) PROVE TypeOK'
  BY <1>5 DEF Load, Check, Refused, Frames, Returns, Sweeps, Goes
<1>6. ASSUME NEW t \in Threads, Child(t) \/ Outer(t) \/ Inner(t) \/ Lock(t) \/ Swept(t)
      PROVE  TypeOK'
  BY <1>6 DEF Child, Outer, Inner, Lock, Swept, Returns, Goes
<1>7. ASSUME NEW t \in Threads, Change(t) PROVE TypeOK'
  BY <1>7 DEF Change, Released, Frames, Returns, Sweeps, Goes
<1>8. ASSUME NEW t \in Threads, NEW c \in Children, Sweep(t, c) PROVE TypeOK'
  BY <1>8 DEF Sweep, Goes
<1> QED BY <1>1, <1>2, <1>3, <1>4, <1>5, <1>6, <1>7, <1>8 DEF Next, Run

LEMMA StepMutex == IInv /\ [Next]_vars => Mutex'
<1> SUFFICES ASSUME IInv, [Next]_vars PROVE Mutex'
  OBVIOUS
<1> USE CompositeAssumption DEF IInv, TypeOK, Mutex, Stages, Before, flags, frame, log, Goes
<1>1. CASE UNCHANGED vars
  BY <1>1 DEF vars
<1>2. ASSUME NEW t \in Threads, NEW c \in Children, Add(t, c) \/ Remove(t, c) PROVE Mutex'
  BY <1>2 DEF Add, Remove, Enter, Called
<1>3. ASSUME NEW t \in Threads, Clear(t) \/ Unsubscribe(t) PROVE Mutex'
  BY <1>3 DEF Clear, Unsubscribe, Enter, Called
<1>4. ASSUME NEW t \in Threads, NEW c \in Children, Cancel(t, c) PROVE Mutex'
  BY <1>4 DEF Cancel, Called, Sweeps
<1>5. ASSUME NEW t \in Threads, Load(t) \/ Check(t) PROVE Mutex'
  BY <1>5 DEF Load, Check, Refused, Returns, Sweeps
<1>6. ASSUME NEW t \in Threads, Child(t) \/ Outer(t) \/ Inner(t) \/ Lock(t) \/ Swept(t)
      PROVE  Mutex'
  BY <1>6 DEF Child, Outer, Inner, Lock, Swept, Returns
<1>7. ASSUME NEW t \in Threads, Change(t) PROVE Mutex'
  BY <1>7 DEF Change, Released, Returns, Sweeps
<1>8. ASSUME NEW t \in Threads, NEW c \in Children, Sweep(t, c) PROVE Mutex'
  BY <1>8 DEF Sweep
<1> QED BY <1>1, <1>2, <1>3, <1>4, <1>5, <1>6, <1>7, <1>8 DEF Next, Run

LEMMA StepFrames == IInv /\ [Next]_vars => Frames'
<1> SUFFICES ASSUME IInv, [Next]_vars PROVE Frames'
  OBVIOUS
<1> USE CompositeAssumption DEF IInv, TypeOK, Frames, Stages, Before, flags, frame, log, Goes
<1>1. CASE UNCHANGED vars
  BY <1>1 DEF vars
<1>2. ASSUME NEW t \in Threads, NEW c \in Children, Add(t, c) \/ Remove(t, c) PROVE Frames'
  BY <1>2 DEF Add, Remove, Enter, Called
<1>3. ASSUME NEW t \in Threads, Clear(t) \/ Unsubscribe(t) PROVE Frames'
  BY <1>3 DEF Clear, Unsubscribe, Enter, Called
<1>4. ASSUME NEW t \in Threads, NEW c \in Children, Cancel(t, c) PROVE Frames'
  BY <1>4 DEF Cancel, Called, Sweeps
<1>5. ASSUME NEW t \in Threads, Load(t) \/ Check(t) PROVE Frames'
  BY <1>5 DEF Load, Check, Refused, Returns, Sweeps
<1>6. ASSUME NEW t \in Threads, Child(t) \/ Outer(t) \/ Inner(t) \/ Lock(t) \/ Swept(t)
      PROVE  Frames'
  BY <1>6 DEF Child, Outer, Inner, Lock, LooksAgain, Swept, Returns
<1>7. ASSUME NEW t \in Threads, Change(t) PROVE Frames'
  BY <1>7 DEF Change, Released, Returns, Sweeps
<1>8. ASSUME NEW t \in Threads, NEW c \in Children, Sweep(t, c) PROVE Frames'
  BY <1>8 DEF Sweep
<1> QED BY <1>1, <1>2, <1>3, <1>4, <1>5, <1>6, <1>7, <1>8 DEF Next, Run

LEMMA StepAddedOnce == IInv /\ [Next]_vars => AddedOnce'
<1> SUFFICES ASSUME IInv, [Next]_vars PROVE AddedOnce'
  OBVIOUS
<1> USE CompositeAssumption
    DEF IInv, TypeOK, Frames, AddedOnce, Adding, Stages, Before, flags, frame, log, Goes
<1>1. CASE UNCHANGED vars
  BY <1>1 DEF vars
<1>2. ASSUME NEW t \in Threads, NEW c \in Children, Add(t, c) \/ Remove(t, c) PROVE AddedOnce'
  BY <1>2 DEF Add, Remove, Enter, Called
<1>3. ASSUME NEW t \in Threads, Clear(t) \/ Unsubscribe(t) PROVE AddedOnce'
  BY <1>3 DEF Clear, Unsubscribe, Enter, Called
<1>4. ASSUME NEW t \in Threads, NEW c \in Children, Cancel(t, c) PROVE AddedOnce'
  BY <1>4 DEF Cancel, Called, Sweeps
<1>5. ASSUME NEW t \in Threads, Load(t) \/ Check(t) PROVE AddedOnce'
  BY <1>5 DEF Load, Check, Refused, Returns, Sweeps
<1>6. ASSUME NEW t \in Threads, Child(t) \/ Outer(t) \/ Inner(t) \/ Lock(t) \/ Swept(t)
      PROVE  AddedOnce'
  BY <1>6 DEF Child, Outer, Inner, Lock, LooksAgain, Swept, Returns
<1>7. ASSUME NEW t \in Threads, Change(t) PROVE AddedOnce'
  BY <1>7 DEF Change, Released, Returns, Sweeps
<1>8. ASSUME NEW t \in Threads, NEW c \in Children, Sweep(t, c) PROVE AddedOnce'
  BY <1>8 DEF Sweep
<1> QED BY <1>1, <1>2, <1>3, <1>4, <1>5, <1>6, <1>7, <1>8 DEF Next, Run

LEMMA StepTakenForGood == IInv /\ [Next]_vars => TakenForGood'
<1> SUFFICES ASSUME IInv, [Next]_vars PROVE TakenForGood'
  OBVIOUS
<1> USE CompositeAssumption
    DEF IInv, TypeOK, Mutex, Frames, TakenForGood, Closing, Stages, Before, flags, frame, log,
        Goes
<1>1. CASE UNCHANGED vars
  BY <1>1 DEF vars
<1>2. ASSUME NEW t \in Threads, NEW c \in Children, Add(t, c) \/ Remove(t, c)
      PROVE  TakenForGood'
  BY <1>2 DEF Add, Remove, Enter, Called
<1>3. ASSUME NEW t \in Threads, Clear(t) \/ Unsubscribe(t) PROVE TakenForGood'
  BY <1>3 DEF Clear, Unsubscribe, Enter, Called
<1>4. ASSUME NEW t \in Threads, NEW c \in Children, Cancel(t, c) PROVE TakenForGood'
  BY <1>4 DEF Cancel, Called, Sweeps
<1>5. ASSUME NEW t \in Threads, Load(t) \/ Check(t) PROVE TakenForGood'
  BY <1>5 DEF Load, Check, Refused, Returns, Sweeps
<1>6. ASSUME NEW t \in Threads, Child(t) \/ Outer(t) \/ Lock(t) \/ Swept(t)
      PROVE  TakenForGood'
  BY <1>6 DEF Child, Outer, Lock, LooksAgain, Swept, Returns
<1>7. ASSUME NEW t \in Threads, Inner(t) PROVE TakenForGood'
  BY <1>7 DEF Inner, Returns
<1>8. ASSUME NEW t \in Threads, Change(t) PROVE TakenForGood'
  BY <1>8 DEF Change, Released, Returns, Sweeps
<1>9. ASSUME NEW t \in Threads, NEW c \in Children, Sweep(t, c) PROVE TakenForGood'
  BY <1>9 DEF Sweep
<1> QED BY <1>1, <1>2, <1>3, <1>4, <1>5, <1>6, <1>7, <1>8, <1>9 DEF Next, Run

(* The inductive invariant: adding, closing and the lock together.         *)
THEOREM Invariance == Spec => []IInv
<1>1. IInv /\ [Next]_vars => IInv'
  BY StepTypeOK, StepMutex, StepFrames, StepAddedOnce, StepTakenForGood DEF IInv
<1> QED BY <1>1, InitIInv, PTL DEF Spec

(* No child is ever stranded in a closed scope.                            *)
THEOREM NothingStranded == Spec => []NoOrphan
<1>1. IInv => NoOrphan
  BY DEF IInv, TakenForGood, NoOrphan
<1> QED BY <1>1, Invariance, PTL

(* No child is unsubscribed by a thread that holds the lock.               *)
THEOREM CallsWithoutLock == Spec => []NoCallUnderLock
<1>1. IInv => NoCallUnderLock
  BY DEF IInv, Mutex, NoCallUnderLock
<1> QED BY <1>1, Invariance, PTL

-----------------------------------------------------------------------------
(* The steps of the code are steps of Scope, or steps it does not see.     *)
Members == IF issubscribed THEN Kept ELSE {}
Doomed == (IF issubscribed THEN Unswept ELSE Unswept \cup Kept) \cap subscribed
promised == <<issubscribed, Unsettled, Members, Doomed, Children \ subscribed>>

(* What Scope sees depends on who adds, who erases, and what waits.        *)
LEMMA SameSets ==
  /\ /\ \A u \in Threads : Adding(u)' <=> Adding(u)
     /\ \A u \in Threads : Adding(u) => arg'[u] = arg[u]
     => Unsettled' = Unsettled
  /\ /\ subscriptions' = subscriptions
     /\ \A u \in Threads : Erasing(u)' <=> Erasing(u)
     /\ \A u \in Threads : Erasing(u) => arg'[u] = arg[u]
     => Kept' = Kept
  /\ batch' = batch => Unswept' = Unswept
<1>1. ASSUME \A u \in Threads : Adding(u)' <=> Adding(u),
             \A u \in Threads : Adding(u) => arg'[u] = arg[u]
      PROVE  Unsettled' = Unsettled
  BY <1>1 DEF Unsettled
<1>2. ASSUME subscriptions' = subscriptions,
             \A u \in Threads : Erasing(u)' <=> Erasing(u),
             \A u \in Threads : Erasing(u) => arg'[u] = arg[u]
      PROVE  Kept' = Kept
  BY <1>2 DEF Kept
<1>3. batch' = batch => Unswept' = Unswept
  BY DEF Unswept
<1> QED BY <1>1, <1>2, <1>3

LEMMA HiddenSteps ==
  ASSUME IInv, NEW t \in Threads,
         \/ Child(t) /\ arg[t] \in subscribed
         \/ Outer(t) \/ Lock(t) \/ Swept(t) \/ Clear(t) \/ Unsubscribe(t)
         \/ \E c \in Children : Remove(t, c)
  PROVE  UNCHANGED promised
<1>1. UNCHANGED <<issubscribed, subscriptions, subscribed, batch>>
  BY DEF flags, Child, Outer, Lock, Swept, Clear, Unsubscribe, Remove, Enter
<1>2. /\ \A u \in Threads : Adding(u)' <=> Adding(u)
      /\ \A u \in Threads : Erasing(u)' <=> Erasing(u)
      /\ \A u \in Threads : Adding(u) \/ Erasing(u) => arg'[u] = arg[u]
  BY CompositeAssumption
  DEF IInv, TypeOK, Mutex, Frames, Stages, Before, frame, Goes, Returns, Called, Enter, Child,
      Outer, Lock, LooksAgain, Swept, Clear, Unsubscribe, Remove, Adding, Erasing
<1> QED BY <1>1, <1>2, SameSets DEF promised, Members, Doomed

(* When a call leaves off adding, its child is no longer unsettled.        *)
LEMMA Settles ==
  ASSUME IInv, NEW t \in Threads, Adding(t), ~Adding(t)',
         \A u \in Threads \ {t} : (Adding(u)' <=> Adding(u)) /\ arg'[u] = arg[u]
  PROVE  arg[t] \in Unsettled /\ Unsettled' = Unsettled \ {arg[t]}
<1>1. arg[t] \in Children
  BY DEF IInv, Frames, Adding
<1>2. \A u \in Threads : Adding(u) /\ arg[u] = arg[t] => u = t
  BY DEF IInv, AddedOnce
<1>3. ASSUME NEW c PROVE c \in Unsettled' <=> c \in Unsettled \ {arg[t]}
  BY <1>1, <1>2 DEF Unsettled
<1> QED BY <1>1, <1>3 DEF Unsettled

LEMMA AddSteps ==
  ASSUME IInv, NEW t \in Threads, NEW c \in Children, Add(t, c)
  PROVE  Promise!CallAdd(c)
<1>1. UNCHANGED <<issubscribed, subscriptions, subscribed, batch>>
  BY DEF flags, Add, Enter
<1>2. /\ \A u \in Threads : Adding(u)' <=> Adding(u) \/ u = t
      /\ \A u \in Threads : Erasing(u)' <=> Erasing(u)
      /\ \A u \in Threads : Adding(u) \/ Erasing(u) => arg'[u] = arg[u]
      /\ ~Adding(t) /\ arg'[t] = c
  BY DEF IInv, TypeOK, Stages, Before, Goes, Called, Enter, Add, Adding, Erasing
<1>3. Unsettled' = Unsettled \cup {c}
  BY <1>2 DEF Unsettled
<1> QED BY <1>1, <1>2, <1>3, SameSets DEF Promise!CallAdd

LEMMA CancelSteps ==
  ASSUME IInv, NEW t \in Threads, NEW c \in Children, Cancel(t, c)
  PROVE  Promise!Doom(c)
<1>1. UNCHANGED <<issubscribed, subscriptions, subscribed, arg>>
  BY DEF flags, frame, Cancel
<1>2. /\ \A u \in Threads : Adding(u)' <=> Adding(u)
      /\ \A u \in Threads : Erasing(u)' <=> Erasing(u)
  BY DEF IInv, TypeOK, Stages, Before, frame, Goes, Called, Sweeps, Cancel, Adding, Erasing
<1>3. Unswept' = Unswept \cup {c}
  <2>1. batch[t] = {} /\ batch' = [batch EXCEPT ![t] = {c}]
    BY DEF IInv, Frames, Cancel, Called, Sweeps
  <2> QED BY <2>1 DEF IInv, TypeOK, Unswept
<1> QED BY <1>1, <1>2, <1>3, SameSets DEF Promise!Doom

LEMMA ChildSteps ==
  ASSUME IInv, NEW t \in Threads, Child(t), arg[t] \notin subscribed
  PROVE  Promise!Add(arg[t]) /\ arg[t] \in Children
<1>1. UNCHANGED <<issubscribed, subscriptions, subscribed, batch, arg>>
  BY DEF flags, frame, Child
<1>2. /\ Adding(t) /\ ~Adding(t)'
      /\ \A u \in Threads \ {t} : Adding(u)' <=> Adding(u)
      /\ \A u \in Threads : Erasing(u)' <=> Erasing(u)
  BY DEF IInv, TypeOK, Frames, Stages, Before, frame, Goes, Returns, Child, Adding, Erasing
<1>3. arg[t] \in Children
  BY <1>2 DEF IInv, Frames, Adding
<1> QED BY <1>1, <1>2, <1>3, SameSets, Settles DEF Promise!Add

(* A closed scope hands the child back, or returns from another call.      *)
LEMMA RefusedSteps ==
  ASSUME IInv, NEW t \in Threads, ~issubscribed, Load(t) \/ Check(t)
  PROVE  UNCHANGED promised \/ (Promise!Add(arg[t]) /\ arg[t] \in Children)
<1>1. UNCHANGED <<issubscribed, subscriptions, subscribed, arg, call>> /\ Refused(t)
  BY DEF flags, frame, Load, Check
<1>2. CASE call[t] = "add"
  <2>1. /\ Adding(t) /\ ~Adding(t)'
        /\ \A u \in Threads \ {t} : Adding(u)' <=> Adding(u)
        /\ \A u \in Threads : Erasing(u)' <=> Erasing(u)
    BY <1>1, <1>2
    DEF IInv, TypeOK, Stages, Before, Goes, Sweeps, Refused, Load, Check, Adding, Erasing
  <2>2. arg[t] \in Children
    BY <2>1 DEF IInv, Frames, Adding
  <2>3. Unswept' = Unswept \cup {arg[t]}
    <3>1. batch[t] = {} /\ batch' = [batch EXCEPT ![t] = {arg[t]}]
      BY <1>1, <1>2 DEF IInv, Frames, Refused, Sweeps, Load, Check, Before
    <3> QED BY <3>1, <2>2 DEF IInv, TypeOK, Unswept
  <2> QED BY <1>1, <2>1, <2>2, <2>3, SameSets, Settles DEF Promise!Add
<1>3. CASE call[t] # "add"
  <2>1. /\ batch' = batch
        /\ \A u \in Threads : Adding(u)' <=> Adding(u)
        /\ \A u \in Threads : Erasing(u)' <=> Erasing(u)
    BY <1>1, <1>3
    DEF IInv, TypeOK, Stages, Before, Goes, Returns, Refused, Load, Check, Adding, Erasing
  <2> QED BY <1>1, <2>1, SameSets DEF promised, Members, Doomed
<1> QED BY <1>2, <1>3

(* An open scope goes on; remove() takes effect at the second look.        *)
LEMMA AllowedSteps ==
  ASSUME IInv, NEW t \in Threads, issubscribed, Load(t) \/ Check(t)
  PROVE  UNCHANGED promised \/ (Promise!Remove(arg[t]) /\ arg[t] \in Children)
<1>1. UNCHANGED <<issubscribed, subscriptions, subscribed, arg, call, batch>>
  BY DEF flags, frame, Load, Check
<1>2. \A u \in Threads : Adding(u)' <=> Adding(u)
  BY <1>1 DEF IInv, TypeOK, Stages, Before, Goes, Load, Check, Adding
<1>3. CASE Check(t) /\ call[t] = "remove"
  <2>1. arg[t] \in Children
    BY <1>3 DEF IInv, Frames, Check, Before
  <2>2. \A u \in Threads : Erasing(u)' <=> Erasing(u) \/ u = t
    BY <1>1, <1>3 DEF IInv, TypeOK, Stages, Before, Goes, Check, Erasing
  <2>3. Kept' = Kept \ {arg[t]}
    BY <1>1, <2>2 DEF Kept
  <2> QED BY <1>1, <1>2, <2>1, <2>3, SameSets DEF Promise!Remove
<1>4. CASE Load(t) \/ call[t] # "remove"
  <2>1. \A u \in Threads : Erasing(u)' <=> Erasing(u)
    BY <1>1, <1>4 DEF IInv, TypeOK, Stages, Before, Goes, Load, Check, Erasing
  <2> QED BY <1>1, <1>2, <2>1, SameSets DEF promised, Members, Doomed
<1> QED BY <1>3, <1>4

LEMMA InnerSteps ==
  ASSUME IInv, NEW t \in Threads, Inner(t)
  PROVE  UNCHANGED promised \/ Promise!Close
<1>1. UNCHANGED <<subscriptions, subscribed, arg, call, batch>> /\ issubscribed' = FALSE
  BY DEF frame, Inner
<1>2. call[t] = "unsubscribe"
  BY DEF IInv, Frames, Inner
<1>3. /\ \A u \in Threads : Adding(u)' <=> Adding(u)
      /\ \A u \in Threads : Erasing(u)' <=> Erasing(u)
  BY <1>1, <1>2 DEF IInv, TypeOK, Stages, Before, Goes, Returns, Inner, Adding, Erasing
<1>4. Kept \subseteq Children /\ subscribed \subseteq Children
  BY DEF IInv, TypeOK, Kept
<1>5. CASE issubscribed
  BY <1>1, <1>3, <1>4, <1>5, SameSets DEF Promise!Close, Promise!Empty
<1>6. CASE ~issubscribed
  <2>1. issubscribed' = issubscribed
    BY <1>1, <1>6 DEF IInv, TypeOK
  <2> QED BY <1>1, <1>3, <2>1, SameSets DEF promised, Members, Doomed
<1> QED BY <1>5, <1>6

(* Only the thread that holds the lock changes the set.                    *)
LEMMA ChangeSteps ==
  ASSUME IInv, NEW t \in Threads, Change(t)
  PROVE  \/ UNCHANGED promised \/ Promise!Clear
         \/ Promise!Add(arg[t]) /\ arg[t] \in Children
<1>1. UNCHANGED <<issubscribed, subscribed, arg, call>>
  BY DEF flags, frame, Change
<1>2. \A u \in Threads \ {t} : ~Erasing(u)
  BY DEF IInv, Mutex, Change, Erasing
<1>3. /\ \A u \in Threads \ {t} : Adding(u)' <=> Adding(u)
      /\ \A u \in Threads : ~Erasing(u)'
      /\ ~Adding(t)'
  BY <1>1, <1>2
  DEF IInv, TypeOK, Stages, Before, Goes, Returns, Sweeps, Change, Adding, Erasing
<1>4. Kept' = subscriptions'
  BY <1>3 DEF Kept
<1>5. CASE call[t] = "add"
  <2>1. Adding(t) /\ ~Erasing(t) /\ arg[t] \in Children
    BY <1>5 DEF IInv, Frames, Change, Adding, Erasing, Before
  <2>2. subscriptions' = subscriptions \cup {arg[t]} /\ batch' = batch
    BY <1>5 DEF Change
  <2>3. Kept = subscriptions
    BY <1>2, <2>1 DEF Kept
  <2> QED BY <1>1, <1>3, <1>4, <2>1, <2>2, <2>3, SameSets, Settles DEF Promise!Add
<1>6. CASE call[t] = "remove"
  <2>1. ~Adding(t) /\ Erasing(t)
    BY <1>6 DEF Change, Adding, Erasing
  <2>2. subscriptions' = subscriptions \ {arg[t]} /\ batch' = batch
    BY <1>6 DEF Change
  <2>3. Kept = subscriptions \ {arg[t]}
    BY <1>2, <2>1 DEF Kept
  <2> QED BY <1>1, <1>3, <1>4, <2>1, <2>2, <2>3, SameSets DEF promised, Members, Doomed
<1>7. CASE call[t] \in {"clear", "unsubscribe"}
  <2>1. ~Adding(t) /\ ~Erasing(t)
    BY <1>7 DEF Adding, Erasing
  <2>2. subscriptions' = {} /\ batch' = [batch EXCEPT ![t] = subscriptions]
    BY <1>7 DEF Change, Sweeps
  <2>3. Kept = subscriptions
    BY <1>2, <2>1 DEF Kept
  <2>4. batch[t] = {}
    BY <1>7 DEF IInv, Frames, Change, Before
  <2>5. Unswept' = Unswept \cup subscriptions
    BY <2>2, <2>4 DEF IInv, TypeOK, Unswept
  <2>6. Unsettled' = Unsettled
    BY <1>1, <1>3, <2>1, SameSets
  <2>7. CASE issubscribed
    BY <1>1, <1>4, <2>2, <2>3, <2>5, <2>6, <2>7 DEF IInv, TypeOK, Promise!Clear, Promise!Empty
  <2>8. CASE ~issubscribed
    BY <1>1, <1>4, <2>2, <2>3, <2>5, <2>6, <2>8 DEF promised, Members, Doomed
  <2> QED BY <2>7, <2>8
<1> QED BY <1>5, <1>6, <1>7 DEF Change

LEMMA SweepSteps ==
  ASSUME IInv, NEW t \in Threads, NEW c \in Children, Sweep(t, c)
  PROVE  UNCHANGED promised \/ Promise!Tear(c)
<1>1. UNCHANGED <<issubscribed, subscriptions>> /\ subscribed' = subscribed \ {c}
  BY DEF flags, Sweep
<1>2. /\ \A u \in Threads : Adding(u)' <=> Adding(u)
      /\ \A u \in Threads : Erasing(u)' <=> Erasing(u)
      /\ \A u \in Threads : Adding(u) \/ Erasing(u) => arg'[u] = arg[u]
  BY DEF IInv, TypeOK, Stages, Before, frame, Goes, Sweep, Adding, Erasing
<1>3. Kept' = Kept /\ Unsettled' = Unsettled
  BY <1>1, <1>2, SameSets
<1>4. c \in Unswept
  BY DEF Sweep, Unswept
<1>5. Unswept' \cap subscribed' = (Unswept \cap subscribed) \ {c}
  <2>1. batch' = [batch EXCEPT ![t] = batch[t] \ {c}]
    BY DEF Sweep
  <2>2. ASSUME NEW x, x # c PROVE x \in Unswept' <=> x \in Unswept
    BY <2>1, <2>2 DEF IInv, TypeOK, Unswept
  <2> QED BY <1>1, <2>2
<1>6. CASE c \in subscribed
  BY <1>1, <1>3, <1>4, <1>5, <1>6 DEF Promise!Tear
<1>7. CASE c \notin subscribed
  BY <1>1, <1>3, <1>5, <1>7 DEF promised, Members, Doomed
<1> QED BY <1>6, <1>7

(* The code keeps the safety part of the promise: with every interleaving  *)
(* of its calls, each takes effect at one moment.                          *)
THEOREM Refinement == Spec => Promise!Safety
<1>1. Init => Promise!Init
  BY DEF Init, Promise!Init, Unsettled, Kept, Unswept, Adding, Before
<1>2. IInv /\ [Next]_vars => [Promise!Next]_(Promise!vars)
  <2> SUFFICES ASSUME IInv, [Next]_vars
               PROVE  Promise!Next \/ UNCHANGED promised
    BY DEF Promise!vars, promised, Members, Doomed
  <2>1. CASE UNCHANGED vars
    <3>1. UNCHANGED <<issubscribed, subscriptions, subscribed, batch, arg>>
      BY <2>1 DEF vars, flags, frame
    <3>2. \A u \in Threads : (Adding(u)' <=> Adding(u)) /\ (Erasing(u)' <=> Erasing(u))
      BY <2>1 DEF vars, frame, Adding, Erasing
    <3> QED BY <3>1, <3>2, SameSets DEF promised, Members, Doomed
  <2>2. ASSUME NEW t \in Threads, NEW c \in Children, Add(t, c) \/ Remove(t, c) \/ Cancel(t, c)
        PROVE  Promise!Next \/ UNCHANGED promised
    BY <2>2, AddSteps, CancelSteps, HiddenSteps DEF Promise!Next
  <2>3. ASSUME NEW t \in Threads, Clear(t) \/ Unsubscribe(t) \/ Outer(t) \/ Lock(t) \/ Swept(t)
        PROVE  Promise!Next \/ UNCHANGED promised
    BY <2>3, HiddenSteps
  <2>4. ASSUME NEW t \in Threads, Child(t)
        PROVE  Promise!Next \/ UNCHANGED promised
    BY <2>4, HiddenSteps, ChildSteps DEF Promise!Next
  <2>5. ASSUME NEW t \in Threads, Load(t) \/ Check(t)
        PROVE  Promise!Next \/ UNCHANGED promised
    BY <2>5, RefusedSteps, AllowedSteps DEF Promise!Next
  <2>6. ASSUME NEW t \in Threads, Inner(t) \/ Change(t)
        PROVE  Promise!Next \/ UNCHANGED promised
    BY <2>6, InnerSteps, ChangeSteps DEF Promise!Next
  <2>7. ASSUME NEW t \in Threads, NEW c \in Children, Sweep(t, c)
        PROVE  Promise!Next \/ UNCHANGED promised
    BY <2>7, SweepSteps DEF Promise!Next
  <2> QED BY <2>1, <2>2, <2>3, <2>4, <2>5, <2>6, <2>7 DEF Next, Run
<1> QED BY <1>1, <1>2, Invariance, PTL DEF Spec, Promise!Safety
================================================================================

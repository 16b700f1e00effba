-------------------------------- MODULE EventLog --------------------------------
(***************************************************************************)
(* What a journal promises: one log of whole events that only grows, and   *)
(* readers that each walk it from its beginning, at their own pace,        *)
(* skipping and repeating nothing.  A reader may start over.               *)
(***************************************************************************)
EXTENDS Naturals, Sequences

CONSTANTS Event, Readers

VARIABLES log,   \* the events published so far
          seen   \* what each reader has been handed since it joined

vars == <<log, seen>>

Init ==
  /\ log = << >>
  /\ seen = [r \in Readers |-> << >>]

Publish ==
  /\ \E e \in Event : log' = Append(log, e)
  /\ UNCHANGED seen

Read(r) ==
  /\ Len(seen[r]) < Len(log)
  /\ seen' = [seen EXCEPT ![r] = Append(@, log[Len(@) + 1])]
  /\ UNCHANGED log

Rejoin(r) ==
  /\ seen' = [seen EXCEPT ![r] = << >>]
  /\ UNCHANGED log

Next == Publish \/ \E r \in Readers : Read(r) \/ Rejoin(r)

Spec == Init /\ [][Next]_vars
=================================================================================

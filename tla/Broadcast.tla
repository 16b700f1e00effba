------------------------------- MODULE Broadcast -------------------------------
(***************************************************************************)
(* What the event stream of a process promises to the taps on it: an event *)
(* goes to every tap that was on the stream when the event was published   *)
(* and is still on it when its turn comes, in the order the taps joined;   *)
(* the next event is not published before that.                            *)
(***************************************************************************)
EXTENDS Sublists, SequencesExt

CONSTANTS Taps,     \* the taps
          Groups    \* sequences of taps that join together

VARIABLES members,  \* the taps on the stream, in the order they joined
          waiting,  \* those that have yet to see the last event
          count,    \* events published
          seen      \* the events each tap has seen

vars == <<members, waiting, count, seen>>

Without(s, gone) == Sublist(s, ToSet(s) \ gone)

Init ==
  /\ members = << >> /\ waiting = << >>
  /\ count = 0
  /\ seen = [t \in Taps |-> << >>]

Join ==
  /\ \E g \in Groups : /\ ToSet(g) \cap ToSet(members) = {}
                       /\ members' = members \o g
  /\ UNCHANGED <<waiting, count, seen>>

Publish ==
  /\ waiting = << >>
  /\ waiting' = members
  /\ count' = count + 1
  /\ UNCHANGED <<members, seen>>

Leave ==
  /\ \E gone \in SUBSET ToSet(members) : /\ members' = Without(members, gone)
                                         /\ waiting' = Without(waiting, gone)
  /\ UNCHANGED <<count, seen>>

(* The tap whose turn it is sees the event, and may leave by that.         *)
See ==
  /\ waiting # << >>
  /\ LET t == Head(waiting) IN
     /\ seen' = [seen EXCEPT ![t] = Append(@, count)]
     /\ \E gone \in SUBSET ToSet(members) :
          /\ members' = Without(members, gone)
          /\ waiting' = Without(Tail(waiting), gone)
  /\ UNCHANGED count

Next == Join \/ Publish \/ Leave \/ See
Spec == Init /\ [][Next]_vars
================================================================================

--------------------------- MODULE DropNewestQueue ---------------------------
(***************************************************************************)
(* What cache::ringqueue promises its two users, as one atomic step per    *)
(* call: a bounded FIFO that silently refuses the newest item when Limit   *)
(* items are waiting.  push() returns true either way.                     *)
(*                                                                         *)
(* Items are the numbers of the push() calls that carried them.  The queue *)
(* is an immutable log of the accepted items and the number already taken. *)
(***************************************************************************)
EXTENDS Naturals, Sequences

CONSTANT Limit      \* how many items may wait at once

VARIABLES decided,  \* push calls whose fate is settled
          log,      \* the items accepted so far, in order
          taken,    \* how many of them pop has handed out
          out       \* the item the last successful pop handed out

vars == <<decided, log, taken, out>>

Init ==
  /\ decided = 0
  /\ log = << >>
  /\ taken = 0
  /\ out = 0

Accept ==
  /\ Len(log) - taken < Limit
  /\ decided' = decided + 1
  /\ log' = Append(log, decided')
  /\ UNCHANGED <<taken, out>>

Refuse ==
  /\ Len(log) - taken = Limit
  /\ decided' = decided + 1
  /\ UNCHANGED <<log, taken, out>>

Take ==
  /\ taken < Len(log)
  /\ taken' = taken + 1
  /\ out' = log[taken']
  /\ UNCHANGED <<decided, log>>

Next == Accept \/ Refuse \/ Take

Spec == Init /\ [][Next]_vars
===============================================================================

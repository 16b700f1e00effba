------------------------------- MODULE Sublists -------------------------------
(***************************************************************************)
(* The copy a loop makes of a list, without the elements it passes over.   *)
(* SelectSeq says the same; a recursive function can be proved about.      *)
(***************************************************************************)
EXTENDS Naturals, Sequences

Sublist(s, S) ==
  LET kept[n \in 0 .. Len(s)] ==
        IF n = 0 THEN << >>
        ELSE IF s[n] \in S THEN Append(kept[n - 1], s[n]) ELSE kept[n - 1]
  IN kept[Len(s)]
================================================================================

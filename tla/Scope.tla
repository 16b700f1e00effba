--------------------------------- MODULE Scope ---------------------------------
(***************************************************************************)
(* What a scope of subscriptions promises.  A subscription given to an     *)
(* open scope becomes its member; given to a closed one it is doomed, that *)
(* is, going to be unsubscribed.  Clearing dooms the members, and closing, *)
(* which is for ever, does it once more.  What is doomed is torn down, and *)
(* every call comes to an end.                                             *)
(***************************************************************************)
CONSTANT Subscriptions

VARIABLES open,     \* the scope is open
          adding,   \* given to the scope by a call that has not taken effect
          members,  \* the subscriptions the scope will take with it
          doomed,   \* to be unsubscribed
          torn      \* unsubscribed

vars == <<open, adding, members, doomed, torn>>

Init == open = TRUE /\ adding = {} /\ members = {} /\ doomed = {} /\ torn = {}

CallAdd(s) == adding' = adding \cup {s} /\ UNCHANGED <<open, members, doomed, torn>>

Add(s) ==
  /\ s \in adding
  /\ adding' = adding \ {s}
  /\ \/ open  /\ members' = members \cup {s}          /\ UNCHANGED doomed
     \/ ~open /\ doomed' = doomed \cup ({s} \ torn)   /\ UNCHANGED members
     \/ s \in torn                                    /\ UNCHANGED <<members, doomed>>
  /\ UNCHANGED <<open, torn>>

Remove(s) == members' = members \ {s} /\ UNCHANGED <<open, adding, doomed, torn>>

Empty == members' = {} /\ doomed' = doomed \cup (members \ torn) /\ UNCHANGED <<adding, torn>>
Clear == open /\ Empty /\ UNCHANGED open
Close == open /\ Empty /\ open' = FALSE

(* Any subscription may be unsubscribed for another reason.                *)
Doom(s) == doomed' = doomed \cup ({s} \ torn) /\ UNCHANGED <<open, adding, members, torn>>

Tear(s) ==
  /\ s \in doomed
  /\ doomed' = doomed \ {s} /\ torn' = torn \cup {s}
  /\ UNCHANGED <<open, adding, members>>

Next ==
  \/ \E s \in Subscriptions : CallAdd(s) \/ Add(s) \/ Remove(s) \/ Doom(s) \/ Tear(s)
  \/ Clear \/ Close

Safety == Init /\ [][Next]_vars
Spec == Safety /\ \A s \in Subscriptions : WF_vars(Tear(s)) /\ WF_vars(Add(s))
================================================================================

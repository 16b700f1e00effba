------------------------------ MODULE EventStream ------------------------------
(***************************************************************************)
(* The event stream of a process: holdon() makes a source of events into a *)
(* connectable observable over a subject, and step() connects to it again  *)
(* and again (yijinjing/common.h).  Everything runs on one thread, but the *)
(* subject calls handlers that subscribe, unsubscribe and throw while it   *)
(* is going through its list of observers.                                 *)
(*                                                                         *)
(* Three shapes of subscription stand for those the code makes:            *)
(*   Each     events_ | is(...) | $(...)              one tap              *)
(*   First    events_ | filter(...) | first() | $     one tap, closed by   *)
(*            the event it was waiting for before the handler is called    *)
(*   Timeout  source.merge(events_ | filter(throws))  a tap for each half  *)
(* A tap is an observer in the subject's list.  The producer is not in the *)
(* repository: produce() reads events until it has none, and calls         *)
(* on_completed once live_ is false.  What becomes of the SIGINT that a    *)
(* failure raises is not in it either; here it makes live_ false.          *)
(***************************************************************************)
EXTENDS Sublists, SequencesExt

CONSTANTS Each, First, Timeout,   \* the subscriptions, by shape
          MaxEvents,              \* bound on the events read
          Nobody,                 \* whose callback runs when none does
          Expired                 \* what a weak pointer to no list locks to

ASSUME EventStreamAssumption ==
  /\ Each \cap First = {} /\ (Each \cup First) \cap Timeout = {}
  /\ MaxEvents \in Nat
  /\ Nobody \notin Each \cup First \cup Timeout

Subscribers == Each \cup First \cup Timeout
TapsOf(u) == IF u \in Timeout THEN << <<u, 1>>, <<u, 2>> >> ELSE << <<u, 1>> >>
Taps == UNION {ToSet(TapsOf(u)) : u \in Subscribers}
Owner(t) == t[1]

VARIABLES mode,       \* state_type::current
          completer,  \* completer->observers, in order
          cached,     \* what the weak current_completer locks to, or Expired
          open,       \* the taps whose lifetime is subscribed
          live,       \* the subscribers whose lifetime is subscribed
          cs,         \* step()'s subscription is subscribed
          connection, \* the connection of the steppable is set
          nested,     \* cs is in the lifetime of the subject
          hooks,      \* on_connect's callbacks in cs
          pc,         \* "idle", "produce", "dispatch" or "callback"
          turn,       \* the rest of the list the subject is going through
          running,    \* whose callback runs, or Nobody
          live_,      \* hero::live_
          count,      \* events read
          order,      \* history: the taps added, in order
          seen,       \* history: the events each tap was given
          ended       \* history: the end callbacks of each subscriber

subject == <<mode, completer, cached>>
lifetimes == <<open, live>>
link == <<cs, connection, nested, hooks>>
control == <<pc, turn, running>>
log == <<count, order, seen>>
vars == <<subject, lifetimes, link, control, live_, log, ended>>

Init ==
  /\ mode = "Casting"
  /\ completer = << >> /\ cached = Expired
  /\ open = {} /\ live = {}
  /\ cs = TRUE /\ connection = FALSE /\ nested = FALSE /\ hooks = 0
  /\ pc = "idle" /\ turn = << >> /\ running = Nobody
  /\ live_ = TRUE
  /\ count = 0
  /\ order = << >>
  /\ seen = [t \in Taps |-> << >>]
  /\ ended = [u \in Subscribers |-> << >>]

Used == {u \in Subscribers : <<u, 1>> \in ToSet(order) \/ ended[u] # << >>}

-----------------------------------------------------------------------------
(* The subject's list.  A list is never changed but replaced by a copy, of *)
(* the observers that are still subscribed.  Nothing but a dispatch that   *)
(* is under way keeps a replaced list alive.                               *)
Retained(list, subscribed) == Sublist(list, subscribed)

Install_Kept(list) ==                                   \* mutant: a strong pointer
  completer' = list /\ UNCHANGED cached
Install(list) ==
  /\ completer' = list
  /\ cached' = IF pc \in {"dispatch", "callback"} THEN cached ELSE Expired

(* When a lifetime ends the callback that add() left in it replaces the    *)
(* list.  Closing(ts) leaves ts' owners to the action.                     *)
Closing(ts) ==
  /\ open' = open \ ts
  /\ IF ts \cap open = {} THEN UNCHANGED <<completer, cached>>
                          ELSE Install(Retained(completer, open \ ts))

EndLifetime(u) == live' = live \ {u} /\ Closing(ToSet(TapsOf(u)))

(* The kind of end callback u gets: first() of a stream that ends has      *)
(* nothing to answer, and throws empty_error.                              *)
Outcome(u) == IF mode = "Errored" \/ u \in First THEN "error" ELSE "completed"

(* The error callback of $ is interrupt_on_error, which raises SIGINT.     *)
Calls(u, what) ==
  /\ ended' = [ended EXCEPT ![u] = Append(@, what)]
  /\ live_' = (live_ /\ what # "error")

-----------------------------------------------------------------------------
(* subscribe(), between steps or in a handler.  The halves of a timeout    *)
(* are added in turn; a stream that has ended ends the subscriber at once. *)
AtEase == pc \in {"idle", "callback"}

Subscribe(u) ==
  /\ AtEase /\ u \notin Used
  /\ IF mode = "Casting"
     THEN /\ Install(Retained(completer, open) \o TapsOf(u))
          /\ open' = open \cup ToSet(TapsOf(u))
          /\ live' = live \cup {u}
          /\ order' = order \o TapsOf(u)
          /\ UNCHANGED <<mode, ended, live_>>
     ELSE /\ UNCHANGED <<subject, lifetimes, order>>
          /\ Calls(u, Outcome(u))
  /\ UNCHANGED <<link, control, count, seen>>

(* The owner gives its subscription up, between steps or in a handler, its *)
(* own or another's.                                                       *)
Unsubscribe(u) ==
  /\ AtEase /\ u \in live
  /\ EndLifetime(u)
  /\ UNCHANGED <<mode, link, control, live_, log, ended>>

(* A handler stops the process (hero::request_deregister).                 *)
request_deregister ==
  /\ pc = "callback"
  /\ live_' = FALSE
  /\ UNCHANGED <<subject, lifetimes, link, control, log, ended>>

-----------------------------------------------------------------------------
(* step(): connect, which nests the lifetime of the connection in that of  *)
(* the subject the first time, and subscribe to the source, which begins   *)
(* to produce at once.  Once cs has ended it does nothing.                 *)
Step_NestsAlways ==                          \* mutant: no connection.empty()
  /\ pc = "idle" /\ cs
  /\ connection' = TRUE /\ nested' = TRUE /\ hooks' = hooks + 1
  /\ pc' = "produce"
  /\ UNCHANGED <<subject, lifetimes, cs, turn, running, live_, log, ended>>

Step ==
  /\ pc = "idle" /\ cs
  /\ connection' = TRUE /\ nested' = TRUE
  /\ hooks' = IF connection THEN hooks ELSE hooks + 1
  /\ pc' = "produce"
  /\ UNCHANGED <<subject, lifetimes, cs, turn, running, live_, log, ended>>

(* on_next: the list cached, if it is alive, or the list there is.         *)
Emit ==
  /\ pc = "produce" /\ count < MaxEvents
  /\ count' = count + 1
  /\ LET list == IF cached = Expired THEN completer ELSE cached IN
     /\ cached' = list
     /\ turn' = list
  /\ pc' = "dispatch"
  /\ UNCHANGED <<mode, completer, lifetimes, link, running, live_, order, seen, ended>>

(* The next observer, if it is still subscribed.  Its filter lets the      *)
(* event by or not; a first() closes its tap and then calls the handler;   *)
(* the second half of a timeout throws or rejects the event, and what it   *)
(* throws is given to the subscriber as an error.                          *)
TakesEvent == pc = "dispatch" /\ turn # << >> /\ mode = "Casting" /\ Head(turn) \in open

Sees(t) ==
  /\ seen' = [seen EXCEPT ![t] = Append(@, count)]
  /\ turn' = Tail(turn)
  /\ UNCHANGED <<mode, link, count, order>>

Reject ==
  /\ TakesEvent
  /\ Sees(Head(turn))
  /\ UNCHANGED <<completer, cached, lifetimes, pc, running, live_, ended>>

Accept ==
  /\ TakesEvent /\ Head(turn)[2] = 1
  /\ Sees(Head(turn))
  /\ running' = Owner(Head(turn))
  /\ pc' = "callback"
  /\ Closing(IF running' \in First THEN {Head(turn)} ELSE {})
  /\ UNCHANGED <<live, live_, ended>>

TimeOut ==
  /\ TakesEvent /\ Head(turn)[2] = 2
  /\ Sees(Head(turn))
  /\ Calls(Owner(Head(turn)), "error")
  /\ EndLifetime(Owner(Head(turn)))
  /\ UNCHANGED <<pc, running>>

(* The handler returns: a first() that is still subscribed completes.      *)
Return ==
  /\ pc = "callback"
  /\ pc' = "dispatch" /\ running' = Nobody
  /\ IF running \in First \cap live
     THEN Calls(running, "completed") /\ EndLifetime(running)
     ELSE UNCHANGED <<completer, cached, lifetimes, live_, ended>>
  /\ UNCHANGED <<mode, link, turn, log>>

(* The handler throws: its subscriber gets the error and is unsubscribed,  *)
(* whether or not it still was.                                            *)
Throw_Kept ==                                \* mutant: the detacher does not unsubscribe
  /\ pc = "callback"
  /\ pc' = "dispatch" /\ running' = Nobody
  /\ Calls(running, "error")
  /\ UNCHANGED <<subject, lifetimes, link, turn, log>>

Throw ==
  /\ pc = "callback"
  /\ pc' = "dispatch" /\ running' = Nobody
  /\ Calls(running, "error")
  /\ EndLifetime(running)
  /\ UNCHANGED <<mode, link, turn, log>>

(* An observer that unsubscribed before its turn is passed over.           *)
Skip ==
  /\ pc = "dispatch" /\ turn # << >> /\ Head(turn) \notin open
  /\ turn' = Tail(turn)
  /\ UNCHANGED <<subject, lifetimes, link, pc, running, live_, log, ended>>

(* Every observer has seen the event.  A list that was replaced meanwhile  *)
(* is dropped with the dispatch.                                           *)
EventDone ==
  /\ pc = "dispatch" /\ turn = << >> /\ mode = "Casting"
  /\ pc' = "produce"
  /\ cached' = IF cached = completer THEN cached ELSE Expired
  /\ UNCHANGED <<mode, completer, lifetimes, link, turn, running, live_, log, ended>>

-----------------------------------------------------------------------------
(* The end of the stream: the subject changes its mode, takes its list and *)
(* goes through it.                                                        *)
Ends(how) ==
  /\ mode' = how
  /\ turn' = completer
  /\ completer' = << >> /\ cached' = Expired
  /\ pc' = "dispatch"
  /\ UNCHANGED <<lifetimes, link, running, live_, log, ended>>

EndProduce_Idle ==                           \* mutant: on_completed is not called
  /\ pc = "produce" /\ pc' = "idle"
  /\ UNCHANGED <<subject, lifetimes, link, turn, running, live_, log, ended>>

EndProduce ==
  /\ pc = "produce"
  /\ \/ /\ live_ /\ pc' = "idle"
        /\ UNCHANGED <<subject, lifetimes, link, turn, running, live_, log, ended>>
     \/ ~live_ /\ Ends("Completed")

(* The producer throws: create() gives what it threw to the subject.       *)
Fail == pc = "produce" /\ Ends("Errored")

(* The end reaches an observer that is still subscribed.  A merge passes   *)
(* an error on at once, but completes only when both its halves have.      *)
EndTap ==
  /\ pc = "dispatch" /\ turn # << >> /\ mode # "Casting" /\ Head(turn) \in open
  /\ turn' = Tail(turn)
  /\ LET u == Owner(Head(turn)) IN
     IF mode = "Completed" /\ ~(ToSet(TapsOf(u)) \cap open \subseteq {Head(turn)})
     THEN Closing({Head(turn)}) /\ UNCHANGED <<live, live_, ended>>
     ELSE Calls(u, Outcome(u)) /\ EndLifetime(u)
  /\ UNCHANGED <<mode, link, pc, running, log>>

(* Last, the lifetime of the subject ends, the connection's in it, and the *)
(* callback of the connection clears the connection.                       *)
Finish ==
  /\ pc = "dispatch" /\ turn = << >> /\ mode # "Casting"
  /\ pc' = "idle"
  /\ nested' = FALSE
  /\ IF nested THEN cs' = FALSE /\ hooks' = 0 /\ connection' = FALSE
               ELSE UNCHANGED <<cs, hooks, connection>>
  /\ UNCHANGED <<subject, lifetimes, turn, running, live_, log, ended>>

Dispatch ==
  Reject \/ Accept \/ TimeOut \/ Return \/ Throw \/ Skip \/ EventDone \/ EndTap \/ Finish

Next ==
  \/ \E u \in Subscribers : Subscribe(u) \/ Unsubscribe(u)
  \/ request_deregister
  \/ Step \/ Emit \/ EndProduce \/ Fail
  \/ Dispatch

Spec == Init /\ [][Next]_vars

(* Handlers return, loops end, and a producer that has nothing to read     *)
(* gives up: nothing here waits.                                           *)
FairSpec == Spec /\ WF_vars(Dispatch) /\ WF_vars(EndProduce)

-----------------------------------------------------------------------------
(* The subject keeps the promise of Broadcast.  Its list is replaced while *)
(* it goes through the old one, the pointer it publishes from outlives     *)
(* that list by a dispatch, and a handler may close the tap whose turn is  *)
(* next: still every tap sees every event from the first published after   *)
(* it joined to the last before it left, once, the older taps first.       *)
Promise ==
  INSTANCE Broadcast WITH
    Taps    <- Taps,
    Groups  <- {TapsOf(u) : u \in Subscribers},
    members <- Sublist(order, open),
    waiting <- IF mode = "Casting" THEN Sublist(turn, open) ELSE << >>,
    count   <- count,
    seen    <- seen
ImplementsBroadcast == Promise!Spec

(* What a subscription leaves behind.  Between steps the list of a live    *)
(* stream holds the open taps and no other; a subscriber lives as long as  *)
(* it has a tap, or its handler runs; and however often step() connects,   *)
(* there is one connection, which ends with the stream.                    *)
NothingLeftBehind ==
  /\ pc = "idle" /\ mode = "Casting" => completer = Sublist(order, open)
  /\ \A u \in live : ToSet(TapsOf(u)) \cap open # {} \/ running = u
  /\ \A t \in open : Owner(t) \in live
  /\ connection = nested /\ nested = (hooks = 1) /\ hooks <= 1
  /\ pc = "idle" => (cs <=> mode = "Casting")
  /\ pc = "idle" /\ mode # "Casting" => open = {} /\ live = {}

(* A subscriber is told of its end at most once, and not while it still    *)
(* has a tap: also when its handler throws after it was unsubscribed, when *)
(* it is the end of the stream that a first() answers with an error of its *)
(* own, or when the two halves of a merge both end.  No one that lives     *)
(* through the end of the stream is forgotten, and a first() completes     *)
(* only if it has called its handler.                                      *)
OneEnd ==
  \A u \in Subscribers :
    /\ Len(ended[u]) <= 1
    /\ ended[u] # << >> => u \notin live
    /\ u \in First /\ ended[u] = <<"completed">> => seen[<<u, 1>>] # << >>
    /\ pc = "dispatch" /\ mode # "Casting" /\ u \in live =>
         \E i \in DOMAIN turn : Owner(turn[i]) = u

(* A failure in any handler ends the stream for all: interrupt_on_error    *)
(* only raises a signal, and live_ is looked at when the producer returns. *)
FailureEndsStream == ~live_ ~> (mode # "Casting" /\ pc = "idle" /\ ~cs /\ live = {})
================================================================================

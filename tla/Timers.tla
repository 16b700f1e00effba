-------------------------------- MODULE Timers --------------------------------
(***************************************************************************)
(* The timers of an apprentice process (yijinjing/practice/apprentice.h):  *)
(* timer(), time_interval() and timeout() are rx operators over the event  *)
(* stream of the process.  None of them owns a clock.  Each writes a       *)
(* TimeRequest (repeat = 1) to the master and remembers a checkpoint; the  *)
(* master answers with a Time event when the request is due; and every     *)
(* armed operator examines every event that arrives, whoever asked for it. *)
(*                                                                         *)
(* now() is the gen_time of the event the process is handling.  The clock  *)
(* is the wall clock both processes stamp their frames with: one unit is   *)
(* shorter than the time from writing a frame to handling it (AppStep).    *)
(* The run of a model ends at MaxTime, where that is no longer required.   *)
(***************************************************************************)
EXTENDS Integers, Sequences

CONSTANTS MaxTimers,   \* bound on timer_usage_count_
          Delays,      \* the delays asked for; a timer's may be in the past
          MaxTime,     \* bound on the clock
          MaxEvents    \* bound on the events of other processes

ASSUME TimersAssumption ==
  /\ MaxTimers \in Nat /\ MaxTime \in Nat \ {0} /\ MaxEvents \in Nat
  /\ Delays \subseteq Int

VARIABLES clock,       \* the time a frame written now is stamped with
          now,         \* now() of the process
          used,        \* timer_usage_count_
          kind,        \* which operator the i-th timer belongs to
          src,         \* timeout: the kinds of event its source passes on
          duration,    \* duration_ns
          checkpoint,  \* timer_checkpoints_
          status,      \* "armed" while its subscription lives
          requests,    \* TimeRequests not yet read by the master, by id
          task,        \* master: when timer_tasks_ answers, or None
          inbox,       \* events not yet handled by the process
          written,     \* events of other processes so far
          heard,       \* history: when a timeout's source last passed an event
          asked,       \* history: when the timer was asked for
          fires        \* history: how often a timer or an interval has fired

appVars == <<now, used, kind, src, duration, checkpoint, status, heard, asked, fires>>
vars == <<clock, appVars, requests, task, inbox, written>>

Id == 1 .. MaxTimers
None == -1000000        \* no pending task; below every due time
Time == "Time"          \* Time::tag
Kinds == {Time, "answer", "other"}
Request == [gen : Nat, duration : Int]
Event == [kind : Kinds, gen : Nat]

Init ==
  /\ clock = 1 /\ now = 0
  /\ used = 0
  /\ kind = [i \in Id |-> "unused"]
  /\ src = [i \in Id |-> {}]
  /\ duration = [i \in Id |-> 0]
  /\ checkpoint = [i \in Id |-> 0]
  /\ status = [i \in Id |-> "unused"]
  /\ requests = [i \in Id |-> << >>]
  /\ task = [i \in Id |-> None]
  /\ inbox = << >>
  /\ written = 0
  /\ heard = [i \in Id |-> 0]
  /\ asked = [i \in Id |-> 0]
  /\ fires = [i \in Id |-> 0]

Armed(i) == status[i] = "armed"
Deadline(i) == checkpoint[i] + duration[i]

-----------------------------------------------------------------------------
(* Calling timer(), time_interval() or timeout(): write the request, note  *)
(* the checkpoint, take the next id.  The process handles an event, or has *)
(* not started yet; now() does not move.                                   *)
Add(k, d, s) ==
  /\ used < MaxTimers
  /\ used' = used + 1
  /\ LET i == used' IN
     /\ kind' = [kind EXCEPT ![i] = k]
     /\ src' = [src EXCEPT ![i] = s]
     /\ duration' = [duration EXCEPT ![i] = d]
     /\ requests' = [requests EXCEPT ![i] = Append(@, [gen |-> clock, duration |-> d])]
     /\ checkpoint' = [checkpoint EXCEPT ![i] = now]
     /\ status' = [status EXCEPT ![i] = "armed"]
     /\ heard' = [heard EXCEPT ![i] = now]
     /\ asked' = [asked EXCEPT ![i] = now]
  /\ UNCHANGED <<clock, now, fires, task, inbox, written>>

(* timer(nanotime): the delay is nanotime - now(), which may be negative.  *)
AddTimer == \E nanotime \in {now + d : d \in Delays} : Add("timer", nanotime - now, {})

AddInterval == \E d \in Delays \cap Nat : Add("interval", d, {})

AddTimeout ==
  \E d \in Delays \cap Nat, s \in {{"answer"}, Kinds} : Add("timeout", d, s)

-----------------------------------------------------------------------------
(* One event is handled.  Late(i, e, c): e came after the delay of timer i *)
(* counted from checkpoint c.                                              *)
Late(i, e, c) == e.gen > c + duration[i]

(* timer() is rx::first of the Time events that are late.                  *)
TimerFires_FromNow(i, e) ==     \* mutant: the delay counts from the last event
  kind[i] = "timer" /\ e.kind = Time /\ Late(i, e, now)

TimerFires(i, e) ==
  kind[i] = "timer" /\ e.kind = Time /\ Late(i, e, checkpoint[i])

IntervalFires(i, e) ==
  kind[i] = "interval" /\ e.kind = Time /\ Late(i, e, checkpoint[i])

(* timeout() passes on what its source emits, but never a Time event.      *)
Passes(i, e) == kind[i] = "timeout" /\ e.kind \in src[i] /\ e.kind # Time

(* The second half of timeout() sees every event of the process, after the *)
(* first half has moved the checkpoint to the event at hand.               *)
Throws_BeforePass(i, e) ==                              \* mutant: merged first
  kind[i] = "timeout" /\ Late(i, e, checkpoint[i])

Throws(i, e) ==
  /\ kind[i] = "timeout"
  /\ Late(i, e, IF Passes(i, e) THEN e.gen ELSE checkpoint[i])

Rearms_TimeoutOnly(i, e) == Passes(i, e)    \* mutant: the interval asks just once

Rearms_IntervalOnly(i, e) == IntervalFires(i, e)    \* mutant

Rearms(i, e) == IntervalFires(i, e) \/ Passes(i, e)

NextStatus(i, e) ==
  CASE TimerFires(i, e) -> "done"
    [] Throws(i, e)     -> "timed_out"
    [] OTHER            -> "armed"

AppStep ==
  /\ inbox # << >>
  /\ LET e == Head(inbox)
         rearmed == {i \in Id : Armed(i) /\ Rearms(i, e)}
         again(i) == [gen |-> clock, duration |-> duration[i]]
     IN  /\ e.gen < clock \/ clock = MaxTime
         /\ now' = e.gen
         /\ requests' = [i \in Id |-> IF i \in rearmed THEN Append(requests[i], again(i))
                                                       ELSE requests[i]]
         /\ checkpoint' = [i \in Id |-> IF i \in rearmed THEN e.gen ELSE checkpoint[i]]
         /\ status' = [i \in Id |-> IF Armed(i) THEN NextStatus(i, e) ELSE status[i]]
         /\ heard' = [i \in Id |-> IF Passes(i, e) THEN e.gen ELSE heard[i]]
         /\ fires' = [i \in Id |-> IF Armed(i) /\ (TimerFires(i, e) \/ IntervalFires(i, e))
                                     THEN fires[i] + 1 ELSE fires[i]]
  /\ inbox' = Tail(inbox)
  /\ UNCHANGED <<clock, used, kind, src, duration, asked, task, written>>

-----------------------------------------------------------------------------
(* The master keeps one task per id, replaced by a later request, and      *)
(* answers it once.                                                        *)
MasterReads(i) ==
  /\ requests[i] # << >>
  /\ task' = [task EXCEPT ![i] = Head(requests[i]).gen + Head(requests[i]).duration]
  /\ requests' = [requests EXCEPT ![i] = Tail(@)]
  /\ UNCHANGED <<clock, appVars, inbox, written>>

MasterAnswers(i) ==
  /\ task[i] # None
  /\ task[i] <= clock
  /\ inbox' = Append(inbox, [kind |-> Time, gen |-> clock])
  /\ task' = [task EXCEPT ![i] = None]
  /\ UNCHANGED <<clock, appVars, requests, written>>

(* Any other process writes an event the process reads.                    *)
OthersWrite ==
  /\ written < MaxEvents
  /\ written' = written + 1
  /\ \E k \in Kinds \ {Time} : inbox' = Append(inbox, [kind |-> k, gen |-> clock])
  /\ UNCHANGED <<clock, appVars, requests, task>>

Tick ==
  /\ clock < MaxTime
  /\ clock' = clock + 1
  /\ UNCHANGED <<appVars, requests, task, inbox, written>>

Next ==
  \/ AddTimer \/ AddInterval \/ AddTimeout
  \/ AppStep
  \/ \E i \in Id : MasterReads(i) \/ MasterAnswers(i)
  \/ OthersWrite
  \/ Tick

Spec == Init /\ [][Next]_vars

(* Both event loops run for ever, and time passes.                         *)
FairSpec ==
  /\ Spec
  /\ WF_vars(AppStep)
  /\ \A i \in Id : WF_vars(MasterReads(i)) /\ WF_vars(MasterAnswers(i))
  /\ WF_vars(Tick)

-----------------------------------------------------------------------------
(* Types; only a one-shot timer ends by firing, only a timeout by raising. *)
TypeOK ==
  /\ clock \in 1 .. MaxTime /\ now \in 0 .. MaxTime
  /\ used \in 0 .. MaxTimers
  /\ kind \in [Id -> {"unused", "timer", "interval", "timeout"}]
  /\ src \in [Id -> SUBSET Kinds]
  /\ duration \in [Id -> Int]
  /\ checkpoint \in [Id -> Nat]
  /\ status \in [Id -> {"unused", "armed", "done", "timed_out"}]
  /\ \A i \in Id : /\ status[i] = "done" => kind[i] = "timer"
                   /\ status[i] = "timed_out" => kind[i] = "timeout"
  /\ requests \in [Id -> Seq(Request)]
  /\ task \in [Id -> Int]
  /\ inbox \in Seq(Event)
  /\ written \in 0 .. MaxEvents
  /\ heard \in [Id -> Nat] /\ asked \in [Id -> Nat] /\ fires \in [Id -> Nat]

(* The tick that serves timer i is on its way: a request still to be read, *)
(* a pending task, or a Time event in the inbox, each after the deadline.  *)
Coming(i) ==
  \/ requests[i] # << >> /\ requests[i][Len(requests[i])].gen > checkpoint[i]
  \/ task[i] > Deadline(i)
  \/ \E n \in DOMAIN inbox : inbox[n].kind = Time /\ inbox[n].gen > Deadline(i)

(* No timer is forgotten.  Its deadline is tested with a strict > against  *)
(* a checkpoint taken from an older event, only Time events test it, each  *)
(* request is answered once, and a timer may be served by the tick of      *)
(* another: still, an armed timer always has a tick coming that is late    *)
(* enough to serve it.                                                     *)
AlwaysArmed == \A i \in Id : Armed(i) /\ checkpoint[i] < MaxTime => Coming(i)

(* However many Time events the timers of a process attract between them,  *)
(* an interval has fired at most once for each full duration, and the      *)
(* nanosecond the strict comparison adds, since it was asked for; and a    *)
(* one-shot timer not before its delay was over.                           *)
NeverTooOften ==
  \A i \in Id : kind[i] \in {"timer", "interval"} =>
    fires[i] * (duration[i] + 1) <= now - asked[i]

(* A timeout is raised only when its source has been silent for longer     *)
(* than the duration.                                                      *)
TimeoutMeansSilence ==
  [][\A i \in Id : Armed(i) /\ status'[i] = "timed_out" => now' - heard[i] > duration[i]]_vars

(* A late answer still wins: the event the source was waiting for never    *)
(* itself raises the timeout, because it moves the checkpoint first.       *)
AnswerWins ==
  [][\A i \in Id :
       (Armed(i) /\ heard'[i] # heard[i]) => status'[i] = "armed"]_vars

(* A one-shot timer whose request has reached the master fires.            *)
TimerIsServed ==
  \A i \in Id :
    (kind[i] = "timer" /\ Armed(i) /\ task[i] # None /\ task[i] <= MaxTime)
       ~> status[i] = "done"
===============================================================================

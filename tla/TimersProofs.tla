------------------------------ MODULE TimersProofs ------------------------------
(***************************************************************************)
(* That no timer is forgotten, and when timers fire, for any number of     *)
(* timers, any delays and any traffic.                                     *)
(***************************************************************************)
EXTENDS Timers, TLAPS

(* The process handles an event after the time it is stamped with.         *)
Behind ==
  /\ now <= clock
  /\ now < clock \/ now = MaxTime
  /\ \A n \in DOMAIN inbox : inbox[n].gen <= clock

(* Ids are taken in turn, and an id has no request before it is taken.     *)
TakenInTurn ==
  \A i \in Id :
    /\ i > used => status[i] = "unused" /\ requests[i] = << >>
    /\ Armed(i) => kind[i] \in {"timer", "interval", "timeout"}

(* Every request of a timer asks for its duration, and the last one was    *)
(* written after its checkpoint was taken.                                 *)
Asked ==
  \A i \in Id :
    /\ \A n \in DOMAIN requests[i] : requests[i][n].duration = duration[i]
    /\ requests[i] # << >> /\ checkpoint[i] < MaxTime
         => requests[i][Len(requests[i])].gen > checkpoint[i]

(* The checkpoint of a timeout is when its source last passed an event.    *)
Listening ==
  \A i \in Id : kind[i] = "timeout" =>
    /\ duration[i] >= 0
    /\ Armed(i) => heard[i] = checkpoint[i]

IInv == TypeOK /\ Behind /\ TakenInTurn /\ Asked /\ Listening /\ AlwaysArmed

-----------------------------------------------------------------------------

LEMMA InitIInv == Init => IInv
  <1> SUFFICES ASSUME Init PROVE IInv
    OBVIOUS
  <1>1. TypeOK
    BY TimersAssumption DEF Init, TypeOK, Id, Kinds, Time, None
  <1>2. Behind /\ TakenInTurn /\ Asked /\ Listening /\ AlwaysArmed
    BY TimersAssumption DEF Init, Behind, TakenInTurn, Asked, Listening, AlwaysArmed, Armed
  <1> QED
    BY <1>1, <1>2 DEF IInv

LEMMA AppendFacts ==
  ASSUME NEW S, NEW q \in Seq(S), NEW x \in S
  PROVE  /\ Append(q, x) \in Seq(S) /\ Append(q, x) # << >>
         /\ Len(Append(q, x)) = Len(q) + 1
         /\ Append(q, x)[Len(q) + 1] = x
         /\ \A n \in DOMAIN q : n \in DOMAIN Append(q, x) /\ Append(q, x)[n] = q[n]
         /\ \A n \in DOMAIN Append(q, x) : n \in DOMAIN q \/ Append(q, x)[n] = x
  OBVIOUS

LEMMA TailFacts ==
  ASSUME NEW S, NEW q \in Seq(S), q # << >>
  PROVE  /\ Head(q) \in S /\ Head(q) = q[1] /\ 1 \in DOMAIN q /\ Len(q) \in DOMAIN q
         /\ Tail(q) \in Seq(S) /\ Len(Tail(q)) = Len(q) - 1
         /\ \A n \in DOMAIN Tail(q) : n + 1 \in DOMAIN q /\ Tail(q)[n] = q[n + 1]
         /\ \A n \in DOMAIN q : n # 1 => n - 1 \in DOMAIN Tail(q) /\ Tail(q)[n - 1] = q[n]
  OBVIOUS

(* The three ways of adding a timer are one.                               *)
LEMMA Added ==
  ASSUME TypeOK, AddTimer \/ AddInterval \/ AddTimeout
  PROVE  \E k \in {"timer", "interval", "timeout"}, d \in Int, s \in SUBSET Kinds :
           /\ k = "timeout" => d >= 0
           /\ Add(k, d, s)
  <1>1. CASE AddTimer
    <2>1. PICK d \in Delays : Add("timer", (now + d) - now, {})
      BY <1>1 DEF AddTimer
    <2>2. d \in Int /\ (now + d) - now \in Int
      BY TimersAssumption DEF TypeOK
    <2> QED
      BY <2>1, <2>2
  <1>2. CASE AddInterval
    BY <1>2, TimersAssumption DEF AddInterval
  <1>3. CASE AddTimeout
    BY <1>3, TimersAssumption DEF AddTimeout, Kinds
  <1> QED
    BY <1>1, <1>2, <1>3

LEMMA AddIInv ==
  ASSUME IInv, NEW k \in {"timer", "interval", "timeout"}, NEW d \in Int,
         NEW s \in SUBSET Kinds, k = "timeout" => d >= 0, Add(k, d, s)
  PROVE  IInv'
  <1> DEFINE i == used + 1
  <1> USE TimersAssumption
  <1>0. TypeOK /\ Behind /\ TakenInTurn /\ Asked /\ Listening /\ AlwaysArmed
    BY DEF IInv
  <1>1. i \in Id /\ used' = i
    BY <1>0 DEF Add, TypeOK, Id
  <1>2. /\ requests[i] = << >> /\ status[i] = "unused"
        /\ requests' = [requests EXCEPT ![i] = << [gen |-> clock, duration |-> d] >>]
    <2>1. requests[i] = << >> /\ status[i] = "unused"
      BY <1>0, <1>1 DEF TakenInTurn, Id, TypeOK
    <2>2. requests' = [requests EXCEPT ![i] = Append(requests[i], [gen |-> clock, duration |-> d])]
      BY <1>1 DEF Add
    <2>3. Append(requests[i], [gen |-> clock, duration |-> d]) = << [gen |-> clock, duration |-> d] >>
      BY <2>1
    <2> QED
      BY <2>1, <2>2, <2>3
  <1>3. /\ kind' = [kind EXCEPT ![i] = k] /\ src' = [src EXCEPT ![i] = s]
        /\ duration' = [duration EXCEPT ![i] = d]
        /\ checkpoint' = [checkpoint EXCEPT ![i] = now]
        /\ status' = [status EXCEPT ![i] = "armed"]
        /\ heard' = [heard EXCEPT ![i] = now] /\ asked' = [asked EXCEPT ![i] = now]
        /\ UNCHANGED <<clock, now, fires, task, inbox, written>>
    BY <1>1 DEF Add
  <1> HIDE DEF i
  <1>4. [gen |-> clock, duration |-> d] \in Request /\ now \in Nat
    BY <1>0 DEF TypeOK, Request
  <1>5. TypeOK'
    <2>1. << [gen |-> clock, duration |-> d] >> \in Seq(Request)
      BY <1>4
    <2>2. requests' \in [Id -> Seq(Request)]
      BY <2>1, <1>0, <1>1, <1>2 DEF TypeOK
    <2>3. used' \in 0 .. MaxTimers
      BY <1>1 DEF Id
    <2>4. /\ kind' \in [Id -> {"unused", "timer", "interval", "timeout"}]
          /\ src' \in [Id -> SUBSET Kinds]
          /\ status' \in [Id -> {"unused", "armed", "done", "timed_out"}]
      BY <1>0, <1>1, <1>3 DEF TypeOK
    <2>5. duration' \in [Id -> Int] /\ checkpoint' \in [Id -> Nat]
      BY <1>0, <1>1, <1>3, <1>4 DEF TypeOK
    <2>6. /\ heard' \in [Id -> Nat] /\ asked' \in [Id -> Nat] /\ fires' \in [Id -> Nat]
      BY <1>0, <1>1, <1>3, <1>4 DEF TypeOK
    <2>7. \A j \in Id : /\ status'[j] = "done" => kind'[j] = "timer"
                        /\ status'[j] = "timed_out" => kind'[j] = "timeout"
      BY <1>0, <1>1, <1>2, <1>3 DEF TypeOK
    <2> QED
      BY <2>2, <2>3, <2>4, <2>5, <2>6, <2>7, <1>0, <1>3 DEF TypeOK
  <1>6. Behind'
    BY <1>0, <1>3 DEF Behind
  <1>7. TakenInTurn'
    <2> SUFFICES ASSUME NEW j \in Id
                 PROVE  /\ j > used' => status'[j] = "unused" /\ requests'[j] = << >>
                        /\ status'[j] = "armed" => kind'[j] \in {"timer", "interval", "timeout"}
      BY DEF TakenInTurn, Armed
    <2>1. CASE j = i
      <3>1. kind'[j] = k
        BY <2>1, <1>0, <1>1, <1>3 DEF TypeOK
      <3>2. ~(j > used')
        BY <2>1, <1>1 DEF Id
      <3> QED
        BY <3>1, <3>2
    <2>2. CASE j # i
      <3>1. /\ status'[j] = status[j] /\ kind'[j] = kind[j] /\ requests'[j] = requests[j]
        BY <2>2, <1>0, <1>2, <1>3 DEF TypeOK
      <3>2. j > used' => j > used
        BY <1>0, <1>1 DEF TypeOK, Id, i
      <3>3. /\ j > used => status[j] = "unused" /\ requests[j] = << >>
            /\ status[j] = "armed" => kind[j] \in {"timer", "interval", "timeout"}
        BY <1>0 DEF TakenInTurn, Armed
      <3> QED
        BY <3>1, <3>2, <3>3
    <2> QED
      BY <2>1, <2>2
  <1>8. Asked'
    <2> SUFFICES ASSUME NEW j \in Id
                 PROVE  /\ \A n \in DOMAIN requests'[j] : requests'[j][n].duration = duration'[j]
                        /\ requests'[j] # << >> /\ checkpoint'[j] < MaxTime
                             => requests'[j][Len(requests'[j])].gen > checkpoint'[j]
      BY DEF Asked
    <2>1. CASE j = i
      <3>1. requests'[j] = << [gen |-> clock, duration |-> d] >> /\ checkpoint'[j] = now /\ duration'[j] = d
        BY <2>1, <1>0, <1>1, <1>2, <1>3 DEF TypeOK
      <3> QED
        BY <3>1, <1>0 DEF Behind, TypeOK
    <2>2. CASE j # i
      BY <2>2, <1>0, <1>2, <1>3 DEF Asked, TypeOK
    <2> QED
      BY <2>1, <2>2
  <1>9. Listening'
    BY <1>0, <1>1, <1>3, <1>4 DEF Listening, Armed, TypeOK
  <1>10. AlwaysArmed'
    <2> SUFFICES ASSUME NEW j \in Id, Armed(j)', checkpoint'[j] < MaxTime
                 PROVE  Coming(j)'
      BY DEF AlwaysArmed
    <2>1. CASE j = i
      <3>1. requests'[j] = << [gen |-> clock, duration |-> d] >> /\ checkpoint'[j] = now
        BY <2>1, <1>0, <1>1, <1>2, <1>3 DEF TypeOK
      <3> QED
        BY <3>1, <1>0 DEF Coming, Behind, TypeOK
    <2>2. CASE j # i
      <3>1. Armed(j) /\ checkpoint[j] < MaxTime /\ Deadline(j)' = Deadline(j) /\ requests'[j] = requests[j]
            /\ checkpoint'[j] = checkpoint[j]
        BY <2>2, <1>0, <1>2, <1>3 DEF Armed, Deadline, TypeOK
      <3> QED
        BY <3>1, <1>0, <1>3 DEF AlwaysArmed, Coming
    <2> QED
      BY <2>1, <2>2
  <1> QED
    BY <1>5, <1>6, <1>7, <1>8, <1>9, <1>10 DEF IInv

(* What handling an event does to one timer.                               *)
LEMMA StepOfOne ==
  ASSUME TypeOK, AppStep, NEW j \in Id
  PROVE  LET e == Head(inbox)
             again == [gen |-> clock, duration |-> duration[j]]
         IN /\ Armed(j) /\ Rearms(j, e) =>
                 requests'[j] = Append(requests[j], again) /\ checkpoint'[j] = e.gen
            /\ ~(Armed(j) /\ Rearms(j, e)) =>
                 requests'[j] = requests[j] /\ checkpoint'[j] = checkpoint[j]
            /\ status'[j] = IF Armed(j) THEN NextStatus(j, e) ELSE status[j]
            /\ heard'[j] = IF Passes(j, e) THEN e.gen ELSE heard[j]
            /\ fires'[j] = IF Armed(j) /\ (TimerFires(j, e) \/ IntervalFires(j, e))
                             THEN fires[j] + 1 ELSE fires[j]
            /\ duration'[j] = duration[j] /\ kind'[j] = kind[j]
  <1> DEFINE e == Head(inbox)
             R == {i \in Id : Armed(i) /\ Rearms(i, e)}
             again(i) == [gen |-> clock, duration |-> duration[i]]
  <1>1. /\ requests' = [i \in Id |-> IF i \in R THEN Append(requests[i], again(i))
                                              ELSE requests[i]]
        /\ checkpoint' = [i \in Id |-> IF i \in R THEN e.gen ELSE checkpoint[i]]
        /\ status' = [i \in Id |-> IF Armed(i) THEN NextStatus(i, e) ELSE status[i]]
        /\ heard' = [i \in Id |-> IF Passes(i, e) THEN e.gen ELSE heard[i]]
        /\ fires' = [i \in Id |-> IF Armed(i) /\ (TimerFires(i, e) \/ IntervalFires(i, e))
                                    THEN fires[i] + 1 ELSE fires[i]]
        /\ UNCHANGED <<duration, kind>>
    BY DEF AppStep
  <1>2. j \in R <=> Armed(j) /\ Rearms(j, e)
    OBVIOUS
  <1> HIDE DEF R, e, again
  <1>3. /\ j \in R => requests'[j] = Append(requests[j], again(j)) /\ checkpoint'[j] = e.gen
        /\ j \notin R => requests'[j] = requests[j] /\ checkpoint'[j] = checkpoint[j]
    BY <1>1
  <1>4. /\ status'[j] = IF Armed(j) THEN NextStatus(j, e) ELSE status[j]
        /\ heard'[j] = IF Passes(j, e) THEN e.gen ELSE heard[j]
        /\ fires'[j] = IF Armed(j) /\ (TimerFires(j, e) \/ IntervalFires(j, e))
                         THEN fires[j] + 1 ELSE fires[j]
        /\ duration'[j] = duration[j] /\ kind'[j] = kind[j]
    BY <1>1
  <1> QED
    BY <1>2, <1>3, <1>4 DEF e, again

(* A late Time event always does what an armed timer waits for.            *)
LEMMA LateIsServed ==
  ASSUME TypeOK, AppStep, NEW j \in Id, Armed(j), Head(inbox).kind = Time,
         kind[j] \in {"timer", "interval", "timeout"}, Late(j, Head(inbox), checkpoint[j])
  PROVE  Rearms(j, Head(inbox)) \/ ~Armed(j)'
  <1>1. ~Passes(j, Head(inbox))
    BY DEF Passes
  <1>2. CASE kind[j] = "timer"
    BY <1>2, StepOfOne DEF NextStatus, TimerFires, Armed
  <1>3. CASE kind[j] = "interval"
    BY <1>3 DEF Rearms, IntervalFires
  <1>4. CASE kind[j] = "timeout"
    <2>1. Throws(j, Head(inbox)) /\ ~TimerFires(j, Head(inbox))
      BY <1>1, <1>4 DEF Throws, TimerFires
    <2> QED
      BY <2>1, StepOfOne DEF NextStatus, Armed
  <1> QED
    BY <1>2, <1>3, <1>4

LEMMA AppStepIInv == IInv /\ AppStep => IInv'
  <1> SUFFICES ASSUME IInv, AppStep PROVE IInv'
    OBVIOUS
  <1> USE TimersAssumption
  <1>0. TypeOK /\ Behind /\ TakenInTurn /\ Asked /\ Listening /\ AlwaysArmed
    BY DEF IInv
  <1> DEFINE e == Head(inbox)
             again(j) == [gen |-> clock, duration |-> duration[j]]
  <1>1. inbox \in Seq(Event) /\ inbox # << >> /\ e \in Event /\ e = inbox[1] /\ inbox' = Tail(inbox)
    BY <1>0, TailFacts DEF AppStep, TypeOK
  <1>2. e.gen \in Nat /\ e.gen <= clock /\ (e.gen < clock \/ clock = MaxTime) /\ now' = e.gen
    <2>1. e.gen \in Nat
      BY <1>1 DEF Event
    <2>2. 1 \in DOMAIN inbox
      BY <1>1, TailFacts
    <2> QED
      BY <2>1, <2>2, <1>0, <1>1 DEF Behind, AppStep
  <1>3. UNCHANGED <<clock, used, kind, src, duration, asked, task, written>>
    BY DEF AppStep
  <1>4. \A j \in Id :
          /\ Armed(j) /\ Rearms(j, e) =>
               requests'[j] = Append(requests[j], again(j)) /\ checkpoint'[j] = e.gen
          /\ ~(Armed(j) /\ Rearms(j, e)) =>
               requests'[j] = requests[j] /\ checkpoint'[j] = checkpoint[j]
          /\ status'[j] = IF Armed(j) THEN NextStatus(j, e) ELSE status[j]
          /\ heard'[j] = IF Passes(j, e) THEN e.gen ELSE heard[j]
          /\ fires'[j] = fires[j] + 1 \/ fires'[j] = fires[j]
    BY <1>0, StepOfOne
  <1>5. \A j \in Id : again(j) \in Request
    BY <1>0 DEF TypeOK, Request
  <1>6. \A j \in Id : requests[j] \in Seq(Request)
    BY <1>0 DEF TypeOK
  <1> HIDE DEF e, again
  <1>7. \A j \in Id : requests'[j] \in Seq(Request)
    <2>1. \A j \in Id : Append(requests[j], again(j)) \in Seq(Request)
      BY <1>5, <1>6, AppendFacts
    <2> QED
      BY <2>1, <1>4, <1>6
  <1>8. TypeOK'
    <2>1. requests' \in [Id -> Seq(Request)]
      BY <1>7 DEF AppStep
    <2>2. checkpoint' \in [Id -> Nat] /\ heard' \in [Id -> Nat] /\ fires' \in [Id -> Nat]
      <3>1. \A j \in Id : checkpoint'[j] \in Nat /\ heard'[j] \in Nat /\ fires'[j] \in Nat
        <4>1. \A j \in Id : checkpoint[j] \in Nat /\ heard[j] \in Nat /\ fires[j] \in Nat
          BY <1>0 DEF TypeOK
        <4>2. \A j \in Id : checkpoint'[j] \in Nat /\ heard'[j] \in Nat
          BY <4>1, <1>2, <1>4
        <4>3. \A j \in Id : fires'[j] \in Nat
          BY <4>1, <1>4
        <4> QED
          BY <4>2, <4>3
      <3> QED
        BY <3>1 DEF AppStep
    <2>3. status' \in [Id -> {"unused", "armed", "done", "timed_out"}]
      <3>1. \A j \in Id : status'[j] \in {"unused", "armed", "done", "timed_out"}
        BY <1>0, <1>4 DEF TypeOK, NextStatus
      <3> QED
        BY <3>1 DEF AppStep
    <2>4. \A j \in Id : /\ status'[j] = "done" => kind'[j] = "timer"
                        /\ status'[j] = "timed_out" => kind'[j] = "timeout"
      BY <1>0, <1>3, <1>4 DEF TypeOK, NextStatus, TimerFires, Throws
    <2>5. inbox' \in Seq(Event)
      BY <1>1, TailFacts
    <2>6. now' \in 0 .. MaxTime
      BY <1>0, <1>2 DEF TypeOK
    <2> QED
      BY <2>1, <2>2, <2>3, <2>4, <2>5, <2>6, <1>0, <1>3 DEF TypeOK
  <1>9. Behind'
    <2>1. \A n \in DOMAIN inbox' : inbox'[n].gen <= clock
      BY <1>0, <1>1, TailFacts DEF Behind
    <2> QED
      BY <2>1, <1>2, <1>3 DEF Behind
  <1>10. TakenInTurn'
    BY <1>0, <1>3, <1>4 DEF TakenInTurn, Armed
  <1>11. Asked'
    <2> SUFFICES ASSUME NEW j \in Id
                 PROVE  /\ \A n \in DOMAIN requests'[j] : requests'[j][n].duration = duration'[j]
                        /\ requests'[j] # << >> /\ checkpoint'[j] < MaxTime
                             => requests'[j][Len(requests'[j])].gen > checkpoint'[j]
      BY DEF Asked
    <2>1. CASE Armed(j) /\ Rearms(j, e)
      <3>1. requests'[j] = Append(requests[j], again(j)) /\ checkpoint'[j] = e.gen
        BY <2>1, <1>4
      <3>2. /\ Len(requests'[j]) = Len(requests[j]) + 1
            /\ requests'[j][Len(requests[j]) + 1] = again(j)
            /\ \A n \in DOMAIN requests'[j] : n \in DOMAIN requests[j] \/ requests'[j][n] = again(j)
            /\ \A n \in DOMAIN requests[j] : requests'[j][n] = requests[j][n]
        BY <3>1, <1>5, <1>6, AppendFacts
      <3>3. again(j).duration = duration'[j] /\ again(j).gen = clock
        BY <1>3 DEF again
      <3>4. \A n \in DOMAIN requests'[j] : requests'[j][n].duration = duration'[j]
        BY <3>2, <3>3, <1>0, <1>3 DEF Asked
      <3>5. e.gen < MaxTime => clock > e.gen
        BY <1>0, <1>2 DEF TypeOK
      <3> QED
        BY <3>1, <3>2, <3>3, <3>4, <3>5
    <2>2. CASE ~(Armed(j) /\ Rearms(j, e))
      BY <2>2, <1>0, <1>3, <1>4 DEF Asked
    <2> QED
      BY <2>1, <2>2
  <1>12. Listening'
    <2> SUFFICES ASSUME NEW j \in Id, kind[j] = "timeout"
                 PROVE  duration[j] >= 0 /\ (status'[j] = "armed" => heard'[j] = checkpoint'[j])
      BY <1>3 DEF Listening, Armed
    <2>1. ~IntervalFires(j, e)
      BY DEF IntervalFires
    <2>2. status'[j] = "armed" => Armed(j)
      BY <1>4 DEF Armed
    <2> QED
      BY <2>1, <2>2, <1>0, <1>4 DEF Listening, Rearms
  <1>13. AlwaysArmed'
    <2> SUFFICES ASSUME NEW j \in Id, Armed(j)', checkpoint'[j] < MaxTime
                 PROVE  Coming(j)'
      BY DEF AlwaysArmed
    <2>1. Armed(j)
      BY <1>4 DEF Armed
    <2>2. CASE Rearms(j, e)
      <3>1. requests'[j] # << >>
        BY <2>1, <2>2, <1>4, <1>5, <1>6, AppendFacts
      <3> QED
        BY <3>1, <1>11 DEF Coming, Asked
    <2>3. CASE ~Rearms(j, e)
      <3>1. requests'[j] = requests[j] /\ checkpoint'[j] = checkpoint[j] /\ Deadline(j)' = Deadline(j)
        BY <2>3, <1>3, <1>4 DEF Deadline
      <3>2. Coming(j)
        BY <3>1, <2>1, <1>0 DEF AlwaysArmed
      <3>3. CASE requests[j] # << >> /\ requests[j][Len(requests[j])].gen > checkpoint[j]
        BY <3>1, <3>3 DEF Coming
      <3>4. CASE task[j] > Deadline(j)
        BY <3>1, <3>4, <1>3 DEF Coming
      <3>5. CASE \E n \in DOMAIN inbox : inbox[n].kind = Time /\ inbox[n].gen > Deadline(j)
        <4>1. PICK n \in DOMAIN inbox : inbox[n].kind = Time /\ inbox[n].gen > Deadline(j)
          BY <3>5
        <4>2. n # 1
          <5> SUFFICES ASSUME n = 1 PROVE FALSE
            OBVIOUS
          <5>1. e.kind = Time /\ Late(j, e, checkpoint[j])
            BY <4>1, <1>1 DEF Late, Deadline
          <5>2. kind[j] \in {"timer", "interval", "timeout"}
            BY <2>1, <1>0 DEF TakenInTurn
          <5> QED
            BY <5>1, <5>2, <2>1, <2>3, <1>0, LateIsServed DEF e
        <4>3. n - 1 \in DOMAIN inbox' /\ inbox'[n - 1] = inbox[n]
          BY <4>2, <1>1, TailFacts
        <4> QED
          BY <4>1, <4>3, <3>1 DEF Coming
      <3> QED
        BY <3>2, <3>3, <3>4, <3>5 DEF Coming
    <2> QED
      BY <2>2, <2>3
  <1> QED
    BY <1>8, <1>9, <1>10, <1>11, <1>12, <1>13 DEF IInv

LEMMA MasterReadsIInv ==
  ASSUME IInv, NEW i \in Id, MasterReads(i)
  PROVE  IInv'
  <1> USE TimersAssumption
  <1>0. TypeOK /\ Behind /\ TakenInTurn /\ Asked /\ Listening /\ AlwaysArmed
    BY DEF IInv
  <1> DEFINE q == requests[i]
  <1>1. /\ q \in Seq(Request) /\ q # << >>
        /\ task' = [task EXCEPT ![i] = Head(q).gen + Head(q).duration]
        /\ requests' = [requests EXCEPT ![i] = Tail(q)]
        /\ UNCHANGED <<clock, appVars, inbox, written>>
    BY <1>0 DEF MasterReads, TypeOK
  <1>2. requests'[i] = Tail(q) /\ task'[i] = Head(q).gen + Head(q).duration
    BY <1>0, <1>1 DEF TypeOK
  <1>3. \A j \in Id : j # i => requests'[j] = requests[j] /\ task'[j] = task[j]
    BY <1>0, <1>1 DEF TypeOK
  <1> HIDE DEF q
  <1>4. /\ Head(q) \in Request /\ Head(q) = q[1] /\ 1 \in DOMAIN q /\ Len(q) \in DOMAIN q
        /\ Tail(q) \in Seq(Request) /\ Len(Tail(q)) = Len(q) - 1
        /\ \A n \in DOMAIN Tail(q) : n + 1 \in DOMAIN q /\ Tail(q)[n] = q[n + 1]
    BY <1>1, TailFacts
  <1>5. Len(q) \in Nat /\ Head(q).gen \in Nat /\ Head(q).duration \in Int
    BY <1>1, <1>4 DEF Request
  <1>6. TypeOK'
    <2>1. requests' \in [Id -> Seq(Request)] /\ task' \in [Id -> Int]
      BY <1>0, <1>1, <1>4, <1>5 DEF TypeOK
    <2> QED
      BY <2>1, <1>0, <1>1 DEF TypeOK, appVars
  <1>7. Behind' /\ Listening'
    BY <1>0, <1>1 DEF Behind, Listening, Armed, appVars
  <1>8. TakenInTurn'
    <2>1. ~(i > used)
      BY <1>0, <1>1 DEF TakenInTurn, q
    <2> QED
      BY <2>1, <1>0, <1>1, <1>3 DEF TakenInTurn, Armed, appVars
  <1>9. /\ \A n \in DOMAIN q : q[n].duration = duration[i]
        /\ checkpoint[i] < MaxTime => q[Len(q)].gen > checkpoint[i]
    BY <1>0, <1>1 DEF Asked, q
  <1>10. Tail(q) # << >> => Len(Tail(q)) \in DOMAIN Tail(q) /\ Tail(q)[Len(Tail(q))] = q[Len(q)]
    <2>1. SUFFICES ASSUME Tail(q) # << >>
                   PROVE  Len(Tail(q)) \in DOMAIN Tail(q) /\ Tail(q)[Len(Tail(q))] = q[Len(q)]
      OBVIOUS
    <2>2. Len(Tail(q)) \in DOMAIN Tail(q)
      BY <2>1, <1>4, TailFacts
    <2> QED
      BY <2>2, <1>4, <1>5
  <1>11. Asked'
    <2> SUFFICES ASSUME NEW j \in Id
                 PROVE  /\ \A n \in DOMAIN requests'[j] : requests'[j][n].duration = duration[j]
                        /\ requests'[j] # << >> /\ checkpoint[j] < MaxTime
                             => requests'[j][Len(requests'[j])].gen > checkpoint[j]
      BY <1>1 DEF Asked, appVars
    <2>1. CASE j = i
      <3>1. \A n \in DOMAIN Tail(q) : Tail(q)[n].duration = duration[i]
        BY <1>4, <1>9
      <3>2. Tail(q) # << >> /\ checkpoint[i] < MaxTime => Tail(q)[Len(Tail(q))].gen > checkpoint[i]
        BY <1>9, <1>10
      <3> QED
        BY <2>1, <3>1, <3>2, <1>2
    <2>2. CASE j # i
      BY <2>2, <1>0, <1>3 DEF Asked
    <2> QED
      BY <2>1, <2>2
  <1>12. AlwaysArmed'
    <2> SUFFICES ASSUME NEW j \in Id, Armed(j), checkpoint[j] < MaxTime
                 PROVE  \/ requests'[j] # << >> /\ requests'[j][Len(requests'[j])].gen > checkpoint[j]
                        \/ task'[j] > Deadline(j)
                        \/ \E n \in DOMAIN inbox : inbox[n].kind = Time /\ inbox[n].gen > Deadline(j)
      BY <1>1 DEF AlwaysArmed, Coming, Armed, Deadline, appVars
    <2>1. CASE j = i
      <3>1. CASE Tail(q) # << >>
        BY <2>1, <3>1, <1>2, <1>9, <1>10
      <3>2. CASE Tail(q) = << >>
        <4>1. Len(q) = 1
          <5>1. Len(<< >>) = 0
            OBVIOUS
          <5>2. Len(Tail(q)) = 0
            BY <3>2, <5>1, Zenon
          <5>3. Len(Tail(q)) = Len(q) - 1 /\ Len(q) \in Nat
            BY <1>4, <1>5
          <5> QED
            BY <5>2, <5>3
        <4>2. Head(q).gen > checkpoint[i] /\ Head(q).duration = duration[i]
          BY <4>1, <2>1, <1>4, <1>9
        <4>3. checkpoint[i] \in Nat /\ duration[i] \in Int
          BY <1>0 DEF TypeOK
        <4> QED
          BY <4>2, <4>3, <2>1, <1>2, <1>5 DEF Deadline
      <3> QED
        BY <3>1, <3>2
    <2>2. CASE j # i
      <3>1. requests'[j] = requests[j] /\ task'[j] = task[j]
        BY <2>2, <1>3
      <3>2. Coming(j)
        BY <1>0 DEF AlwaysArmed
      <3> QED
        BY <3>1, <3>2 DEF Coming
    <2> QED
      BY <2>1, <2>2
  <1> QED
    BY <1>6, <1>7, <1>8, <1>11, <1>12 DEF IInv

(* An event is written that the process will read.                         *)
LEMMA Arrives ==
  ASSUME TypeOK, NEW k \in Kinds, inbox' = Append(inbox, [kind |-> k, gen |-> clock])
  PROVE  /\ inbox' \in Seq(Event)
         /\ Len(inbox) + 1 \in DOMAIN inbox' /\ inbox'[Len(inbox) + 1] = [kind |-> k, gen |-> clock]
         /\ \A n \in DOMAIN inbox : n \in DOMAIN inbox' /\ inbox'[n] = inbox[n]
         /\ \A n \in DOMAIN inbox' : n \in DOMAIN inbox \/ inbox'[n].gen = clock
  <1>1. inbox \in Seq(Event) /\ [kind |-> k, gen |-> clock] \in Event
    BY DEF TypeOK, Event
  <1>2. Len(inbox') = Len(inbox) + 1 /\ inbox' \in Seq(Event) /\ Len(inbox) \in Nat
    BY <1>1, AppendFacts
  <1> QED
    BY <1>1, <1>2, AppendFacts

LEMMA MasterAnswersIInv ==
  ASSUME IInv, NEW i \in Id, MasterAnswers(i)
  PROVE  IInv'
  <1> USE TimersAssumption
  <1>0. TypeOK /\ Behind /\ TakenInTurn /\ Asked /\ Listening /\ AlwaysArmed
    BY DEF IInv
  <1>1. /\ task[i] <= clock
        /\ inbox' = Append(inbox, [kind |-> Time, gen |-> clock])
        /\ task' = [task EXCEPT ![i] = None]
        /\ UNCHANGED <<clock, appVars, requests, written>>
    BY DEF MasterAnswers
  <1>2. /\ inbox' \in Seq(Event)
        /\ Len(inbox) + 1 \in DOMAIN inbox' /\ inbox'[Len(inbox) + 1] = [kind |-> Time, gen |-> clock]
        /\ \A n \in DOMAIN inbox : n \in DOMAIN inbox' /\ inbox'[n] = inbox[n]
        /\ \A n \in DOMAIN inbox' : n \in DOMAIN inbox \/ inbox'[n].gen = clock
    BY <1>0, <1>1, Arrives DEF Kinds
  <1>3. TypeOK'
    <2>1. task' \in [Id -> Int]
      BY <1>0, <1>1 DEF TypeOK, None
    <2> QED
      BY <2>1, <1>0, <1>1, <1>2 DEF TypeOK, appVars
  <1>4. Behind'
    BY <1>0, <1>1, <1>2 DEF Behind, appVars, TypeOK
  <1>5. TakenInTurn' /\ Asked' /\ Listening'
    BY <1>0, <1>1 DEF TakenInTurn, Asked, Listening, Armed, appVars
  <1>6. AlwaysArmed'
    <2> SUFFICES ASSUME NEW j \in Id, Armed(j), checkpoint[j] < MaxTime
                 PROVE  \/ requests[j] # << >> /\ requests[j][Len(requests[j])].gen > checkpoint[j]
                        \/ task'[j] > Deadline(j)
                        \/ \E n \in DOMAIN inbox' : inbox'[n].kind = Time /\ inbox'[n].gen > Deadline(j)
      BY <1>1 DEF AlwaysArmed, Coming, Armed, Deadline, appVars
    <2>1. Coming(j)
      BY <1>0 DEF AlwaysArmed
    <2>2. CASE task[j] > Deadline(j)
      <3>1. CASE j = i
        <4>1. clock > Deadline(j)
          <5>1. checkpoint[j] \in Nat /\ duration[j] \in Int /\ task[j] \in Int /\ clock \in Int
            BY <1>0 DEF TypeOK
          <5> QED
            BY <5>1, <3>1, <2>2, <1>1 DEF Deadline
        <4> QED
          BY <4>1, <1>2
      <3>2. CASE j # i
        BY <3>2, <2>2, <1>0, <1>1 DEF TypeOK
      <3> QED
        BY <3>1, <3>2
    <2>3. CASE \E n \in DOMAIN inbox : inbox[n].kind = Time /\ inbox[n].gen > Deadline(j)
      BY <2>3, <1>2
    <2> QED
      BY <2>1, <2>2, <2>3 DEF Coming
  <1> QED
    BY <1>3, <1>4, <1>5, <1>6 DEF IInv

LEMMA OthersWriteIInv == IInv /\ OthersWrite => IInv'
  <1> SUFFICES ASSUME IInv, OthersWrite PROVE IInv'
    OBVIOUS
  <1> USE TimersAssumption
  <1>0. TypeOK /\ Behind /\ TakenInTurn /\ Asked /\ Listening /\ AlwaysArmed
    BY DEF IInv
  <1>1. UNCHANGED <<clock, appVars, requests, task>> /\ written' = written + 1 /\ written < MaxEvents
    BY DEF OthersWrite
  <1>2. PICK k \in Kinds : inbox' = Append(inbox, [kind |-> k, gen |-> clock])
    BY DEF OthersWrite
  <1>3. /\ inbox' \in Seq(Event)
        /\ \A n \in DOMAIN inbox : n \in DOMAIN inbox' /\ inbox'[n] = inbox[n]
        /\ \A n \in DOMAIN inbox' : n \in DOMAIN inbox \/ inbox'[n].gen = clock
    BY <1>0, <1>2, Arrives
  <1>4. TypeOK'
    <2>1. written' \in 0 .. MaxEvents
      BY <1>0, <1>1 DEF TypeOK
    <2>2. UNCHANGED <<clock, now, used, kind, src, duration, checkpoint, status, heard, asked, fires,
                      requests, task>>
      BY <1>1 DEF appVars
    <2> QED
      BY <2>1, <2>2, <1>0, <1>3 DEF TypeOK
  <1>5. Behind'
    <2>1. clock \in Int /\ clock' = clock /\ now' = now
      BY <1>0, <1>1 DEF TypeOK, appVars
    <2>2. \A n \in DOMAIN inbox' : inbox'[n].gen <= clock
      BY <2>1, <1>0, <1>3 DEF Behind
    <2> QED
      BY <2>1, <2>2, <1>0 DEF Behind
  <1>6. TakenInTurn' /\ Asked' /\ Listening'
    BY <1>0, <1>1 DEF TakenInTurn, Asked, Listening, Armed, appVars
  <1>7. AlwaysArmed'
    BY <1>0, <1>1, <1>3 DEF AlwaysArmed, Coming, Armed, Deadline, appVars
  <1> QED
    BY <1>4, <1>5, <1>6, <1>7 DEF IInv

LEMMA TickIInv == IInv /\ Tick => IInv'
  <1> SUFFICES ASSUME IInv, Tick PROVE IInv'
    OBVIOUS
  <1> USE TimersAssumption
  <1>0. TypeOK /\ Behind /\ TakenInTurn /\ Asked /\ Listening /\ AlwaysArmed
    BY DEF IInv
  <1>1. /\ clock < MaxTime /\ clock' = clock + 1
        /\ UNCHANGED <<appVars, requests, task, inbox, written>>
    BY DEF Tick
  <1>2. TypeOK'
    BY <1>0, <1>1 DEF TypeOK, appVars
  <1>3. Behind'
    <2>1. clock \in Int /\ now \in Int
      BY <1>0 DEF TypeOK
    <2>2. \A n \in DOMAIN inbox : inbox[n].gen \in Int
      <3>1. inbox \in Seq(Event)
        BY <1>0 DEF TypeOK
      <3>2. \A n \in DOMAIN inbox : inbox[n] \in Event
        BY <3>1
      <3> QED
        BY <3>2 DEF Event
    <2> QED
      BY <2>1, <2>2, <1>0, <1>1 DEF Behind, appVars
  <1>4. TakenInTurn' /\ Asked' /\ Listening' /\ AlwaysArmed'
    BY <1>0, <1>1 DEF TakenInTurn, Asked, Listening, AlwaysArmed, Coming, Armed, Deadline, appVars
  <1> QED
    BY <1>2, <1>3, <1>4 DEF IInv

LEMMA StutterIInv == IInv /\ UNCHANGED vars => IInv'
  BY DEF IInv, TypeOK, Behind, TakenInTurn, Asked, Listening, AlwaysArmed, Coming, Armed, Deadline,
         vars, appVars

LEMMA NextIInv == IInv /\ [Next]_vars => IInv'
  <1> SUFFICES ASSUME IInv, [Next]_vars PROVE IInv'
    OBVIOUS
  <1>1. CASE AddTimer \/ AddInterval \/ AddTimeout
    BY <1>1, Added, AddIInv DEF IInv
  <1>2. CASE AppStep
    BY <1>2, AppStepIInv
  <1>3. CASE \E i \in Id : MasterReads(i) \/ MasterAnswers(i)
    BY <1>3, MasterReadsIInv, MasterAnswersIInv
  <1>4. CASE OthersWrite
    BY <1>4, OthersWriteIInv
  <1>5. CASE Tick
    BY <1>5, TickIInv
  <1>6. CASE UNCHANGED vars
    BY <1>6, StutterIInv
  <1> QED
    BY <1>1, <1>2, <1>3, <1>4, <1>5, <1>6 DEF Next

(* The inductive invariant holds of every behaviour.                       *)
THEOREM Invariance == Spec => []IInv
  <1>1. Init => IInv
    BY InitIInv
  <1>2. IInv /\ [Next]_vars => IInv'
    BY NextIInv
  <1> QED
    BY <1>1, <1>2, PTL DEF Spec

(* Types; only a one-shot timer ends by firing, only a timeout by raising. *)
THEOREM TypeCorrect == Spec => []TypeOK
  <1>1. IInv => TypeOK
    BY DEF IInv
  <1> QED
    BY <1>1, Invariance, PTL

(* No armed timer is forgotten: a tick that is late enough to serve it is  *)
(* always on its way (apprentice::timer, time_interval, timeout).          *)
THEOREM NoneForgotten == Spec => []AlwaysArmed
  <1>1. IInv => AlwaysArmed
    BY DEF IInv
  <1> QED
    BY <1>1, Invariance, PTL

(* What a step may do to a timer, given the invariant.                     *)
LEMMA Timely ==
  ASSUME IInv, [Next]_vars, NEW i \in Id, Armed(i)
  PROVE  /\ status'[i] = "timed_out" => now' - heard[i] > duration[i]
         /\ heard'[i] # heard[i] => status'[i] = "armed"
  <1> USE TimersAssumption
  <1>0. TypeOK /\ TakenInTurn /\ Listening
    BY DEF IInv
  <1>1. CASE AddTimer \/ AddInterval \/ AddTimeout
    <2>1. PICK k \in {"timer", "interval", "timeout"}, d \in Int, s \in SUBSET Kinds : Add(k, d, s)
      BY <1>0, <1>1, Added
    <2>2. i # used + 1
      BY <1>0 DEF TakenInTurn, Armed, TypeOK, Id
    <2>3. checkpoint'[i] = checkpoint[i] /\ status'[i] = status[i] /\ heard'[i] = heard[i]
      BY <2>1, <2>2, <1>0 DEF Add, TypeOK
    <2> QED
      BY <2>3 DEF Armed
  <1>2. CASE AppStep
    <2> DEFINE e == Head(inbox)
    <2>1. /\ ~Rearms(i, e) => checkpoint'[i] = checkpoint[i]
          /\ status'[i] = NextStatus(i, e)
          /\ heard'[i] = IF Passes(i, e) THEN e.gen ELSE heard[i]
          /\ now' = e.gen
      BY <1>0, <1>2, StepOfOne DEF AppStep
    <2>2. checkpoint[i] \in Int /\ duration[i] \in Int /\ heard[i] \in Int /\ e.gen \in Int
      <3>1. inbox \in Seq(Event) /\ inbox # << >>
        BY <1>0, <1>2 DEF TypeOK, AppStep
      <3>2. e \in Event
        BY <3>1, TailFacts
      <3> QED
        BY <3>2, <1>0 DEF TypeOK, Event
    <2> HIDE DEF e
    <2>4. Passes(i, e) => ~Throws(i, e) /\ ~TimerFires(i, e)
      BY <2>2, <1>0 DEF Passes, Throws, TimerFires, Late, Listening
    <2>5. ASSUME status'[i] = "timed_out"
          PROVE  now' - heard[i] > duration[i]
      <3>1. Throws(i, e)
        BY <2>1, <2>5 DEF NextStatus
      <3>2. Late(i, e, checkpoint[i]) /\ heard[i] = checkpoint[i]
        BY <3>1, <2>4, <1>0 DEF Throws, Listening
      <3> QED
        BY <3>2, <2>1, <2>2 DEF Late
    <2>6. heard'[i] # heard[i] => status'[i] = "armed"
      BY <2>1, <2>4 DEF NextStatus
    <2> QED
      BY <2>5, <2>6
  <1>3. CASE \/ \E j \in Id : MasterReads(j) \/ MasterAnswers(j)
             \/ OthersWrite \/ Tick \/ UNCHANGED vars
    <2>1. UNCHANGED appVars
      BY <1>3 DEF MasterReads, MasterAnswers, OthersWrite, Tick, vars
    <2> QED
      BY <2>1 DEF appVars, Armed
  <1> QED
    BY <1>1, <1>2, <1>3 DEF Next

(* A timeout is raised only after its source was silent for its duration.  *)
THEOREM SilentBefore == Spec => TimeoutMeansSilence
  <1>1. IInv /\ [Next]_vars =>
          [\A i \in Id : Armed(i) /\ status'[i] = "timed_out" => now' - heard[i] > duration[i]]_vars
    BY Timely
  <1> QED
    BY <1>1, Invariance, PTL DEF Spec, TimeoutMeansSilence

(* The event a timeout's source was waiting for never raises it.           *)
THEOREM LateAnswerWins == Spec => AnswerWins
  <1>1. IInv /\ [Next]_vars =>
          [\A i \in Id : (Armed(i) /\ heard'[i] # heard[i]) => status'[i] = "armed"]_vars
    BY Timely
  <1> QED
    BY <1>1, Invariance, PTL DEF Spec, AnswerWins

-----------------------------------------------------------------------------
(* How often timers fire.  Events are handled in the order of their times. *)
InOrder ==
  /\ \A n \in DOMAIN inbox : now <= inbox[n].gen
  /\ \A m, n \in DOMAIN inbox : m <= n => inbox[m].gen <= inbox[n].gen

(* The fires of an interval fit between when it was asked for and its      *)
(* checkpoint; a one-shot timer counts from when it was asked for, and     *)
(* fires once.                                                             *)
Spaced ==
  \A i \in Id :
    /\ asked[i] <= checkpoint[i] /\ checkpoint[i] <= now
    /\ i > used => fires[i] = 0 /\ kind[i] = "unused"
    /\ kind[i] = "interval" => fires[i] * (duration[i] + 1) <= checkpoint[i] - asked[i]
    /\ kind[i] = "timer" =>
         /\ Armed(i) => fires[i] = 0 /\ checkpoint[i] = asked[i]
         /\ fires[i] = 0 \/ (fires[i] = 1 /\ duration[i] < now - asked[i])

Paced == InOrder /\ Spaced

LEMMA OneMore ==
  ASSUME NEW a \in Int, NEW b \in Int
  PROVE  (a + 1) * b = a * b + b /\ a * b \in Int /\ 0 * b = 0 /\ 1 * b = b
  OBVIOUS

LEMMA InitPaced == Init => Paced
  BY TimersAssumption, OneMore DEF Init, Paced, InOrder, Spaced, Armed, Id

(* Fires are counted from where they are and from what the checkpoint is.  *)
LEMMA PacedMeans == TypeOK /\ Spaced => NeverTooOften
  <1> SUFFICES ASSUME TypeOK, Spaced, NEW i \in Id, kind[i] \in {"timer", "interval"}
               PROVE  fires[i] * (duration[i] + 1) <= now - asked[i]
    BY DEF NeverTooOften
  <1>1. /\ fires[i] \in Int /\ duration[i] + 1 \in Int /\ duration[i] \in Int
        /\ now \in Int /\ asked[i] \in Int /\ checkpoint[i] \in Int
    BY DEF TypeOK
  <1>2. fires[i] * (duration[i] + 1) \in Int
    BY <1>1, OneMore
  <1>3. asked[i] <= checkpoint[i] /\ checkpoint[i] <= now
    BY DEF Spaced
  <1>4. CASE kind[i] = "interval"
    <2>1. fires[i] * (duration[i] + 1) <= checkpoint[i] - asked[i]
      BY <1>4 DEF Spaced
    <2> HIDE <1>4
    <2> QED
      BY <1>1, <1>2, <1>3, <2>1
  <1>5. CASE kind[i] = "timer"
    <2>1. fires[i] = 0 \/ (fires[i] = 1 /\ duration[i] < now - asked[i])
      BY <1>5 DEF Spaced
    <2>2. 0 * (duration[i] + 1) = 0 /\ 1 * (duration[i] + 1) = duration[i] + 1
      BY <1>1, OneMore
    <2> QED
      BY <1>1, <1>3, <2>1, <2>2
  <1> QED
    BY <1>4, <1>5

LEMMA AddPaced ==
  ASSUME IInv, Paced, NEW k \in {"timer", "interval", "timeout"}, NEW d \in Int,
         NEW s \in SUBSET Kinds, Add(k, d, s)
  PROVE  Paced'
  <1> DEFINE i == used + 1
  <1>0. TypeOK /\ InOrder /\ Spaced
    BY DEF IInv, Paced
  <1>1. i \in Id /\ used' = i /\ fires[i] = 0 /\ now \in Nat /\ used \in Nat
    <2>1. i \in Id /\ used' = i /\ now \in Nat /\ used \in Nat
      BY <1>0, TimersAssumption DEF Add, TypeOK, Id
    <2> QED
      BY <2>1, <1>0 DEF Spaced
  <1>2. /\ kind' = [kind EXCEPT ![i] = k] /\ duration' = [duration EXCEPT ![i] = d]
        /\ checkpoint' = [checkpoint EXCEPT ![i] = now] /\ asked' = [asked EXCEPT ![i] = now]
        /\ status' = [status EXCEPT ![i] = "armed"]
        /\ UNCHANGED <<now, fires, inbox>>
    BY <1>1 DEF Add
  <1> HIDE DEF i
  <1>3. InOrder'
    BY <1>0, <1>2 DEF InOrder
  <1>4. Spaced'
    <2> SUFFICES ASSUME NEW j \in Id
                 PROVE  /\ asked'[j] <= checkpoint'[j] /\ checkpoint'[j] <= now'
                        /\ j > used' => fires'[j] = 0 /\ kind'[j] = "unused"
                        /\ kind'[j] = "interval" =>
                             fires'[j] * (duration'[j] + 1) <= checkpoint'[j] - asked'[j]
                        /\ kind'[j] = "timer" =>
                             /\ status'[j] = "armed" => fires'[j] = 0 /\ checkpoint'[j] = asked'[j]
                             /\ fires'[j] = 0 \/ (fires'[j] = 1 /\ duration'[j] < now' - asked'[j])
      BY DEF Spaced, Armed
    <2>1. CASE j = i
      <3>1. checkpoint'[j] = now /\ asked'[j] = now /\ fires'[j] = 0 /\ duration'[j] = d /\ now' = now
        BY <2>1, <1>0, <1>1, <1>2 DEF TypeOK
      <3>2. 0 * (d + 1) = 0
        BY OneMore
      <3>3. ~(j > used')
        BY <2>1, <1>1 DEF Id
      <3> QED
        BY <3>1, <3>2, <3>3, <1>1
    <2>2. CASE j # i
      <3>1. /\ checkpoint'[j] = checkpoint[j] /\ asked'[j] = asked[j] /\ fires'[j] = fires[j]
            /\ duration'[j] = duration[j] /\ kind'[j] = kind[j] /\ status'[j] = status[j] /\ now' = now
        BY <2>2, <1>0, <1>2 DEF TypeOK
      <3>2. j > used' => j > used
        BY <1>1 DEF Id, i
      <3> QED
        BY <3>1, <3>2, <1>0 DEF Spaced, Armed
    <2> QED
      BY <2>1, <2>2
  <1> QED
    BY <1>3, <1>4 DEF Paced

LEMMA AppStepPaced == IInv /\ Paced /\ AppStep => Paced'
  <1> SUFFICES ASSUME IInv, Paced, AppStep PROVE Paced'
    OBVIOUS
  <1> DEFINE e == Head(inbox)
  <1>0. TypeOK /\ InOrder /\ Spaced
    BY DEF IInv, Paced
  <1>1. inbox \in Seq(Event) /\ inbox # << >> /\ inbox' = Tail(inbox) /\ now' = e.gen
    BY <1>0 DEF AppStep, TypeOK
  <1>2. /\ e \in Event /\ e = inbox[1] /\ 1 \in DOMAIN inbox
        /\ \A n \in DOMAIN inbox' : n + 1 \in DOMAIN inbox /\ inbox'[n] = inbox[n + 1]
    BY <1>1, TailFacts
  <1>3. DOMAIN inbox \subseteq Nat \ {0} /\ DOMAIN inbox' \subseteq Nat \ {0}
    BY <1>1
  <1>4. e.gen \in Nat /\ now \in Nat /\ now <= e.gen
    BY <1>0, <1>2 DEF TypeOK, InOrder, Event
  <1>5. InOrder'
    <2>1. ASSUME NEW n \in DOMAIN inbox' PROVE e.gen <= inbox'[n].gen
      BY <1>0, <1>2, <1>3 DEF InOrder
    <2>2. ASSUME NEW m \in DOMAIN inbox', NEW n \in DOMAIN inbox', m <= n
          PROVE  inbox'[m].gen <= inbox'[n].gen
      <3>1. m + 1 \in DOMAIN inbox /\ n + 1 \in DOMAIN inbox /\ m + 1 <= n + 1
        BY <1>2, <1>3, <2>2
      <3> QED
        BY <3>1, <1>0, <1>2 DEF InOrder
    <2> QED
      BY <1>1, <2>1, <2>2 DEF InOrder
  <1>6. Spaced'
    <2> SUFFICES ASSUME NEW j \in Id
                 PROVE  /\ asked'[j] <= checkpoint'[j] /\ checkpoint'[j] <= now'
                        /\ j > used' => fires'[j] = 0 /\ kind'[j] = "unused"
                        /\ kind'[j] = "interval" =>
                             fires'[j] * (duration'[j] + 1) <= checkpoint'[j] - asked'[j]
                        /\ kind'[j] = "timer" =>
                             /\ status'[j] = "armed" => fires'[j] = 0 /\ checkpoint'[j] = asked'[j]
                             /\ fires'[j] = 0 \/ (fires'[j] = 1 /\ duration'[j] < now' - asked'[j])
      BY DEF Spaced, Armed
    <2>1. /\ Armed(j) /\ Rearms(j, e) => checkpoint'[j] = e.gen
          /\ ~(Armed(j) /\ Rearms(j, e)) => checkpoint'[j] = checkpoint[j]
          /\ status'[j] = IF Armed(j) THEN NextStatus(j, e) ELSE status[j]
          /\ fires'[j] = IF Armed(j) /\ (TimerFires(j, e) \/ IntervalFires(j, e))
                           THEN fires[j] + 1 ELSE fires[j]
          /\ duration'[j] = duration[j] /\ kind'[j] = kind[j]
      BY <1>0, StepOfOne
    <2>2. used' = used /\ asked'[j] = asked[j]
      BY DEF AppStep
    <2>3. /\ asked[j] \in Nat /\ checkpoint[j] \in Nat /\ fires[j] \in Nat /\ duration[j] \in Int
          /\ asked[j] <= checkpoint[j] /\ checkpoint[j] <= now
          /\ j > used => fires[j] = 0 /\ kind[j] = "unused"
      BY <1>0 DEF TypeOK, Spaced
    <2> HIDE DEF e
    <2>4. asked'[j] <= checkpoint'[j] /\ checkpoint'[j] <= now'
      BY <1>1, <1>4, <2>1, <2>2, <2>3 DEF e
    <2>5. j > used' => fires'[j] = 0 /\ kind'[j] = "unused"
      BY <2>1, <2>2, <2>3 DEF TimerFires, IntervalFires
    <2>6. ASSUME kind[j] = "interval"
          PROVE  fires'[j] * (duration[j] + 1) <= checkpoint'[j] - asked[j]
      <3>1. fires[j] * (duration[j] + 1) <= checkpoint[j] - asked[j]
        BY <1>0, <2>6 DEF Spaced
      <3>2. CASE Armed(j) /\ IntervalFires(j, e)
        <4>1. checkpoint'[j] = e.gen /\ fires'[j] = fires[j] + 1 /\ e.gen > checkpoint[j] + duration[j]
          BY <2>1, <3>2 DEF Rearms, IntervalFires, Late
        <4> DEFINE b == duration[j] + 1
        <4>2. (fires[j] + 1) * b = fires[j] * b + b /\ fires[j] * b \in Int /\ b \in Int
          BY <2>3, OneMore
        <4>3. fires[j] * b <= checkpoint[j] - asked[j] /\ b = duration[j] + 1
          BY <3>1
        <4> HIDE DEF b
        <4>4. fires[j] * b + b <= e.gen - asked[j]
          BY <4>1, <4>2, <4>3, <2>3, <1>4
        <4> QED
          BY <4>1, <4>2, <4>4 DEF b
      <3>3. CASE ~(Armed(j) /\ IntervalFires(j, e))
        <4>1. checkpoint'[j] = checkpoint[j] /\ fires'[j] = fires[j]
          BY <2>1, <2>6, <3>3 DEF Rearms, Passes, TimerFires
        <4> QED
          BY <3>1, <4>1
      <3> QED
        BY <3>2, <3>3
    <2>7. ASSUME kind[j] = "timer"
          PROVE  /\ status'[j] = "armed" => fires'[j] = 0 /\ checkpoint'[j] = asked[j]
                 /\ fires'[j] = 0 \/ (fires'[j] = 1 /\ duration[j] < now' - asked[j])
      <3>1. /\ Armed(j) => fires[j] = 0 /\ checkpoint[j] = asked[j]
            /\ fires[j] = 0 \/ (fires[j] = 1 /\ duration[j] < now - asked[j])
        BY <1>0, <2>7 DEF Spaced
      <3>2. checkpoint'[j] = checkpoint[j] /\ ~IntervalFires(j, e)
        BY <2>1, <2>7 DEF Rearms, Passes, IntervalFires
      <3>3. CASE Armed(j) /\ TimerFires(j, e)
        <4>1. fires'[j] = fires[j] + 1 /\ status'[j] = "done" /\ e.gen > checkpoint[j] + duration[j]
          BY <2>1, <2>7, <3>3 DEF NextStatus, Throws, TimerFires, Late
        <4> QED
          BY <4>1, <3>1, <3>3, <2>3, <1>1, <1>4 DEF e
      <3>4. CASE ~(Armed(j) /\ TimerFires(j, e))
        <4>1. fires'[j] = fires[j] /\ (status'[j] = "armed" => Armed(j))
          BY <2>1, <3>2, <3>4 DEF Armed
        <4> QED
          BY <4>1, <3>1, <3>2, <2>3, <1>1, <1>4 DEF e
      <3> QED
        BY <3>3, <3>4
    <2> QED
      BY <2>1, <2>2, <2>4, <2>5, <2>6, <2>7
  <1> QED
    BY <1>5, <1>6 DEF Paced

(* A new event is not older than those that wait, or than now().           *)
LEMMA ArrivesPaced ==
  ASSUME IInv, Paced, NEW k \in Kinds, inbox' = Append(inbox, [kind |-> k, gen |-> clock]),
         UNCHANGED appVars
  PROVE  Paced'
  <1>0. TypeOK /\ Behind /\ InOrder /\ Spaced
    BY DEF IInv, Paced
  <1>1. inbox \in Seq(Event) /\ [kind |-> k, gen |-> clock] \in Event /\ now' = now
    BY <1>0 DEF TypeOK, Event, appVars
  <1>2. /\ Len(inbox') = Len(inbox) + 1 /\ Len(inbox) \in Nat
        /\ DOMAIN inbox = 1 .. Len(inbox) /\ DOMAIN inbox' = 1 .. Len(inbox')
        /\ \A n \in DOMAIN inbox : inbox'[n] = inbox[n]
        /\ inbox'[Len(inbox) + 1].gen = clock
    BY <1>1, AppendFacts
  <1>3. clock \in Nat /\ now <= clock /\ \A n \in DOMAIN inbox : inbox[n].gen <= clock
    BY <1>0 DEF TypeOK, Behind
  <1>4. \A n \in DOMAIN inbox' : n \in DOMAIN inbox \/ n = Len(inbox) + 1
    BY <1>2
  <1>5. InOrder'
    <2>1. \A n \in DOMAIN inbox' : now <= inbox'[n].gen
      BY <1>0, <1>2, <1>3, <1>4 DEF InOrder
    <2>2. ASSUME NEW m \in DOMAIN inbox', NEW n \in DOMAIN inbox', m <= n
          PROVE  inbox'[m].gen <= inbox'[n].gen
      <3>1. CASE n \in DOMAIN inbox
        <4>1. m \in DOMAIN inbox
          BY <1>2, <2>2, <3>1
        <4> QED
          BY <4>1, <3>1, <2>2, <1>0, <1>2 DEF InOrder
      <3>2. CASE n = Len(inbox) + 1
        <4>1. inbox'[n].gen = clock /\ inbox'[m].gen <= clock
          BY <3>2, <1>2, <1>3, <1>4
        <4> QED
          BY <4>1
      <3> QED
        BY <1>4, <3>1, <3>2
    <2> QED
      BY <1>1, <2>1, <2>2 DEF InOrder
  <1>6. Spaced'
    BY <1>0 DEF Spaced, Armed, appVars
  <1> QED
    BY <1>5, <1>6 DEF Paced

LEMMA NextPaced == IInv /\ Paced /\ [Next]_vars => Paced'
  <1> SUFFICES ASSUME IInv, Paced, [Next]_vars PROVE Paced'
    OBVIOUS
  <1>1. CASE AddTimer \/ AddInterval \/ AddTimeout
    BY <1>1, Added, AddPaced DEF IInv
  <1>2. CASE AppStep
    BY <1>2, AppStepPaced
  <1>3. ASSUME NEW i \in Id, MasterAnswers(i) PROVE Paced'
    BY <1>3, ArrivesPaced DEF MasterAnswers, Kinds
  <1>4. CASE OthersWrite
    <2>1. PICK k \in Kinds : inbox' = Append(inbox, [kind |-> k, gen |-> clock])
      BY <1>4 DEF OthersWrite
    <2> QED
      BY <2>1, <1>4, ArrivesPaced DEF OthersWrite
  <1>5. CASE UNCHANGED <<appVars, inbox>>
    BY <1>5 DEF Paced, InOrder, Spaced, Armed, appVars
  <1> QED
    BY <1>1, <1>2, <1>3, <1>4, <1>5 DEF Next, MasterReads, Tick, vars

(* An interval fires at most once per duration since it was asked for, and *)
(* a one-shot timer not before its delay is over, whatever Time events the *)
(* other timers attract (apprentice::timer, time_interval).                *)
THEOREM NotTooOften == Spec => []NeverTooOften
  <1>1. Init => Paced
    BY InitPaced
  <1>2. IInv /\ Paced /\ [Next]_vars => Paced'
    BY NextPaced
  <1>3. IInv /\ Paced => NeverTooOften
    BY PacedMeans DEF IInv, Paced
  <1> QED
    BY <1>1, <1>2, <1>3, Invariance, PTL DEF Spec
===============================================================================

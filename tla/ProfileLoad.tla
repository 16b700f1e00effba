----------------------------- MODULE ProfileLoad -----------------------------
(***************************************************************************)
(* Sending everything a profile holds to a receiver                        *)
(* (yijinjing/cache/cached.h, profile_get_all), type after type, while     *)
(* another process writes the same database (practice/profile.h).  A query *)
(* or the receiver may throw in the middle; the type is then begun again,  *)
(* up to MaxTries times, and passed over after that.                       *)
(*                                                                         *)
(* A row is a version of a key, 0 before it is written; a removed row is   *)
(* its last version negated, and may be written again.  The receiver, a    *)
(* bank, keeps the last version sent for each key.                         *)
(***************************************************************************)
EXTENDS Integers, Sequences

CONSTANTS ProfileDataTypes,  \* in the order of the map
          Keys,              \* the primary keys of each
          MaxTries,          \* how often a type is tried: 10 in the code
          MaxChanges         \* bound: what the other process writes and removes
ASSUME LoadAssumption ==
  /\ ProfileDataTypes \in Seq(STRING) \ {<< >>}
  /\ MaxTries \in Nat \ {0} /\ MaxChanges \in Nat

VARIABLES
  stored,     \* the tables of the database, shared with the writer
  changes,    \* how many of its rows were written or removed since the load began
  received,   \* the rows of the receiver
  at,         \* position of the type being sent, past the end when done
  tries,      \* get_all_count
  rows,       \* what profile.get_all returned
  unsent,     \* keys of rows still to be sent; the loop is inside the try block
  pc,
  before,     \* history: the table of the type when its turn came
  gone,       \* history: the rows of the type removed since
  passedOver  \* history: the types given up
database == <<stored, changes>>
load == <<received, at, tries, rows, unsent, pc, before, gone, passedOver>>
loadVars == <<database, load>>

Tables == [Keys -> Int]
Positions == 1 .. Len(ProfileDataTypes)

\* What the variables range over; LoadedIsComplete and ResendIsNotOlder rely on it
LoadTypeOK ==
  /\ stored \in [Positions -> Tables] /\ changes \in 0 .. MaxChanges
  /\ received \in [Positions -> Tables]
  /\ at \in 1 .. Len(ProfileDataTypes) + 1 /\ tries \in 0 .. MaxTries
  /\ {rows, before} \subseteq Tables
  /\ unsent \subseteq Keys /\ gone \subseteq Keys
  /\ passedOver \subseteq Positions
  /\ pc \in {"query", "send", "done"}

Empty == [k \in Keys |-> 0]

LoadInit ==
  /\ stored \in [Positions -> [Keys -> {0, 1}]] /\ changes = 0
  /\ received = [t \in Positions |-> Empty]
  /\ at = 1 /\ tries = 0 /\ rows = Empty /\ unsent = {} /\ pc = "query"
  /\ before = stored[1] /\ gone = {} /\ passedOver = {}

\* for_each goes to the next type
NextType ==
  /\ at' = at + 1 /\ tries' = 0 /\ rows' = Empty /\ unsent' = {} /\ gone' = {}
  /\ IF at = Len(ProfileDataTypes)
     THEN pc' = "done" /\ before' = Empty
     ELSE pc' = "query" /\ before' = stored[at + 1]

\* get_all_count++ < 10
Again == tries < MaxTries

\* The turn of a type that has been tried often enough ends in silence
GiveUp ==
  /\ pc = "query" /\ ~Again
  /\ passedOver' = passedOver \cup {at}
  /\ NextType
  /\ UNCHANGED <<database, received>>

\* What a further try sends: the query is inside the loop
Answer_OfFirstTry == IF tries = 0 THEN stored[at] ELSE before
Answer == stored[at]

GetAll ==
  /\ pc = "query" /\ Again
  /\ tries' = tries + 1
  /\ rows' = Answer
  /\ unsent' = {k \in Keys : Answer[k] > 0}
  /\ pc' = "send"
  /\ UNCHANGED <<database, received, at, before, gone, passedOver>>

GetAllThrows ==
  /\ pc = "query" /\ Again
  /\ tries' = tries + 1
  /\ UNCHANGED <<database, received, at, rows, unsent, pc, before, gone, passedOver>>

\* receiver << state
Send(k) ==
  /\ pc = "send" /\ k \in unsent
  /\ received' = [received EXCEPT ![at][k] = rows[k]]
  /\ unsent' = unsent \ {k}
  /\ UNCHANGED <<database, at, tries, rows, pc, before, gone, passedOver>>

\* The exception is caught and logged; get_all_count stays as it was counted
Retried_Anew == 0
Retried == tries

SendThrows ==
  /\ pc = "send" /\ unsent # {}
  /\ pc' = "query" /\ unsent' = {} /\ rows' = Empty
  /\ tries' = Retried
  /\ UNCHANGED <<database, received, at, before, gone, passedOver>>

\* When the loop breaks out: every row has been sent
AllSent_OneShort == \E k \in Keys : unsent \subseteq {k}
AllSent == unsent = {}

Break ==
  /\ pc = "send" /\ AllSent
  /\ NextType
  /\ UNCHANGED <<database, received, passedOver>>

\* The last version a row had, removed or not
LastVersion(row) == IF row < 0 THEN -row ELSE row

\* profile::set, operator<< in the process that owns the profile: replace, which
\* inserts a row that is not there
Set(t, k) ==
  /\ pc # "done" /\ changes < MaxChanges
  /\ changes' = changes + 1
  /\ stored' = [stored EXCEPT ![t][k] = LastVersion(@) + 1]
  /\ UNCHANGED load

\* profile::remove
RemoveRow(t, k) ==
  /\ pc # "done" /\ changes < MaxChanges /\ stored[t][k] > 0
  /\ changes' = changes + 1
  /\ stored' = [stored EXCEPT ![t][k] = -@]
  /\ gone' = IF t = at THEN gone \cup {k} ELSE gone
  /\ UNCHANGED <<received, at, tries, rows, unsent, pc, before, passedOver>>

LoadStep == GiveUp \/ GetAll \/ GetAllThrows \/ (\E k \in Keys : Send(k)) \/ SendThrows \/ Break

LoadNext ==
  \/ LoadStep
  \/ \E t \in Positions, k \in Keys : Set(t, k) \/ RemoveRow(t, k)
  \/ (pc = "done" /\ UNCHANGED loadVars)

LoadSpec == LoadInit /\ [][LoadNext]_loadVars
\* The loop runs on its own thread and waits for nobody
FairLoadSpec == LoadSpec /\ WF_loadVars(LoadStep)

-----------------------------------------------------------------------------

\* When a type's turn ends with a break, every row that was there when it began,
\* and was not removed in the meantime, has been received in that version or a
\* newer one: a try that failed in the middle cost nothing.
LoadedIsComplete ==
  [][at' # at /\ passedOver' = passedOver =>
       \A k \in Keys \ gone : before[k] > 0 => received[at][k] >= before[k]]_loadVars

\* Sending again after a failure never takes the receiver back to an older row.
ResendIsNotOlder ==
  [][\A t \in Positions, k \in Keys : received'[t][k] >= received[t][k]]_loadVars

\* However often the database or the receiver fails, the load comes to an end.
LoadEnds == <>(pc = "done")
===============================================================================

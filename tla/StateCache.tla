------------------------------ MODULE StateCache ------------------------------
(***************************************************************************)
(* How the state a location publishes survives restarts:                   *)
(*   - the cached service gathers state events in feed_bank_, one per uid  *)
(*     (yijinjing/cache/runtime.h, class bank; common.h, data::uid);       *)
(*   - it moves them one at a time to the location's storages, one         *)
(*     database per dest (yijinjing/cache/backend.h, class shift), and     *)
(*     clears them on request;                                             *)
(*   - another process that starts restores the storages into its own bank *)
(*     with a shift of its own (shift >> bank), one query per storage and  *)
(*     type, while the cached service goes on writing.                     *)
(*                                                                         *)
(* A stream is one object the location publishes to one dest.  A key is    *)
(* the sequence of its primary key fields; the hash of a field is a set of *)
(* bits and exclusive or the symmetric difference.  Versions number the    *)
(* states published on a stream; `born` is the day of its timestamp field  *)
(* (an order's insert_time), which later states of the object keep.        *)
(***************************************************************************)
EXTENDS Integers, Sequences, SequencesExt, FiniteSets

CONSTANTS Dests,
          Streams,     \* records [dest, type, key]
          Timed,       \* the types with has_timestamp
          MaxVersion, MaxDay, MaxFaults   \* bounds; faults are crashes and resets

VARIABLES feed,      \* feed_bank_: rows waiting, by <<type, uid>>
          disk,      \* disk[dest]: the rows of a storage, by <<type, key>>
          files,     \* the dests whose database exists
          opened,    \* storage_map_ of the cached service's shift
          born,      \* the day of each stream's timestamp, 0 if it has none yet
          version,   \* history: the last state published on each stream
          lost,      \* history: the streams whose last state was cleared, or died in feed_bank_
          today,
          rpc,       \* the restoring process: "off", "restoring" or "on"
          pending,   \* the <<type, dest>> pairs it has still to query
          bank,      \* the bank it restores into
          owed,      \* history: the rows stored when it began, not cleared since
          startDay,  \* history: the day it began
          faults

cachedVars == <<feed, disk, files, opened, born, version, lost>>
readerVars == <<rpc, pending, bank, startDay>>
vars == <<cachedVars, readerVars, owed, today, faults>>

Types == {s.type : s \in Streams}
NoRows == [k \in {} |-> 0]
Xor(a, b) == (a \ b) \cup (b \ a)
\* data::uid: the exclusive or of the hashes of the primary key fields
Uid(key) == FoldLeft(Xor, Head(key), Tail(key))

ASSUME StreamsAssumption ==
  \A s \in Streams : s = [dest |-> s.dest, type |-> s.type, key |-> s.key] /\ s.dest \in Dests

\* No two streams of a type have keys that hash alike.  That includes two dests
\* for the same key, and the keys <<a, b>> and <<b, a>>: with either, bank keeps
\* one of the two objects, whichever came last.
ASSUME UidsTellApart ==
  \A s, t \in Streams : s # t /\ s.type = t.type => Uid(s.key) # Uid(t.key)

\* operator<<: unordered_map::insert_or_assign, and storage->replace
Put(rows, k, row) == [x \in DOMAIN rows \cup {k} |-> IF x = k THEN row ELSE rows[x]]
Put_KeepFirst(rows, k, row) == [x \in DOMAIN rows \cup {k} |-> IF x \in DOMAIN rows THEN rows[x] ELSE row]
Without(rows, gone) == [x \in DOMAIN rows \ gone |-> rows[x]]

Init ==
  /\ feed = NoRows
  /\ disk = [d \in Dests |-> NoRows]
  /\ files = {} /\ opened = {}
  /\ born = [s \in Streams |-> 0]
  /\ version = [s \in Streams |-> 0]
  /\ lost = {}
  /\ today = 1
  /\ rpc = "off" /\ pending = {} /\ bank = NoRows
  /\ owed = {} /\ startDay = 1
  /\ faults = 0

\* State v of stream s is in its storage; it waits in feed_bank_.
Stored(s, v) ==
  <<s.type, s.key>> \in DOMAIN disk[s.dest] /\ disk[s.dest][<<s.type, s.key>>].ver = v
Waiting(s, v) ==
  \E u \in DOMAIN feed : feed[u].stream = s /\ feed[u].ver = v

-----------------------------------------------------------------------------
(* The cached service                                                        *)

\* bank::operator<<(typed_event_ptr): the location published a state of s
BankPut_KeepFirst(s, row) == feed' = Put_KeepFirst(feed, <<s.type, Uid(s.key)>>, row)
BankPut(s, row) == feed' = Put(feed, <<s.type, Uid(s.key)>>, row)

Feed(s) ==
  /\ version[s] < MaxVersion
  /\ version' = [version EXCEPT ![s] = @ + 1]
  /\ lost' = lost \ {s}
  /\ born' = [born EXCEPT ![s] = IF @ = 0 /\ s.type \in Timed THEN today ELSE @]
  /\ BankPut(s, [stream |-> s, ver |-> version'[s], day |-> born'[s]])
  /\ UNCHANGED <<disk, files, opened, readerVars, owed, today, faults>>

\* shift::ensure_storage: open the database of dest, creating it if need be
EnsureStorage(dest) == opened' = opened \cup {dest} /\ files' = files \cup {dest}

\* shift::operator<<: ensure the storage of the state's dest, and replace the row
Replace(s, row) ==
  /\ EnsureStorage(s.dest)
  /\ disk' = [disk EXCEPT ![s.dest] = Put(@, <<s.type, s.key>>, row)]

\* handle_cached_feeds: one row of feed_bank_ goes to its storage (shift << state)
Store(u) ==
  /\ Replace(feed[u].stream, feed[u])
  /\ feed' = Without(feed, {u})
  /\ UNCHANGED <<born, version, lost, readerVars, owed, today, faults>>

RowsOf(dest, type) == {k \in DOMAIN disk[dest] : k[1] = type}

\* remove_all<DataType>: what is stored goes.  Rows of the type that wait in
\* feed_bank_ are not looked at, and are stored later.
Clear(dests, type) ==
  /\ faults < MaxFaults
  /\ faults' = faults + 1
  /\ disk' = [d \in Dests |-> IF d \in dests THEN Without(disk[d], RowsOf(d, type)) ELSE disk[d]]
  /\ LET cleared == {s \in Streams : s.dest \in dests /\ s.type = type}
     IN /\ lost' = lost \cup {s \in cleared : Stored(s, version[s])}
        /\ owed' = {row \in owed : row.stream \notin cleared}
  /\ UNCHANGED <<feed, born, version, readerVars, today>>

\* shift -= event: remove_all in the storage of the event's dest
ClearDest(dest, type) == EnsureStorage(dest) /\ Clear({dest}, type)
\* shift /= event: remove_all in the storages already open, and only in those
ClearOpened(type) == Clear(opened, type) /\ UNCHANGED <<files, opened>>

\* The cached service dies and starts again: what was only in feed_bank_ is lost.
CachedRestarts ==
  /\ faults < MaxFaults
  /\ faults' = faults + 1
  /\ feed' = NoRows /\ opened' = {}
  /\ lost' = lost \cup {feed[u].stream : u \in DOMAIN feed}
  /\ UNCHANGED <<disk, files, born, version, readerVars, owed, today>>

-----------------------------------------------------------------------------
(* A process that starts, at any moment, once: shift >> bank                  *)

\* time_spec::get_all, from today_start(): only types with a timestamp are filtered
Visible_All(row, day) == TRUE
Visible(row, day) == row.stream.type \in Timed => row.day >= day

\* operator>>: open every database there is before going through the types
Listed_OpenOnes == {}      \* a new shift has opened nothing
Listed == files

RestoreBegin ==
  /\ rpc = "off"
  /\ rpc' = "restoring"
  /\ pending' = Types \X Listed
  /\ bank' = NoRows
  /\ owed' = UNION {{disk[d][k] : k \in DOMAIN disk[d]} : d \in Dests}
  /\ startDay' = today
  /\ UNCHANGED <<cachedVars, today, faults>>

\* restore<DataType>: one query, and bank << state for each row it returns
RestoreOne(type, dest) ==
  /\ rpc = "restoring"
  /\ <<type, dest>> \in pending
  /\ pending' = pending \ {<<type, dest>>}
  /\ rpc' = IF pending' = {} THEN "on" ELSE "restoring"
  /\ LET rows == {disk[dest][k] : k \in RowsOf(dest, type)}
         read == {row \in rows : Visible(row, today)}
         slot(row) == <<row.stream.type, Uid(row.stream.key)>>
     IN bank' = [x \in DOMAIN bank \cup {slot(row) : row \in read} |->
                   IF \E row \in read : slot(row) = x
                     THEN CHOOSE row \in read : slot(row) = x
                     ELSE bank[x]]
  /\ UNCHANGED <<cachedVars, startDay, owed, today, faults>>

RestoreNothing ==
  /\ rpc = "restoring" /\ pending = {}
  /\ rpc' = "on"
  /\ UNCHANGED <<cachedVars, pending, bank, startDay, owed, today, faults>>

NewDay ==
  /\ today < MaxDay
  /\ today' = today + 1
  /\ UNCHANGED <<cachedVars, readerVars, owed, faults>>

Next ==
  \/ \E s \in Streams : Feed(s)
  \/ \E u \in DOMAIN feed : Store(u)
  \/ \E dest \in Dests, type \in Types : ClearDest(dest, type)
  \/ \E type \in Types : ClearOpened(type)
  \/ CachedRestarts
  \/ RestoreBegin
  \/ \E dest \in Dests, type \in Types : RestoreOne(type, dest)
  \/ RestoreNothing \/ NewDay

Spec == Init /\ [][Next]_vars

-----------------------------------------------------------------------------

\* The last state published on every stream is in feed_bank_ or in its storage,
\* however bank coalesced the events, in whatever order they were stored, and
\* although storages are cleared while rows wait.  Only two things take it: a
\* clear, once it is stored, and the death of the cached service, as long as
\* it waits.
NothingForgotten ==
  \A s \in Streams \ lost : version[s] > 0 => Waiting(s, version[s]) \/ Stored(s, version[s])

\* A restored bank holds, for every row that was stored when the restore began
\* and is of today, that row or a later state of it, although the cached
\* service may have stored, opened and cleared storages during the restore.
RestoreComplete ==
  rpc = "on" => \A row \in owed : Visible(row, today) =>
    LET x == <<row.stream.type, Uid(row.stream.key)>>
    IN x \in DOMAIN bank /\ bank[x].stream = row.stream /\ bank[x].ver >= row.ver

\* No bank is restored with an order, a trade or another timestamped object of a
\* day before the restore began.
NothingFromYesterday ==
  \A x \in DOMAIN bank : x[1] \in Timed => bank[x].day >= startDay
===============================================================================

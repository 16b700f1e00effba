------------------------------- MODULE CachedProofs -------------------------------
(***************************************************************************)
(* What the cached service keeps and hands out.  That no state is          *)
(* forgotten and that a restore misses nothing of today, for any streams   *)
(* whose uids tell them apart, any days and faults; and that a load of the *)
(* profile is complete and never takes the receiver back, for any types,   *)
(* keys, number of tries and writes of others.                             *)
(***************************************************************************)
EXTENDS StateCache, ProfileLoad, TLAPS

Slot(s) == <<s.type, Uid(s.key)>>     \* where bank keeps s
Place(s) == <<s.type, s.key>>         \* where the storage of its dest keeps s
On(s) == Place(s) \in DOMAIN disk[s.dest]
DiskRow(s) == disk[s.dest][Place(s)]

RowOK(row, days) ==
  /\ row.stream \in Streams /\ row.ver \in Nat \ {0}
  /\ row.stream.type \in Timed => row.day = days[row.stream] /\ days[row.stream] # 0

TypeOK ==
  /\ born \in [Streams -> Nat] /\ version \in [Streams -> Nat] /\ lost \subseteq Streams
  /\ today \in Nat \ {0} /\ startDay \in Nat /\ startDay <= today
  /\ DOMAIN disk = Dests
  /\ \A d \in Dests : DOMAIN disk[d] # {} => d \in files
  /\ rpc = "on" => pending = {}

(* What waits in feed_bank_ is the newest state of a stream, at its uid:    *)
(* also when its storage is cleared meanwhile.                             *)
FeedPlaced ==
  \A u \in DOMAIN feed :
    RowOK(feed[u], born) /\ u = Slot(feed[u].stream) /\ feed[u].ver = version[feed[u].stream]

(* A storage holds rows of its dest, at their keys, none newer than that.  *)
DiskPlaced ==
  \A d \in Dests : \A k \in DOMAIN disk[d] :
    /\ RowOK(disk[d][k], born) /\ disk[d][k].stream.dest = d /\ k = Place(disk[d][k].stream)
    /\ disk[d][k].ver <= version[disk[d][k].stream]

(* A row owed to the restore is still in its storage, or was read.         *)
Read(row) ==
  /\ Slot(row.stream) \in DOMAIN bank
  /\ bank[Slot(row.stream)].stream = row.stream /\ bank[Slot(row.stream)].ver >= row.ver
Owing(row) ==
  /\ RowOK(row, born)
  /\ IF <<row.stream.type, row.stream.dest>> \in pending
       THEN On(row.stream) /\ DiskRow(row.stream).ver >= row.ver
       ELSE Visible(row, today) => Read(row)
OwedIsThere == rpc # "off" => \A row \in owed : Owing(row)

IInv ==
  /\ TypeOK /\ FeedPlaced /\ DiskPlaced
  /\ NothingForgotten /\ OwedIsThere /\ NothingFromYesterday

-----------------------------------------------------------------------------

LEMMA SameStream ==
  ASSUME NEW s \in Streams, NEW t \in Streams
  PROVE  /\ s.dest = t.dest /\ Place(s) = Place(t) => s = t
         /\ Slot(s) = Slot(t) => s = t
  <1>1. ASSUME s.dest = t.dest, Place(s) = Place(t) PROVE s = t
    <2>1. s.type = t.type /\ s.key = t.key
      BY <1>1 DEF Place
    <2>2. /\ s = [dest |-> s.dest, type |-> s.type, key |-> s.key]
          /\ t = [dest |-> t.dest, type |-> t.type, key |-> t.key]
      BY StreamsAssumption
    <2> QED
      BY <2>1, <2>2, <1>1
  <1>2. ASSUME Slot(s) = Slot(t) PROVE s = t
    <2>1. s.type = t.type /\ Uid(s.key) = Uid(t.key)
      BY <1>2 DEF Slot
    <2> QED
      BY <2>1, UidsTellApart
  <1> QED
    BY <1>1, <1>2

LEMMA WithoutRows ==
  ASSUME NEW table, NEW erased
  PROVE  /\ DOMAIN Without(table, erased) = DOMAIN table \ erased
         /\ \A x \in DOMAIN table \ erased : Without(table, erased)[x] = table[x]
  BY DEF Without

(* The row at the place of a stream is a row of the stream.                *)
LEMMA DiskRowIs ==
  ASSUME DiskPlaced, NEW s \in Streams, On(s)
  PROVE  RowOK(DiskRow(s), born) /\ DiskRow(s).stream = s /\ DiskRow(s).ver <= version[s]
  <1>1. s.dest \in Dests
    BY StreamsAssumption
  <1>2. /\ RowOK(DiskRow(s), born) /\ DiskRow(s).stream.dest = s.dest
        /\ Place(s) = Place(DiskRow(s).stream) /\ DiskRow(s).ver <= version[DiskRow(s).stream]
    BY <1>1 DEF DiskPlaced, On, DiskRow
  <1>3. DiskRow(s).stream = s
    BY <1>2, SameStream DEF RowOK
  <1> QED
    BY <1>2, <1>3

LEMMA InitIInv == Init => IInv
  <1> SUFFICES ASSUME Init PROVE IInv
    OBVIOUS
  <1>1. DOMAIN NoRows = {}
    BY DEF NoRows
  <1>2. TypeOK
    BY <1>1 DEF Init, TypeOK
  <1>3. FeedPlaced /\ DiskPlaced
    BY <1>1 DEF Init, FeedPlaced, DiskPlaced
  <1>4. NothingForgotten /\ OwedIsThere
    BY DEF Init, NothingForgotten, OwedIsThere
  <1>5. NothingFromYesterday
    BY <1>1 DEF Init, NothingFromYesterday
  <1> QED
    BY <1>2, <1>3, <1>4, <1>5 DEF IInv

LEMMA FeedIInv == ASSUME IInv, NEW s \in Streams, Feed(s) PROVE IInv'
  <1> DEFINE row == [stream |-> s, ver |-> version'[s], day |-> born'[s]]
  <1>0. TypeOK /\ FeedPlaced /\ DiskPlaced /\ NothingForgotten /\ OwedIsThere /\ NothingFromYesterday
    BY DEF IInv
  <1>1. /\ version' = [version EXCEPT ![s] = @ + 1]
        /\ lost' = lost \ {s}
        /\ born' = [born EXCEPT ![s] = IF @ = 0 /\ s.type \in Timed THEN today ELSE @]
        /\ feed' = Put(feed, Slot(s), row)
        /\ UNCHANGED <<disk, files, opened, rpc, pending, bank, startDay, owed, today, faults>>
    BY DEF Feed, BankPut, Slot, readerVars
  <1>2. /\ version'[s] = version[s] + 1 /\ version[s] \in Nat
        /\ \A t \in Streams \ {s} : version'[t] = version[t] /\ born'[t] = born[t]
        /\ born'[s] \in Nat /\ (s.type \in Timed => born'[s] # 0)
        /\ born[s] # 0 => born'[s] = born[s]
        /\ \A t \in Streams : version[t] <= version'[t]
    BY <1>0, <1>1 DEF TypeOK
  <1>3. TypeOK'
    <2>1. born' \in [Streams -> Nat] /\ version' \in [Streams -> Nat] /\ lost' \subseteq Streams
      BY <1>0, <1>1, <1>2 DEF TypeOK
    <2> QED
      BY <1>0, <1>1, <2>1 DEF TypeOK
  <1>4. ASSUME NEW r, RowOK(r, born) PROVE RowOK(r, born')
    BY <1>2, <1>4 DEF RowOK
  <1>5. RowOK(row, born')
    BY <1>2 DEF RowOK
  <1>6. row.stream = s /\ row.ver = version'[s]
    OBVIOUS
  <1> HIDE DEF row
  <1>7. /\ DOMAIN feed' = DOMAIN feed \cup {Slot(s)} /\ feed'[Slot(s)] = row
        /\ \A u \in DOMAIN feed : u # Slot(s) => feed'[u] = feed[u]
    <2>1. feed' = Put(feed, Slot(s), row)
      BY <1>1
    <2> HIDE <1>1
    <2> QED
      BY <2>1 DEF Put
  <1>8. FeedPlaced'
    <2> SUFFICES ASSUME NEW u \in DOMAIN feed'
                 PROVE  /\ RowOK(feed'[u], born') /\ u = Slot(feed'[u].stream)
                        /\ feed'[u].ver = version'[feed'[u].stream]
      BY DEF FeedPlaced, Slot
    <2>1. CASE u = Slot(s)
      BY <1>5, <1>6, <1>7, <2>1
    <2>2. CASE u # Slot(s)
      <3>1. u \in DOMAIN feed /\ feed'[u] = feed[u]
        BY <1>7, <2>2
      <3>2. RowOK(feed[u], born) /\ u = Slot(feed[u].stream) /\ feed[u].ver = version[feed[u].stream]
        BY <1>0, <3>1 DEF FeedPlaced
      <3>3. feed[u].stream \in Streams \ {s}
        BY <2>2, <3>2 DEF RowOK
      <3> QED
        BY <1>2, <1>4, <3>1, <3>2, <3>3
    <2> QED
      BY <2>1, <2>2
  <1>9. DiskPlaced'
    <2> SUFFICES ASSUME NEW d \in Dests, NEW k \in DOMAIN disk[d]
                 PROVE  /\ RowOK(disk[d][k], born') /\ disk[d][k].stream.dest = d
                        /\ k = Place(disk[d][k].stream) /\ disk[d][k].ver <= version'[disk[d][k].stream]
      BY <1>1 DEF DiskPlaced, Place, RowOK
    <2>1. /\ RowOK(disk[d][k], born) /\ disk[d][k].stream.dest = d
          /\ k = Place(disk[d][k].stream) /\ disk[d][k].ver <= version[disk[d][k].stream]
      BY <1>0 DEF DiskPlaced
    <2>2. disk[d][k].ver <= version'[disk[d][k].stream]
      BY <1>0, <1>2, <1>3, <2>1 DEF RowOK, TypeOK
    <2> QED
      BY <1>4, <2>1, <2>2
  <1>10. NothingForgotten'
    <2> SUFFICES ASSUME NEW t \in Streams \ lost', version'[t] > 0
                 PROVE  Waiting(t, version[t])' \/ Stored(t, version[t])'
      BY DEF NothingForgotten
    <2>1. CASE t = s
      BY <1>6, <1>7, <2>1 DEF Waiting
    <2>2. CASE t # s
      <3>1. version'[t] = version[t] /\ t \notin lost
        BY <1>1, <1>2, <2>2
      <3>2. CASE Waiting(t, version[t])
        <4>1. PICK u \in DOMAIN feed : feed[u].stream = t /\ feed[u].ver = version[t]
          BY <3>2 DEF Waiting
        <4>2. u = Slot(t)
          BY <1>0, <4>1 DEF FeedPlaced
        <4>3. u # Slot(s)
          BY <4>2, <2>2, SameStream
        <4> QED
          BY <1>7, <3>1, <4>1, <4>3 DEF Waiting
      <3>3. CASE Stored(t, version[t])
        BY <1>1, <3>1, <3>3 DEF Stored
      <3> QED
        BY <1>0, <3>1, <3>2, <3>3 DEF NothingForgotten
    <2> QED
      BY <2>1, <2>2
  <1>11. OwedIsThere'
    <2> SUFFICES ASSUME rpc # "off", NEW r \in owed PROVE Owing(r)'
      BY <1>1 DEF OwedIsThere
    <2>1. Owing(r)
      BY <1>0 DEF OwedIsThere
    <2> QED
      BY <1>1, <1>4, <2>1 DEF Owing, On, DiskRow, Read
  <1>12. NothingFromYesterday'
    BY <1>0, <1>1 DEF NothingFromYesterday
  <1> QED
    BY <1>3, <1>8, <1>9, <1>10, <1>11, <1>12 DEF IInv

LEMMA StoreIInv == ASSUME IInv, NEW u \in DOMAIN feed, Store(u) PROVE IInv'
  <1> DEFINE s == feed[u].stream
             table == Put(disk[s.dest], Place(s), feed[u])
  <1>0. TypeOK /\ FeedPlaced /\ DiskPlaced /\ NothingForgotten /\ OwedIsThere /\ NothingFromYesterday
    BY DEF IInv
  <1>1. /\ disk' = [disk EXCEPT ![s.dest] = table]
        /\ feed' = Without(feed, {u})
        /\ files' = files \cup {s.dest}
        /\ UNCHANGED <<born, version, lost, rpc, pending, bank, startDay, owed, today, faults>>
    BY DEF Store, Replace, EnsureStorage, readerVars, Place
  <1>2. RowOK(feed[u], born) /\ u = Slot(s) /\ feed[u].ver = version[s]
    BY <1>0 DEF FeedPlaced
  <1>3. s \in Streams /\ s.dest \in Dests
    BY <1>2, StreamsAssumption DEF RowOK
  <1>4. /\ DOMAIN table = DOMAIN disk[s.dest] \cup {Place(s)} /\ table[Place(s)] = feed[u]
        /\ \A k \in DOMAIN disk[s.dest] : k # Place(s) => table[k] = disk[s.dest][k]
    BY DEF Put
  <1>5. feed[u].stream = s
    OBVIOUS
  <1> HIDE DEF s, table
  <1>6. /\ DOMAIN disk' = Dests /\ disk'[s.dest] = table
        /\ \A d \in Dests \ {s.dest} : disk'[d] = disk[d]
    BY <1>0, <1>1, <1>3 DEF TypeOK
  <1>7. /\ DOMAIN feed' = DOMAIN feed \ {u}
        /\ \A v \in DOMAIN feed \ {u} : feed'[v] = feed[v]
    BY <1>1, WithoutRows
  <1>8. TypeOK'
    BY <1>0, <1>1, <1>6 DEF TypeOK
  <1>9. FeedPlaced'
    BY <1>0, <1>1, <1>7 DEF FeedPlaced
  <1>10. DiskPlaced'
    <2> SUFFICES ASSUME NEW d \in Dests, NEW k \in DOMAIN disk'[d]
                 PROVE  /\ RowOK(disk'[d][k], born) /\ disk'[d][k].stream.dest = d
                        /\ k = Place(disk'[d][k].stream) /\ disk'[d][k].ver <= version[disk'[d][k].stream]
      BY <1>1 DEF DiskPlaced, Place
    <2>1. CASE d = s.dest /\ k = Place(s)
      <3>1. disk'[d][k] = feed[u] /\ feed[u].ver <= version[s]
        BY <1>2, <1>4, <1>6, <2>1 DEF RowOK
      <3> QED
        BY <3>1, <1>2, <1>5, <2>1
    <2>2. CASE ~(d = s.dest /\ k = Place(s))
      <3>1. k \in DOMAIN disk[d] /\ disk'[d][k] = disk[d][k]
        BY <1>4, <1>6, <2>2
      <3> QED
        BY <1>0, <3>1 DEF DiskPlaced
    <2> QED
      BY <2>1, <2>2
  <1>11. ASSUME NEW t \in Streams, On(t)
         PROVE  On(t)' /\ DiskRow(t)'.ver >= DiskRow(t).ver /\ (t # s => DiskRow(t)' = DiskRow(t))
    <2>1. t.dest \in Dests
      BY StreamsAssumption
    <2>2. RowOK(DiskRow(t), born) /\ DiskRow(t).ver <= version[t]
      BY <1>0, <1>11, DiskRowIs
    <2>3. CASE t = s
      BY <1>2, <1>4, <1>6, <2>2, <2>3, <1>3 DEF On, DiskRow
    <2>4. CASE t # s
      <3>1. t.dest # s.dest \/ Place(t) # Place(s)
        BY <1>3, <2>4, SameStream
      <3>2. On(t)' /\ DiskRow(t)' = DiskRow(t)
        BY <1>4, <1>6, <1>11, <2>1, <3>1 DEF On, DiskRow, Place
      <3> QED
        BY <2>2, <3>2 DEF RowOK
    <2> QED
      BY <2>3, <2>4
  <1>12. NothingForgotten'
    <2> SUFFICES ASSUME NEW t \in Streams \ lost, version[t] > 0
                 PROVE  Waiting(t, version[t])' \/ Stored(t, version[t])'
      BY <1>1 DEF NothingForgotten
    <2>1. version' = version
      BY <1>1
    <2>2. CASE t = s
      BY <1>2, <1>4, <1>6, <2>1, <2>2 DEF Stored, Place
    <2>3. CASE t # s /\ Waiting(t, version[t])
      BY <1>5, <1>7, <2>1, <2>3 DEF Waiting
    <2>4. CASE t # s /\ Stored(t, version[t])
      <3>1. On(t) /\ DiskRow(t).ver = version[t]
        BY <2>4 DEF Stored, On, DiskRow, Place
      <3>2. On(t)' /\ DiskRow(t)' = DiskRow(t)
        BY <1>11, <2>4, <3>1
      <3> QED
        BY <2>1, <3>1, <3>2 DEF Stored, On, DiskRow, Place
    <2> QED
      BY <1>0, <2>2, <2>3, <2>4 DEF NothingForgotten
  <1>13. OwedIsThere'
    <2> SUFFICES ASSUME rpc # "off", NEW r \in owed PROVE Owing(r)'
      BY <1>1 DEF OwedIsThere
    <2>1. Owing(r)
      BY <1>0 DEF OwedIsThere
    <2>2. CASE <<r.stream.type, r.stream.dest>> \in pending
      <3>1. r.stream \in Streams /\ On(r.stream) /\ DiskRow(r.stream).ver >= r.ver
        BY <2>1, <2>2 DEF Owing, RowOK
      <3>2. On(r.stream)' /\ DiskRow(r.stream)'.ver >= DiskRow(r.stream).ver
        BY <1>11, <3>1
      <3>3. RowOK(DiskRow(r.stream), born) /\ r.ver \in Nat
        BY <1>0, <2>1, <3>1, DiskRowIs DEF Owing, RowOK
      <3>4. DiskRow(r.stream)'.ver \in Nat
        <4>1. RowOK(DiskRow(r.stream), born)'
          BY <1>10, <3>1, <3>2, StreamsAssumption DEF DiskPlaced, On, DiskRow
        <4> QED
          BY <4>1 DEF RowOK
      <3>5. DiskRow(r.stream)'.ver >= r.ver
        BY <3>1, <3>2, <3>3, <3>4 DEF RowOK
      <3> QED
        BY <1>1, <2>1, <2>2, <3>2, <3>5 DEF Owing
    <2>3. CASE <<r.stream.type, r.stream.dest>> \notin pending
      BY <1>1, <2>1, <2>3 DEF Owing, Read
    <2> QED
      BY <2>2, <2>3
  <1>14. NothingFromYesterday'
    BY <1>0, <1>1 DEF NothingFromYesterday
  <1> QED
    BY <1>8, <1>9, <1>10, <1>12, <1>13, <1>14 DEF IInv

LEMMA ClearIInv ==
  ASSUME IInv, NEW dests, NEW type, Clear(dests, type), files \subseteq files'
  PROVE  IInv'
  <1> DEFINE erased == {s \in Streams : s.dest \in dests /\ s.type = type}
  <1>0. TypeOK /\ FeedPlaced /\ DiskPlaced /\ NothingForgotten /\ OwedIsThere /\ NothingFromYesterday
    BY DEF IInv
  <1>1. /\ disk' = [d \in Dests |-> IF d \in dests THEN Without(disk[d], RowsOf(d, type)) ELSE disk[d]]
        /\ lost' = lost \cup {s \in erased : Stored(s, version[s])}
        /\ owed' = {row \in owed : row.stream \notin erased}
        /\ UNCHANGED <<feed, born, version, rpc, pending, bank, startDay, today>>
    BY DEF Clear, readerVars
  <1>2. \A d \in Dests :
          /\ DOMAIN disk'[d] = {k \in DOMAIN disk[d] : ~(d \in dests /\ k[1] = type)}
          /\ \A k \in DOMAIN disk'[d] : disk'[d][k] = disk[d][k]
    BY <1>1 DEF Without, RowsOf
  <1>3. /\ \A s \in Streams : s \in erased <=> (s.dest \in dests /\ s.type = type)
        /\ erased \subseteq Streams
    OBVIOUS
  <1> HIDE DEF erased
  <1>4. TypeOK'
    <2>1. lost' \subseteq Streams
      BY <1>0, <1>1, <1>3 DEF TypeOK
    <2>2. DOMAIN disk' = Dests /\ \A d \in Dests : DOMAIN disk'[d] # {} => d \in files'
      BY <1>0, <1>1, <1>2 DEF TypeOK
    <2> QED
      BY <1>0, <1>1, <1>3, <2>1, <2>2 DEF TypeOK
  <1>5. FeedPlaced'
    BY <1>0, <1>1 DEF FeedPlaced
  <1>6. DiskPlaced'
    <2> SUFFICES ASSUME NEW d \in Dests, NEW k \in DOMAIN disk'[d]
                 PROVE  /\ RowOK(disk'[d][k], born) /\ disk'[d][k].stream.dest = d
                        /\ k = Place(disk'[d][k].stream) /\ disk'[d][k].ver <= version'[disk'[d][k].stream]
      BY <1>1 DEF DiskPlaced, Place
    <2>1. k \in DOMAIN disk[d] /\ disk'[d][k] = disk[d][k] /\ ~(d \in dests /\ k[1] = type)
      BY <1>2
    <2>2. /\ RowOK(disk[d][k], born) /\ disk[d][k].stream.dest = d
          /\ k = Place(disk[d][k].stream) /\ disk[d][k].ver <= version[disk[d][k].stream]
      BY <1>0, <2>1 DEF DiskPlaced
    <2> QED
      BY <1>1, <2>1, <2>2
  <1>7. ASSUME NEW t \in Streams \ erased, On(t) PROVE On(t)' /\ DiskRow(t)' = DiskRow(t)
    BY <1>2, <1>3, <1>7, StreamsAssumption DEF On, DiskRow, Place
  <1>8. NothingForgotten'
    <2> SUFFICES ASSUME NEW t \in Streams \ lost', version[t] > 0
                 PROVE  Waiting(t, version[t])' \/ Stored(t, version[t])'
      BY <1>1 DEF NothingForgotten
    <2>1. t \notin lost /\ version' = version /\ (Stored(t, version[t]) => t \notin erased)
      BY <1>1
    <2>2. CASE Waiting(t, version[t])
      BY <1>1, <2>1, <2>2 DEF Waiting
    <2>3. CASE Stored(t, version[t])
      <3>1. On(t) /\ DiskRow(t).ver = version[t]
        BY <2>3 DEF Stored, On, DiskRow, Place
      <3>2. On(t)' /\ DiskRow(t)' = DiskRow(t)
        BY <1>7, <2>1, <2>3, <3>1
      <3> QED
        BY <2>1, <3>1, <3>2 DEF Stored, On, DiskRow, Place
    <2> QED
      BY <1>0, <2>1, <2>2, <2>3 DEF NothingForgotten
  <1>9. OwedIsThere'
    <2> SUFFICES ASSUME rpc # "off", NEW r \in owed, r.stream \notin erased PROVE Owing(r)'
      BY <1>1 DEF OwedIsThere
    <2>1. Owing(r)
      BY <1>0 DEF OwedIsThere
    <2>2. r.stream \in Streams \ erased
      BY <2>1 DEF Owing, RowOK
    <2>3. CASE <<r.stream.type, r.stream.dest>> \in pending
      <3>1. On(r.stream) /\ DiskRow(r.stream).ver >= r.ver
        BY <2>1, <2>3 DEF Owing
      <3>2. On(r.stream)' /\ DiskRow(r.stream)' = DiskRow(r.stream)
        BY <1>7, <2>2, <3>1
      <3> QED
        BY <1>1, <2>1, <2>3, <3>1, <3>2 DEF Owing
    <2>4. CASE <<r.stream.type, r.stream.dest>> \notin pending
      BY <1>1, <2>1, <2>4 DEF Owing, Read
    <2> QED
      BY <2>3, <2>4
  <1>10. NothingFromYesterday'
    BY <1>0, <1>1 DEF NothingFromYesterday
  <1> QED
    BY <1>4, <1>5, <1>6, <1>8, <1>9, <1>10 DEF IInv

LEMMA CachedRestartsIInv == IInv /\ CachedRestarts => IInv'
  <1> SUFFICES ASSUME IInv, CachedRestarts PROVE IInv'
    OBVIOUS
  <1>0. TypeOK /\ FeedPlaced /\ DiskPlaced /\ NothingForgotten /\ OwedIsThere /\ NothingFromYesterday
    BY DEF IInv
  <1>1. /\ feed' = NoRows
        /\ lost' = lost \cup {feed[u].stream : u \in DOMAIN feed}
        /\ UNCHANGED <<disk, files, born, version, rpc, pending, bank, startDay, owed, today>>
    BY DEF CachedRestarts, readerVars
  <1>2. TypeOK'
    <2>1. \A u \in DOMAIN feed : feed[u].stream \in Streams
      BY <1>0 DEF FeedPlaced, RowOK
    <2> QED
      BY <1>0, <1>1, <2>1 DEF TypeOK
  <1>3. FeedPlaced'
    BY <1>1 DEF FeedPlaced, NoRows
  <1>4. DiskPlaced'
    BY <1>0, <1>1 DEF DiskPlaced
  <1>5. NothingForgotten'
    <2> SUFFICES ASSUME NEW t \in Streams \ lost', version[t] > 0 PROVE Stored(t, version[t])'
      BY <1>1 DEF NothingForgotten
    <2>1. t \notin lost /\ ~Waiting(t, version[t])
      BY <1>1 DEF Waiting
    <2>2. Stored(t, version[t])
      BY <1>0, <2>1 DEF NothingForgotten
    <2> QED
      BY <1>1, <2>2 DEF Stored
  <1>6. OwedIsThere' /\ NothingFromYesterday'
    BY <1>0, <1>1 DEF OwedIsThere, Owing, On, DiskRow, Read, NothingFromYesterday
  <1> QED
    BY <1>2, <1>3, <1>4, <1>5, <1>6 DEF IInv

LEMMA RestoreBeginIInv == IInv /\ RestoreBegin => IInv'
  <1> SUFFICES ASSUME IInv, RestoreBegin PROVE IInv'
    OBVIOUS
  <1>0. TypeOK /\ FeedPlaced /\ DiskPlaced /\ NothingForgotten
    BY DEF IInv
  <1>1. /\ rpc' = "restoring" /\ pending' = Types \X files /\ bank' = NoRows
        /\ owed' = UNION {{disk[d][k] : k \in DOMAIN disk[d]} : d \in Dests}
        /\ startDay' = today
        /\ UNCHANGED <<feed, disk, files, opened, born, version, lost, today, faults>>
    BY DEF RestoreBegin, Listed, cachedVars
  <1>2. TypeOK'
    BY <1>0, <1>1 DEF TypeOK
  <1>3. FeedPlaced' /\ DiskPlaced' /\ NothingForgotten'
    BY <1>0, <1>1 DEF FeedPlaced, DiskPlaced, NothingForgotten, Waiting, Stored
  <1>4. OwedIsThere'
    <2> SUFFICES ASSUME NEW d \in Dests, NEW k \in DOMAIN disk[d] PROVE Owing(disk[d][k])'
      BY <1>1 DEF OwedIsThere
    <2> DEFINE r == disk[d][k]
    <2>1. RowOK(r, born) /\ r.stream.dest = d /\ k = Place(r.stream)
      BY <1>0 DEF DiskPlaced
    <2>2. On(r.stream) /\ DiskRow(r.stream) = r /\ d \in files
      BY <1>0, <2>1 DEF On, DiskRow, TypeOK
    <2>3. r.stream \in Streams /\ r.ver \in Nat
      BY <2>1 DEF RowOK
    <2>4. <<r.stream.type, r.stream.dest>> \in pending'
      BY <1>1, <2>1, <2>2, <2>3 DEF Types
    <2>5. On(r.stream)' /\ DiskRow(r.stream)' = r /\ r' = r
      BY <1>1, <2>2 DEF On, DiskRow
    <2>6. r.ver >= r.ver
      BY <2>3
    <2> HIDE DEF r
    <2>7. Owing(r)'
      BY <1>1, <2>1, <2>4, <2>5, <2>6 DEF Owing
    <2> QED
      BY <2>7 DEF r
  <1>5. NothingFromYesterday'
    BY <1>1 DEF NothingFromYesterday, NoRows
  <1> QED
    BY <1>2, <1>3, <1>4, <1>5 DEF IInv

LEMMA RestoreOneIInv ==
  ASSUME IInv, NEW type \in Types, NEW dest \in Dests, RestoreOne(type, dest)
  PROVE  IInv'
  <1> DEFINE read == {row \in {disk[dest][k] : k \in RowsOf(dest, type)} : Visible(row, today)}
             pick(x) == CHOOSE row \in read : Slot(row.stream) = x
  <1>0. TypeOK /\ FeedPlaced /\ DiskPlaced /\ NothingForgotten /\ OwedIsThere /\ NothingFromYesterday
    BY DEF IInv
  <1>1. /\ rpc = "restoring" /\ pending' = pending \ {<<type, dest>>}
        /\ rpc' = IF pending' = {} THEN "on" ELSE "restoring"
        /\ UNCHANGED <<feed, disk, files, opened, born, version, lost, startDay, owed, today, faults>>
    BY DEF RestoreOne, cachedVars
  <1>2. bank' = [x \in DOMAIN bank \cup {Slot(row.stream) : row \in read} |->
                   IF \E row \in read : Slot(row.stream) = x THEN pick(x) ELSE bank[x]]
    BY DEF RestoreOne, Slot
  <1>3. ASSUME NEW row \in read
        PROVE  /\ RowOK(row, born) /\ row.stream.dest = dest /\ row.stream.type = type
               /\ On(row.stream) /\ DiskRow(row.stream) = row /\ Visible(row, today)
    <2>1. PICK k \in DOMAIN disk[dest] : row = disk[dest][k] /\ k[1] = type
      BY <1>3 DEF RowsOf
    <2>2. RowOK(row, born) /\ row.stream.dest = dest /\ k = Place(row.stream)
      BY <1>0, <2>1 DEF DiskPlaced
    <2>3. Visible(row, today)
      BY <1>3
    <2> HIDE DEF read
    <2>4. row.stream.type = type
      <3>1. k = <<row.stream.type, row.stream.key>>
        BY <2>2 DEF Place
      <3> QED
        BY <2>1, <3>1
    <2>5. On(row.stream) /\ DiskRow(row.stream) = row
      <3>1. /\ Place(row.stream) \in DOMAIN disk[row.stream.dest]
            /\ disk[row.stream.dest][Place(row.stream)] = row
        BY <2>1, <2>2
      <3> QED
        BY <3>1 DEF On, DiskRow
    <2> QED
      BY <2>2, <2>3, <2>4, <2>5
  <1>4. ASSUME NEW s \in Streams, On(s), s.dest = dest, s.type = type, Visible(DiskRow(s), today)
        PROVE  DiskRow(s) \in read
    BY <1>4 DEF On, DiskRow, Place, RowsOf
  <1>5. ASSUME NEW x, \E row \in read : Slot(row.stream) = x
        PROVE  x \in DOMAIN bank' /\ bank'[x] \in read /\ Slot(bank'[x].stream) = x
    <2>1. pick(x) \in read /\ Slot(pick(x).stream) = x
      BY <1>5
    <2>2. x \in DOMAIN bank' /\ bank'[x] = pick(x)
      BY <1>2, <1>5
    <2> QED
      BY <2>1, <2>2
  <1>6. ASSUME NEW x \in DOMAIN bank', ~\E row \in read : Slot(row.stream) = x
        PROVE  x \in DOMAIN bank /\ bank'[x] = bank[x]
    BY <1>2, <1>6
  <1>7. DOMAIN bank \subseteq DOMAIN bank'
    BY <1>2
  <1> HIDE DEF read, pick
  <1>8. TypeOK'
    BY <1>0, <1>1 DEF TypeOK
  <1>9. FeedPlaced' /\ DiskPlaced' /\ NothingForgotten'
    BY <1>0, <1>1 DEF FeedPlaced, DiskPlaced, NothingForgotten, Waiting, Stored
  <1>10. OwedIsThere'
    <2> SUFFICES ASSUME NEW r \in owed PROVE Owing(r)'
      BY <1>1 DEF OwedIsThere
    <2> DEFINE s == r.stream
    <2>1. Owing(r)
      BY <1>0, <1>1 DEF OwedIsThere
    <2>2. s \in Streams /\ RowOK(r, born)
      BY <2>1 DEF Owing, RowOK
    <2>3. On(s)' = On(s) /\ DiskRow(s)' = DiskRow(s)
      BY <1>1 DEF On, DiskRow
    <2>4. CASE <<s.type, s.dest>> \in pending'
      BY <1>1, <2>1, <2>3, <2>4 DEF Owing
    <2>5. CASE <<s.type, s.dest>> = <<type, dest>>
      <3>1. s.type = type /\ s.dest = dest /\ <<s.type, s.dest>> \notin pending' /\ <<s.type, s.dest>> \in pending
        BY <1>1, <2>5 DEF RestoreOne
      <3>2. On(s) /\ DiskRow(s).ver >= r.ver
        BY <2>1, <3>1 DEF Owing
      <3>3. RowOK(DiskRow(s), born) /\ DiskRow(s).stream = s
        BY <1>0, <2>2, <3>2, DiskRowIs
      <3>4. ASSUME Visible(r, today) PROVE Read(r)'
        <4>1. Visible(DiskRow(s), today)
          BY <2>2, <3>3, <3>4 DEF Visible, RowOK
        <4>2. DiskRow(s) \in read
          BY <1>4, <2>2, <3>1, <3>2, <4>1
        <4>3. Slot(s) \in DOMAIN bank' /\ bank'[Slot(s)] \in read /\ Slot(bank'[Slot(s)].stream) = Slot(s)
          BY <1>5, <3>3, <4>2
        <4>4. bank'[Slot(s)].stream = s
          BY <1>3, <2>2, <4>3, SameStream DEF RowOK
        <4>5. bank'[Slot(s)] = DiskRow(s)
          BY <1>3, <4>3, <4>4
        <4> QED
          BY <3>2, <4>3, <4>4, <4>5 DEF Read
      <3> QED
        BY <1>1, <2>2, <3>1, <3>4 DEF Owing
    <2>6. CASE <<s.type, s.dest>> \notin pending /\ <<s.type, s.dest>> # <<type, dest>>
      <3>1. ASSUME Visible(r, today) PROVE Read(r)'
        <4>1. Read(r)
          BY <2>1, <2>6, <3>1 DEF Owing
        <4>2. ASSUME NEW row \in read PROVE Slot(row.stream) # Slot(s)
          <5>1. row.stream \in Streams /\ row.stream.dest = dest /\ row.stream.type = type
            BY <1>3 DEF RowOK
          <5>2. row.stream # s
            BY <2>6, <5>1
          <5> QED
            BY <2>2, <5>1, <5>2, SameStream
        <4>3. Slot(s) \in DOMAIN bank' /\ bank'[Slot(s)] = bank[Slot(s)]
          BY <1>6, <1>7, <4>1, <4>2 DEF Read
        <4> QED
          BY <4>1, <4>3 DEF Read
      <3>2. <<s.type, s.dest>> \notin pending'
        BY <1>1, <2>6
      <3> QED
        BY <1>1, <2>2, <3>1, <3>2 DEF Owing
    <2> QED
      BY <1>1, <2>4, <2>5, <2>6
  <1>11. NothingFromYesterday'
    <2> SUFFICES ASSUME NEW x \in DOMAIN bank', x[1] \in Timed PROVE bank'[x].day >= startDay
      BY <1>1 DEF NothingFromYesterday
    <2>1. CASE \E row \in read : Slot(row.stream) = x
      <3>1. bank'[x] \in read /\ Slot(bank'[x].stream) = x
        BY <1>5, <2>1
      <3>2. RowOK(bank'[x], born) /\ Visible(bank'[x], today) /\ bank'[x].stream.type \in Timed
        BY <1>3, <3>1 DEF Slot
      <3>3. bank'[x].day \in Nat /\ bank'[x].day >= today
        BY <1>0, <3>2 DEF RowOK, Visible, TypeOK
      <3> QED
        BY <1>0, <3>3 DEF TypeOK
    <2>2. CASE ~\E row \in read : Slot(row.stream) = x
      BY <1>0, <1>6, <2>2 DEF NothingFromYesterday
    <2> QED
      BY <2>1, <2>2
  <1> QED
    BY <1>8, <1>9, <1>10, <1>11 DEF IInv

LEMMA RestoreNothingIInv == IInv /\ RestoreNothing => IInv'
  BY DEF IInv, RestoreNothing, cachedVars, TypeOK, FeedPlaced, DiskPlaced, NothingForgotten,
         Waiting, Stored, OwedIsThere, Owing, On, DiskRow, Read, NothingFromYesterday

LEMMA NewDayIInv == IInv /\ NewDay => IInv'
  <1> SUFFICES ASSUME IInv, NewDay PROVE IInv'
    OBVIOUS
  <1>0. TypeOK /\ FeedPlaced /\ DiskPlaced /\ NothingForgotten /\ OwedIsThere /\ NothingFromYesterday
    BY DEF IInv
  <1>1. today' = today + 1 /\ UNCHANGED <<cachedVars, readerVars, owed, faults>>
    BY DEF NewDay
  <1>2. TypeOK'
    BY <1>0, <1>1 DEF TypeOK, cachedVars, readerVars
  <1>3. FeedPlaced' /\ DiskPlaced' /\ NothingForgotten' /\ NothingFromYesterday'
    BY <1>0, <1>1 DEF FeedPlaced, DiskPlaced, NothingForgotten, Waiting, Stored,
                      NothingFromYesterday, cachedVars, readerVars
  <1>4. ASSUME NEW r, RowOK(r, born), Visible(r, today') PROVE Visible(r, today)
    BY <1>0, <1>1, <1>4 DEF Visible, RowOK, TypeOK
  <1>5. OwedIsThere'
    BY <1>0, <1>1, <1>4 DEF OwedIsThere, Owing, On, DiskRow, Read, cachedVars, readerVars
  <1> QED
    BY <1>2, <1>3, <1>5 DEF IInv

LEMMA StutterIInv == IInv /\ UNCHANGED vars => IInv'
  BY DEF vars, cachedVars, readerVars, IInv, TypeOK, FeedPlaced, DiskPlaced, NothingForgotten,
         Waiting, Stored, OwedIsThere, Owing, On, DiskRow, Read, NothingFromYesterday

LEMMA NextIInv == IInv /\ [Next]_vars => IInv'
  <1> SUFFICES ASSUME IInv, [Next]_vars PROVE IInv'
    OBVIOUS
  <1>1. ASSUME NEW s \in Streams, Feed(s) PROVE IInv'
    BY <1>1, FeedIInv
  <1>2. ASSUME NEW u \in DOMAIN feed, Store(u) PROVE IInv'
    BY <1>2, StoreIInv
  <1>3. ASSUME NEW dest \in Dests, NEW type \in Types, ClearDest(dest, type) PROVE IInv'
    <2>1. Clear({dest}, type) /\ files \subseteq files'
      BY <1>3 DEF ClearDest, EnsureStorage
    <2> QED
      BY <2>1, ClearIInv
  <1>4. ASSUME NEW type \in Types, ClearOpened(type) PROVE IInv'
    <2>1. Clear(opened, type) /\ files \subseteq files'
      BY <1>4 DEF ClearOpened
    <2> QED
      BY <2>1, ClearIInv
  <1>5. CASE CachedRestarts
    BY <1>5, CachedRestartsIInv
  <1>6. CASE RestoreBegin
    BY <1>6, RestoreBeginIInv
  <1>7. ASSUME NEW dest \in Dests, NEW type \in Types, RestoreOne(type, dest) PROVE IInv'
    BY <1>7, RestoreOneIInv
  <1>8. CASE RestoreNothing
    BY <1>8, RestoreNothingIInv
  <1>9. CASE NewDay
    BY <1>9, NewDayIInv
  <1>10. CASE UNCHANGED vars
    BY <1>10, StutterIInv
  <1> QED
    BY <1>1, <1>2, <1>3, <1>4, <1>5, <1>6, <1>7, <1>8, <1>9, <1>10 DEF Next

-----------------------------------------------------------------------------

(* The strengthened invariant: where the bank of the cached service and    *)
(* its storages keep a row, that no stored row is newer than what was      *)
(* published, and that what the restore owes is still to be read or read   *)
(* (cache/runtime.h, cache/backend.h).                                     *)
THEOREM Invariance == Spec => []IInv
  <1> QED
    BY InitIInv, NextIInv, PTL DEF Spec

(* The last state of every stream is waiting or stored, whatever the bank  *)
(* coalesced (runtime.h:18), in whatever order the rows went to the        *)
(* storages and whatever was cleared while they waited (backend.h:124-133),*)
(* as long as uids tell the streams apart.                                 *)
THEOREM NoStateForgotten == Spec => []NothingForgotten
  <1>1. IInv => NothingForgotten
    BY DEF IInv
  <1> QED
    BY <1>1, Invariance, PTL

(* A restore misses no row of today that was stored when it began, though  *)
(* the cached service stores, clears and restarts meanwhile                *)
(* (backend.h:102-151).                                                    *)
THEOREM RestoreMissesNothing == Spec => []RestoreComplete
  <1>1. IInv => RestoreComplete
    BY DEF IInv, TypeOK, OwedIsThere, Owing, Read, Slot, RestoreComplete
  <1> QED
    BY <1>1, Invariance, PTL

(* A restore takes no timestamped object of a day before it began,         *)
(* whenever the day changes (backend.h:73-90).                             *)
THEOREM NoneOfYesterday == Spec => []NothingFromYesterday
  <1>1. IInv => NothingFromYesterday
    BY DEF IInv
  <1> QED
    BY <1>1, Invariance, PTL

-----------------------------------------------------------------------------
(* The profile loader.  Which of the types has its turn.                    *)
(* The load is over when it is past the last type.                         *)
Turn == /\ pc = "done" <=> at = Len(ProfileDataTypes) + 1
        /\ passedOver \subseteq 1 .. at - 1

(* The receiver is never ahead of what was last written.                   *)
Behind == \A t \in Positions, k \in Keys :
            received[t][k] <= LastVersion(stored[t][k])

(* What is still to be sent is newer than what was, older than what is.    *)
Snapshot ==
  pc = "send" => \A k \in unsent :
    /\ rows[k] > 0 /\ rows[k] >= received[at][k]
    /\ rows[k] <= LastVersion(stored[at][k])

(* A row that was there when the turn of the type began, and was not       *)
(* removed, is there as long as the turn lasts; the try under way has      *)
(* still to send it, or has.                                               *)
Owed(k) == k \notin gone /\ before[k] > 0
StillStored == pc # "done" => \A k \in Keys : Owed(k) => stored[at][k] >= before[k]
SentOrUnsent ==
  pc = "send" => \A k \in Keys : Owed(k) =>
    IF k \in unsent THEN rows[k] >= before[k] ELSE received[at][k] >= before[k]

LoadIInv == LoadTypeOK /\ Turn /\ Behind /\ Snapshot /\ StillStored /\ SentOrUnsent

-----------------------------------------------------------------------------

LEMMA TypesAreThere ==
  Len(ProfileDataTypes) \in Nat \ {0} /\ MaxTries \in Nat \ {0} /\ MaxChanges \in Nat
  BY LoadAssumption

LEMMA EmptyIsTable == Empty \in Tables
  BY TypesAreThere DEF Empty, Tables

LEMMA LoadInitIInv == LoadInit => LoadIInv
  <1> SUFFICES ASSUME LoadInit PROVE LoadIInv
    OBVIOUS
  <1>1. 1 \in Positions
    BY TypesAreThere DEF Positions
  <1>2. stored \in [Positions -> Tables] /\ \A t \in Positions, k \in Keys : stored[t][k] \in {0, 1}
    BY TypesAreThere DEF LoadInit, Tables
  <1>3. before \in Tables
    BY <1>1, <1>2 DEF LoadInit
  <1>4. received \in [Positions -> Tables]
    BY EmptyIsTable DEF LoadInit
  <1>5. LoadTypeOK
    BY <1>2, <1>3, <1>4, EmptyIsTable, TypesAreThere DEF LoadInit, LoadTypeOK
  <1>6. Turn
    BY TypesAreThere DEF LoadInit, Turn
  <1>7. Behind
    BY <1>2 DEF LoadInit, Behind, Empty, LastVersion
  <1>8. Snapshot /\ SentOrUnsent
    BY DEF LoadInit, Snapshot, SentOrUnsent
  <1>9. StillStored
    BY <1>1, <1>2 DEF LoadInit, StillStored, Tables
  <1> QED
    BY <1>5, <1>6, <1>7, <1>8, <1>9 DEF LoadIInv

(* What holds of the next type when its turn begins.                       *)
LEMMA NextTypeIInv ==
  ASSUME LoadIInv, NextType, pc # "done", UNCHANGED <<database, received>>,
         passedOver' \subseteq passedOver \cup {at}
  PROVE  LoadIInv'
  <1>0. LoadTypeOK /\ Turn /\ Behind
    BY DEF LoadIInv
  <1>1. at \in Positions /\ Len(ProfileDataTypes) \in Nat /\ passedOver \subseteq 1 .. at - 1
    BY <1>0, TypesAreThere DEF LoadTypeOK, Turn, Positions
  <1>2. /\ at' = at + 1 /\ tries' = 0 /\ rows' = Empty /\ unsent' = {} /\ gone' = {}
        /\ stored' = stored /\ changes' = changes /\ received' = received
    BY DEF NextType, database
  <1>3. \/ at = Len(ProfileDataTypes) /\ pc' = "done" /\ before' = Empty
        \/ at # Len(ProfileDataTypes) /\ pc' = "query" /\ before' = stored[at + 1]
    BY DEF NextType
  <1>4. at # Len(ProfileDataTypes) => at + 1 \in Positions
    BY <1>1 DEF Positions
  <1>5. before' \in Tables
    BY <1>0, <1>3, <1>4, EmptyIsTable DEF LoadTypeOK
  <1>6. passedOver' \subseteq Positions /\ passedOver' \subseteq 1 .. at' - 1
    BY <1>1, <1>2 DEF Positions
  <1>7. LoadTypeOK'
    BY <1>0, <1>1, <1>2, <1>3, <1>5, <1>6, EmptyIsTable, TypesAreThere DEF LoadTypeOK, Positions
  <1>8. Turn'
    BY <1>1, <1>2, <1>3, <1>6 DEF Turn, Positions
  <1>9. Behind' /\ Snapshot' /\ SentOrUnsent'
    BY <1>0, <1>2, <1>3 DEF Behind, Snapshot, SentOrUnsent
  <1>10. StillStored'
    <2> SUFFICES ASSUME pc' # "done", NEW k \in Keys PROVE stored'[at'][k] >= before'[k]
      BY DEF StillStored
    <2>1. stored'[at'] = before'
      BY <1>2, <1>3
    <2>2. before'[k] \in Int
      BY <1>5 DEF Tables
    <2> QED
      BY <2>1, <2>2
  <1> QED
    BY <1>7, <1>8, <1>9, <1>10 DEF LoadIInv

LEMMA GiveUpIInv == LoadIInv /\ GiveUp => LoadIInv'
  BY NextTypeIInv DEF GiveUp

LEMMA BreakIInv == LoadIInv /\ Break => LoadIInv'
  BY NextTypeIInv DEF Break

LEMMA AtIsPosition ==
  ASSUME LoadIInv, pc # "done"
  PROVE  at \in Positions /\ \A k \in Keys : stored[at][k] \in Int /\ received[at][k] \in Int
                                             /\ rows[k] \in Int /\ before[k] \in Int
  <1>1. at \in Positions
    BY TypesAreThere DEF LoadIInv, LoadTypeOK, Turn, Positions
  <1> QED
    BY <1>1, TypesAreThere DEF LoadIInv, LoadTypeOK, Tables

LEMMA GetAllIInv == LoadIInv /\ GetAll => LoadIInv'
  <1> SUFFICES ASSUME LoadIInv, GetAll PROVE LoadIInv'
    OBVIOUS
  <1>1. at \in Positions /\ \A k \in Keys : stored[at][k] \in Int /\ received[at][k] \in Int
                                            /\ before[k] \in Int
    BY AtIsPosition DEF GetAll
  <1>2. /\ rows' = stored[at] /\ unsent' = {k \in Keys : stored[at][k] > 0} /\ pc' = "send" /\ pc = "query"
        /\ tries' = tries + 1 /\ tries < MaxTries
        /\ UNCHANGED <<stored, changes, received, at, before, gone, passedOver>>
    BY DEF GetAll, Answer, Again, database
  <1>3. LoadTypeOK'
    BY <1>1, <1>2, TypesAreThere DEF LoadIInv, LoadTypeOK
  <1>4. Turn' /\ Behind'
    BY <1>2 DEF LoadIInv, Turn, Behind
  <1>5. Snapshot'
    BY <1>1, <1>2 DEF LoadIInv, Behind, Snapshot, LastVersion
  <1>6. StillStored' /\ SentOrUnsent'
    BY <1>1, <1>2 DEF LoadIInv, StillStored, SentOrUnsent, Owed
  <1> QED
    BY <1>3, <1>4, <1>5, <1>6 DEF LoadIInv

LEMMA GetAllThrowsIInv == LoadIInv /\ GetAllThrows => LoadIInv'
  <1> SUFFICES ASSUME LoadIInv, GetAllThrows PROVE LoadIInv'
    OBVIOUS
  <1>1. tries' = tries + 1 /\ tries < MaxTries
        /\ UNCHANGED <<stored, changes, received, at, rows, unsent, pc, before, gone, passedOver>>
    BY DEF GetAllThrows, Again, database
  <1>2. LoadTypeOK'
    BY <1>1, TypesAreThere DEF LoadIInv, LoadTypeOK
  <1> QED
    BY <1>1, <1>2 DEF LoadIInv, Turn, Behind, Snapshot, StillStored, SentOrUnsent, Owed

LEMMA SendIInv == ASSUME LoadIInv, NEW k \in Keys, Send(k) PROVE LoadIInv'
  <1>1. /\ at \in Positions /\ k \in unsent /\ pc = "send"
        /\ \A j \in Keys : stored[at][j] \in Int /\ received[at][j] \in Int /\ rows[j] \in Int
    BY AtIsPosition DEF Send
  <1>2. /\ received' = [received EXCEPT ![at][k] = rows[k]] /\ unsent' = unsent \ {k}
        /\ UNCHANGED <<stored, changes, at, tries, rows, pc, before, gone, passedOver>>
    BY DEF Send, database
  <1>3. /\ received' \in [Positions -> Tables] /\ received'[at][k] = rows[k]
        /\ \A t \in Positions, j \in Keys : t # at \/ j # k => received'[t][j] = received[t][j]
    BY <1>1, <1>2 DEF LoadIInv, LoadTypeOK, Tables
  <1>4. LoadTypeOK'
    BY <1>2, <1>3 DEF LoadIInv, LoadTypeOK
  <1>5. Turn'
    BY <1>2 DEF LoadIInv, Turn
  <1>6. Behind'
    BY <1>1, <1>2, <1>3 DEF LoadIInv, Behind, Snapshot
  <1>7. Snapshot'
    BY <1>1, <1>2, <1>3 DEF LoadIInv, LoadTypeOK, Snapshot
  <1>8. StillStored'
    BY <1>2 DEF LoadIInv, StillStored, Owed
  <1>9. SentOrUnsent'
    BY <1>1, <1>2, <1>3 DEF LoadIInv, SentOrUnsent, Owed
  <1> QED
    BY <1>4, <1>5, <1>6, <1>7, <1>8, <1>9 DEF LoadIInv

LEMMA SendThrowsIInv == LoadIInv /\ SendThrows => LoadIInv'
  <1> SUFFICES ASSUME LoadIInv, SendThrows PROVE LoadIInv'
    OBVIOUS
  <1>1. LoadTypeOK'
    BY EmptyIsTable DEF LoadIInv, LoadTypeOK, SendThrows, Retried, database
  <1> QED
    BY <1>1 DEF LoadIInv, SendThrows, database, Turn, Behind, Snapshot, StillStored, SentOrUnsent, Owed

LEMMA SetIInv == ASSUME LoadIInv, NEW t \in Positions, NEW k \in Keys, Set(t, k) PROVE LoadIInv'
  <1>1. /\ stored' = [stored EXCEPT ![t][k] = LastVersion(@) + 1] /\ changes' \in 0 .. MaxChanges
        /\ UNCHANGED <<received, at, tries, rows, unsent, pc, before, gone, passedOver>>
    BY TypesAreThere DEF Set, load, LoadIInv, LoadTypeOK
  <1>2. /\ stored' \in [Positions -> Tables]
        /\ stored'[t][k] = LastVersion(stored[t][k]) + 1 /\ LastVersion(stored[t][k]) \in Nat
        /\ stored'[t][k] > stored[t][k] /\ LastVersion(stored'[t][k]) = LastVersion(stored[t][k]) + 1
        /\ \A u \in Positions, j \in Keys : u # t \/ j # k => stored'[u][j] = stored[u][j]
    <2>1. stored \in [Positions -> Tables] /\ stored[t] \in Tables /\ stored[t][k] \in Int
      BY DEF LoadIInv, LoadTypeOK, Tables
    <2>2. /\ LastVersion(stored[t][k]) \in Nat /\ stored[t][k] <= LastVersion(stored[t][k])
          /\ LastVersion(stored[t][k]) + 1 \in Int
          /\ LastVersion(LastVersion(stored[t][k]) + 1) = LastVersion(stored[t][k]) + 1
      BY <1>1, <2>1 DEF LastVersion
    <2> DEFINE new == LastVersion(stored[t][k]) + 1
    <2>3. stored' = [stored EXCEPT ![t][k] = new]
      BY <1>1
    <2> HIDE DEF new
    <2>4. /\ stored'[t][k] = new
          /\ \A u \in Positions, j \in Keys : u # t \/ j # k => stored'[u][j] = stored[u][j]
      BY <2>1, <2>3 DEF Tables
    <2>5. stored' \in [Positions -> Tables]
      BY <2>1, <2>2, <2>3 DEF Tables, new
    <2> QED
      BY <2>1, <2>2, <2>4, <2>5 DEF new
  <1>3. \A u \in Positions, j \in Keys : /\ received[u][j] \in Int /\ rows[j] \in Int /\ before[j] \in Int
                                           /\ stored[u][j] \in Int
    BY TypesAreThere DEF LoadIInv, LoadTypeOK, Tables
  <1>4. pc # "done" => at \in Positions
    BY AtIsPosition
  <1>5. LoadTypeOK' /\ Turn'
    BY <1>1, <1>2 DEF LoadIInv, LoadTypeOK, Turn
  <1>6. Behind'
    BY <1>1, <1>2, <1>3, TypesAreThere DEF LoadIInv, Behind
  <1>7. Snapshot'
    BY <1>1, <1>2, <1>3, <1>4, TypesAreThere DEF LoadIInv, LoadTypeOK, Snapshot
  <1>8. StillStored'
    <2> SUFFICES ASSUME pc # "done", NEW j \in Keys, Owed(j) PROVE stored'[at][j] >= before[j]
      BY <1>1 DEF StillStored, Owed
    <2>1. stored[at][j] >= before[j] /\ at \in Positions
      BY <1>4 DEF LoadIInv, StillStored
    <2>2. stored[at][j] \in Int /\ before[j] \in Int
      BY <1>3, <2>1
    <2>3. CASE at = t /\ j = k
      BY <1>2, <2>1, <2>2, <2>3
    <2>4. CASE ~(at = t /\ j = k)
      BY <1>2, <2>1, <2>4
    <2> QED
      BY <2>3, <2>4
  <1>9. SentOrUnsent'
    BY <1>1 DEF LoadIInv, SentOrUnsent, Owed
  <1> QED
    BY <1>5, <1>6, <1>7, <1>8, <1>9 DEF LoadIInv

LEMMA RemoveIInv == ASSUME LoadIInv, NEW t \in Positions, NEW k \in Keys, RemoveRow(t, k) PROVE LoadIInv'
  <1>1. /\ stored' = [stored EXCEPT ![t][k] = -@]
        /\ gone' = IF t = at THEN gone \cup {k} ELSE gone
        /\ changes' \in 0 .. MaxChanges
        /\ UNCHANGED <<received, at, tries, rows, unsent, pc, before, passedOver>>
    BY TypesAreThere DEF RemoveRow, LoadIInv, LoadTypeOK
  <1>2. /\ stored' \in [Positions -> Tables] /\ LastVersion(stored'[t][k]) = LastVersion(stored[t][k])
        /\ \A u \in Positions, j \in Keys : u # t \/ j # k => stored'[u][j] = stored[u][j]
    BY <1>1, TypesAreThere DEF LoadIInv, LoadTypeOK, Tables, LastVersion
  <1>3. pc # "done" => at \in Positions
    BY AtIsPosition
  <1>4. LoadTypeOK' /\ Turn'
    BY <1>1, <1>2 DEF LoadIInv, LoadTypeOK, Turn
  <1>5. Behind'
    BY <1>1, <1>2 DEF LoadIInv, Behind
  <1>6. Snapshot'
    BY <1>1, <1>2, <1>3 DEF LoadIInv, LoadTypeOK, Snapshot
  <1>7. StillStored'
    BY <1>1, <1>2, <1>3 DEF LoadIInv, StillStored, Owed
  <1>8. SentOrUnsent'
    BY <1>1 DEF LoadIInv, SentOrUnsent, Owed
  <1> QED
    BY <1>4, <1>5, <1>6, <1>7, <1>8 DEF LoadIInv

LEMMA LoadStutterIInv == LoadIInv /\ UNCHANGED loadVars => LoadIInv'
  BY DEF loadVars, database, load, LoadIInv, LoadTypeOK, Turn, Behind, Snapshot, StillStored, SentOrUnsent, Owed

LEMMA LoadNextIInv == LoadIInv /\ [LoadNext]_loadVars => LoadIInv'
  <1> SUFFICES ASSUME LoadIInv, [LoadNext]_loadVars PROVE LoadIInv'
    OBVIOUS
  <1>1. CASE LoadStep
    BY <1>1, GiveUpIInv, GetAllIInv, GetAllThrowsIInv, SendIInv, SendThrowsIInv, BreakIInv DEF LoadStep
  <1>2. ASSUME NEW t \in Positions, NEW k \in Keys, Set(t, k) \/ RemoveRow(t, k) PROVE LoadIInv'
    BY <1>2, SetIInv, RemoveIInv
  <1>3. CASE UNCHANGED loadVars
    BY <1>3, LoadStutterIInv
  <1> QED
    BY <1>1, <1>2, <1>3 DEF LoadNext

-----------------------------------------------------------------------------

(* The strengthened invariant: the receiver is behind every table, and a   *)
(* try under way has a snapshot between the two (cached.h,                 *)
(* profile_get_all).                                                       *)
THEOREM LoadInvariance == LoadSpec => []LoadIInv
  <1> QED
    BY LoadInitIInv, LoadNextIInv, PTL DEF LoadSpec

(* A step that is not the loop's moves neither the turn nor the receiver.  *)
LEMMA OthersOnlyStore ==
  ASSUME NEW t \in Positions, NEW k \in Keys, Set(t, k) \/ RemoveRow(t, k)
  PROVE  at' = at /\ received' = received
  BY DEF Set, RemoveRow, load

(* A type whose turn ends with a break has been sent whole, whatever threw *)
(* in the middle of earlier tries (cached.h, the loop of profile_get_all). *)
THEOREM LoadsWhole == LoadSpec => LoadedIsComplete
  <1> DEFINE Whole == at' # at /\ passedOver' = passedOver =>
                        \A k \in Keys \ gone : before[k] > 0 => received[at][k] >= before[k]
  <1>1. LoadIInv /\ [LoadNext]_loadVars => Whole
    <2> SUFFICES ASSUME LoadIInv, [LoadNext]_loadVars, at' # at, passedOver' = passedOver,
                        NEW k \in Keys \ gone, before[k] > 0
                 PROVE  received[at][k] >= before[k]
      OBVIOUS
    <2>1. GiveUp \/ Break
      BY OthersOnlyStore DEF LoadNext, LoadStep, GetAll, GetAllThrows, Send, SendThrows, loadVars, database, load
    <2>2. at \in Nat /\ passedOver \subseteq 1 .. at - 1
      BY TypesAreThere DEF LoadIInv, LoadTypeOK, Turn
    <2>3. ~GiveUp
      BY <2>2 DEF GiveUp
    <2> QED
      BY <2>1, <2>3 DEF Break, AllSent, LoadIInv, SentOrUnsent, Owed
  <1>2. LoadIInv /\ [LoadNext]_loadVars => [Whole]_loadVars
    BY <1>1
  <1> QED
    BY <1>2, LoadInvariance, PTL DEF LoadSpec, LoadedIsComplete

(* No try takes the receiver back to an older row: every query of a type   *)
(* is at least as new as what was sent of it (cached.h, receiver << state). *)
THEOREM NeverOlder == LoadSpec => ResendIsNotOlder
  <1> DEFINE Newer == \A t \in Positions, k \in Keys : received'[t][k] >= received[t][k]
  <1>1. LoadIInv /\ [LoadNext]_loadVars => Newer
    <2> SUFFICES ASSUME LoadIInv, [LoadNext]_loadVars PROVE Newer
      OBVIOUS
    <2>1. \A t \in Positions, k \in Keys : received[t][k] \in Int
      BY TypesAreThere DEF LoadIInv, LoadTypeOK, Tables
    <2>2. CASE received' = received
      BY <2>1, <2>2
    <2>3. ASSUME NEW k \in Keys, Send(k) PROVE Newer
      <3>1. k \in unsent /\ pc = "send" /\ received' = [received EXCEPT ![at][k] = rows[k]]
        BY <2>3 DEF Send
      <3>2. at \in Positions /\ rows[k] >= received[at][k]
        BY <3>1, AtIsPosition DEF LoadIInv, Snapshot
      <3>3. received'[at][k] = rows[k]
            /\ \A t \in Positions, j \in Keys : t # at \/ j # k => received'[t][j] = received[t][j]
        BY <3>1, <3>2 DEF LoadIInv, LoadTypeOK, Tables
      <3> QED
        BY <2>1, <3>2, <3>3
    <2> QED
      BY <2>2, <2>3, OthersOnlyStore
         DEF LoadNext, LoadStep, GiveUp, GetAll, GetAllThrows, SendThrows, Break, loadVars, database, load
  <1>2. LoadIInv /\ [LoadNext]_loadVars => [Newer]_loadVars
    BY <1>1
  <1> QED
    BY <1>2, LoadInvariance, PTL DEF LoadSpec, ResendIsNotOlder
=================================================================================

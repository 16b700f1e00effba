----------------------------- MODULE JournalProofs -----------------------------
(***************************************************************************)
(* That a journal implements one growing log of whole events and never     *)
(* touches what it has published, for any number of threads, readers,      *)
(* pages, frames and crashes, and pages of any size.                       *)
(***************************************************************************)
EXTENDS Journal, TLAPS

Places == 0 .. PageSize - 1
Cells == [length : Nat, type : Nat, source : Nat, word : Nat]
Memory == [1 .. MaxPages -> [Places -> Cells]]
Frames == [msg : Messages, page : 1 .. MaxPages, addr : Places]
End(f) == f.addr + FrameLength(f.msg.len)

Basic ==
  /\ mem \in Memory
  /\ wpage \in 1 .. MaxPages /\ waddr \in Places
  /\ owner \in Threads \cup {NoThread}
  /\ pc \in [Threads -> {"idle", "copy", "stamp", "clear", "publish"}]
  /\ job \in [Threads -> Messages \cup {NoJob}]
  /\ copied \in Nat /\ begun \in 0 .. MaxFrames
  /\ published \in Seq(Frames)
  /\ rpage \in [Readers -> Int] /\ raddr \in [Readers -> Int]
  /\ rpc \in [Readers -> {"idle", "handle"}] /\ got \in [Readers -> Seq(Event)]
  /\ crashes \in 0 .. MaxCrashes /\ rejoins \in 0 .. MaxRejoins
  /\ \A t \in Threads : owner = t <=> pc[t] # "idle"

(* The writer's frame has no length, and the pages after it are untouched. *)
Frontier ==
  /\ mem[wpage][waddr].length = 0
  /\ \A p \in wpage + 1 .. MaxPages : \A a \in Places : mem[p][a] = Zeroed

(* What the thread inside open_frame .. close_frame has written so far.    *)
Working ==
  \A t \in Threads : pc[t] # "idle" =>
    LET m == job[t] IN
    /\ m \in Messages /\ Fits(waddr, m.len)
    /\ mem[wpage][waddr].type = Data
    /\ mem[wpage][waddr].source = IF pc[t] \in {"copy", "stamp"} THEN Home ELSE m.source
    /\ copied <= m.len /\ (pc[t] # "copy" => copied = m.len)
    /\ \A j \in 1 .. copied : mem[wpage][waddr + j].word = m.name
    /\ pc[t] = "publish" => mem[wpage][waddr + FrameLength(m.len)].length = 0

(* A published frame is whole, in its page and before the writer.          *)
Whole ==
  \A i \in DOMAIN published :
    LET f == published[i] IN
    /\ f.page <= wpage /\ Fits(f.addr, f.msg.len)
    /\ f.page = wpage => End(f) <= waddr
    /\ mem[f.page][f.addr].length = FrameLength(f.msg.len)
    /\ mem[f.page][f.addr].type = Data /\ mem[f.page][f.addr].source = f.msg.source
    /\ \A j \in 1 .. f.msg.len : mem[f.page][f.addr + j].word = f.msg.name

(* Where a reader stands that has read n frames: at the next one, where    *)
(* the writer is if there is none, or at the end of the page before that.  *)
Due(n, p, a) ==
  IF n < Len(published) THEN published[n + 1].page = p /\ published[n + 1].addr = a
                        ELSE p = wpage /\ a = waddr
EndsPage(p, a) ==
  p \in 1 .. wpage - 1 /\ a \in Places /\ mem[p][a].length = HeaderLen /\ mem[p][a].type = PageEnd
After(n, p, a) == Due(n, p, a) \/ (EndsPage(p, a) /\ Due(n, p + 1, 0))

(* The frames follow one another, from the first to the writer.            *)
Chained ==
  /\ After(0, 1, 0)
  /\ \A i \in DOMAIN published : After(i, published[i].page, End(published[i]))

(* The seek of a writer that starts passes the frames of its page, and     *)
(* finds the frame its predecessor was on.                                 *)
PageBegins == waddr = 0 \/ \E i \in DOMAIN published : published[i].page = wpage /\ published[i].addr = 0
WalkReaches ==
  \A visited \in SUBSET Places :
    /\ 0 \in visited
    /\ \A a \in visited : a < waddr /\ mem[wpage][a].length > 0 => a + mem[wpage][a].length \in visited
    => waddr \in visited

ReadersPlaced ==
  \A r \in Readers :
    /\ Len(got[r]) <= Len(published)
    /\ After(Len(got[r]), rpage[r], raddr[r])
    /\ rpc[r] = "handle" =>
         /\ Len(got[r]) < Len(published)
         /\ published[Len(got[r]) + 1].page = rpage[r] /\ published[Len(got[r]) + 1].addr = raddr[r]

IInv ==
  /\ Basic /\ Frontier /\ Working /\ Whole
  /\ Chained /\ PageBegins /\ WalkReaches /\ ReadersPlaced

-----------------------------------------------------------------------------

LEMMA Numbers ==
  /\ PageSize \in Nat \ {0} /\ MaxPages \in Nat \ {0} /\ MaxFrames \in Nat
  /\ MaxCrashes \in Nat /\ MaxRejoins \in Nat
  /\ DataLens \subseteq Nat /\ NoThread \notin Threads
  BY PageAssumption, BoundAssumption, ThreadAssumption

LEMMA FitsIn ==
  ASSUME NEW a \in Places, NEW len \in DataLens, Fits(a, len)
  PROVE  /\ len \in Nat /\ FrameLength(len) = len + 1
         /\ a + FrameLength(len) \in Places
         /\ \A j \in 0 .. len : a + j \in Places
  BY Numbers DEF Places, Fits, Border, HeaderLen, FrameLength

LEMMA MessageIs ==
  ASSUME NEW m \in Messages
  PROVE  m.name \in 1 .. MaxFrames /\ m.len \in DataLens /\ m.source \in {Home, Foreign}
  BY DEF Messages

(* A published frame lies before the writer, with all its cells.           *)
LEMMA PublishedBefore ==
  ASSUME Basic, Whole, NEW i \in DOMAIN published
  PROVE  LET f == published[i] IN
         /\ f \in Frames /\ f.msg \in Messages
         /\ f.page \in 1 .. MaxPages /\ f.addr \in Places /\ f.msg.len \in DataLens
         /\ \A j \in 0 .. f.msg.len : f.addr + j \in Places /\ (f.page # wpage \/ f.addr + j < waddr)
  <1> DEFINE f == published[i]
  <1>1. /\ f.page <= wpage /\ Fits(f.addr, f.msg.len)
        /\ f.page = wpage => End(f) <= waddr
    BY DEF Whole
  <1>2. f \in Frames /\ wpage \in 1 .. MaxPages /\ waddr \in Places
    BY DEF Basic
  <1>3. f.page \in 1 .. MaxPages /\ f.addr \in Places /\ f.msg \in Messages /\ f.msg.len \in DataLens
    BY <1>2, MessageIs DEF Frames
  <1> HIDE DEF f
  <1>4. \A j \in 0 .. f.msg.len : f.addr + j \in Places /\ (f.page # wpage \/ f.addr + j < waddr)
    BY <1>1, <1>2, <1>3, FitsIn DEF End, Places
  <1> QED
    BY <1>2, <1>3, <1>4 DEF f

LEMMA InitIInv == Init => IInv
  <1> SUFFICES ASSUME Init PROVE IInv
    OBVIOUS
  <1>1. 1 \in 1 .. MaxPages /\ 0 \in Places
    BY Numbers DEF Places
  <1>2. mem \in Memory /\ \A p \in 1 .. MaxPages, a \in Places : mem[p][a] = Zeroed
    BY DEF Init, Memory, Cells, Zeroed, Places
  <1>3. Basic
    <2>1. /\ pc \in [Threads -> {"idle", "copy", "stamp", "clear", "publish"}]
          /\ job \in [Threads -> Messages \cup {NoJob}]
      BY DEF Init
    <2>2. \A t \in Threads : owner = t <=> pc[t] # "idle"
      BY Numbers DEF Init
    <2>3. /\ rpage \in [Readers -> Int] /\ raddr \in [Readers -> Int]
          /\ rpc \in [Readers -> {"idle", "handle"}] /\ got \in [Readers -> Seq(Event)]
      BY DEF Init
    <2>4. published \in Seq(Frames)
      BY DEF Init
    <2> QED
      BY <1>1, <1>2, <2>1, <2>2, <2>3, <2>4, Numbers DEF Init, Basic
  <1>4. Frontier
    <2>1. \A p \in 1 + 1 .. MaxPages : p \in 1 .. MaxPages
      BY Numbers
    <2>2. mem[1][0].length = 0
      BY <1>1, <1>2 DEF Zeroed
    <2> QED
      BY <1>2, <2>1, <2>2 DEF Init, Frontier
  <1>5. Working /\ Whole
    BY DEF Init, Working, Whole
  <1>6. Chained /\ PageBegins /\ WalkReaches
    BY DEF Init, Chained, After, Due, PageBegins, WalkReaches
  <1>7. ReadersPlaced
    BY DEF Init, ReadersPlaced, After, Due
  <1> QED
    BY <1>3, <1>4, <1>5, <1>6, <1>7 DEF IInv

(* What a step changes nothing of keeps its place: as long as the writer   *)
(* stays on its frame and stores at or after it, in its page, and not its  *)
(* length, all that was published stands.                                  *)
Aside ==
  /\ mem' \in Memory
  /\ UNCHANGED <<wpage, waddr, published, rpage, raddr, rpc, got>>
  /\ mem'[wpage][waddr].length = mem[wpage][waddr].length
  /\ \A p \in 1 .. MaxPages, a \in Places :
       p # wpage \/ a < waddr => mem'[p][a] = mem[p][a]

LEMMA AsideKeeps ==
  ASSUME IInv, Aside
  PROVE  Frontier' /\ Whole' /\ Chained' /\ PageBegins' /\ WalkReaches' /\ ReadersPlaced'
  <1>0. Basic /\ Frontier /\ Whole /\ Chained /\ PageBegins /\ WalkReaches /\ ReadersPlaced
    BY DEF IInv
  <1>1. /\ wpage \in 1 .. MaxPages /\ waddr \in Places
        /\ UNCHANGED <<wpage, waddr, published, rpage, raddr, rpc, got>>
    BY <1>0 DEF Basic, Aside
  <1>2. \A p \in 1 .. MaxPages, a \in Places : p # wpage \/ a < waddr => mem'[p][a] = mem[p][a]
    BY DEF Aside
  <1>3. Frontier'
    <2>1. mem'[wpage][waddr].length = 0
      BY <1>0 DEF Frontier, Aside
    <2>2. ASSUME NEW p \in wpage + 1 .. MaxPages, NEW a \in Places PROVE mem'[p][a] = Zeroed
      <3>1. p \in 1 .. MaxPages /\ p # wpage
        BY <1>1, Numbers
      <3> QED
        BY <1>0, <1>2, <3>1 DEF Frontier
    <2> QED
      BY <1>1, <2>1, <2>2 DEF Frontier
  <1>4. Whole'
    <2> SUFFICES ASSUME NEW i \in DOMAIN published
                 PROVE  LET f == published[i] IN
                        /\ f.page <= wpage /\ Fits(f.addr, f.msg.len)
                        /\ f.page = wpage => End(f) <= waddr
                        /\ mem'[f.page][f.addr].length = FrameLength(f.msg.len)
                        /\ mem'[f.page][f.addr].type = Data
                        /\ mem'[f.page][f.addr].source = f.msg.source
                        /\ \A j \in 1 .. f.msg.len : mem'[f.page][f.addr + j].word = f.msg.name
      BY <1>1 DEF Whole, End
    <2> DEFINE f == published[i]
    <2>1. /\ f.page <= wpage /\ Fits(f.addr, f.msg.len)
          /\ f.page = wpage => End(f) <= waddr
          /\ mem[f.page][f.addr].length = FrameLength(f.msg.len)
          /\ mem[f.page][f.addr].type = Data /\ mem[f.page][f.addr].source = f.msg.source
          /\ \A j \in 1 .. f.msg.len : mem[f.page][f.addr + j].word = f.msg.name
      BY <1>0 DEF Whole
    <2>3. f.page \in 1 .. MaxPages /\ f.addr \in Places /\ f.msg.len \in DataLens
      BY <1>0, PublishedBefore
    <2>4. \A j \in 0 .. f.msg.len : f.addr + j \in Places /\ (f.page # wpage \/ f.addr + j < waddr)
      BY <1>0, PublishedBefore
    <2> HIDE DEF f
    <2>5. \A j \in 0 .. f.msg.len : mem'[f.page][f.addr + j] = mem[f.page][f.addr + j]
      BY <1>2, <2>3, <2>4
    <2>6. f.msg.len \in Nat /\ f.addr + 0 = f.addr
      BY <2>1, <2>3, FitsIn DEF Places
    <2>7. mem'[f.page][f.addr] = mem[f.page][f.addr]
      BY <2>5, <2>6
    <2> QED
      BY <2>1, <2>5, <2>6, <2>7 DEF f
  <1>5. \A p, a : EndsPage(p, a) =>
          p \in 1 .. wpage - 1 /\ a \in Places /\ mem'[p][a].length = HeaderLen /\ mem'[p][a].type = PageEnd
    <2> SUFFICES ASSUME NEW p, NEW a, EndsPage(p, a) PROVE mem'[p][a] = mem[p][a]
      BY DEF EndsPage
    <2>1. p \in 1 .. MaxPages /\ p # wpage /\ a \in Places
      BY <1>1, Numbers DEF EndsPage
    <2> QED
      BY <1>2, <2>1
  <1>7. Chained'
    BY <1>0, <1>1, <1>5 DEF Chained, After, Due, EndsPage, End
  <1>8. PageBegins'
    BY <1>0, <1>1 DEF PageBegins
  <1>9. WalkReaches'
    <2> SUFFICES ASSUME NEW visited \in SUBSET Places, 0 \in visited,
                        \A a \in visited : a < waddr /\ mem'[wpage][a].length > 0
                                             => a + mem'[wpage][a].length \in visited
                 PROVE  waddr \in visited
      BY <1>1 DEF WalkReaches
    <2>1. \A a \in visited : a < waddr => mem'[wpage][a] = mem[wpage][a]
      BY <1>1, <1>2
    <2> QED
      BY <1>0, <2>1 DEF WalkReaches
  <1>10. ReadersPlaced'
    BY <1>0, <1>1, <1>5 DEF ReadersPlaced, After, Due, EndsPage
  <1> QED
    BY <1>3, <1>4, <1>7, <1>8, <1>9, <1>10

-----------------------------------------------------------------------------
(* The writer's steps                                                        *)

(* Only one thread is between open_frame and close_frame.                  *)
LEMMA OneWorks ==
  ASSUME Basic, NEW t \in Threads, NEW u \in Threads, pc[t] # "idle", pc[u] # "idle"
  PROVE  t = u
  BY DEF Basic

LEMMA CopyDataIInv == ASSUME IInv, NEW t \in Threads, CopyData(t) PROVE IInv'
  <1> DEFINE m == job[t]
             x == waddr + HeaderLen + copied
  <1>0. Basic /\ Frontier /\ Working
    BY DEF IInv
  <1>1. /\ pc[t] = "copy"
        /\ UNCHANGED <<wpage, waddr, owner, job, begun, published, readerVars, crashes, rejoins>>
    BY DEF CopyData
  <1>2. /\ m \in Messages /\ Fits(waddr, m.len) /\ mem[wpage][waddr].type = Data
        /\ mem[wpage][waddr].source = Home /\ copied <= m.len
        /\ \A j \in 1 .. copied : mem[wpage][waddr + j].word = m.name
    BY <1>0, <1>1 DEF Working
  <1>3. wpage \in 1 .. MaxPages /\ waddr \in Places /\ copied \in Nat /\ m.len \in DataLens /\ m.len \in Nat
    BY <1>0, <1>2, MessageIs, Numbers DEF Basic
  <1>4. CASE /\ copied < m.len
             /\ mem' = [mem EXCEPT ![wpage][x] = DataCell(m.name)]
             /\ copied' = copied + 1 /\ UNCHANGED pc
    <2>1. x \in Places /\ x > waddr /\ x = waddr + (copied + 1)
      BY <1>2, <1>3, <1>4, FitsIn DEF HeaderLen, Places
    <2>2. DataCell(m.name) \in Cells
      BY <1>2, MessageIs, Numbers DEF DataCell, Cells, Data, Home
    <2>3. /\ mem' \in Memory /\ mem'[wpage][x] = DataCell(m.name)
          /\ \A q \in 1 .. MaxPages, b \in Places : q # wpage \/ b # x => mem'[q][b] = mem[q][b]
      BY <1>0, <1>3, <1>4, <2>1, <2>2 DEF Basic, Memory
    <2>4. Aside
      BY <1>1, <1>3, <2>1, <2>3 DEF Aside, readerVars, Places
    <2>5. Basic'
      BY <1>0, <1>1, <1>3, <1>4, <2>3 DEF Basic, readerVars
    <2>6. Working'
      <3> SUFFICES ASSUME NEW u \in Threads, pc[u] # "idle"
                   PROVE  LET n == job[u] IN
                          /\ n \in Messages /\ Fits(waddr, n.len)
                          /\ mem'[wpage][waddr].type = Data
                          /\ mem'[wpage][waddr].source = IF pc[u] \in {"copy", "stamp"} THEN Home ELSE n.source
                          /\ copied' <= n.len /\ (pc[u] # "copy" => copied' = n.len)
                          /\ \A j \in 1 .. copied' : mem'[wpage][waddr + j].word = n.name
                          /\ pc[u] = "publish" => mem'[wpage][waddr + FrameLength(n.len)].length = 0
        BY <1>1, <1>4 DEF Working
      <3>1. u = t
        BY <1>0, <1>1, OneWorks
      <3>2. mem'[wpage][waddr] = mem[wpage][waddr]
        BY <1>3, <2>1, <2>3 DEF Places
      <3>3. ASSUME NEW j \in 1 .. copied + 1 PROVE mem'[wpage][waddr + j].word = m.name
        <4>1. waddr + j \in Places
          BY <1>2, <1>3, <1>4, FitsIn
        <4>2. CASE j = copied + 1
          BY <2>1, <2>3, <4>2 DEF DataCell
        <4>3. CASE j # copied + 1
          <5>1. waddr + j # x /\ j \in 1 .. copied
            BY <1>3, <2>1, <4>3 DEF Places
          <5> QED
            BY <1>2, <1>3, <2>3, <4>1, <5>1
        <4> QED
          BY <4>2, <4>3
      <3> QED
        BY <1>1, <1>2, <1>3, <1>4, <3>1, <3>2, <3>3
    <2> QED
      BY <2>4, <2>5, <2>6, AsideKeeps DEF IInv
  <1>5. CASE ~(copied < m.len) /\ pc' = [pc EXCEPT ![t] = AfterCopy(t)] /\ UNCHANGED <<mem, copied>>
    <2>1. AfterCopy(t) \in {"clear", "stamp"} /\ (AfterCopy(t) = "clear" => m.source = Home)
      BY DEF AfterCopy
    <2>2. Aside
      BY <1>0, <1>1, <1>5 DEF Aside, Basic, readerVars
    <2>3. Basic'
      BY <1>0, <1>1, <1>5, <2>1 DEF Basic, readerVars
    <2>4. Working'
      BY <1>0, <1>1, <1>2, <1>3, <1>5, <2>1 DEF Working, Basic
    <2> QED
      BY <2>2, <2>3, <2>4, AsideKeeps DEF IInv
  <1> QED
    BY <1>4, <1>5 DEF CopyData

LEMMA SetSourceIInv == ASSUME IInv, NEW t \in Threads, SetSource(t) PROVE IInv'
  <1> DEFINE m == job[t]
             c == [mem[wpage][waddr] EXCEPT !.source = m.source]
  <1>0. Basic /\ Frontier /\ Working
    BY DEF IInv
  <1>1. /\ pc[t] = "stamp" /\ pc' = [pc EXCEPT ![t] = "clear"]
        /\ mem' = [mem EXCEPT ![wpage][waddr] = c]
        /\ UNCHANGED <<wpage, waddr, owner, job, copied, begun, published, readerVars, crashes, rejoins>>
    BY DEF SetSource
  <1>2. /\ m \in Messages /\ Fits(waddr, m.len) /\ mem[wpage][waddr].type = Data /\ copied = m.len
        /\ \A j \in 1 .. copied : mem[wpage][waddr + j].word = m.name
    BY <1>0, <1>1 DEF Working
  <1>3. /\ wpage \in 1 .. MaxPages /\ waddr \in Places /\ copied \in Nat /\ m.len \in DataLens
        /\ mem[wpage][waddr] \in Cells /\ m.source \in {Home, Foreign}
    BY <1>0, <1>2, MessageIs DEF Basic, Memory
  <1>4. /\ c \in Cells /\ c.type = Data /\ c.source = m.source /\ c.length = mem[wpage][waddr].length
    BY <1>2, <1>3 DEF Cells, Home, Foreign
  <1> HIDE DEF c
  <1>5. /\ mem' \in Memory /\ mem'[wpage][waddr] = c
        /\ \A q \in 1 .. MaxPages, b \in Places : q # wpage \/ b # waddr => mem'[q][b] = mem[q][b]
    BY <1>0, <1>1, <1>3, <1>4 DEF Basic, Memory
  <1>6. Aside
    BY <1>1, <1>3, <1>4, <1>5 DEF Aside, readerVars, Places
  <1>7. Basic'
    BY <1>0, <1>1, <1>5 DEF Basic, readerVars
  <1>8. Working'
    <2>1. \A j \in 1 .. copied : mem'[wpage][waddr + j] = mem[wpage][waddr + j]
      BY <1>2, <1>3, <1>5, FitsIn DEF Places
    <2>2. \A u \in Threads : pc'[u] # "idle" => u = t /\ pc'[u] = "clear"
      BY <1>0, <1>1 DEF Basic
    <2> QED
      BY <1>1, <1>2, <1>3, <1>4, <1>5, <2>1, <2>2 DEF Working
  <1> QED
    BY <1>6, <1>7, <1>8, AsideKeeps DEF IInv

LEMMA ClearNextIInv == ASSUME IInv, NEW t \in Threads, ClearNext(t) PROVE IInv'
  <1> DEFINE m == job[t]
             x == waddr + FrameLength(m.len)
  <1>0. Basic /\ Frontier /\ Working
    BY DEF IInv
  <1>1. /\ pc[t] = "clear" /\ pc' = [pc EXCEPT ![t] = "publish"]
        /\ mem' = [mem EXCEPT ![wpage][x] = Zeroed]
        /\ UNCHANGED <<wpage, waddr, owner, job, copied, begun, published, readerVars, crashes, rejoins>>
    BY DEF ClearNext
  <1>2. /\ m \in Messages /\ Fits(waddr, m.len) /\ mem[wpage][waddr].type = Data
        /\ mem[wpage][waddr].source = m.source /\ copied = m.len
        /\ \A j \in 1 .. copied : mem[wpage][waddr + j].word = m.name
    BY <1>0, <1>1 DEF Working
  <1>3. /\ wpage \in 1 .. MaxPages /\ waddr \in Places /\ copied \in Nat /\ m.len \in DataLens
    BY <1>0, <1>2, MessageIs DEF Basic
  <1>4. /\ x \in Places /\ x = waddr + m.len + 1 /\ x > waddr /\ m.len \in Nat
        /\ \A j \in 0 .. copied : waddr + j \in Places /\ waddr + j # x
    BY <1>2, <1>3, FitsIn DEF Places
  <1>5. Zeroed \in Cells /\ Zeroed.length = 0
    BY DEF Zeroed, Cells
  <1>6. /\ mem' \in Memory /\ mem'[wpage][x] = Zeroed
        /\ \A q \in 1 .. MaxPages, b \in Places : q # wpage \/ b # x => mem'[q][b] = mem[q][b]
    BY <1>0, <1>1, <1>3, <1>4, <1>5 DEF Basic, Memory
  <1>7. Aside
    BY <1>1, <1>3, <1>4, <1>6 DEF Aside, readerVars, Places
  <1>8. Basic'
    BY <1>0, <1>1, <1>6 DEF Basic, readerVars
  <1>9. Working'
    <2>1. \A j \in 0 .. copied : mem'[wpage][waddr + j] = mem[wpage][waddr + j]
      BY <1>3, <1>4, <1>6
    <2>2. mem'[wpage][waddr] = mem[wpage][waddr]
      <3>1. waddr # x /\ waddr \in Places
        BY <1>3, <1>4 DEF Places
      <3> HIDE DEF x
      <3> QED
        BY <1>3, <1>6, <3>1
    <2>3. \A u \in Threads : pc'[u] # "idle" => u = t /\ pc'[u] = "publish"
      BY <1>0, <1>1 DEF Basic
    <2> QED
      BY <1>1, <1>2, <1>3, <1>5, <1>6, <2>1, <2>2, <2>3 DEF Working
  <1> QED
    BY <1>7, <1>8, <1>9, AsideKeeps DEF IInv

LEMMA OpenedIs ==
  ASSUME NEW pages \in Memory, NEW p \in 1 .. MaxPages, NEW a \in Places
  PROVE  \E c \in Cells : /\ c.type = Data /\ c.source = Home /\ c.length = pages[p][a].length
                          /\ Opened(pages, p, a) = [pages EXCEPT ![p][a] = c]
  <1> DEFINE c == [pages[p][a] EXCEPT !.type = Data, !.source = Home]
  <1>1. pages[p][a] \in Cells
    BY DEF Memory
  <1>2. c \in Cells /\ c.type = Data /\ c.source = Home /\ c.length = pages[p][a].length
    BY <1>1 DEF Cells, Data, Home
  <1>3. Opened(pages, p, a) = [pages EXCEPT ![p][a] = c]
    BY DEF Opened
  <1> QED
    BY <1>2, <1>3

(* A frame that fits is begun where the writer is.                          *)
LEMMA OpenHereIInv ==
  ASSUME IInv, NEW t \in Threads, OpenFrame(t), NEW len \in DataLens, NEW source \in {Home, Foreign},
         job' = [job EXCEPT ![t] = [name |-> begun', len |-> len, source |-> source]],
         Fits(waddr, len), UNCHANGED <<wpage, waddr>>,
         NEW c \in Cells, c.type = Data, c.source = Home, c.length = mem[wpage][waddr].length,
         mem' = [mem EXCEPT ![wpage][waddr] = c]
  PROVE  IInv'
  <1> DEFINE m == [name |-> begun', len |-> len, source |-> source]
  <1>0. Basic /\ Frontier
    BY DEF IInv
  <1>1. /\ pc[t] = "idle" /\ owner = NoThread /\ begun < MaxFrames /\ begun' = begun + 1
        /\ owner' = t /\ pc' = [pc EXCEPT ![t] = "copy"] /\ copied' = 0
        /\ UNCHANGED <<published, readerVars, crashes, rejoins>>
    BY DEF OpenFrame
  <1>2. wpage \in 1 .. MaxPages /\ waddr \in Places
    BY <1>0 DEF Basic
  <1>5. /\ mem' \in Memory /\ mem'[wpage][waddr] = c
        /\ \A q \in 1 .. MaxPages, b \in Places : q # wpage \/ b # waddr => mem'[q][b] = mem[q][b]
    BY <1>0, <1>2 DEF Basic, Memory
  <1>6. Aside
    BY <1>1, <1>2, <1>5 DEF Aside, readerVars, Places
  <1>7. m \in Messages
    BY <1>0, <1>1, Numbers DEF Messages, Basic
  <1>8. Basic'
    BY <1>0, <1>1, <1>5, <1>7, Numbers DEF Basic, readerVars
  <1>9. Working'
    <2>1. \A u \in Threads : pc'[u] # "idle" => u = t /\ pc'[u] = "copy"
      BY <1>0, <1>1, Numbers DEF Basic
    <2>2. job'[t] = m /\ m.len = len /\ len \in Nat
      BY <1>0, Numbers DEF Basic
    <2> QED
      BY <1>1, <1>5, <1>7, <2>1, <2>2 DEF Working
  <1> QED
    BY <1>6, <1>8, <1>9, AsideKeeps DEF IInv

(* One that does not fit ends the page and is begun on the next.  Everyone  *)
(* who stood where the writer was now stands at the end of a page.          *)
LEMMA OpenNextIInv ==
  ASSUME IInv, NEW t \in Threads, OpenFrame(t), NEW len \in DataLens, NEW source \in {Home, Foreign},
         job' = [job EXCEPT ![t] = [name |-> begun', len |-> len, source |-> source]],
         Fits(0, len), ~Fits(waddr, len), wpage < MaxPages, wpage' = wpage + 1, waddr' = 0,
         mem' \in Memory, mem'[wpage][waddr].length = HeaderLen, mem'[wpage][waddr].type = PageEnd,
         mem'[wpage + 1][0].length = 0, mem'[wpage + 1][0].type = Data, mem'[wpage + 1][0].source = Home,
         \A q \in 1 .. MaxPages, b \in Places :
           (q = wpage /\ b = waddr) \/ (q = wpage + 1 /\ b = 0) \/ mem'[q][b] = mem[q][b]
  PROVE  IInv'
  <1> DEFINE m == [name |-> begun', len |-> len, source |-> source]
  <1>0. Basic /\ Frontier /\ Whole /\ Chained /\ ReadersPlaced
    BY DEF IInv
  <1>1. /\ pc[t] = "idle" /\ owner = NoThread /\ begun < MaxFrames /\ begun' = begun + 1
        /\ owner' = t /\ pc' = [pc EXCEPT ![t] = "copy"] /\ copied' = 0
        /\ UNCHANGED <<published, rpage, raddr, rpc, got, crashes, rejoins>>
    BY DEF OpenFrame, readerVars
  <1>2. /\ wpage \in 1 .. MaxPages /\ wpage + 1 \in 1 .. MaxPages /\ waddr \in Places
        /\ 0 \in Places /\ waddr # 0
    BY <1>0, Numbers DEF Basic, Places
  <1>3. m \in Messages
    BY <1>0, <1>1, Numbers DEF Messages, Basic
  <1>4. Basic'
    BY <1>0, <1>1, <1>2, <1>3, Numbers DEF Basic
  <1>5. Frontier'
    <2> SUFFICES ASSUME NEW p \in wpage + 1 + 1 .. MaxPages, NEW a \in Places PROVE mem'[p][a] = Zeroed
      BY DEF Frontier
    <2>1. p \in wpage + 1 .. MaxPages /\ p \in 1 .. MaxPages /\ p # wpage /\ p # wpage + 1
      BY <1>2, Numbers
    <2> QED
      BY <1>0, <2>1 DEF Frontier
  <1>6. Working'
    <2>1. \A u \in Threads : pc'[u] # "idle" => u = t /\ pc'[u] = "copy"
      BY <1>0, <1>1, Numbers DEF Basic
    <2>2. job'[t] = m /\ m.len = len /\ len \in Nat
      BY <1>0, Numbers DEF Basic
    <2> QED
      BY <1>1, <1>3, <2>1, <2>2 DEF Working
  <1>7. Whole'
    <2> SUFFICES ASSUME NEW i \in DOMAIN published
                 PROVE  LET f == published[i] IN
                        /\ f.page <= wpage + 1 /\ f.page # wpage + 1 /\ Fits(f.addr, f.msg.len)
                        /\ mem'[f.page][f.addr].length = FrameLength(f.msg.len)
                        /\ mem'[f.page][f.addr].type = Data
                        /\ mem'[f.page][f.addr].source = f.msg.source
                        /\ \A j \in 1 .. f.msg.len : mem'[f.page][f.addr + j].word = f.msg.name
      BY <1>1, <1>2 DEF Whole
    <2> DEFINE f == published[i]
    <2>1. /\ f.page <= wpage /\ Fits(f.addr, f.msg.len)
          /\ mem[f.page][f.addr].length = FrameLength(f.msg.len)
          /\ mem[f.page][f.addr].type = Data /\ mem[f.page][f.addr].source = f.msg.source
          /\ \A j \in 1 .. f.msg.len : mem[f.page][f.addr + j].word = f.msg.name
      BY <1>0 DEF Whole
    <2>2. f.page \in 1 .. MaxPages /\ f.addr \in Places /\ f.msg.len \in DataLens
      BY <1>0, PublishedBefore
    <2>3. \A j \in 0 .. f.msg.len : f.addr + j \in Places /\ (f.page # wpage \/ f.addr + j < waddr)
      BY <1>0, PublishedBefore
    <2> HIDE DEF f
    <2>4. f.page <= wpage + 1 /\ f.page # wpage + 1 /\ f.msg.len \in Nat /\ f.addr + 0 = f.addr
      BY <1>2, <2>1, <2>2, Numbers DEF Places
    <2>5. \A j \in 0 .. f.msg.len : mem'[f.page][f.addr + j] = mem[f.page][f.addr + j]
      BY <1>2, <2>2, <2>3, <2>4 DEF Places
    <2>6. mem'[f.page][f.addr] = mem[f.page][f.addr]
      BY <2>4, <2>5
    <2> QED
      BY <2>1, <2>4, <2>5, <2>6 DEF f
  <1>8. \A p, a : EndsPage(p, a) => EndsPage(p, a)'
    <2> SUFFICES ASSUME NEW p, NEW a, EndsPage(p, a) PROVE EndsPage(p, a)'
      OBVIOUS
    <2>1. p \in 1 .. MaxPages /\ p \in 1 .. wpage /\ p # wpage /\ p # wpage + 1 /\ a \in Places
      BY <1>2, Numbers DEF EndsPage
    <2> QED
      BY <1>2, <2>1 DEF EndsPage
  <1>9. \A p, a : p = wpage /\ a = waddr => EndsPage(p, a)'
    BY <1>2 DEF EndsPage
  <1>10. \A n, p, a : After(n, p, a) => After(n, p, a)'
    <2> SUFFICES ASSUME NEW n, NEW p, NEW a, After(n, p, a) PROVE After(n, p, a)'
      OBVIOUS
    <2>1. CASE n < Len(published)
      BY <1>1, <1>8, <2>1 DEF After, Due
    <2>2. CASE ~(n < Len(published))
      <3>1. p = wpage /\ a = waddr
        BY <1>2, <2>2 DEF After, Due
      <3>2. Due(n, p + 1, 0)'
        BY <1>1, <2>2, <3>1 DEF Due
      <3> QED
        BY <1>9, <3>1, <3>2 DEF After
    <2> QED
      BY <2>1, <2>2
  <1>11. Chained'
    BY <1>0, <1>1, <1>10 DEF Chained, End
  <1>12. PageBegins' /\ WalkReaches'
    BY DEF PageBegins, WalkReaches
  <1>13. ReadersPlaced'
    BY <1>0, <1>1, <1>10 DEF ReadersPlaced
  <1> QED
    BY <1>4, <1>5, <1>6, <1>7, <1>11, <1>12, <1>13 DEF IInv

LEMMA OpenFrameIInv == ASSUME IInv, NEW t \in Threads, OpenFrame(t) PROVE IInv'
  <1>0. Basic /\ Frontier
    BY DEF IInv
  <1>1. PICK len \in DataLens, source \in {Home, Foreign} :
          /\ Fits(0, len)
          /\ job' = [job EXCEPT ![t] = [name |-> begun', len |-> len, source |-> source]]
          /\ IF Fits(waddr, len)
               THEN /\ mem' = Opened(mem, wpage, waddr)
                    /\ UNCHANGED <<wpage, waddr>>
               ELSE /\ wpage < MaxPages
                    /\ wpage' = wpage + 1
                    /\ waddr' = 0
                    /\ mem' = Opened([mem EXCEPT ![wpage][waddr] = PageEndFrame], wpage + 1, 0)
    BY DEF OpenFrame
  <1>2. wpage \in 1 .. MaxPages /\ waddr \in Places /\ 0 \in Places
    BY <1>0, Numbers DEF Basic, Places
  <1>3. CASE Fits(waddr, len)
    <2>1. PICK c \in Cells : /\ c.type = Data /\ c.source = Home /\ c.length = mem[wpage][waddr].length
                             /\ Opened(mem, wpage, waddr) = [mem EXCEPT ![wpage][waddr] = c]
      <3>1. mem \in Memory
        BY <1>0 DEF Basic
      <3> QED
        BY <1>2, <3>1, OpenedIs
    <2>2. mem' = [mem EXCEPT ![wpage][waddr] = c] /\ UNCHANGED <<wpage, waddr>>
      BY <1>1, <1>3, <2>1
    <2> QED
      BY <1>1, <1>3, <2>1, <2>2, OpenHereIInv
  <1>4. CASE ~Fits(waddr, len)
    <2> DEFINE ended == [mem EXCEPT ![wpage][waddr] = PageEndFrame]
               next == wpage + 1
    <2>1. wpage < MaxPages /\ wpage' = next /\ waddr' = 0 /\ mem' = Opened(ended, next, 0)
      BY <1>1, <1>4
    <2>2. next \in 1 .. MaxPages /\ next \in wpage + 1 .. MaxPages /\ wpage # next
      BY <1>2, <2>1, Numbers
    <2>3. PageEndFrame \in Cells /\ PageEndFrame.length = HeaderLen /\ PageEndFrame.type = PageEnd
      BY DEF PageEndFrame, Cells, HeaderLen, PageEnd, Home
    <2>4. /\ ended \in Memory /\ ended[wpage][waddr] = PageEndFrame
          /\ \A q \in 1 .. MaxPages, b \in Places : (q = wpage /\ b = waddr) \/ ended[q][b] = mem[q][b]
      BY <1>0, <1>2, <2>3 DEF Basic, Memory
    <2>5. next = wpage + 1
      OBVIOUS
    <2> HIDE DEF ended, next
    <2>6. ended[next][0].length = 0
      <3>1. mem[next][0].length = 0
        BY <1>0, <1>2, <2>2 DEF Frontier, Zeroed
      <3> QED
        BY <1>2, <2>2, <2>4, <3>1
    <2>7. PICK c \in Cells : /\ c.type = Data /\ c.source = Home /\ c.length = ended[next][0].length
                             /\ Opened(ended, next, 0) = [ended EXCEPT ![next][0] = c]
      BY <1>2, <2>2, <2>4, OpenedIs
    <2>8. mem' = [ended EXCEPT ![next][0] = c]
      BY <2>1, <2>7
    <2>9. mem' \in Memory /\ mem'[wpage][waddr] = PageEndFrame /\ mem'[next][0] = c
      BY <1>2, <2>2, <2>4, <2>8 DEF Memory
    <2>10. \A q \in 1 .. MaxPages, b \in Places :
             (q = wpage /\ b = waddr) \/ (q = next /\ b = 0) \/ mem'[q][b] = mem[q][b]
      BY <1>2, <2>2, <2>4, <2>8 DEF Memory
    <2>11. /\ mem'[wpage][waddr].length = HeaderLen /\ mem'[wpage][waddr].type = PageEnd
           /\ mem'[wpage + 1][0].length = 0 /\ mem'[wpage + 1][0].type = Data
           /\ mem'[wpage + 1][0].source = Home
      BY <2>3, <2>5, <2>6, <2>7, <2>9
    <2>12. \A q \in 1 .. MaxPages, b \in Places :
             (q = wpage /\ b = waddr) \/ (q = wpage + 1 /\ b = 0) \/ mem'[q][b] = mem[q][b]
      BY <2>5, <2>10
    <2>13. wpage < MaxPages /\ wpage' = wpage + 1 /\ waddr' = 0 /\ mem' \in Memory
      BY <2>1, <2>5, <2>9
    <2> QED
      BY <1>1, <1>4, <2>11, <2>12, <2>13, OpenNextIInv
  <1> QED
    BY <1>3, <1>4

(* Publishing makes the frame the writer was on the last one of the chain. *)
LEMMA PublishIInv == ASSUME IInv, NEW t \in Threads, Publish(t) PROVE IInv'
  <1> DEFINE m == job[t]
             next == waddr + FrameLength(m.len)
             g == [msg |-> m, page |-> wpage, addr |-> waddr]
             c == [mem[wpage][waddr] EXCEPT !.length = FrameLength(m.len)]
  <1>0. Basic /\ Frontier /\ Working /\ Whole /\ Chained /\ PageBegins /\ WalkReaches /\ ReadersPlaced
    BY DEF IInv
  <1>1. /\ pc[t] = "publish" /\ pc' = [pc EXCEPT ![t] = "idle"] /\ owner' = NoThread
        /\ waddr' = next /\ job' = [job EXCEPT ![t] = NoJob] /\ copied' = 0
        /\ mem' = [mem EXCEPT ![wpage][waddr] = c] /\ published' = Append(published, g)
        /\ UNCHANGED <<wpage, begun, rpage, raddr, rpc, got, crashes, rejoins>>
    BY DEF Publish, readerVars
  <1>2. /\ m \in Messages /\ Fits(waddr, m.len) /\ mem[wpage][waddr].type = Data
        /\ mem[wpage][waddr].source = m.source /\ copied = m.len
        /\ \A j \in 1 .. m.len : mem[wpage][waddr + j].word = m.name
        /\ mem[wpage][next].length = 0
    BY <1>0, <1>1 DEF Working
  <1>3. /\ wpage \in 1 .. MaxPages /\ waddr \in Places /\ m.len \in DataLens
        /\ m.source \in {Home, Foreign} /\ mem[wpage][waddr] \in Cells
        /\ published \in Seq(Frames)
    BY <1>0, <1>2, MessageIs DEF Basic, Memory
  <1>4. /\ next \in Places /\ next > waddr /\ m.len \in Nat /\ FrameLength(m.len) = m.len + 1
        /\ \A j \in 1 .. m.len : waddr + j \in Places /\ waddr + j # waddr
    BY <1>2, <1>3, FitsIn DEF Places
  <1>5. /\ c \in Cells /\ c.length = FrameLength(m.len) /\ c.type = Data /\ c.source = m.source
    <2> DEFINE d == mem[wpage][waddr]
               n == FrameLength(m.len)
    <2>1. d \in Cells /\ n \in Nat /\ d.type = Data /\ d.source = m.source /\ c = [d EXCEPT !.length = n]
      BY <1>2, <1>3, <1>4
    <2> HIDE DEF c, d, n
    <2>2. c \in Cells /\ c.length = n /\ c.type = d.type /\ c.source = d.source
      BY <2>1 DEF Cells
    <2> QED
      BY <2>1, <2>2 DEF n
  <1>6. g \in Frames /\ g.msg = m /\ g.page = wpage /\ g.addr = waddr
    BY <1>2, <1>3 DEF Frames
  <1>7. next = waddr + FrameLength(m.len)
    OBVIOUS
  <1> HIDE DEF c, g, next
  <1>8. /\ published' \in Seq(Frames) /\ Len(published') = Len(published) + 1
        /\ Len(published) \in Nat /\ published'[Len(published) + 1] = g
        /\ \A i \in 1 .. Len(published) : published'[i] = published[i]
        /\ DOMAIN published' = 1 .. Len(published) + 1 /\ DOMAIN published = 1 .. Len(published)
    BY <1>1, <1>3, <1>6
  <1>9. /\ mem' \in Memory /\ mem'[wpage][waddr] = c
        /\ \A q \in 1 .. MaxPages, b \in Places : q # wpage \/ b # waddr => mem'[q][b] = mem[q][b]
    BY <1>0, <1>1, <1>3, <1>5 DEF Basic, Memory
  <1>10. Basic'
    <2>1. \A u \in Threads : pc'[u] = "idle" /\ owner' # u
      BY <1>0, <1>1, Numbers DEF Basic
    <2>2. pc' \in [Threads -> {"idle", "copy", "stamp", "clear", "publish"}]
          /\ job' \in [Threads -> Messages \cup {NoJob}] /\ copied' \in Nat
      BY <1>0, <1>1 DEF Basic
    <2> QED
      BY <1>0, <1>1, <1>4, <1>8, <1>9, <2>1, <2>2 DEF Basic
  <1>11. Frontier'
    <2>1. mem'[wpage][next].length = 0
      BY <1>2, <1>3, <1>4, <1>9 DEF Places
    <2>2. ASSUME NEW p \in wpage + 1 .. MaxPages, NEW a \in Places PROVE mem'[p][a] = Zeroed
      <3>1. p \in 1 .. MaxPages /\ p # wpage
        BY <1>3, Numbers
      <3> QED
        BY <1>0, <1>9, <3>1 DEF Frontier
    <2> QED
      BY <1>1, <2>1, <2>2 DEF Frontier
  <1>12. Working'
    BY <1>0, <1>1 DEF Working, Basic
  <1>13. Whole'
    <2> SUFFICES ASSUME NEW i \in 1 .. Len(published) + 1
                 PROVE  LET f == published'[i] IN
                        /\ f.page <= wpage /\ Fits(f.addr, f.msg.len)
                        /\ f.page = wpage => End(f) <= next
                        /\ mem'[f.page][f.addr].length = FrameLength(f.msg.len)
                        /\ mem'[f.page][f.addr].type = Data
                        /\ mem'[f.page][f.addr].source = f.msg.source
                        /\ \A j \in 1 .. f.msg.len : mem'[f.page][f.addr + j].word = f.msg.name
      BY <1>1, <1>8 DEF Whole, End
    <2>1. CASE i = Len(published) + 1
      <3>1. \A j \in 1 .. m.len : mem'[wpage][waddr + j].word = m.name
        BY <1>2, <1>3, <1>4, <1>9
      <3>2. published'[i] = g /\ End(g) = next
        BY <1>6, <1>7, <1>8, <2>1 DEF End
      <3>3. wpage <= wpage /\ next <= next
        BY <1>3, <1>4, Numbers DEF Places
      <3> QED
        BY <1>2, <1>5, <1>6, <1>9, <3>1, <3>2, <3>3
    <2>2. CASE i # Len(published) + 1
      <3> DEFINE f == published[i]
      <3>1. i \in DOMAIN published /\ published'[i] = f
        BY <1>8, <2>2
      <3>2. /\ f.page <= wpage /\ Fits(f.addr, f.msg.len)
            /\ f.page = wpage => End(f) <= waddr
            /\ mem[f.page][f.addr].length = FrameLength(f.msg.len)
            /\ mem[f.page][f.addr].type = Data /\ mem[f.page][f.addr].source = f.msg.source
            /\ \A j \in 1 .. f.msg.len : mem[f.page][f.addr + j].word = f.msg.name
        BY <1>0, <3>1 DEF Whole
      <3>3. f.page \in 1 .. MaxPages /\ f.addr \in Places /\ f.msg.len \in DataLens
        BY <1>0, <3>1, PublishedBefore
      <3>4. \A j \in 0 .. f.msg.len : f.addr + j \in Places /\ (f.page # wpage \/ f.addr + j < waddr)
        BY <1>0, <3>1, PublishedBefore
      <3> HIDE DEF f
      <3>5. f.msg.len \in Nat /\ f.addr + 0 = f.addr /\ End(f) \in Int
        <4>1. f.msg.len \in Nat
          BY <3>3, Numbers
        <4>2. f.addr \in Int
          BY <3>3 DEF Places
        <4> QED
          BY <4>1, <4>2 DEF End, FrameLength, HeaderLen
      <3>6. \A j \in 0 .. f.msg.len : mem'[f.page][f.addr + j] = mem[f.page][f.addr + j]
        <4> SUFFICES ASSUME NEW j \in 0 .. f.msg.len
                     PROVE  mem'[f.page][f.addr + j] = mem[f.page][f.addr + j]
          OBVIOUS
        <4> DEFINE b == f.addr + j
        <4>1. b \in Places /\ (f.page # wpage \/ b < waddr)
          BY <3>4
        <4> HIDE DEF b
        <4>2. b \in Places /\ (f.page # wpage \/ b # waddr)
          BY <1>3, <4>1 DEF Places
        <4>3. mem'[f.page][b] = mem[f.page][b]
          BY <1>9, <3>3, <4>2
        <4> QED
          BY <4>3 DEF b
      <3>7. mem'[f.page][f.addr] = mem[f.page][f.addr]
        BY <3>5, <3>6
      <3>8. f.page = wpage => End(f) <= next
        BY <1>3, <1>4, <3>2, <3>5 DEF Places
      <3> QED
        BY <3>1, <3>2, <3>5, <3>6, <3>7, <3>8
    <2> QED
      BY <2>1, <2>2
  <1>14. \A p, a : EndsPage(p, a) => EndsPage(p, a)'
    <2> SUFFICES ASSUME NEW p, NEW a, EndsPage(p, a) PROVE EndsPage(p, a)'
      OBVIOUS
    <2>1. p \in 1 .. MaxPages /\ p # wpage /\ a \in Places
      BY <1>3, Numbers DEF EndsPage
    <2> QED
      BY <1>1, <1>9, <2>1 DEF EndsPage
  <1>15. \A n \in 0 .. Len(published) : \A p, a : Due(n, p, a) => Due(n, p, a)'
    BY <1>1, <1>6, <1>8 DEF Due
  <1>16. \A n \in 0 .. Len(published) : \A p, a : After(n, p, a) => After(n, p, a)'
    BY <1>14, <1>15 DEF After
  <1>17. Chained'
    <2>1. After(0, 1, 0)'
      BY <1>0, <1>8, <1>16 DEF Chained
    <2>2. ASSUME NEW i \in 1 .. Len(published) + 1
          PROVE  After(i, published[i].page, End(published[i]))'
      <3>1. CASE i = Len(published) + 1
        BY <1>1, <1>4, <1>6, <1>7, <1>8, <3>1 DEF After, Due, End
      <3>2. CASE i # Len(published) + 1
        BY <1>0, <1>8, <1>16, <3>2 DEF Chained, End
      <3> QED
        BY <3>1, <3>2
    <2> QED
      BY <1>8, <2>1, <2>2 DEF Chained
  <1>18. PageBegins'
    <2>1. CASE waddr = 0
      <3>1. /\ Len(published) + 1 \in DOMAIN published'
            /\ published'[Len(published) + 1].page = wpage /\ published'[Len(published) + 1].addr = 0
        BY <1>6, <1>8, <2>1
      <3> QED
        BY <1>1, <3>1 DEF PageBegins
    <2>2. CASE waddr # 0
      <3>1. PICK i \in DOMAIN published : published[i].page = wpage /\ published[i].addr = 0
        BY <1>0, <2>2 DEF PageBegins
      <3>2. i \in DOMAIN published' /\ published'[i] = published[i]
        BY <1>8, <3>1
      <3> QED
        BY <1>1, <3>1, <3>2 DEF PageBegins
    <2> QED
      BY <2>1, <2>2
  <1>19. WalkReaches'
    <2> SUFFICES ASSUME NEW visited \in SUBSET Places, 0 \in visited,
                        \A a \in visited : a < next /\ mem'[wpage][a].length > 0
                                             => a + mem'[wpage][a].length \in visited
                 PROVE  next \in visited
      BY <1>1 DEF WalkReaches
    <2>1. \A a \in visited : a < waddr => a < next /\ mem'[wpage][a] = mem[wpage][a]
      BY <1>3, <1>4, <1>9 DEF Places
    <2>2. waddr \in visited
      BY <1>0, <2>1 DEF WalkReaches
    <2>3. waddr < next /\ mem'[wpage][waddr].length = FrameLength(m.len) /\ FrameLength(m.len) > 0
      BY <1>3, <1>4, <1>5, <1>9 DEF Places
    <2> QED
      BY <1>7, <2>2, <2>3
  <1>20. ReadersPlaced'
    <2> SUFFICES ASSUME NEW r \in Readers
                 PROVE  /\ Len(got[r]) <= Len(published')
                        /\ After(Len(got[r]), rpage[r], raddr[r])'
                        /\ rpc[r] = "handle" =>
                             /\ Len(got[r]) < Len(published')
                             /\ published'[Len(got[r]) + 1].page = rpage[r]
                             /\ published'[Len(got[r]) + 1].addr = raddr[r]
      BY <1>1 DEF ReadersPlaced
    <2>1. Len(got[r]) \in 0 .. Len(published)
      BY <1>0, <1>8 DEF ReadersPlaced, Basic
    <2>2. \A n, p, a : n = Len(got[r]) /\ p = rpage[r] /\ a = raddr[r] => After(n, p, a)'
      BY <1>0, <1>16, <2>1 DEF ReadersPlaced
    <2>3. After(Len(got[r]), rpage[r], raddr[r])'
      BY <1>1, <2>2
    <2> QED
      BY <1>0, <1>8, <2>1, <2>3 DEF ReadersPlaced
  <1> QED
    BY <1>10, <1>11, <1>12, <1>13, <1>17, <1>18, <1>19, <1>20 DEF IInv

(* The seek stops where the writer that died was: every address the walk   *)
(* visits is a published frame's, or that one.                             *)
LEMMA SeekFindsTheFrontier ==
  ASSUME Basic, Frontier, Whole, Chained, PageBegins, WalkReaches
  PROVE  FirstFree(mem[wpage]) = waddr
  <1> DEFINE page == mem[wpage]
             visited == {published[i].addr : i \in {k \in DOMAIN published : published[k].page = wpage}}
                          \cup {waddr}
             First(a) == /\ page[a].length = 0
                         /\ \A v \in SUBSET (0 .. PageSize - 1) : Walk(page, v) => a \in v
  <1>1. wpage \in 1 .. MaxPages /\ waddr \in Places /\ page[waddr].length = 0
    BY DEF Basic, Frontier
  <1>2. First(waddr)
    <2> SUFFICES ASSUME NEW v \in SUBSET Places, Walk(page, v) PROVE waddr \in v
      BY <1>1 DEF Places
    <2>1. 0 \in v /\ \A a \in v : page[a].length > 0 => a + page[a].length \in v
      BY DEF Walk
    <2> QED
      BY <2>1 DEF WalkReaches
  <1>3. visited \in SUBSET Places
    BY <1>1, PublishedBefore
  <1>4. Walk(page, visited)
    <2>1. 0 \in visited
      BY DEF PageBegins
    <2>2. ASSUME NEW a \in visited, page[a].length > 0 PROVE a + page[a].length \in visited
      <3>1. PICK i \in DOMAIN published : published[i].page = wpage /\ published[i].addr = a
        BY <1>1, <2>2
      <3>2. page[a].length = FrameLength(published[i].msg.len)
        BY <3>1 DEF Whole
      <3>3. After(i, wpage, a + page[a].length)
        BY <3>1, <3>2 DEF Chained, End
      <3>4. Due(i, wpage, a + page[a].length)
        BY <1>1, <3>3 DEF After, EndsPage
      <3>5. i + 1 \in DOMAIN published \/ ~(i < Len(published))
        BY DEF Basic
      <3> QED
        BY <3>4, <3>5 DEF Due
    <2> QED
      BY <2>1, <2>2 DEF Walk
  <1>5. ASSUME NEW a \in 0 .. PageSize - 1, First(a) PROVE a = waddr
    <2>1. a \in visited /\ page[a].length = 0
      BY <1>3, <1>4, <1>5 DEF Places
    <2>2. ASSUME NEW i \in DOMAIN published, published[i].page = wpage, published[i].addr = a PROVE FALSE
      <3>1. page[a].length = FrameLength(published[i].msg.len) /\ published[i].msg.len \in Nat
        BY <2>2, PublishedBefore, Numbers DEF Whole
      <3> QED
        BY <2>1, <3>1 DEF FrameLength, HeaderLen
    <2> QED
      BY <2>1, <2>2
  <1>6. FirstFree(page) = CHOOSE a \in 0 .. PageSize - 1 : First(a)
    BY DEF FirstFree
  <1>7. waddr \in 0 .. PageSize - 1
    BY <1>1 DEF Places
  <1> HIDE DEF First
  <1>8. (CHOOSE a \in 0 .. PageSize - 1 : First(a)) = waddr
    BY <1>2, <1>5, <1>7
  <1> QED
    BY <1>6, <1>8

LEMMA RestartIInv == ASSUME IInv, Restart PROVE IInv'
  <1>0. Basic /\ Frontier /\ Whole /\ Chained /\ PageBegins /\ WalkReaches
    BY DEF IInv
  <1>1. waddr' = waddr
    BY <1>0, SeekFindsTheFrontier DEF Restart
  <1>2. /\ owner' = NoThread /\ pc' = [t \in Threads |-> "idle"] /\ job' = [t \in Threads |-> NoJob]
        /\ copied' = 0 /\ crashes < MaxCrashes /\ crashes' = crashes + 1
        /\ UNCHANGED <<mem, wpage, begun, published, rpage, raddr, rpc, got, rejoins>>
    BY DEF Restart, readerVars
  <1>3. Aside
    BY <1>0, <1>1, <1>2 DEF Aside, Basic
  <1>4. Basic'
    <2>1. \A u \in Threads : pc'[u] = "idle" /\ owner' # u
      BY <1>2, Numbers
    <2>2. pc' \in [Threads -> {"idle", "copy", "stamp", "clear", "publish"}]
          /\ job' \in [Threads -> Messages \cup {NoJob}] /\ copied' \in Nat
      BY <1>2
    <2>3. crashes' \in 0 .. MaxCrashes
      BY <1>0, <1>2, Numbers DEF Basic
    <2> QED
      BY <1>0, <1>1, <1>2, <2>1, <2>2, <2>3 DEF Basic
  <1>5. Working'
    BY <1>2 DEF Working
  <1> QED
    BY <1>3, <1>4, <1>5, AsideKeeps DEF IInv

-----------------------------------------------------------------------------
(* The readers' steps                                                        *)

(* A reader whose current frame has data is on the next published frame,   *)
(* or on the one that ends its page.                                       *)
LEMMA WhatAReaderSees ==
  ASSUME IInv, NEW r \in Readers, HasData(Current(r))
  PROVE  LET n == Len(got[r]) IN
         /\ Current(r).type # PageEnd =>
              /\ n < Len(published)
              /\ published[n + 1].page = rpage[r] /\ published[n + 1].addr = raddr[r]
         /\ Current(r).type = PageEnd => EndsPage(rpage[r], raddr[r]) /\ Due(n, rpage[r] + 1, 0)
  <1> DEFINE n == Len(got[r])
  <1>0. Basic /\ Frontier /\ Whole /\ ReadersPlaced
    BY DEF IInv
  <1>1. n \in Nat /\ n <= Len(published) /\ After(n, rpage[r], raddr[r]) /\ published \in Seq(Frames)
    BY <1>0 DEF ReadersPlaced, Basic
  <1>2. CASE n < Len(published) /\ published[n + 1].page = rpage[r] /\ published[n + 1].addr = raddr[r]
    <2>1. n + 1 \in DOMAIN published
      BY <1>1, <1>2
    <2>2. Current(r).type = Data
      BY <1>0, <1>2, <2>1 DEF Whole, Current
    <2> QED
      BY <1>2, <2>2 DEF Data, PageEnd
  <1>3. CASE rpage[r] = wpage /\ raddr[r] = waddr
    BY <1>0, <1>3 DEF Frontier, Current, HasData
  <1>4. CASE EndsPage(rpage[r], raddr[r]) /\ Due(n, rpage[r] + 1, 0)
    BY <1>4 DEF EndsPage, Current
  <1> QED
    BY <1>1, <1>2, <1>3, <1>4 DEF After, Due

SeenOnly == UNCHANGED <<mem, wpage, waddr, owner, pc, job, copied, begun, published>>

(* A reader moves nothing of the writer's.                                 *)
LEMMA ReadersKeep ==
  ASSUME IInv, SeenOnly
  PROVE  Frontier' /\ Working' /\ Whole' /\ Chained' /\ PageBegins' /\ WalkReaches'
  <1>1. Frontier' /\ Working' /\ Whole'
    BY DEF IInv, SeenOnly, Frontier, Working, Whole, End
  <1>2. Chained' /\ PageBegins' /\ WalkReaches'
    BY DEF IInv, SeenOnly, Chained, After, Due, EndsPage, End, PageBegins, WalkReaches
  <1> QED
    BY <1>1, <1>2

LEMMA SeeFrameIInv == ASSUME IInv, NEW r \in Readers, SeeFrame(r) PROVE IInv'
  <1>0. Basic /\ ReadersPlaced
    BY DEF IInv
  <1>1. /\ rpc' = [rpc EXCEPT ![r] = "handle"] /\ SeenOnly
        /\ UNCHANGED <<rpage, raddr, got, crashes, rejoins>>
        /\ HasData(Current(r)) /\ Current(r).type # PageEnd
    BY DEF SeeFrame, writerVars, SeenOnly
  <1>2. Basic'
    BY <1>0, <1>1 DEF Basic, SeenOnly
  <1>3. /\ Len(got[r]) < Len(published)
        /\ published[Len(got[r]) + 1].page = rpage[r] /\ published[Len(got[r]) + 1].addr = raddr[r]
    BY <1>1, WhatAReaderSees
  <1>4. ReadersPlaced'
    <2>1. \A q \in Readers : q # r => rpc'[q] = rpc[q]
      BY <1>0, <1>1 DEF Basic
    <2> QED
      BY <1>0, <1>1, <1>3, <2>1 DEF ReadersPlaced, After, Due, EndsPage, SeenOnly
  <1> QED
    BY <1>1, <1>2, <1>4, ReadersKeep DEF IInv

(* What a reader is handed is the next event of the log.                   *)
LEMMA HandedNext ==
  ASSUME IInv, NEW r \in Readers, HandleFrame(r)
  PROVE  LET n == Len(got[r]) IN
         /\ n \in Nat /\ n < Len(published) /\ n + 1 \in DOMAIN published
         /\ published[n + 1].page = rpage[r]
         /\ raddr'[r] = End(published[n + 1])
         /\ published[n + 1].msg \in Messages
         /\ got' = [got EXCEPT ![r] = Append(@, EventOf(published[n + 1].msg))]
  <1> DEFINE n == Len(got[r])
             f == published[n + 1]
  <1>0. Basic /\ Whole /\ ReadersPlaced
    BY DEF IInv
  <1>1. n \in Nat /\ published \in Seq(Frames)
    BY <1>0 DEF Basic
  <1>2. n < Len(published) /\ f.page = rpage[r] /\ f.addr = raddr[r]
    BY <1>0 DEF ReadersPlaced, HandleFrame
  <1>3. n + 1 \in DOMAIN published
    BY <1>1, <1>2
  <1>4. f.msg \in Messages /\ f.msg.len \in Nat
    BY <1>0, <1>3, PublishedBefore, Numbers
  <1>5. /\ mem[f.page][f.addr].length = FrameLength(f.msg.len)
        /\ mem[f.page][f.addr].source = f.msg.source
        /\ \A j \in 1 .. f.msg.len : mem[f.page][f.addr + j].word = f.msg.name
        /\ f.addr \in Places
    BY <1>0, <1>3, PublishedBefore DEF Whole
  <1>6. Current(r).length = FrameLength(f.msg.len) /\ Current(r).source = f.msg.source
    BY <1>2, <1>5 DEF Current
  <1>7. DataOf(r) = [i \in 1 .. f.msg.len |-> f.msg.name]
    <2>1. Current(r).length - HeaderLen = f.msg.len
      BY <1>4, <1>6 DEF FrameLength, HeaderLen
    <2>2. \A i \in 1 .. f.msg.len : raddr[r] + HeaderLen + i - 1 = f.addr + i
      BY <1>2, <1>5 DEF HeaderLen, Places
    <2> QED
      BY <1>2, <1>5, <2>1, <2>2 DEF DataOf
  <1>8. raddr'[r] = End(f)
    BY <1>0, <1>2, <1>6 DEF HandleFrame, Basic, End
  <1>9. got' = [got EXCEPT ![r] = Append(@, EventOf(f.msg))]
    BY <1>6, <1>7 DEF HandleFrame, EventOf
  <1> QED
    BY <1>1, <1>2, <1>3, <1>4, <1>8, <1>9

LEMMA HandleFrameIInv == ASSUME IInv, NEW r \in Readers, HandleFrame(r) PROVE IInv'
  <1> DEFINE n == Len(got[r])
             e == EventOf(published[n + 1].msg)
  <1>0. Basic /\ Chained /\ ReadersPlaced
    BY DEF IInv
  <1>1. /\ rpc' = [rpc EXCEPT ![r] = "idle"] /\ SeenOnly
        /\ raddr' = [raddr EXCEPT ![r] = raddr'[r]]
        /\ UNCHANGED <<rpage, crashes, rejoins>>
    BY <1>0 DEF HandleFrame, writerVars, SeenOnly, Basic
  <1>2. /\ n \in Nat /\ n < Len(published) /\ n + 1 \in DOMAIN published
        /\ published[n + 1].page = rpage[r] /\ raddr'[r] = End(published[n + 1])
        /\ published[n + 1].msg \in Messages
        /\ got' = [got EXCEPT ![r] = Append(@, e)]
    BY HandedNext
  <1>3. e \in Event
    BY <1>2 DEF Event
  <1>4. got[r] \in Seq(Event)
    BY <1>0 DEF Basic
  <1> HIDE DEF e
  <1>5. Append(got[r], e) \in Seq(Event) /\ Len(Append(got[r], e)) = n + 1
    BY <1>3, <1>4
  <1>6. /\ got' \in [Readers -> Seq(Event)] /\ got'[r] = Append(got[r], e)
        /\ \A q \in Readers : q # r => got'[q] = got[q]
    BY <1>0, <1>2, <1>5 DEF Basic
  <1>7. End(published[n + 1]) \in Int
    <2>1. published[n + 1].addr \in Places /\ published[n + 1].msg.len \in DataLens
      BY <1>0, <1>2, PublishedBefore DEF IInv
    <2>2. published[n + 1].addr \in Int
      BY <2>1 DEF Places
    <2>3. published[n + 1].msg.len \in Nat
      BY <2>1, Numbers
    <2> QED
      BY <2>2, <2>3 DEF End, FrameLength, HeaderLen
  <1>8. Basic'
    BY <1>0, <1>1, <1>2, <1>6, <1>7 DEF Basic, SeenOnly
  <1>9. ReadersPlaced'
    <2> SUFFICES ASSUME NEW q \in Readers
                 PROVE  /\ Len(got'[q]) <= Len(published)
                        /\ After(Len(got'[q]), rpage[q], raddr'[q])
                        /\ rpc'[q] = "handle" =>
                             /\ Len(got'[q]) < Len(published)
                             /\ published[Len(got'[q]) + 1].page = rpage[q]
                             /\ published[Len(got'[q]) + 1].addr = raddr'[q]
      BY <1>1 DEF ReadersPlaced, After, Due, EndsPage, SeenOnly
    <2>1. CASE q = r
      <3>1. Len(got'[q]) = n + 1 /\ n + 1 <= Len(published)
        BY <1>0, <1>2, <1>5, <1>6, <2>1 DEF Basic
      <3>2. After(n + 1, rpage[q], raddr'[q])
        BY <1>0, <1>2, <2>1 DEF Chained
      <3>3. rpc'[q] = "idle"
        BY <1>0, <1>1, <2>1 DEF Basic
      <3> QED
        BY <3>1, <3>2, <3>3
    <2>2. CASE q # r
      <3>1. got'[q] = got[q] /\ raddr'[q] = raddr[q] /\ rpc'[q] = rpc[q]
        BY <1>0, <1>1, <1>6, <2>2 DEF Basic
      <3> QED
        BY <1>0, <3>1 DEF ReadersPlaced
    <2> QED
      BY <2>1, <2>2
  <1> QED
    BY <1>1, <1>8, <1>9, ReadersKeep DEF IInv

LEMMA TurnPageIInv == ASSUME IInv, NEW r \in Readers, TurnPage(r) PROVE IInv'
  <1>0. Basic /\ ReadersPlaced
    BY DEF IInv
  <1>1. /\ rpc[r] = "idle" /\ rpage' = [rpage EXCEPT ![r] = @ + 1] /\ raddr' = [raddr EXCEPT ![r] = 0]
        /\ SeenOnly /\ UNCHANGED <<rpc, got, crashes, rejoins>>
        /\ HasData(Current(r)) /\ Current(r).type = PageEnd
    BY DEF TurnPage, writerVars, SeenOnly
  <1>2. Due(Len(got[r]), rpage[r] + 1, 0)
    BY <1>1, WhatAReaderSees
  <1>3. /\ \A q \in Readers : q # r => rpage'[q] = rpage[q] /\ raddr'[q] = raddr[q]
        /\ rpage'[r] = rpage[r] + 1 /\ raddr'[r] = 0
        /\ rpage' \in [Readers -> Int] /\ raddr' \in [Readers -> Int]
    BY <1>0, <1>1 DEF Basic
  <1>4. Basic'
    BY <1>0, <1>1, <1>3 DEF Basic, SeenOnly
  <1>5. ReadersPlaced'
    BY <1>0, <1>1, <1>2, <1>3 DEF ReadersPlaced, After, Due, EndsPage, SeenOnly
  <1> QED
    BY <1>1, <1>4, <1>5, ReadersKeep DEF IInv

LEMMA RejoinIInv == ASSUME IInv, NEW r \in Readers, Rejoin(r) PROVE IInv'
  <1>0. Basic /\ ReadersPlaced /\ Chained
    BY DEF IInv
  <1>1. /\ rpage' = [rpage EXCEPT ![r] = 1] /\ raddr' = [raddr EXCEPT ![r] = 0]
        /\ rpc' = [rpc EXCEPT ![r] = "idle"] /\ got' = [got EXCEPT ![r] = << >>]
        /\ rejoins < MaxRejoins /\ rejoins' = rejoins + 1
        /\ SeenOnly /\ UNCHANGED crashes
    BY DEF Rejoin, writerVars, SeenOnly
  <1>2. /\ \A q \in Readers : q # r => /\ rpage'[q] = rpage[q] /\ raddr'[q] = raddr[q]
                                      /\ rpc'[q] = rpc[q] /\ got'[q] = got[q]
        /\ rpage'[r] = 1 /\ raddr'[r] = 0 /\ rpc'[r] = "idle" /\ got'[r] = << >>
        /\ rpage' \in [Readers -> Int] /\ raddr' \in [Readers -> Int]
        /\ rpc' \in [Readers -> {"idle", "handle"}] /\ got' \in [Readers -> Seq(Event)]
    BY <1>0, <1>1 DEF Basic
  <1>3. rejoins' \in 0 .. MaxRejoins
    BY <1>0, <1>1, Numbers DEF Basic
  <1>4. Basic'
    BY <1>0, <1>1, <1>2, <1>3 DEF Basic, SeenOnly
  <1>5. After(0, 1, 0) /\ Len(<< >>) = 0 /\ Len(published) >= 0
    BY <1>0 DEF Chained, Basic
  <1>6. ReadersPlaced'
    BY <1>0, <1>1, <1>2, <1>5 DEF ReadersPlaced, After, Due, EndsPage, SeenOnly
  <1> QED
    BY <1>1, <1>4, <1>6, ReadersKeep DEF IInv

LEMMA NextIInv == ASSUME IInv, [Next]_vars PROVE IInv'
  <1>1. ASSUME NEW t \in Threads,
               OpenFrame(t) \/ CopyData(t) \/ SetSource(t) \/ ClearNext(t) \/ Publish(t)
        PROVE  IInv'
    BY <1>1, OpenFrameIInv, CopyDataIInv, SetSourceIInv, ClearNextIInv, PublishIInv
  <1>2. ASSUME NEW r \in Readers, SeeFrame(r) \/ HandleFrame(r) \/ TurnPage(r) \/ Rejoin(r) PROVE IInv'
    BY <1>2, SeeFrameIInv, HandleFrameIInv, TurnPageIInv, RejoinIInv
  <1>3. CASE UNCHANGED vars
    <2>1. Basic' /\ ReadersPlaced' /\ SeenOnly
      BY <1>3 DEF IInv, vars, writerVars, readerVars, SeenOnly, Basic, ReadersPlaced, After, Due, EndsPage
    <2> QED
      BY <2>1, ReadersKeep DEF IInv
  <1> QED
    BY <1>1, <1>2, <1>3, RestartIInv DEF Next

-----------------------------------------------------------------------------
(* What follows                                                              *)

(* The invariant the other theorems rest on holds in every state, whatever *)
(* the threads of writer::write do and whenever their process dies.        *)
THEOREM Invariance == Spec => []IInv
  <1> QED
    BY InitIInv, NextIInv, PTL DEF Spec

(* Readers stay on pages that exist, the writer within address_border, and *)
(* one thread at a time is between open_frame and close_frame.             *)
THEOREM TypeCorrect == Spec => []TypeOK
  <1>1. ASSUME IInv PROVE TypeOK
    <2>0. Basic /\ Whole /\ ReadersPlaced
      BY <1>1 DEF IInv
    <2>1. waddr \in 0 .. PageSize - HeaderLen
      BY <2>0, Numbers DEF Basic, Places, HeaderLen
    <2>2. ASSUME NEW r \in Readers PROVE rpage[r] \in 1 .. wpage /\ raddr[r] \in 0 .. PageSize - 1
      <3> DEFINE n == Len(got[r])
      <3>1. /\ After(n, rpage[r], raddr[r]) /\ n \in Nat /\ published \in Seq(Frames)
            /\ wpage \in 1 .. MaxPages /\ waddr \in Places
        BY <2>0 DEF ReadersPlaced, Basic
      <3>2. CASE Due(n, rpage[r], raddr[r])
        <4>1. CASE n < Len(published)
          <5>1. /\ n + 1 \in DOMAIN published
                /\ published[n + 1].page = rpage[r] /\ published[n + 1].addr = raddr[r]
            BY <3>1, <3>2, <4>1 DEF Due
          <5>2. rpage[r] \in 1 .. MaxPages /\ raddr[r] \in Places /\ rpage[r] <= wpage
            BY <2>0, <5>1, PublishedBefore DEF Whole
          <5> QED
            BY <3>1, <5>2 DEF Places
        <4>2. CASE ~(n < Len(published))
          BY <3>1, <3>2, <4>2 DEF Due, Places
        <4> QED
          BY <4>1, <4>2
      <3>3. CASE EndsPage(rpage[r], raddr[r])
        BY <3>1, <3>3 DEF EndsPage, Places
      <3> QED
        BY <3>1, <3>2, <3>3 DEF After
    <2> QED
      BY <2>0, <2>1, <2>2 DEF TypeOK, Basic
  <1> QED
    BY <1>1, Invariance, PTL

(* frame::has_data is false of the frame the writer is on, also after a    *)
(* crash that left it half written.                                        *)
THEOREM NeverSeenEarly == Spec => []CurrentInvisible
  <1>1. ASSUME IInv PROVE CurrentInvisible
    BY <1>1 DEF IInv, Frontier, CurrentInvisible, HasData
  <1> QED
    BY <1>1, Invariance, PTL

(* A step of the writer stores nothing before its frame.                   *)
LEMMA StoresAhead ==
  ASSUME IInv, [Next]_vars, NEW p \in 1 .. wpage, NEW a \in Places, p # wpage \/ a < waddr
  PROVE  mem'[p][a] = mem[p][a]
  <1>0. /\ mem \in Memory /\ wpage \in 1 .. MaxPages /\ waddr \in Places /\ copied \in Nat
        /\ p \in 1 .. MaxPages
    <2>1. Basic
      BY DEF IInv
    <2> QED
      BY <2>1, Numbers DEF Basic
  <1>1. ASSUME NEW t \in Threads, OpenFrame(t) PROVE mem'[p][a] = mem[p][a]
    <2>1. CASE mem' = Opened(mem, wpage, waddr)
      BY <1>0, <2>1 DEF Opened, Memory, Places
    <2>2. CASE mem' = Opened([mem EXCEPT ![wpage][waddr] = PageEndFrame], wpage + 1, 0)
      <3> DEFINE ended == [mem EXCEPT ![wpage][waddr] = PageEndFrame]
      <3>1. PageEndFrame \in Cells
        BY DEF PageEndFrame, Cells, HeaderLen, PageEnd, Home
      <3>2. ended \in Memory /\ ended[p][a] = mem[p][a]
        BY <1>0, <3>1 DEF Memory, Places
      <3>3. mem' = Opened(ended, wpage + 1, 0)
        BY <2>2
      <3> HIDE DEF ended
      <3>4. p # wpage + 1
        BY <1>0
      <3> QED
        BY <1>0, <3>2, <3>3, <3>4 DEF Opened, Memory
    <2> QED
      BY <1>1, <2>1, <2>2 DEF OpenFrame
  <1>2. ASSUME NEW t \in Threads, CopyData(t) PROVE mem'[p][a] = mem[p][a]
    <2>1. CASE mem' = [mem EXCEPT ![wpage][waddr + HeaderLen + copied] = DataCell(job[t].name)]
      <3>1. waddr + HeaderLen + copied >= waddr
        BY <1>0 DEF Places, HeaderLen
      <3> QED
        BY <1>0, <2>1, <3>1 DEF Memory, Places
    <2> QED
      BY <1>2, <2>1 DEF CopyData
  <1>3. ASSUME NEW t \in Threads, SetSource(t) PROVE mem'[p][a] = mem[p][a]
    BY <1>0, <1>3 DEF SetSource, Memory, Places
  <1>4. ASSUME NEW t \in Threads, ClearNext(t) PROVE mem'[p][a] = mem[p][a]
    <2>1. /\ FrameLength(job[t].len) \in Nat
          /\ mem' = [mem EXCEPT ![wpage][waddr + FrameLength(job[t].len)] = Zeroed]
      <3>1. job[t].len \in Nat
        BY <1>4, MessageIs, Numbers DEF ClearNext, IInv, Working
      <3> QED
        BY <1>4, <3>1 DEF ClearNext, FrameLength, HeaderLen
    <2> QED
      BY <1>0, <2>1 DEF Memory, Places
  <1>5. ASSUME NEW t \in Threads, Publish(t) PROVE mem'[p][a] = mem[p][a]
    BY <1>0, <1>5 DEF Publish, Memory, Places
  <1>6. ASSUME NEW r \in Readers, SeeFrame(r) \/ HandleFrame(r) \/ TurnPage(r) \/ Rejoin(r)
        PROVE  mem' = mem
    BY <1>6 DEF SeeFrame, HandleFrame, TurnPage, Rejoin, writerVars
  <1>7. CASE Restart
    BY <1>7 DEF Restart
  <1>8. CASE UNCHANGED vars
    BY <1>8 DEF vars, writerVars
  <1> QED
    BY <1>1, <1>2, <1>3, <1>4, <1>5, <1>6, <1>7, <1>8 DEF Next

(* No cell of a published frame, header or data, is ever stored to again:  *)
(* not by close_page, close_frame, or a writer that starts after a crash.  *)
THEOREM PublishedStays == Spec => PublishedIsImmutable
  <1>1. ASSUME IInv, [Next]_vars
        PROVE  \A i \in DOMAIN published : LET f == published[i] IN
                 \A a \in Extent(f) : mem'[f.page][a] = mem[f.page][a]
    <2> SUFFICES ASSUME NEW i \in DOMAIN published, NEW a \in Extent(published[i])
                 PROVE  mem'[published[i].page][a] = mem[published[i].page][a]
      OBVIOUS
    <2> DEFINE f == published[i]
    <2>1. Basic /\ Whole
      BY <1>1 DEF IInv
    <2>2. /\ f.page \in 1 .. MaxPages /\ f.addr \in Places /\ f.msg.len \in Nat /\ wpage \in 1 .. MaxPages
          /\ \A j \in 0 .. f.msg.len : f.addr + j \in Places /\ (f.page # wpage \/ f.addr + j < waddr)
      BY <2>1, PublishedBefore, Numbers DEF Basic
    <2>3. f.page <= wpage
      BY <2>1 DEF Whole
    <2>4. a \in f.addr .. f.addr + HeaderLen + f.msg.len - 1
      BY DEF Extent
    <2> HIDE DEF f
    <2>5. PICK j \in 0 .. f.msg.len : a = f.addr + j
      <3>1. a - f.addr \in 0 .. f.msg.len /\ a = f.addr + (a - f.addr)
        BY <2>2, <2>4 DEF HeaderLen, Places
      <3> QED
        BY <3>1
    <2>6. f.page \in 1 .. wpage /\ a \in Places /\ (f.page # wpage \/ a < waddr)
      BY <2>2, <2>3, <2>5
    <2>7. mem'[f.page][a] = mem[f.page][a]
      BY <1>1, <2>6, StoresAhead
    <2> QED
      BY <2>7 DEF f
  <1> QED
    BY <1>1, Invariance, PTL DEF Spec, PublishedIsImmutable

-----------------------------------------------------------------------------
(* The journal implements the log of EventLog                                *)

LEMMA LogIs ==
  ASSUME Basic
  PROVE  /\ DOMAIN Log = 1 .. Len(published) /\ Len(Log) = Len(published) /\ Len(published) \in Nat
         /\ \A i \in 1 .. Len(published) : Log[i] = EventOf(published[i].msg)
         /\ Log \in Seq(Event)
  <1>1. published \in Seq(Frames)
    BY DEF Basic
  <1>2. \A i \in 1 .. Len(published) : EventOf(published[i].msg) \in Event
    <2> SUFFICES ASSUME NEW i \in 1 .. Len(published) PROVE EventOf(published[i].msg) \in Event
      OBVIOUS
    <2>1. published[i] \in Frames
      BY <1>1
    <2>2. published[i].msg \in Messages
      BY <2>1 DEF Frames
    <2> QED
      BY <2>2 DEF Event
  <1> QED
    BY <1>1, <1>2 DEF Log

LEMMA InitImplements == Init => EL!Init
  <1> SUFFICES ASSUME Init PROVE EL!Init
    OBVIOUS
  <1>1. Log = << >>
    BY DEF Init, Log
  <1> QED
    BY <1>1 DEF Init, EL!Init

LEMMA StepImplements == ASSUME IInv, IInv', [Next]_vars PROVE [EL!Next]_EL!vars
  <1>0. Basic /\ Basic'
    BY DEF IInv
  <1>1. ASSUME UNCHANGED <<published, got>> PROVE UNCHANGED EL!vars
    BY <1>1 DEF EL!vars, Log
  <1>2. ASSUME NEW t \in Threads, OpenFrame(t) \/ CopyData(t) \/ SetSource(t) \/ ClearNext(t)
        PROVE  UNCHANGED <<published, got>>
    BY <1>2 DEF OpenFrame, CopyData, SetSource, ClearNext, readerVars
  <1>3. ASSUME NEW t \in Threads, Publish(t) PROVE EL!Publish
    <2> DEFINE g == [msg |-> job[t], page |-> wpage, addr |-> waddr]
               e == EventOf(job[t])
    <2>1. published' = Append(published, g) /\ UNCHANGED got
      BY <1>3 DEF Publish, readerVars
    <2>2. job[t] \in Messages
      BY <1>3 DEF Publish, IInv, Working
    <2>3. e \in Event /\ g.msg = job[t] /\ published \in Seq(Frames)
      BY <1>0, <2>2 DEF Event, Basic
    <2>4. g \in Frames
      BY <1>0, <2>2 DEF Frames, Basic
    <2> HIDE DEF g
    <2>5. /\ Len(published') = Len(published) + 1 /\ published'[Len(published) + 1] = g
          /\ \A i \in 1 .. Len(published) : published'[i] = published[i]
      BY <2>1, <2>3, <2>4
    <2>6. Log' = Append(Log, e)
      <3>1. /\ Log \in Seq(Event) /\ Len(Log) = Len(published) /\ Len(published) \in Nat
            /\ \A i \in 1 .. Len(published) : Log[i] = EventOf(published[i].msg)
        BY <1>0, LogIs
      <3>2. Log' = [i \in 1 .. Len(published) + 1 |-> EventOf(published'[i].msg)]
        BY <2>5 DEF Log, EventOf
      <3>3. \A i \in 1 .. Len(published) + 1 : EventOf(published'[i].msg) = Append(Log, e)[i]
        <4> SUFFICES ASSUME NEW i \in 1 .. Len(published) + 1
                     PROVE  EventOf(published'[i].msg) = Append(Log, e)[i]
          OBVIOUS
        <4>1. CASE i = Len(published) + 1
          BY <2>3, <2>5, <3>1, <4>1
        <4>2. CASE i # Len(published) + 1
          <5>1. i \in 1 .. Len(published) /\ published'[i] = published[i]
            BY <2>5, <3>1, <4>2
          <5> HIDE DEF e
          <5> QED
            BY <2>3, <3>1, <5>1
        <4> QED
          BY <4>1, <4>2
      <3> HIDE DEF e
      <3>4. Append(Log, e) \in Seq(Event) /\ Len(Append(Log, e)) = Len(published) + 1
        BY <2>3, <3>1
      <3>5. Append(Log, e) = [i \in 1 .. Len(published) + 1 |-> Append(Log, e)[i]]
        <4> DEFINE longer == Append(Log, e)
        <4>1. longer \in Seq(Event) /\ Len(longer) = Len(published) + 1
          BY <3>4
        <4> HIDE DEF longer
        <4>2. longer = [i \in 1 .. Len(published) + 1 |-> longer[i]]
          BY <4>1
        <4> QED
          BY <4>2 DEF longer
      <3> QED
        BY <3>2, <3>3, <3>5
    <2> QED
      BY <2>1, <2>3, <2>6 DEF EL!Publish
  <1>4. ASSUME NEW r \in Readers, SeeFrame(r) \/ TurnPage(r) PROVE UNCHANGED <<published, got>>
    BY <1>4 DEF SeeFrame, TurnPage, writerVars
  <1>5. ASSUME NEW r \in Readers, HandleFrame(r) PROVE EL!Read(r)
    <2> DEFINE n == Len(got[r])
    <2>1. /\ n \in Nat /\ n < Len(published) /\ n + 1 \in DOMAIN published
          /\ got' = [got EXCEPT ![r] = Append(@, EventOf(published[n + 1].msg))]
      BY <1>5, HandedNext
    <2>2. n < Len(Log) /\ Log[n + 1] = EventOf(published[n + 1].msg)
      BY <1>0, <2>1, LogIs
    <2>3. Log' = Log
      BY <1>5 DEF HandleFrame, writerVars, Log
    <2> QED
      BY <2>1, <2>2, <2>3 DEF EL!Read
  <1>6. ASSUME NEW r \in Readers, Rejoin(r) PROVE EL!Rejoin(r)
    BY <1>6 DEF Rejoin, writerVars, Log, EL!Rejoin
  <1>7. CASE Restart
    BY <1>1, <1>7 DEF Restart, readerVars
  <1>8. CASE UNCHANGED vars
    BY <1>1, <1>8 DEF vars, writerVars, readerVars
  <1> QED
    BY <1>1, <1>2, <1>3, <1>4, <1>5, <1>6, <1>7, <1>8 DEF Next, EL!Next

(* Every behaviour of writers and readers is, seen through the frames      *)
(* published and handed over, one of the log of EventLog.                  *)
THEOREM Refinement == Spec => ImplementsEventLog
  <1> QED
    BY InitImplements, StepImplements, Invariance, PTL DEF Spec, ImplementsEventLog
================================================================================

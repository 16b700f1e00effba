-------------------------------- MODULE Journal --------------------------------
(***************************************************************************)
(* One journal: the pages of memory shared by the writer of a location     *)
(* (yijinjing/journal/journal.h, class writer) and the readers that joined *)
(* it from other processes (class reader), frame by frame (frame.h,        *)
(* page.h), with crashes of the writing process and readers that rejoin.   *)
(*                                                                         *)
(* A page is an array of cells.  A frame header fills HeaderLen cells (one) *)
(* and each unit of data fills one more; the page's own header is left     *)
(* out, so the first frame is at address 0.  A cell of data, read as if it *)
(* were a header, looks like a frame: nothing in memory tells them apart.  *)
(*                                                                         *)
(* length and msg_type are volatile and are stored and loaded in program   *)
(* order (the x86 targets of the build keep it).  open_frame, close_frame, *)
(* close_page, the seek of a writer that starts, and next() are compiled   *)
(* elsewhere: they are modelled from what write(), has_data() and          *)
(* move_to_next() need of them.                                            *)
(***************************************************************************)
EXTENDS Integers, Sequences

CONSTANTS Threads,     \* threads sharing the writer
          Readers,
          PageSize,    \* cells in a page
          DataLens,    \* data lengths of the messages written
          MaxPages, MaxFrames, MaxCrashes, MaxRejoins   \* bounds

ASSUME PageAssumption == PageSize \in Nat \ {0} /\ DataLens \subseteq Nat
ASSUME BoundAssumption ==
  {MaxPages, MaxFrames, MaxCrashes, MaxRejoins} \subseteq Nat /\ MaxPages > 0

VARIABLES mem,        \* mem[page][address]
          wpage,      \* the page the writer is on: the last one that exists
          waddr,      \* the address of the writer's current frame
          owner,      \* the thread inside open_frame .. close_frame
          pc,         \* where each thread is in write() or write_as()
          job,        \* the message each thread is writing
          copied,     \* cells of data already copied
          begun,      \* messages begun: also the name of the last one
          rpage, raddr, rpc,   \* a reader's current frame; is it handling it?
          got,        \* history: what each reader has read since it joined
          published,  \* history: the frames whose length has been stored
          crashes, rejoins

writerVars == <<mem, wpage, waddr, owner, pc, job, copied, begun, published>>
readerVars == <<rpage, raddr, rpc, got>>
vars == <<writerVars, readerVars, crashes, rejoins>>

NoThread == "none"
ASSUME ThreadAssumption == NoThread \notin Threads
Data == 1             \* T::tag
PageEnd == 2          \* PageEnd::tag
Home == 1             \* the uid of the writer's location
Foreign == 2          \* the source another location's event carries
NoJob == [name |-> 0, len |-> 0, source |-> Home]
Messages == [name : 1 .. MaxFrames, len : DataLens, source : {Home, Foreign}]

Zeroed == [length |-> 0, type |-> 0, source |-> 0, word |-> 0]
DataCell(name) == [length |-> 1, type |-> Data, source |-> Home, word |-> name]

HeaderLen == 1
FrameLength_DataOnly(len) == IF len > 0 THEN len ELSE HeaderLen
\* set_data_length: header_length() + length
FrameLength(len) == HeaderLen + len
\* page::address_border: the last place where a header fits
Border_WholePage == PageSize
Border == PageSize - HeaderLen
Fits(addr, len) == addr + HeaderLen + len <= Border

Init ==
  /\ mem = [p \in 1 .. MaxPages |-> [a \in 0 .. PageSize - 1 |-> Zeroed]]
  /\ wpage = 1 /\ waddr = 0
  /\ owner = NoThread
  /\ pc = [t \in Threads |-> "idle"]
  /\ job = [t \in Threads |-> NoJob]
  /\ copied = 0
  /\ begun = 0
  /\ rpage = [r \in Readers |-> 1]
  /\ raddr = [r \in Readers |-> 0]
  /\ rpc = [r \in Readers |-> "idle"]
  /\ got = [r \in Readers |-> << >>]
  /\ published = << >>
  /\ crashes = 0 /\ rejoins = 0

--------------------------------------------------------------------------------
(* Writing: open_frame, copy the data, (write_as) name the source, close_frame *)

\* open_frame fills in a header, except its length.
Opened(pages, p, a) == [pages EXCEPT ![p][a] = [@ EXCEPT !.type = Data, !.source = Home]]
\* close_page: the frame that ends a page
PageEndFrame == [length |-> HeaderLen, type |-> PageEnd, source |-> Home, word |-> 0]

\* open_frame: take writer_mtx_; end the page if the frame does not fit.
OpenFrame(t) ==
  /\ pc[t] = "idle" /\ owner = NoThread
  /\ begun < MaxFrames
  /\ begun' = begun + 1
  /\ owner' = t
  /\ pc' = [pc EXCEPT ![t] = "copy"]
  /\ copied' = 0
  /\ \E len \in DataLens, source \in {Home, Foreign} :
       /\ Fits(0, len)
       /\ job' = [job EXCEPT ![t] = [name |-> begun', len |-> len, source |-> source]]
       /\ IF Fits(waddr, len)
            THEN /\ mem' = Opened(mem, wpage, waddr)
                 /\ UNCHANGED <<wpage, waddr>>
            ELSE /\ wpage < MaxPages
                 /\ wpage' = wpage + 1
                 /\ waddr' = 0
                 /\ mem' = Opened([mem EXCEPT ![wpage][waddr] = PageEndFrame], wpage + 1, 0)
  /\ UNCHANGED <<published, readerVars, crashes, rejoins>>

AfterCopy_NoSource(t) == "clear"
AfterCopy(t) == IF job[t].source = Home THEN "clear" ELSE "stamp"

\* copy_data: one cell of the memcpy to data_address()
CopyData(t) ==
  /\ pc[t] = "copy"
  /\ IF copied < job[t].len
       THEN /\ mem' = [mem EXCEPT ![wpage][waddr + HeaderLen + copied] = DataCell(job[t].name)]
            /\ copied' = copied + 1
            /\ UNCHANGED pc
       ELSE /\ pc' = [pc EXCEPT ![t] = AfterCopy(t)]
            /\ UNCHANGED <<mem, copied>>
  /\ UNCHANGED <<wpage, waddr, owner, job, begun, published, readerVars, crashes, rejoins>>

\* write_as: set_source after the copy and before close_frame
SetSource(t) ==
  /\ pc[t] = "stamp"
  /\ mem' = [mem EXCEPT ![wpage][waddr].source = job[t].source]
  /\ pc' = [pc EXCEPT ![t] = "clear"]
  /\ UNCHANGED <<wpage, waddr, owner, job, copied, begun, published, readerVars, crashes, rejoins>>

\* close_frame: clear the header after this frame ...
ClearNext_Skip(t) ==
  /\ pc[t] = "clear"
  /\ pc' = [pc EXCEPT ![t] = "publish"]
  /\ UNCHANGED <<mem, wpage, waddr, owner, job, copied, begun, published, readerVars, crashes, rejoins>>
ClearNext(t) ==
  /\ pc[t] = "clear"
  /\ mem' = [mem EXCEPT ![wpage][waddr + FrameLength(job[t].len)] = Zeroed]
  /\ pc' = [pc EXCEPT ![t] = "publish"]
  /\ UNCHANGED <<wpage, waddr, owner, job, copied, begun, published, readerVars, crashes, rejoins>>

\* ... then store the length, which publishes the frame, and move past it
Publish(t) ==
  /\ pc[t] = "publish"
  /\ mem' = [mem EXCEPT ![wpage][waddr].length = FrameLength(job[t].len)]
  /\ waddr' = waddr + FrameLength(job[t].len)
  /\ owner' = NoThread
  /\ pc' = [pc EXCEPT ![t] = "idle"]
  /\ job' = [job EXCEPT ![t] = NoJob]
  /\ copied' = 0
  /\ published' = Append(published, [msg |-> job[t], page |-> wpage, addr |-> waddr])
  /\ UNCHANGED <<wpage, begun, readerVars, crashes, rejoins>>

--------------------------------------------------------------------------------
(* Reading: look for a frame, handle it, move past it                           *)

Current(r) == mem[rpage[r]][raddr[r]]
HasData_WithData(cell) == cell.length > HeaderLen /\ cell.type > 0
HasData(cell) == cell.length > 0 /\ cell.type > 0

\* data_available(): the current frame has data, and it is a message
SeeFrame(r) ==
  /\ rpc[r] = "idle"
  /\ HasData(Current(r)) /\ Current(r).type # PageEnd
  /\ rpc' = [rpc EXCEPT ![r] = "handle"]
  /\ UNCHANGED <<writerVars, rpage, raddr, got, crashes, rejoins>>

DataOf(r) ==
  LET len == Current(r).length - HeaderLen
  IN [i \in 1 .. len |-> mem[rpage[r]][raddr[r] + HeaderLen + i - 1].word]

\* the event is handled, then reader::next() moves to the next frame
HandleFrame(r) ==
  /\ rpc[r] = "handle"
  /\ got' = [got EXCEPT ![r] = Append(@, [source |-> Current(r).source, data |-> DataOf(r)])]
  /\ raddr' = [raddr EXCEPT ![r] = @ + Current(r).length]
  /\ rpc' = [rpc EXCEPT ![r] = "idle"]
  /\ UNCHANGED <<writerVars, rpage, crashes, rejoins>>

\* reader::next() on the frame that ends a page: load the next one
TurnPage(r) ==
  /\ rpc[r] = "idle"
  /\ HasData(Current(r)) /\ Current(r).type = PageEnd
  /\ rpage' = [rpage EXCEPT ![r] = @ + 1]
  /\ raddr' = [raddr EXCEPT ![r] = 0]
  /\ UNCHANGED <<writerVars, rpc, got, crashes, rejoins>>

\* the reading process starts again and joins from the start (from_time = 0)
Rejoin(r) ==
  /\ rejoins < MaxRejoins
  /\ rejoins' = rejoins + 1
  /\ rpage' = [rpage EXCEPT ![r] = 1]
  /\ raddr' = [raddr EXCEPT ![r] = 0]
  /\ rpc' = [rpc EXCEPT ![r] = "idle"]
  /\ got' = [got EXCEPT ![r] = << >>]
  /\ UNCHANGED <<writerVars, crashes>>

--------------------------------------------------------------------------------
(* The writing process dies wherever it is; its successor seeks past the frames *)
(* that have data, on the last page.                                            *)

\* The addresses the walk visits are the least set with the first frame and,
\* after every frame that has a length, the next one.
Walk(page, visited) ==
  /\ 0 \in visited
  /\ \A a \in visited : page[a].length > 0 => a + page[a].length \in visited
FirstFree(page) ==
  CHOOSE a \in 0 .. PageSize - 1 :
    /\ page[a].length = 0
    /\ \A visited \in SUBSET (0 .. PageSize - 1) : Walk(page, visited) => a \in visited

Restart ==
  /\ crashes < MaxCrashes
  /\ crashes' = crashes + 1
  /\ waddr' = FirstFree(mem[wpage])
  /\ owner' = NoThread
  /\ pc' = [t \in Threads |-> "idle"]
  /\ job' = [t \in Threads |-> NoJob]
  /\ copied' = 0
  /\ UNCHANGED <<mem, wpage, begun, published, readerVars, rejoins>>

--------------------------------------------------------------------------------

Next ==
  \/ \E t \in Threads : OpenFrame(t) \/ CopyData(t) \/ SetSource(t) \/ ClearNext(t) \/ Publish(t)
  \/ \E r \in Readers : SeeFrame(r) \/ HandleFrame(r) \/ TurnPage(r) \/ Rejoin(r)
  \/ Restart

Spec == Init /\ [][Next]_vars

\* A reader keeps polling; nothing is assumed of the writer.
ReaderRuns(r) == SeeFrame(r) \/ HandleFrame(r) \/ TurnPage(r)
FairSpec == Spec /\ \A r \in Readers : WF_vars(ReaderRuns(r))

--------------------------------------------------------------------------------

\* The writer's current frame always leaves room for the header that ends the
\* page (address_border), threads outside open_frame .. close_frame do not own
\* the writer, and names are those of messages begun.
TypeOK ==
  /\ wpage \in 1 .. MaxPages
  /\ waddr \in 0 .. PageSize - HeaderLen
  /\ owner \in Threads \cup {NoThread}
  /\ \A t \in Threads : owner = t <=> pc[t] # "idle"
  /\ begun \in 0 .. MaxFrames /\ copied \in Nat
  /\ \A r \in Readers : rpage[r] \in 1 .. wpage /\ raddr[r] \in 0 .. PageSize - 1
  /\ crashes \in 0 .. MaxCrashes /\ rejoins \in 0 .. MaxRejoins

EventOf(m) == [source |-> m.source, data |-> [i \in 1 .. m.len |-> m.name]]
Event == {EventOf(m) : m \in Messages}
Log == [i \in 1 .. Len(published) |-> EventOf(published[i].msg)]

\* Whatever a crash left there, the frame the writer is on is invisible to
\* has_data until close_frame stores its length.
CurrentInvisible == ~HasData(mem[wpage][waddr])

Extent(f) == f.addr .. f.addr + HeaderLen + f.msg.len - 1

\* A reader may look at a published frame at any time: no later write, and no
\* writer that starts again, ever touches its header or its data.
PublishedIsImmutable ==
  [][\A i \in DOMAIN published : LET f == published[i] IN
        \A a \in Extent(f) : mem'[f.page][a] = mem[f.page][a]]_vars

\* The journal implements one growing log of whole events, and what a reader has
\* been handed since it joined is a prefix of it: never a frame half written, data
\* taken for a header, another location's event under the writer's name, a frame
\* twice or a frame skipped (frame::has_data, move_to_next, writer::write_as).
EL == INSTANCE EventLog WITH log <- Log, seen <- got
ImplementsEventLog == EL!Init /\ [][EL!Next]_EL!vars

\* A published frame reaches every reader that keeps polling, whether the writer
\* goes on, stops or dies in the middle of the next frame.
PublishedIsRead ==
  \A r \in Readers : \A n \in 1 .. MaxFrames :
    Len(published) >= n ~> Len(got[r]) >= n
===============================================================================

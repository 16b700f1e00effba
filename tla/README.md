# kungfu: a TLA+ model of the trading platform's headers

The repository holds the public headers of kungfu, an event-driven trading platform, next
to vendored libraries (boost::hana, fmt, spdlog, rxcpp, nlohmann::json, sqlite_orm, nng, the
CPython headers). Everything under `src/include/kungfu` is its own code: 7757 lines, a large
part of which declares functions that are compiled elsewhere. This project models the code
that *has* a body, and what those bodies need of the code they call.

Contents: 1. the system, 2. the modules, 3. the runs and their bounds, 4. fairness,
5. the proofs, 6. findings, 7. what is not modelled, 8. the plan.

## 1. The system

A *master* process, *apprentices* (strategies, brokers, the ledger, the cached service) and
*journals* between them. Each process owns one journal per destination, a chain of memory
mapped pages that it appends events to, and reads the journals of others by polling them.
All state a process needs after a restart goes through the cached service into sqlite.

| Part | State | Operations | Interaction | What is hard | What makes it correct |
|---|---|---|---|---|---|
| Journal (`yijinjing/journal`) | pages of frames; the writer's current frame; each reader's current frame | `write`, `write_as`, `has_data`, `move_to_next` | shared memory, no lock between processes, one mutex between the threads of a writer | a frame is visible by its header while it is being written; a process may die in any step; what a dead writer left is found by the next | readers see a prefix of one log of whole events; what is published never changes |
| Ring queue (`cache/ringqueue.h`) | cells, `head_`, `tail_`, one result buffer | `push`, `pop`, `size` | one producer, one consumer, no lock | both work on cells without synchronisation; a full queue drops the newest item; the caller keeps a pointer into the queue | the two never touch one cell; what was accepted comes out once and in order |
| Event stream (`yijinjing/common.h`, over rxcpp's subject) | the subject's list of observers, which is replaced and never changed; a cached pointer to it; the connection | `holdon`, `step`, `$`, `first`, `timeout`, subscribe and unsubscribe | handlers run inside the dispatch of an event and subscribe, unsubscribe and throw there | the list changes while it is walked; the cached pointer may outlive it; a first() closes its tap before its handler runs | every tap sees every event once, in order; what has ended leaves nothing behind |
| Subscription scopes (`rxcpp/rx-subscription.hpp`) | a flag, a set of children, a mutex | `add`, `remove`, `clear`, `unsubscribe` | every subscription of a stream is in a scope; children remove themselves | the flag is changed and first read without the mutex, children are unsubscribed after it | nothing is left in a closed scope; no call is made under the lock |
| Apprentice timers (`practice/apprentice.h`) | checkpoints, subscriptions | `timer`, `time_interval`, `timeout` | `TimeRequest` to the master, `Time` events back, shared by all timers of the process | an answer to one timer is an event to all; strict comparison with a checkpoint taken later than the request; a late answer races the timeout | no armed timer is left without a tick to come; none fires more often than its duration allows |
| State cache (`cache/runtime.h`, `backend.h`, `cached.h`) | `feed_bank_`, storages by destination | `bank <<`, `shift <<`, `-=`, `/=`, `>>` | events in; sqlite files shared with any process that restores | coalescing, clearing and restoring interleave; the filter by day; crashes | the last state published is waiting or stored; a restore misses nothing of today |
| Profile loader (`cached.h`, `profile.h`) | the profile database | `profile_get_all`, `set`, `remove` | a database written by others meanwhile | an exception half way, retries, giving up | what is not given up arrives whole and never goes back |
| Books (`wingchun/book`, `service/ledger.h`) | positions and assets of accounts and strategies | `update_book`, `write_book`, `get_direction` | trades in, positions and assets out to owners that come and go | a trade and its closing must name the same position over every type, side and offset; an exception stops the ledger | books end with what the market gave; owners know what their book holds |
| Basket orders (`wingchun/basketorder`) | a map of order updates | `is_all_order_end`, `get_total_traded_volume` | updates read late, or restored | the map lags behind the trader | a basket at its end has its final volume |
| Instruments and subscriptions (`wingchun/common.h`, `longfist/enums.h`) | none | classification and lookup | used by all of the above | tables that answer the same question independently | the tables agree |
| Sockets (`yijinjing/socket`) | descriptors | three factories | the descriptor table of the process | a destructor that closes a number it closed before | what is returned works, what fails leaves nothing open |

The other parts (pollers, brokers, strategies, the life cycle of a process,
sessions, time zones) are in section 7. `PROJECT.json` lists all of them, with every hazard
at its line.

## 2. The modules

Every definition is commented with the code it stands for, and `map` in `PROJECT.json` names
its lines. A definition that ends in `_Something` is a mutation of the one that follows it
and is used by no specification: a property is only kept if one such mutation breaks it.

**RingQueue** (with **DropNewestQueue**, **RingQueueProofs**, **RingCapacity**). One action
per access to shared memory. `PushLoad` reads `tail_` and `head_`, `PushClear` is the
`memset`, `PushConstruct` the placement new, `PushPublish` the test for room and the `++`;
`PopLoad` … `PopAdvance` and the two loads of `size()` likewise. `seenHead` and `sizeHead`
are the local copies, which the other side makes stale. `DropNewestQueue` is the promise: an
atomic bounded FIFO that refuses the newest item. `RingQueue` implements it under the mapping
`decidedBar`, which places the decision of a push at the load of `head_` if the queue looked
full, at the `++` otherwise. `RingCapacity` is the constructor's rounding on unsigned
integers of `Width` bits; it supplies what `RingQueue` takes for granted, that masking a
counter is taking the remainder. C++'s `&`, `|` and `>>` are there as functions that recur
over the bits: the operators of the Bitwise module say the same, but nothing can be proved
about what they compute. `MCRingQueue` extends both, and looks at `RingCapacity` once, in the
initial state (`IndexedByMask`).

**Journal** (with **EventLog**, **JournalProofs**). A page is an array of cells, and data that looks like a
header is in it on purpose. `OpenFrame` … `Publish` are the stores of
`write`/`write_as` in their order, the length last; `SeeFrame`, `HandleFrame` and `TurnPage`
are `has_data` and `move_to_next`; `Restart` is the death of the writing process in any step
and the seek of its successor, `FirstFree`: the walk from the first frame of the last page over
every frame that has a length (`Walk`), to the first that has none. `EventLog` is the promise, a log that grows and readers that
walk it. `open_frame`, `close_frame`, `seek` and `next` are compiled elsewhere; they are
modelled from what the bodies in the headers need of them.

**EventStream** (with **Broadcast**, **Sublists**, **EventStreamProofs**). One action per thing that can happen in a dispatch: an
observer's turn ends in `Reject`, `Accept` (its handler runs, and `Subscribe`, `Unsubscribe`,
`request_deregister`, `Return` and `Throw` happen in it), `TimeOut` or `Skip`. `completer` is
the subject's list and `cached` what its weak pointer locks to; `Install` replaces the list as
`add` and the closing of a lifetime do. `Step` is the operator that drives the process,
`EndProduce`, `Fail`, `EndTap` and `Finish` the end of the stream. `Broadcast` is the promise:
an event goes to the taps that were on the stream when it was published and still are, oldest
first. `Sublists` is the copy of a list without some of its elements, which the subject makes
when an observer goes; it is what `SelectSeq` is, as a function that can be proved about.

**CompositeSubscription** (with **Scope**, **CompositeSubscriptionProofs**). Any number of
threads in `add`, `remove`, `clear` and `unsubscribe`, one action per access to the flag, the
lock and the set, and one per child unsubscribed. `Scope` is the promise, in which every call
takes effect at one moment.

**Timers** (with **TimersProofs**). `Add` writes the request and then takes the checkpoint; `AppStep` hands one event
to every subscription, as rx does; `MasterReads`, `MasterAnswers` are the master's side, one
pending task per id; they are external, as the repository has no body of the master's
handlers. `now` is the time of the event being handled, `clock` the time frames are stamped
with. `asked` and `fires` are histories: when a timer was asked for, and how often it fired.

**StateCache** (proofs in **CachedProofs**). `Feed` coalesces by uid; `Store` moves a row to its storage; `ClearDest` and
`ClearOpened` are `-=` and `/=`, which differ in what they clear. Both clear what is stored and
nothing else: a row that waits in `feed_bank_` is stored afterwards, and is then back in the
storage that was cleared. `RestoreBegin` and `RestoreOne` are `>>` in another process, one
query at a time. `lost` is a history: the streams whose last state was cleared from its storage
or died in `feed_bank_`, until they publish again.

**ProfileLoad** (proofs in **CachedProofs**). The loop of `profile_get_all`: query, send row by row, catch, again, break,
next type; `Set` and `RemoveRow` are the other process, which may also write a row that it
removed before.

**Books** (with **BooksProofs**). `Trade` is the market, `UpdateBook` and `WriteBook` the two halves of the handling
of one trade; an exception sets `running` to FALSE, as `interrupt_on_error` raises SIGINT.
`Change` is what the exchanges mean by a side and an offset, written independently of
`get_direction`, so that comparing the two says something.

**BasketOrders** (proofs in **BooksProofs**). The trader appends to `written`; the engine has read `seen` of it.

**Instruments** (proofs in **BooksProofs**). Constant tables, as operators on codes; the properties relate tables that the
code does not. The books are kept by the type these tables give, so `MCBooks` looks at them in
the initial state of the books (`TypesAgree`, `TypesAreUnique`).

**SubscribeFlags**. The values of `SubscribeInstrumentType`, and a client that asks for them
one after another: what finding 1 needs.

**SocketFds** (with **SocketFdsProofs**). One factory call, step by step, over the table of descriptors; `sock` is what
the object has in `sock_`, whether or not it has been closed.

## 3. The runs

| Run | Configuration | Bounds | What it shows |
|---|---|---|---|
| `ring` | MCRingQueue | capacity 4, 7 pushes; every size asked for on 8 bits | cells, order, stable result, refinement, delivery; three items fit, so the queue is full, wraps and drops; rounding and masking of the capacity |
| `journal` | MCJournal | 2 threads, 1 reader, pages of 6 cells, 4 frames, 2 pages, 1 crash, 1 rejoin | whole frames, immutability, refinement; a published frame is read |
| `timers` | MCTimers | 2 timers of any kind, delays with negative and zero, 4 units of time, 1 foreign event | no timer forgotten, none fires too often, timeouts; a timer the master knows fires |
| `event_stream` | MCEventStream | one subscriber of each shape (four taps), 3 events | events reach every tap once and in order; one end each; nothing left behind; a failure ends the stream |
| `subscription_scope` | MCCompositeSubscription | 3 threads, 2 children, one that removes itself, 4 calls | no orphan, no call under the lock, each call takes effect at once and ends |
| `state_cache` | MCStateCache | 3 streams of two types and two destinations, 2 versions, 2 days, 2 crashes or clears | coalescing, clearing, restoring |
| `profile_load` | MCProfileLoad | 2 types of 2 keys, 2 tries, 3 rows written or removed meanwhile | what is not given up arrives whole and never goes back; the load ends |
| `books` | MCBooks | 2 accounts, 1 strategy, one type of each kind, 3 trades, 2 waiting; all 10000 prefixes of codes, 7 venues, 64 products | books against the market, owners told, no stop; the tables of instruments agree |
| `basket_orders` | MCBasketOrders | 2 orders of volume 3 | the end of a basket |
| `subscribe_flags_comment` | MCSubscribeFlagsComment | none | finding 1 |
| `socket_fds` | MCSocketFds | 3 addresses, 4 descriptors, 2 foreign files, any call fails | descriptors |
| `socket_choices` | MCSocketFdsChoices | 2 addresses, only bind fails | finding 2 |

Why the bounds are enough. Every safety property that a passing run checks is proved for all
values of the constants (section 5); for them the runs show that the interesting cases happen.
Liveness is checked within the bounds only.

- *Ring queue.* 7 pushes through 4 cells pass the end of the buffer and fill it again. The two
  counters are not taken modulo 2^64. With 8 bits, shifts 1, 2 and 4 of the rounding all
  matter, and every overflow occurs.
- *Journal.* Pages of 6 cells hold one to three frames and then a page end with different
  remainders; a crash may fall into every step, and four frames leave room for one begun
  before the crash, the one over its remains, and one on each page. Two threads are needed
  for the lock to matter.
- *Timers.* Two timers are the fewest that steal each other's ticks; four units of time let
  an interval fire twice.
- *Event stream.* Four taps of three shapes let a handler close the tap before it, its own and
  the one after it in the list; three events are one seen through a list that was replaced
  during the first, and one after the cached pointer is gone.
- *Scopes.* Three threads: one that closes, one that adds, one that clears or removes. Four
  calls let a child be given up between being added and being taken.
- *State cache.* Two destinations show the order of listing and querying; a clear and a crash,
  two clears and two crashes each occur in one behaviour (`MaxFaults` = 2), and a clear finds
  rows of its type waiting. `UidsTellApart` is an assumption: see section 7.
- *Profile loader.* The loop counts to 10 in the code and to `MaxTries` = 2 here: a first
  failure, a last one, and a success after a failure all occur. Three changes by the other
  process (`MaxChanges`) let a row be removed, written again and written once more, or be
  changed between any two tries.
- *Books.* Three trades open, close and are handled late. Symmetry is over accounts.
- *Instruments.* Codes are enumerated by all their first four digits, which is all the
  functions look at except for repo terms and Hong Kong ranges, where the last two digits are
  enumerated too (all of them for repos, the ends of ranges for Hong Kong numbers below
  100000).
- *Sockets.* Four descriptors against one socket alive, one being made and two foreign files
  make running out of descriptors happen.

A run that may stop says `CHECK_DEADLOCK FALSE`: the bounds on pushes, frames, trades and
time end those behaviours. The other runs stutter explicitly where the code is done.

## 4. Fairness

- Ring queue: a client that owns the consumer end polls for ever, and a push that has begun
  ends. Nobody has to call `push` or `size`.
- Journal: a reader polls. Nothing is assumed of the writer, which may stop in any step.
- Event stream: handlers return, the walk over the list goes on, and a producer that has
  nothing to read gives up. Nobody has to subscribe, publish or fail.
- Scopes: a thread inside a call runs. That it gets the mutex needs no more than weak fairness
  here, because calls are bounded by `MaxCalls`. Nobody has to call.
- Timers: both event loops run, and time passes. No fairness for calls of `timer`.
- Profile loader: weak fairness of the loop, which waits for nobody. Exceptions and the other
  writer may come at any time, and need not.
- Basket orders: the engine goes on reading each order. Nothing is assumed of the trader.

All of it is weak fairness of a thread that is never blocked by another for ever; no property
needs strong fairness.

## 5. The proofs

Eight modules hold theorems, each a strengthening `IInv`, the lemmas that it is inductive, one
per action, `THEOREM Invariance == Spec => []IInv`, and what follows. They hold for every value
of the constants that meets the assumptions named; TLC evaluates those assumptions in the runs.

| Module | Assumptions | Theorems beside `Invariance` |
|---|---|---|
| `RingQueueProofs` | `CapacityAssumption` (a positive number), `MaxPushAssumption`, `WidthAssumption` (a power of two up to 64) | `TypeCorrect` (`size()` never underflows), `CellsNeverShared`, `NothingCorrupted`, `PointerStable`, `FirstInFirstOut`, `Refinement` (of DropNewestQueue); `IndexedByItsMask` |
| `JournalProofs` | `PageAssumption` (a page is not empty), `BoundAssumption`, `ThreadAssumption` | `TypeCorrect`, `NeverSeenEarly` (`CurrentInvisible`), `PublishedStays` (`PublishedIsImmutable`), `Refinement` (of EventLog) |
| `EventStreamProofs` | `EventStreamAssumption` (each subscriber has one shape, and `Nobody` is none) | `OneEndEach` (`OneEnd`), `NothingStays` (`NothingLeftBehind`), `Refinement` (of Broadcast) |
| `TimersProofs` | `TimersAssumption` (bounds are numbers) | `TypeCorrect`, `NoneForgotten` (`AlwaysArmed`), `NotTooOften` (`NeverTooOften`), `SilentBefore` (`TimeoutMeansSilence`), `LateAnswerWins` (`AnswerWins`) |
| `CachedProofs` | `StreamsAssumption`, `UidsTellApart`; `LoadAssumption` (there is a type and a try) | of the state cache: `NoStateForgotten` (`NothingForgotten`), `RestoreMissesNothing` (`RestoreComplete`), `NoneOfYesterday` (`NothingFromYesterday`); of the profile loader: `LoadInvariance`, `LoadsWhole` (`LoadedIsComplete`), `NeverOlder` (`ResendIsNotOlder`) |
| `BooksProofs` | `TypesAssumption`, `OwnersAssumption` (accounts and strategies are finitely many, none is both, and `PUBLIC` is no strategy); `VolumeAssumption`, `OrdersAssumption` (finitely many orders); `IdsAssumption` (a code is four digits and a tail) | of the books: `NeverStoppedByATrade` (`OrdinaryTradesNeverStop`), `OwnersKnowTheirBook` (`ToldIsCurrent`), `BooksAreRight` (`BooksMatchTrades`); of baskets: `TradedVolumeIsFinal` (`EndMeansNothingMore`); of instruments: `TypesAlwaysAgree` (`TypesAgree`), `TypesAreAlwaysUnique` (`TypesAreUnique`) |
| `CompositeSubscriptionProofs` | `CompositeAssumption` | `NothingStranded` (`NoOrphan`), `CallsWithoutLock` (`NoCallUnderLock`), `Refinement` (of the safety part of Scope) |
| `SocketFdsProofs` | `FdsAssumption` (there is an address, and a descriptor the other thread leaves) | `ReturnsReadySockets` (`ReturnedIsReady`), `FailsClean` (`NothingLeftOpen`) |

The arguments:

- *Ring queue.* None of the safety properties is inductive: `WaitingIntact` is kept by a push
  only because the cell it writes is none of the waiting ones, which needs a bound on
  `tail - head`; that bound is kept by `PushPublish` only because the `seenHead` it tests is
  at most `head`. `IInv` has, besides the properties, `Counters` (the bound), `Stale` (what a
  thread remembers of the other's counter is old, never wrong), `LogOrdered` (the items
  published are earlier pushes, in order) and `InHand` (what each thread is filling). That two
  counters less than `Capacity` apart differ in their cells is the lemma `CellsDiffer`. In the
  refinement a push that was refused takes its abstract step when it loads `head_`.
- *Rounding of the capacity.* `TopOnes` is the invariant of the loop: after *k* rounds the
  2^*k* bits from the leading one down are set, or all of them (`FillsTop`). The rounds end
  when 2^*k* is the width (`HalfOfWidth`), so the mask is all bits below a power of two and
  `MaskIsRemainder` applies. `OrFills` and `OrShifted` are what this needs of `|` and `>>`.
- *Journal.* `Chained` says where a reader that has read *n* frames stands: at frame *n* + 1,
  where the writer is, or at a page end before either (`After`). Every writer's step but two
  stores only at or after the writer's frame and not its length (`Aside`), and leaves that as
  it is; `OpenFrame` that ends a page moves everyone who stood where the writer was to a page
  end, and `Publish` makes that place the next frame. `Working` says what has been copied so
  far, so that a frame is `Whole` when its length is stored. `WalkReaches` and `PageBegins`
  make the seek after a crash end exactly where the dead writer was
  (`SeekFindsTheFrontier`): the published frames of its page and its own address are closed
  under the walk, and every set that is closed contains it. The frame's length is 0 there
  (`Frontier`), because `close_frame` clears the next header before it stores the length.
- *Event stream.* `Lists`: the subject's list is that of the open taps in the order they were
  added, whatever was closed and retained on the way, and what the cached pointer finds is it
  or has expired between two events. `Stage`: the subject has one hook of the connection
  however often `step` connects. `Lives`: a lifetime is as long as one of its taps is open, but
  for a `first` that has its event and whose handler runs; this is the case in which a
  subscriber could stay behind. `Told`: who was told of its end is gone. The abstract list of
  `Broadcast` is the sublist of the open taps; every step that replaces the list, or skips an
  observer that has left, maps to a step by what taking a sublist does to a list that was
  appended to or lost an element.
- *Timers.* `AlwaysArmed` needs that ids are taken in turn, that every request of a timer asks
  for its duration and that its last request was written after its checkpoint (`Asked`): the
  strict comparison of `timer` then cannot pass over the tick that answers it. `Listening`
  ties the checkpoint of a timeout to the last event of its source. `NeverTooOften` bounds the
  number of times a timer has fired since it was asked for; it is proved over the invariant
  `Paced`: the process handles events in the order of their times (`InOrder`), and what fired
  fits between the time of asking and the checkpoint, one duration and the strictness of the
  comparison apart (`Spaced`).
- *State cache.* `FeedPlaced` says that a row that waits is the newest state of its stream,
  whatever is cleared meanwhile, and `DiskPlaced` that no row stored is newer than what was
  published, so that storing never goes back; `OwedIsThere` that a row owed to a restore under
  way is still in its storage if its query is to come, and in the bank if it has been read.
- *Books.* `StoppedByThrow`: what stopped the ledger has no direction; `OutOfDate`: between
  `update_book` and `write_book` only owners of the trade are out of date, in one position and
  their assets, which is what `write_book` sends. `BooksMatchTrades` says nothing while trades
  wait, so its invariant speaks of a history (`BooksFollow`): what every account held for every
  strategy when each waiting trade was made and what it holds now, one `Change` apart; the
  books show the first of these, or the second once `update_book` has run. What is left is arithmetic: a book is a sum over those holdings, and changing one cell
  changes the totals of the trade's two owners by the amount, and no other (`TotalAfter`).
  `ChangeIsDirected` and `ChangeIsApplied` are the point of it: `get_direction`, which knows
  nothing of `Change`, names the cell that changes.
- *Baskets.* `LastIsFinal`: the engine is behind the trader, and only an order's last update
  is at an end; so an order whose update in the map is at its end was read to its end.
- *Instruments.* A code is a number, whose digits are quotients and remainders
  (`DigitsOfDigits`); a range of six digit numbers fixes the first ones (`NumberSplit`), and no
  two ranges or products overlap (`RangesApart`, `ProductsAreDistinct`).
- *Profile loader.* `Behind`: the receiver is never ahead of what was last written to a row,
  removed or not; `Snapshot`: what a try
  has still to send lies between the two; `SentOrUnsent`: a row that was there when the turn
  began is among the unsent or was sent.
- *Scopes.* `Mutex` (the lock is held around the second look and the change), and
  `TakenForGood`: once the children of a closed scope were taken, no `add` is past its second
  look.
- *Sockets.* `HeldByObjects`: a descriptor the client has open is held by an object, two only
  while a constructor has one that is not assigned yet; so closing a number twice loses
  nothing of the client's. Nothing is needed of the number the kernel picks.

Recursive definitions. The sums of the books and baskets, the sublists of the event stream and
the bits of the ring queue's mask are computed by recursion over data. The library's induction
theorems take an operator as their parameter, which none of the installed provers instantiates.
The proofs take a set instead: the numbers a formula holds of contain 0 and the successor of
each member, so by the least counterexample of a well-founded ordering (`WFMin`) they are all
numbers (`NatInduct`). That a recursive definition defines anything is proved the same way:
its beginnings of every length exist and agree (`StartsExist`, `StartsAgree`), which makes a
function (`Recursion`).

Only model-checked: everything under fairness (`PublishedIsDelivered`, `PublishedIsRead`,
`TimerIsServed`, `LoadEnds`, `EndIsSeen`, `FailureEndsStream`, the liveness in `Scope`), as the
prover does not reason about fairness and ENABLED. `SubscribeFlags` and `socket_choices` are
counterexamples and have nothing to prove.

## 6. Findings

1. `longfist/enums.h:127`: the comment says that `SubscribeInstrumentType(All | Stock)` is an
   enumerator of value 3. `All` is 0 and `Stock` 1, so it is `Stock`: adding All to a
   subscription adds nothing (run `subscribe_flags_comment`).
2. `yijinjing/socket/socket.h:142`: after a failed bind, `udp_client` closes the socket and
   keeps its number; the next socket of the loop is given the same number, and the destructor
   of the first closes it under the second. After one failed bind no address can be bound
   (run `socket_choices`). `NothingLeftOpen` shows that nothing leaks in spite of it.

## 7. What is not modelled

- **No body in the repository:** the life cycle of master, hero and apprentice, sessions,
  bands and channels, `open_frame`/`close_frame`/`seek`/`sort` of the journal, `assemble`, io
  devices, the nanomsg wrapper, `Client` but for the `is_own` filters, broker vendors, the
  strategy runner and runtime, the basket engine, accounting methods, the kqueue poller. Where
  a modelled body calls one of these, it is an external action in the module, as weak as the
  caller allows.
- **Nothing promised:** the epoll poller has a body, but or-s bits into a field it never
  initialised and reads -1 as a size. What it does after that is undefined, a stop() before
  poll() is overwritten, and no comment or test says what should hold: there is no property of
  it that the code keeps.
- **Vendored libraries** (some 196000 of the 203847 lines): boost::hana, fmt, spdlog,
  nlohmann::json, sqlite_orm, nng, the CPython headers, and rxcpp but for the subject and the
  composite subscription, whose interleavings the platform's own code depends on. They are why
  the share of the lines that is modelled is small.
- **No state:** types, registries, logging, hashing, encoding, extension macros, time
  constants, sqlite column types.
- **Parts of modelled components:** merging several journals by time, `mark`, `copy_frame` and
  `write_raw`; `bank`'s and `profile`'s bulk variants; the accounting methods behind the books.
  A page turn of the writer (`close_page`, which has no body here) is one step: a crash before
  and after it is explored, a crash inside it is not.
- **Not promised:** states that only `feed_bank_` holds when the cached service dies are gone;
  a cleared type is back when a row of it waited, or its database was not open; an order of
  yesterday that still works is stored and not restored. The model does all three as the code
  does, and no property promises otherwise.
- **Assumed:** x86 store order in the journal (its fields are volatile, without fences);
  `UidsTellApart` in the state cache (primary keys are combined by exclusive or, so that
  `<<a, b>>` and `<<b, a>>` collide; whether live keys do depends on the data); no copy, move
  or destruction of a ring queue (nothing in the repository copies one); memory in sockets
  (the address list that is not freed).
- **Abstracted:** what messages say; prices and amounts in books (one unit per trade); the
  text of codes in `Instruments`, which are numbers.

## 8. The plan

Done in this order: ring queue and its proofs, timers, journal, state cache, books,
subscription flags, instruments, sockets, profile loader, basket orders, event stream,
subscription scopes; then the proofs of timers, books, state cache, sockets, profile loader,
scopes and journal; then those of the event stream, of the books against the market, of
baskets, instruments and the rounding of a capacity, with which every safety property that is
checked is proved.

What would add most now:

1. **Process**: Journal and Timers composed, the requests of timers being frames of a journal
   that may be read late or after a restart, under the event stream that drives both.
2. **BrokerClient**: `is_own` over the subscription calls, with sources that come and go;
   SubscribeFlags becomes a part of it.
3. **Ring queue counters** modulo 2^64, by a refinement of RingQueue with `Width`.
4. **Zones** as a part of Instruments: an exchange and its futures market share a date.

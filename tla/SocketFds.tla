------------------------------ MODULE SocketFds ------------------------------
(***************************************************************************)
(* How yijinjing/socket/socket.h comes by the descriptor of a socket, and  *)
(* who closes it.  A socket object closes its descriptor in its destructor *)
(* and also when close() is called, and forgets nothing in between; the    *)
(* kernel gives out the lowest descriptor that is free, to this thread and *)
(* to any other.  udp_client walks the addresses getaddrinfo returns and   *)
(* assigns each new socket over the one before.                            *)
(*                                                                         *)
(* A model of one call of a factory, next to a thread that opens files.    *)
(***************************************************************************)
EXTENDS Integers, FiniteSets, FiniteSetsExt

CONSTANTS Addresses,      \* how many addresses getaddrinfo returns
          Fds,          \* the descriptors of the process
          MaxOthers,    \* bound: how many files the other thread opens
          CallsFail     \* whether setsockopt, fcntl, connect or join may fail
ASSUME FdsAssumption ==
  /\ Addresses \in Nat \ {0} /\ MaxOthers \in Nat /\ CallsFail \in BOOLEAN
  /\ Fds \subseteq Nat /\ IsFiniteSet(Fds) /\ Cardinality(Fds) > MaxOthers

Nobody == "nobody"
Kinds == {"tcp", "udp", "multicast"}
Ends == {"returned", "null", "crashed"}

VARIABLES
  owner,        \* who opened the file behind each descriptor
  bound,        \* descriptors bound to the listening port
  nonblocking,  \* descriptors set not to block
  bindable,     \* the addresses whose port is not taken
  kind,         \* the factory called
  choice,       \* rp, as a position in the list
  fresh,        \* the descriptor ::socket returned to the constructor
  sock,         \* sockfd() of the object the local variable `sock` holds
  pc
vars == <<owner, bound, nonblocking, bindable, kind, choice, fresh, sock, pc>>

NoFd == -1
OpenBy(who) == {fd \in Fds : owner[fd] = who}
MayFail == IF CallsFail THEN BOOLEAN ELSE {FALSE}

\* What the variables range over; only open sockets of the client are bound or
\* non-blocking, since closing a descriptor takes it out of both
TypeOK ==
  /\ owner \in [Fds -> {Nobody, "client", "other"}]
  /\ bound \subseteq OpenBy("client") /\ nonblocking \subseteq OpenBy("client")
  /\ bindable \subseteq 1 .. Addresses
  /\ kind \in Kinds /\ choice \in 1 .. Addresses
  /\ {fresh, sock} \subseteq Fds \cup {NoFd}
  /\ pc \in {"socket", "assign", "reuse", "bind", "next", "nonblock", "join", "resolve",
             "destroy"} \cup Ends

Init ==
  /\ owner = [fd \in Fds |-> Nobody]
  /\ bound = {} /\ nonblocking = {}
  /\ bindable \in SUBSET (1 .. Addresses)
  /\ kind \in Kinds
  /\ choice = 1 /\ fresh = NoFd /\ sock = NoFd
  /\ pc = "socket"

\* ::close(fd): whatever file is behind the number; -1 and a free one are errors
Close(fd) ==
  /\ owner' = [o \in Fds |-> IF o = fd THEN Nobody ELSE owner[o]]
  /\ bound' = bound \ {fd}
  /\ nonblocking' = nonblocking \ {fd}
Keep == UNCHANGED <<owner, bound, nonblocking>>

\* ~socket()
Destroyed_Forgets(fd) == Keep
Destroyed(fd) == Close(fd)

\* The constructor: ::socket, -1 when there is no descriptor left
CreateSocket ==
  /\ pc = "socket"
  /\ IF OpenBy(Nobody) = {}
     THEN fresh' = NoFd /\ UNCHANGED owner
     ELSE fresh' = Min(OpenBy(Nobody)) /\ owner' = [owner EXCEPT ![fresh'] = "client"]
  /\ pc' = "assign"
  /\ UNCHANGED <<bound, nonblocking, bindable, kind, choice, sock>>

\* sock = std::make_shared<socket>(...): the object sock held before is destroyed
\* only now, when its successor has its descriptor
Assign ==
  /\ pc = "assign"
  /\ IF sock = NoFd THEN Keep ELSE Destroyed(sock)
  /\ sock' = fresh
  /\ pc' = CASE fresh # NoFd                -> "reuse"
             [] fresh = NoFd /\ kind = "tcp" -> "destroy"
             [] OTHER                        -> "next"
  /\ UNCHANGED <<bindable, kind, choice, fresh>>

\* A call on sock fails when its descriptor is not a socket of ours
Works(fails) == ~fails /\ sock \in OpenBy("client")

MakeReusable ==
  /\ pc = "reuse"
  /\ \E fails \in MayFail :
       pc' = CASE Works(fails) /\ kind = "tcp"  -> "nonblock"
               [] Works(fails) /\ kind # "tcp"  -> "bind"
               [] ~Works(fails) /\ kind = "tcp" -> "destroy"
               [] OTHER                         -> "next"
  /\ Keep /\ UNCHANGED <<bindable, kind, choice, fresh, sock>>

\* ::bind returns 0; and what udp_client takes for success, s == 0
Binds == Works(FALSE) /\ choice \in bindable
Accepted_Unchecked == TRUE
Accepted == Binds

\* bind(): the loop ends with success, and a failure closes the socket
BindOrClose ==
  /\ pc = "bind"
  /\ IF Accepted
     THEN /\ bound' = IF Binds THEN bound \cup {sock} ELSE bound
          /\ pc' = "nonblock"
          /\ UNCHANGED <<owner, nonblocking>>
     ELSE Close(sock) /\ pc' = "next"
  /\ UNCHANGED <<bindable, kind, choice, fresh, sock>>

\* rp == NULL
EndOfList == choice = Addresses

\* rp = rp->ai_next; at the end of the list there is nothing to return
NextChoice ==
  /\ pc = "next"
  /\ IF EndOfList
     THEN pc' = "destroy" /\ UNCHANGED choice
     ELSE pc' = "socket" /\ choice' = choice + 1
  /\ Keep /\ UNCHANGED <<bindable, kind, fresh, sock>>

\* make_non_blocking(); udp_client closes the socket if it fails
MakeNonBlocking ==
  /\ pc = "nonblock"
  /\ \E fails \in MayFail :
       IF Works(fails)
       THEN /\ nonblocking' = nonblocking \cup {sock}
            /\ pc' = [tcp |-> "resolve", udp |-> "returned", multicast |-> "join"][kind]
            /\ UNCHANGED <<owner, bound>>
       ELSE /\ IF kind = "tcp" THEN Keep ELSE Close(sock)
            /\ pc' = "destroy"
  /\ UNCHANGED <<bindable, kind, choice, fresh, sock>>

JoinGroup ==
  /\ pc = "join"
  /\ \E fails \in MayFail : pc' = IF Works(fails) THEN "returned" ELSE "destroy"
  /\ Keep /\ UNCHANGED <<bindable, kind, choice, fresh, sock>>

\* gethostbyname and connect: a name that is not found is a null pointer that is
\* read, a connection refused at once is an error
Connect ==
  /\ pc = "resolve"
  /\ \E fails, unknown \in MayFail :
       pc' = CASE unknown                 -> "crashed"
               [] ~unknown /\ Works(fails) -> "returned"
               [] OTHER                    -> "destroy"
  /\ Keep /\ UNCHANGED <<bindable, kind, choice, fresh, sock>>

\* return nullptr: the local variable goes, and the socket with it
ReturnNull ==
  /\ pc = "destroy"
  /\ Destroyed(sock)
  /\ sock' = NoFd
  /\ pc' = "null"
  /\ UNCHANGED <<bindable, kind, choice, fresh>>

\* The other thread opens a file
OtherOpens ==
  /\ pc \notin Ends
  /\ Cardinality(OpenBy("other")) < MaxOthers
  /\ OpenBy(Nobody) # {}
  /\ owner' = [owner EXCEPT ![Min(OpenBy(Nobody))] = "other"]
  /\ UNCHANGED <<bound, nonblocking, bindable, kind, choice, fresh, sock, pc>>

Next ==
  \/ CreateSocket \/ Assign \/ MakeReusable \/ BindOrClose \/ NextChoice
  \/ MakeNonBlocking \/ JoinGroup \/ Connect \/ ReturnNull \/ OtherOpens
  \/ (pc \in Ends /\ UNCHANGED vars)
Spec == Init /\ [][Next]_vars

-----------------------------------------------------------------------------

\* What a factory returns can be used: its descriptor is still the socket that
\* was made, does not block, and has the port unless it is a client of TCP.
ReturnedIsReady ==
  pc = "returned" =>
    /\ sock \in nonblocking
    /\ kind # "tcp" => sock \in bound

\* A call that returns nothing leaves no descriptor open behind it, whichever
\* of its steps failed and in spite of the sockets it closes twice.
NothingLeftOpen == pc = "null" => OpenBy("client") = {}

\* The comment on ai_family: the addresses are choices.  When nothing but bind
\* fails, and one of the choices can be bound, udp_client finds it.
AnyChoiceWillDo ==
  pc = "null" /\ kind = "udp" /\ ~CallsFail => bindable = {}
===============================================================================

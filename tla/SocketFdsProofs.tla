---------------------------- MODULE SocketFdsProofs ----------------------------
(***************************************************************************)
(* That a factory returns a socket that is ready or leaves nothing open,   *)
(* for any number of addresses and of descriptors, whatever another thread *)
(* opens meanwhile.  Nothing is needed of the descriptor the kernel picks. *)
(***************************************************************************)
EXTENDS SocketFds, TLAPS

(* The client's open descriptors are those its objects hold: two only when *)
(* the constructor has one that is not assigned yet.                       *)
HeldByObjects ==
  OpenBy("client") \subseteq IF pc = "assign" THEN {sock, fresh} ELSE {sock}

(* What the steps done so far have made of the socket.                     *)
ReadyUpTo ==
  /\ pc \in {"nonblock", "join", "returned"} /\ kind # "tcp" => sock \in bound
  /\ pc \in {"join", "resolve", "returned"} => sock \in nonblocking
  /\ pc = "resolve" => kind = "tcp"

IInv ==
  /\ DOMAIN owner = Fds /\ kind \in Kinds
  /\ pc = "null" => sock = NoFd
  /\ HeldByObjects /\ ReadyUpTo

-----------------------------------------------------------------------------

LEMMA NoFdIsFree == NoFd \notin Fds
  BY FdsAssumption DEF NoFd

(* After ::close(fd) the client has no file behind fd.                     *)
LEMMA ClosedIsFree ==
  ASSUME NEW fd, Close(fd)
  PROVE  OpenBy("client")' = OpenBy("client") \ {fd} /\ DOMAIN owner' = Fds
  BY DEF Close, OpenBy, Nobody

LEMMA KeptIsOpen == Keep => OpenBy("client")' = OpenBy("client") /\ owner' = owner
  BY DEF Keep, OpenBy

LEMMA InitIInv == Init => IInv
  BY DEF Init, IInv, HeldByObjects, ReadyUpTo, OpenBy, Nobody

LEMMA CreateSocketIInv == IInv /\ CreateSocket => IInv'
  <1> SUFFICES ASSUME IInv, CreateSocket PROVE IInv'
    OBVIOUS
  <1>1. OpenBy("client")' \subseteq OpenBy("client") \cup {fresh'} /\ DOMAIN owner' = Fds
    <2>1. \/ owner' = owner
          \/ owner' = [owner EXCEPT ![fresh'] = "client"]
      <3>1. CASE OpenBy(Nobody) = {}
        BY <3>1 DEF CreateSocket
      <3>2. CASE OpenBy(Nobody) # {}
        <4>1. owner' = [owner EXCEPT ![fresh'] = "client"]
          BY <3>2, Zenon DEF CreateSocket
        <4> QED
          BY <4>1
      <3> QED
        BY <3>1, <3>2
    <2> QED
      BY <2>1 DEF OpenBy, IInv
  <1>2. HeldByObjects'
    BY <1>1 DEF IInv, HeldByObjects, CreateSocket
  <1> QED
    BY <1>1, <1>2 DEF IInv, ReadyUpTo, CreateSocket

LEMMA AssignIInv == IInv /\ Assign => IInv'
  <1> SUFFICES ASSUME IInv, Assign PROVE IInv'
    OBVIOUS
  <1>1. sock' = fresh /\ kind' = kind /\ pc' \in {"reuse", "destroy", "next"}
    BY DEF Assign
  <1>2. OpenBy("client")' \subseteq {fresh} /\ DOMAIN owner' = Fds
    <2>1. OpenBy("client") \subseteq {sock, fresh} /\ OpenBy("client") \subseteq Fds
      BY DEF IInv, HeldByObjects, Assign, OpenBy
    <2>2. CASE sock = NoFd /\ Keep
      BY <2>1, <2>2, KeptIsOpen, NoFdIsFree DEF IInv
    <2>3. CASE sock # NoFd /\ Close(sock)
      BY <2>1, <2>3, ClosedIsFree
    <2> QED
      BY <2>2, <2>3 DEF Assign, Destroyed
  <1>3. HeldByObjects'
    BY <1>1, <1>2 DEF HeldByObjects
  <1> QED
    BY <1>1, <1>2, <1>3 DEF IInv, ReadyUpTo

LEMMA MakeReusableIInv == IInv /\ MakeReusable => IInv'
  <1> SUFFICES ASSUME IInv, MakeReusable PROVE IInv'
    OBVIOUS
  <1>1. /\ pc = "reuse" /\ Keep /\ UNCHANGED <<kind, sock, fresh>>
        /\ pc' \in {"nonblock", "bind", "destroy", "next"}
        /\ pc' = "nonblock" => kind = "tcp"
    BY DEF MakeReusable, IInv, Kinds
  <1>2. HeldByObjects'
    BY <1>1, KeptIsOpen DEF IInv, HeldByObjects
  <1> QED
    BY <1>1, <1>2, KeptIsOpen DEF IInv, ReadyUpTo

LEMMA BindOrCloseIInv == IInv /\ BindOrClose => IInv'
  <1> SUFFICES ASSUME IInv, BindOrClose PROVE IInv'
    OBVIOUS
  <1>1. OpenBy("client") \subseteq {sock}
    BY DEF IInv, HeldByObjects, BindOrClose
  <1>2. CASE Accepted /\ bound' = bound \cup {sock} /\ pc' = "nonblock" /\ UNCHANGED owner
    BY <1>1, <1>2 DEF BindOrClose, IInv, HeldByObjects, ReadyUpTo, OpenBy
  <1>3. CASE Close(sock) /\ pc' = "next"
    BY <1>1, <1>3, ClosedIsFree DEF BindOrClose, IInv, HeldByObjects, ReadyUpTo
  <1> QED
    BY <1>2, <1>3 DEF BindOrClose, Accepted

LEMMA NextChoiceIInv == IInv /\ NextChoice => IInv'
  BY KeptIsOpen DEF IInv, NextChoice, HeldByObjects, ReadyUpTo

LEMMA MakeNonBlockingIInv == IInv /\ MakeNonBlocking => IInv'
  <1> SUFFICES ASSUME IInv, MakeNonBlocking PROVE IInv'
    OBVIOUS
  <1>1. pc = "nonblock" /\ OpenBy("client") \subseteq {sock} /\ UNCHANGED <<kind, sock, fresh>>
    BY DEF IInv, HeldByObjects, MakeNonBlocking
  <1>2. CASE /\ nonblocking' = nonblocking \cup {sock} /\ UNCHANGED <<owner, bound>>
             /\ pc' = [tcp |-> "resolve", udp |-> "returned", multicast |-> "join"][kind]
    <2>1. pc' \in {"resolve", "returned", "join"} /\ (pc' = "resolve" <=> kind = "tcp")
      BY <1>2 DEF IInv, Kinds
    <2>2. HeldByObjects'
      BY <1>1, <1>2, <2>1 DEF HeldByObjects, OpenBy
    <2>3. ReadyUpTo'
      BY <1>1, <1>2, <2>1 DEF IInv, ReadyUpTo
    <2> QED
      BY <1>1, <1>2, <2>1, <2>2, <2>3 DEF IInv
  <1>3. CASE Keep /\ pc' = "destroy"
    BY <1>1, <1>3, KeptIsOpen DEF IInv, HeldByObjects, ReadyUpTo
  <1>4. CASE Close(sock) /\ pc' = "destroy"
    BY <1>1, <1>4, ClosedIsFree DEF IInv, HeldByObjects, ReadyUpTo
  <1> QED
    BY <1>2, <1>3, <1>4 DEF MakeNonBlocking

LEMMA JoinGroupIInv == IInv /\ JoinGroup => IInv'
  <1> SUFFICES ASSUME IInv, JoinGroup PROVE IInv'
    OBVIOUS
  <1>1. pc = "join" /\ pc' \in {"returned", "destroy"} /\ Keep /\ UNCHANGED <<kind, sock, fresh>>
    BY DEF JoinGroup
  <1> QED
    BY <1>1, KeptIsOpen DEF IInv, HeldByObjects, ReadyUpTo, Keep

LEMMA ConnectIInv == IInv /\ Connect => IInv'
  <1> SUFFICES ASSUME IInv, Connect PROVE IInv'
    OBVIOUS
  <1>1. /\ pc = "resolve" /\ Keep /\ UNCHANGED <<kind, sock, fresh>>
        /\ pc' \in {"crashed", "returned", "destroy"}
    BY DEF Connect
  <1> QED
    BY <1>1, KeptIsOpen DEF IInv, HeldByObjects, ReadyUpTo, Keep

LEMMA ReturnNullIInv == IInv /\ ReturnNull => IInv'
  <1> SUFFICES ASSUME IInv, ReturnNull PROVE IInv'
    OBVIOUS
  <1>1. OpenBy("client")' = {} /\ DOMAIN owner' = Fds
    BY ClosedIsFree DEF IInv, HeldByObjects, ReturnNull, Destroyed
  <1> QED
    BY <1>1 DEF IInv, HeldByObjects, ReadyUpTo, ReturnNull

LEMMA OtherOpensIInv == IInv /\ OtherOpens => IInv'
  <1> SUFFICES ASSUME IInv, OtherOpens PROVE IInv'
    OBVIOUS
  <1>1. OpenBy("client")' \subseteq OpenBy("client") /\ DOMAIN owner' = Fds
    <2>1. owner' = [owner EXCEPT ![Min(OpenBy(Nobody))] = "other"]
      BY Zenon DEF OtherOpens
    <2> QED
      BY <2>1 DEF OpenBy, IInv
  <1> QED
    BY <1>1 DEF IInv, HeldByObjects, ReadyUpTo, OtherOpens

LEMMA NextIInv == IInv /\ [Next]_vars => IInv'
  <1> SUFFICES ASSUME IInv, [Next]_vars PROVE IInv'
    OBVIOUS
  <1>1. CASE UNCHANGED vars
    BY <1>1 DEF vars, IInv, HeldByObjects, ReadyUpTo, OpenBy
  <1> QED
    BY <1>1, CreateSocketIInv, AssignIInv, MakeReusableIInv, BindOrCloseIInv, NextChoiceIInv,
       MakeNonBlockingIInv, JoinGroupIInv, ConnectIInv, ReturnNullIInv, OtherOpensIInv DEF Next

-----------------------------------------------------------------------------

(* The strengthened invariant: a descriptor of the client is always held   *)
(* by the object being made or by the local variable, so that some         *)
(* destructor closes it (socket/socket.h).                                 *)
THEOREM Invariance == Spec => []IInv
  <1> QED
    BY InitIInv, NextIInv, PTL DEF Spec

(* A factory returns only a socket that does not block and, but for TCP,   *)
(* is bound (socket_factory).                                              *)
THEOREM ReturnsReadySockets == Spec => []ReturnedIsReady
  <1>1. IInv => ReturnedIsReady
    BY DEF IInv, ReadyUpTo, ReturnedIsReady
  <1> QED
    BY <1>1, Invariance, PTL

(* A factory that fails leaves nothing open, though it closes some sockets *)
(* twice and another thread may get the descriptor in between.             *)
THEOREM FailsClean == Spec => []NothingLeftOpen
  <1>1. IInv => NothingLeftOpen
    <2> SUFFICES ASSUME IInv, pc = "null" PROVE OpenBy("client") = {}
      BY DEF NothingLeftOpen
    <2>1. OpenBy("client") \subseteq {NoFd} /\ OpenBy("client") \subseteq Fds
      BY DEF IInv, HeldByObjects, OpenBy
    <2> QED
      BY <2>1, NoFdIsFree
  <1> QED
    BY <1>1, Invariance, PTL
=================================================================================

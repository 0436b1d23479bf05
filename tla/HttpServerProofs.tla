-------------------------- MODULE HttpServerProofs ---------------------------
(***************************************************************************)
(* Proofs about HttpServer, for any number of clients, descriptors, slots  *)
(* of the queue, retries and restarts: until a connection is purged        *)
(* between is_alive and what the server thread does with it before it      *)
(* takes the lock, a purge or a stop has no effect on a descriptor of      *)
(* somebody else but those OwnDescriptors names, and a client gets the     *)
(* reply to its own request.                                               *)
(*                                                                         *)
(* The inductive invariant says who is responsible for the socket of a     *)
(* client: the server thread that has just accepted it, a connection, a    *)
(* slot of the queue, the sender, or the server thread that gave it up.    *)
(* Whoever is has the client's descriptor, and nobody else is. The server  *)
(* thread may go on with a connection that was purged, of which it then    *)
(* has no more than the number of a descriptor.                            *)
(***************************************************************************)
EXTENDS HttpServer, FiniteSetTheorems, NaturalsInduction, WellFoundedInduction, TLAPS

Sockets == Fds \cup {Invalid}
Kinds == Requests \cup {"get"}
Slots == 0..(QueueMax - 1)
Replies == [sock : Sockets, for : Clients \cup {0}, reply : Kinds \cup {"none"}]
Connections == [sock : Sockets, for : Clients \cup {0}, id : ConnIds \cup {0},
                request : Kinds \cup {"none"}, retries : 0..PurgeRetry]

(* Types.                                                                  *)
WorldType ==
    /\ fd \in [Fds -> Owners]
    /\ asked \in [Clients -> Kinds \cup {"none"}]
    /\ backlog \subseteq Clients
    /\ got \in [Clients -> Seq(Kinds \cup {"none", "busy"})]

ServerType ==
    /\ should_run \in BOOLEAN /\ thread \in BOOLEAN
    /\ srv_sock \in Sockets
    /\ conns \in [ConnIds -> Connections]
    /\ cache \in {"none", "fresh"}
    /\ ring \in [Slots -> Replies]
    /\ head \in Slots /\ tail \in Slots
    /\ out \in Replies
    /\ todo \subseteq ConnIds

ThreadType ==
    /\ mpc \in {"idle", "dequeue", "joinserver", "joinsender"}
    /\ spc \in {"off", "init", "loop", "accept", "connect", "recv", "check", "preflight",
                "enqueue", "locked", "cached", "giveup", "giveclose", "done", "ended"}
    /\ qpc \in {"off", "loop", "get", "send", "ended"}
    /\ lsock \in Sockets /\ csock \in Sockets
    /\ conn \in ConnIds \cup {0} /\ peer \in Clients \cup {0}
    /\ retries \in 0..RecvRetry /\ tries \in 0..BindRetry /\ ret \in {0, 1}

(* Where the threads are, in relation to each other.                       *)
PhaseInv ==
    /\ mpc = "dequeue" => should_run /\ spc # "cached"
    /\ mpc # "dequeue" => todo = {}
    /\ Stopping => thread /\ ~should_run
    /\ ~Stopping => (thread <=> should_run)
    /\ spc = "off" <=> ~thread
    /\ qpc = "off" <=> ~thread
    /\ mpc = "joinsender" => spc = "ended"
    /\ qpc = "ended" => ~should_run
    /\ qpc \in {"ended", "off"} => head = tail
    /\ spc \notin {"off", "ended"} => tries < BindRetry
    /\ spc = "recv" => retries < RecvRetry

(* The listening socket, of which the thread has copies.                   *)
ListenInv ==
    /\ srv_sock # Invalid => srv_sock = lsock /\ fd[lsock] = Listen
    /\ lsock # Invalid => \/ fd[lsock] = Listen
                          \/ fd[lsock] = Free /\ Stopping
                          \/ fd[lsock] = App /\ Stopping /\ "stop" \in raced
    /\ spc = "accept" => /\ csock \in {Invalid, lsock}
                         /\ srv_sock \in {Invalid, csock}
    /\ ~should_run \/ spc = "done" => srv_sock = Invalid
    /\ spc \in {"off", "init", "ended"} => lsock = Invalid

(* A client that nobody has to do with yet.                                *)
Unseen(n) ==
    /\ \A f \in Fds : fd[f] # n
    /\ \A i \in Present : conns[i].for # n
    /\ got[n] = <<>>

(* A client gets one reply at most, its own.                               *)
OwnReply ==
    \A n \in Clients : got[n] = <<>> \/ \E r \in {asked[n], "busy"} : got[n] = <<r>>

(* A client has one socket, and no reply while it is open.                 *)
ClientInv ==
    /\ \A n \in Clients : asked[n] = "none" \/ n \in backlog => Unseen(n)
    /\ \A n \in backlog : asked[n] # "none"
    /\ \A f \in Fds : fd[f] \in Clients => got[fd[f]] = <<>>
    /\ \A f, g \in Fds : fd[f] \in Clients /\ fd[f] = fd[g] => f = g
    /\ OwnReply

(* Socket f is that of client n.                                           *)
Serves(f, n) == f \in Fds /\ n \in Clients /\ fd[f] = n

(* A connection is of one client, and has its socket until it is closed.   *)
ConnInv ==
    /\ Present # {} => thread
    /\ todo \subseteq Present
    /\ \A i \in ConnIds :
          /\ conns[i].id \in {0, i}
          /\ i \in Present =>
                /\ conns[i].for \in Clients
                /\ conns[i].sock # Invalid => Serves(conns[i].sock, conns[i].for)
                /\ conns[i].request # "none" =>
                      conns[i].request = asked[conns[i].for] /\ conns[i].sock # Invalid
    /\ \A i, j \in Present : conns[i].for = conns[j].for => i = j

(* The slots of the ring that are in use.                                  *)
InQueue(j) ==
    /\ j \in Slots
    /\ IF tail <= head THEN tail <= j /\ j < head ELSE tail <= j \/ j < head

(* Reply r is the one that client r.for waits for, and its connection is   *)
(* gone.                                                                   *)
Pending(r) ==
    /\ Serves(r.sock, r.for)
    /\ r.reply = asked[r.for]
    /\ \A i \in Present : conns[i].for # r.for

(* Every reply in the queue and at the sender is for a client of its own.  *)
RingInv ==
    /\ \A j \in Slots : InQueue(j) => Pending(ring[j])
    /\ \A j, k \in Slots : InQueue(j) /\ InQueue(k) /\ ring[j].for = ring[k].for => j = k
    /\ qpc = "send" =>
          /\ Pending(out)
          /\ \A j \in Slots : InQueue(j) => ring[j].for # out.for

(* The server thread has the socket of a client alone, between accept and  *)
(* the connection and when it gives up.                                    *)
Holding == spc \in {"connect", "giveclose"}

(* It works on a connection, which is there with its socket,               *)
Working == spc \in {"recv", "check", "preflight", "enqueue", "locked", "cached", "giveup"}

Alive ==
    /\ conn \in Present
    /\ conns[conn].sock = csock
    /\ conns[conn].for = peer
    /\ conns[conn].request = "none"

(* or was purged where the thread looks at it again before it uses it, or  *)
(* receives on the socket that it was.                                     *)
Purged ==
    /\ conns[conn].id = 0
    /\ spc \in {"recv", "check", "locked", "giveup"}
    /\ spc = "recv" => "receive" \in raced

HoldInv ==
    /\ Holding =>
          /\ Serves(csock, peer)
          /\ \A j \in Slots : InQueue(j) => ring[j].for # peer
          /\ qpc = "send" => out.for # peer
          /\ \A i \in Present : conns[i].for = peer =>
                spc = "giveclose" /\ conns[i].sock = Invalid
    /\ Working => /\ conn \in ConnIds /\ peer \in Clients /\ csock \in Fds
                  /\ Alive \/ Purged
    /\ spc = "cached" => asked[peer] = "get"
    /\ spc = "preflight" => asked[peer] = "options"

(* What has been used of others, and after which race.                     *)
OwnInv ==
    /\ misused \subseteq {"recv", "accept", "close", "cache"}
    /\ "receive" \notin raced => "recv" \notin misused
    /\ "stop" \notin raced => {"accept", "close"} \cap misused = {}

IInv == /\ WorldType /\ ServerType /\ ThreadType
        /\ PhaseInv /\ ListenInv /\ ClientInv /\ ConnInv /\ RingInv /\ HoldInv
        /\ OwnInv

-----------------------------------------------------------------------------
(* Arithmetic.                                                             *)

(* A nonempty set of numbers has a least one.                              *)
LEMMA MinOfNumbers ==
    ASSUME NEW S \in SUBSET Nat, S # {}
    PROVE  Min(S) \in S
<1> DEFINE Less == {ss \in Nat \X Nat : ss[1] < ss[2]}
<1>1. IsWellFoundedOn(Less, Nat)
  BY NatLessThanWellFounded, Zenon DEF OpToRel
<1>2. PICK x \in S : \A y \in S : ~(<<y, x>> \in Less)
  BY <1>1, WFMin, Zenon
<1>3. ASSUME NEW k \in S PROVE x <= k
  <2>1. x \in Nat /\ k \in Nat /\ <<k, x>> \in Nat \X Nat
    OBVIOUS
  <2>2. k < x => <<k, x>> \in Less
    BY <2>1
  <2> QED BY <1>2, <2>1, <2>2
<1> QED BY <1>3, Zenon DEF Min

(* The slots between tail t and head h of the ring.                        *)
Between(t, h, j) == IF t <= h THEN t <= j /\ j < h ELSE t <= j \/ j < h

(* Next1 goes around the ring.                                             *)
LEMMA NextSlot ==
    ASSUME NEW i \in Slots
    PROVE  /\ i + 1 < QueueMax => Next1(i) = i + 1
           /\ i + 1 = QueueMax => Next1(i) = 0
           /\ i + 1 <= QueueMax
           /\ Next1(i) \in Slots
<1>1. QueueMax \in Nat /\ QueueMax > 1 /\ i \in Nat /\ i + 1 <= QueueMax
  BY BoundsAssumption DEF Slots
<1>2. i + 1 < QueueMax => (i + 1) % QueueMax = i + 1
  BY <1>1
<1>3. QueueMax % QueueMax = 0
  BY <1>1
<1> QED BY <1>1, <1>2, <1>3 DEF Next1, Slots

(* A post puts the slot at the head into the queue.                        *)
LEMMA PostSlot ==
    ASSUME NEW t \in Slots, NEW h \in Slots, Next1(h) # t
    PROVE  /\ ~Between(t, h, h)
           /\ \A j \in Slots : Between(t, Next1(h), j) <=> Between(t, h, j) \/ j = h
<1>1. QueueMax \in Nat /\ \A j \in Slots : j \in Nat /\ j < QueueMax
  BY BoundsAssumption DEF Slots
<1>2. \/ h + 1 < QueueMax /\ Next1(h) = h + 1
      \/ h + 1 = QueueMax /\ Next1(h) = 0
  BY NextSlot, <1>1
<1> QED BY <1>1, <1>2 DEF Between

(* A get takes the slot at the tail out of it.                             *)
LEMMA GetSlot ==
    ASSUME NEW t \in Slots, NEW h \in Slots, h # t
    PROVE  /\ Between(t, h, t)
           /\ \A j \in Slots : Between(Next1(t), h, j) <=> Between(t, h, j) /\ j # t
<1>1. QueueMax \in Nat /\ \A j \in Slots : j \in Nat /\ j < QueueMax
  BY BoundsAssumption DEF Slots
<1>2. \/ t + 1 < QueueMax /\ Next1(t) = t + 1
      \/ t + 1 = QueueMax /\ Next1(t) = 0
  BY NextSlot, <1>1
<1> QED BY <1>1, <1>2 DEF Between

(* The operating system hands out a free descriptor.                       *)
LEMMA LowestIsFree ==
    ASSUME FreeFds # {}
    PROVE  Lowest \in Fds /\ fd[Lowest] = Free
<1>1. FreeFds \in SUBSET Nat
  BY DEF FreeFds, Fds
<1>2. Lowest \in FreeFds
  BY <1>1, MinOfNumbers DEF Lowest
<1> QED BY <1>2 DEF FreeFds

(* There is room for another connection: each one is of another client.    *)
LEMMA NewConnIsFree ==
    ASSUME NEW n \in Clients,
           \A i \in Present : conns[i].for \in Clients \ {n},
           \A i, j \in Present : conns[i].for = conns[j].for => i = j
    PROVE  NewConn \in ConnIds \ Present
<1>1. IsFiniteSet(Clients) /\ Cardinality(Clients) \in Nat
  BY ClientsAssumption, FS_CardinalityType
<1>2. IsFiniteSet(Clients \ {n}) /\ Cardinality(Clients \ {n}) = Cardinality(Clients) - 1
  BY <1>1, FS_RemoveElement
<1> DEFINE f == [i \in Present |-> conns[i].for]
<1>3. f \in Injection(Present, Clients \ {n})
  <2>1. f \in [Present -> Clients \ {n}]
    OBVIOUS
  <2>2. \A i, j \in Present : f[i] = f[j] => i = j
    OBVIOUS
  <2> HIDE DEF f
  <2> QED BY <2>1, <2>2 DEF Injection, IsInjective
<1>4. Cardinality(Present) <= Cardinality(Clients \ {n})
  BY <1>2, <1>3, FS_Injection
<1>5. Cardinality(ConnIds) = Cardinality(Clients)
  <2>1. Cardinality(1..Cardinality(Clients)) = Cardinality(Clients)
    BY <1>1, FS_Interval
  <2> QED BY <2>1 DEF ConnIds
<1>6. Present \subseteq ConnIds
  BY DEF Present
<1>7. ConnIds \ Present # {}
  <2> SUFFICES ASSUME ConnIds = Present PROVE FALSE
    BY <1>6
  <2> QED BY <1>1, <1>2, <1>4, <1>5
<1>8. ConnIds \ Present \in SUBSET Nat
  BY <1>1 DEF ConnIds
<1> QED BY <1>7, <1>8, MinOfNumbers DEF NewConn

-----------------------------------------------------------------------------
(* What each part of the invariant depends on.                             *)

(* Types depend on descriptors and clients,                                *)
LEMMA WorldFrame ==
    ASSUME WorldType, UNCHANGED <<fd, asked, backlog, got>>
    PROVE  WorldType'
BY DEF WorldType

(* on what the threads share,                                              *)
LEMMA ServerFrame ==
    ASSUME ServerType,
           UNCHANGED <<should_run, thread, srv_sock, conns, cache, ring, head, tail, out, todo>>
    PROVE  ServerType'
BY DEF ServerType

(* and on the locals of the threads.                                       *)
LEMMA ThreadFrame ==
    ASSUME ThreadType,
           UNCHANGED <<mpc, spc, qpc, lsock, csock, conn, peer, retries, tries, ret>>
    PROVE  ThreadType'
BY DEF ThreadType

(* Which thread runs when depends on the program counters and the ring.    *)
LEMMA PhaseFrame ==
    ASSUME PhaseInv,
           UNCHANGED <<mpc, todo, spc, qpc, should_run, thread, head, tail, tries, retries>>
    PROVE  PhaseInv'
BY DEF PhaseInv, Stopping

(* Who has the listening socket depends on it and its copies.              *)
LEMMA ListenFrame ==
    ASSUME ListenInv, UNCHANGED <<srv_sock, lsock, fd, mpc, spc, csock, should_run, raced>>
    PROVE  ListenInv'
BY DEF ListenInv, Stopping

(* That every client has its socket or its reply depends on these.         *)
LEMMA ClientFrame ==
    ASSUME ClientInv, UNCHANGED <<asked, backlog, fd, conns, got>>
    PROVE  ClientInv'
BY DEF ClientInv, Unseen, Present, OwnReply

(* The connections depend on the clients they are for.                     *)
LEMMA ConnFrame ==
    ASSUME ConnInv, UNCHANGED <<conns, thread, todo, fd, asked>>
    PROVE  ConnInv'
BY DEF ConnInv, Present, Serves

(* The replies in the ring depend on the sockets and on the connections.   *)
LEMMA RingFrame ==
    ASSUME RingInv, UNCHANGED <<ring, head, tail, fd, asked, conns, qpc, out>>
    PROVE  RingInv'
BY DEF RingInv, InQueue, Pending, Serves, Present

(* What the server thread holds depends on its locals.                     *)
LEMMA HoldFrame ==
    ASSUME HoldInv,
           UNCHANGED <<spc, csock, peer, ring, head, tail, qpc, out, conns, conn, asked, fd, raced>>
    PROVE  HoldInv'
BY DEF HoldInv, Holding, Working, Alive, Purged, InQueue, Serves, Present

(* What has been used of others stays what it is.                          *)
LEMMA OwnFrame ==
    ASSUME OwnInv, UNCHANGED <<misused, raced>>
    PROVE  OwnInv'
BY DEF OwnInv

-----------------------------------------------------------------------------
(* The sender.                                                             *)

(* http_server_send_queue goes around its loop, or ends.                   *)
LEMMA SenderLoopKeeps ==
    ASSUME IInv, SenderLoop
    PROVE  IInv'
<1> USE DEF SenderLoop, world, srv, main, server
<1>1. WorldType' /\ ServerType'
  BY WorldFrame, ServerFrame DEF IInv
<1>2. ThreadType'
  BY DEF IInv, ThreadType
<1>3. PhaseInv'
  BY DEF IInv, PhaseInv, ThreadType, ServerType, Stopping
<1>4. ListenInv' /\ ClientInv' /\ ConnInv' /\ OwnInv'
  BY ListenFrame, ClientFrame, ConnFrame, OwnFrame DEF IInv
<1>5. RingInv'
  BY DEF IInv, RingInv, InQueue, Pending, Serves, Present
<1>6. HoldInv'
  BY DEF IInv, HoldInv, Holding, Working, Alive, Purged, InQueue, Serves, Present
<1> QED BY <1>1, <1>2, <1>3, <1>4, <1>5, <1>6 DEF IInv

(* http_send_queue_get takes a reply from the ring.                        *)
LEMMA SenderGetKeeps ==
    ASSUME IInv, SenderGet
    PROVE  IInv'
<1> USE DEF SenderGet, world, srv, main, server
<1>1. tail \in Slots /\ head \in Slots /\ ring \in [Slots -> Replies] /\ out \in Replies
  BY DEF IInv, ServerType
<1>2. NoReply \in Replies
  BY DEF NoReply, Replies, Sockets
<1>3. WorldType'
  BY WorldFrame DEF IInv
<1>4. ServerType'
  BY <1>1, <1>2, NextSlot DEF IInv, ServerType
<1>5. ThreadType'
  BY DEF IInv, ThreadType
<1>6. PhaseInv'
  BY DEF IInv, PhaseInv, ThreadType, ServerType, Stopping
<1>7. ListenInv' /\ ClientInv' /\ ConnInv' /\ OwnInv'
  BY ListenFrame, ClientFrame, ConnFrame, OwnFrame DEF IInv
<1>8. CASE head = tail
  <2>1. RingInv'
    BY <1>8 DEF IInv, RingInv, InQueue, Pending, Serves, Present
  <2>2. HoldInv'
    BY <1>8 DEF IInv, HoldInv, Holding, Working, Alive, Purged, InQueue, Serves, Present
  <2> QED BY <1>3, <1>4, <1>5, <1>6, <1>7, <2>1, <2>2 DEF IInv
<1>9. CASE head # tail
  <2>1. out' = ring[tail] /\ qpc' = "send"
    BY <1>9
  <2>2. InQueue(tail)
    BY <1>1, <1>9, GetSlot DEF InQueue, Between
  <2>3. \A j \in Slots : InQueue(j)' => InQueue(j) /\ j # tail /\ ring'[j] = ring[j]
    BY <1>1, <1>9, GetSlot DEF InQueue, Between
  <2>4. Pending(out)'
    BY <1>1, <2>1, <2>2 DEF IInv, RingInv, Pending, Serves, Present
  <2>5. \A j \in Slots : InQueue(j)' => Pending(ring[j])'
    BY <2>3 DEF IInv, RingInv, Pending, Serves, Present
  <2>6. \A j \in Slots : InQueue(j)' => ring'[j].for # out'.for
    BY <1>1, <2>1, <2>2, <2>3 DEF IInv, RingInv
  <2>7. RingInv'
    BY <2>1, <2>3, <2>4, <2>5, <2>6 DEF IInv, RingInv
  <2>8. HoldInv'
    BY <1>1, <2>1, <2>2, <2>3 DEF IInv, HoldInv, Holding, Working, Alive, Purged, Serves, Present
  <2> QED BY <1>3, <1>4, <1>5, <1>6, <1>7, <2>7, <2>8 DEF IInv
<1> QED BY <1>8, <1>9

(* A reply that is sent, or refused as busy, closes the socket f of client *)
(* n. Connections may go with it, but none comes.                          *)
LEMMA Answered ==
    ASSUME NEW f, NEW n, NEW r, WorldType, ClientInv, Serves(f, n), r \in {asked[n], "busy"},
           fd' = [fd EXCEPT ![f] = Free],
           got' = [got EXCEPT ![n] = Append(@, r)] \/ got' = got,
           UNCHANGED <<asked, backlog>>,
           \A i \in Present' : i \in Present /\ conns'[i].for = conns[i].for
    PROVE  /\ WorldType'
           /\ ClientInv'
           /\ \A g, m : Serves(g, m) /\ m # n => Serves(g, m)'
           /\ \A g \in Fds : fd[g] \in {Listen, Free, App} => fd'[g] = fd[g]
<1>1. f \in Fds /\ n \in Clients /\ fd[f] = n /\ fd \in [Fds -> Owners] /\ Free \notin Clients
      /\ Listen \notin Clients /\ App \notin Clients
  BY ClientsAssumption DEF Serves, WorldType, Free, Listen, App
<1>2. got[n] = <<>> /\ n \notin backlog /\ asked[n] # "none" /\ asked[n] \in Kinds
  BY <1>1 DEF ClientInv, Unseen, WorldType
<1>3. r \in Kinds \cup {"none", "busy"} /\ Append(got[n], r) = <<r>>
  BY <1>2
<1>4. fd' \in [Fds -> Owners] /\ \A g \in Fds : fd'[g] = IF g = f THEN Free ELSE fd[g]
  BY <1>1 DEF Owners
<1>5. got' \in [Clients -> Seq(Kinds \cup {"none", "busy"})]
  <2>1. got' = got \/ got' = [got EXCEPT ![n] = <<r>>]
    BY <1>3
  <2>2. <<r>> \in Seq(Kinds \cup {"none", "busy"})
    BY <1>3
  <2>3. got \in [Clients -> Seq(Kinds \cup {"none", "busy"})]
    BY DEF WorldType
  <2> QED BY <2>1, <2>2, <2>3
<1>6. \A m \in Clients : m # n => got'[m] = got[m]
  BY <1>1 DEF WorldType
<1>7. got'[n] = <<>> \/ got'[n] = <<r>>
  BY <1>1, <1>2, <1>3 DEF WorldType
<1>8. WorldType'
  BY <1>4, <1>5 DEF WorldType
<1>9. \A m \in Clients : asked'[m] = "none" \/ m \in backlog' => Unseen(m)'
  BY <1>1, <1>2, <1>4, <1>6 DEF ClientInv, Unseen
<1>10. \A g \in Fds : fd'[g] \in Clients => g # f /\ fd'[g] = fd[g] /\ fd[g] # n
  BY <1>1, <1>4 DEF ClientInv
<1>11. \A g \in Fds : fd'[g] \in Clients => got'[fd'[g]] = <<>>
  BY <1>6, <1>10 DEF ClientInv
<1>12. OwnReply'
  BY <1>2, <1>6, <1>7 DEF ClientInv, OwnReply
<1>13. ClientInv'
  BY <1>9, <1>10, <1>11, <1>12 DEF ClientInv
<1>14. \A g, m : Serves(g, m) /\ m # n => Serves(g, m)'
  BY <1>1, <1>4 DEF Serves
<1> QED BY <1>1, <1>4, <1>8, <1>13, <1>14 DEF Serves

(* The listening socket stays as it is when a client's is closed.          *)
LEMMA ListenStays ==
    ASSUME ListenInv, ThreadType,
           \A g \in Fds : fd[g] \in {Listen, Free} => fd'[g] = fd[g],
           \A g \in Fds : fd[g] = App => fd'[g] \in {App, Free},
           raced \subseteq raced',
           UNCHANGED <<srv_sock, should_run, lsock, mpc>>,
           spc' = "accept" => spc = "accept" /\ csock' = csock,
           spc' = "done" => spc = "done",
           spc' \in {"off", "init", "ended"} => spc \in {"off", "init", "ended"}
    PROVE  ListenInv'
BY DEF ListenInv, Stopping, ThreadType, Sockets

(* The sender sends the reply it took, and closes its socket.              *)
LEMMA SenderSendKeeps ==
    ASSUME IInv, SenderSend
    PROVE  IInv'
<1> USE DEF SenderSend, world, srv, main, server
<1> PICK f, n, r : f = out.sock /\ n = out.for /\ r = out.reply
  OBVIOUS
<1>1. Serves(f, n) /\ r = asked[n] /\ fd[f] = n
  BY DEF IInv, RingInv, Pending, Serves
<1>2. /\ fd' = [fd EXCEPT ![f] = Free]
      /\ got' = [got EXCEPT ![n] = Append(@, r)]
      /\ misused' = misused
  BY <1>1 DEF Close, Deliver, Use, Serves
<1>3. /\ WorldType'
      /\ ClientInv'
      /\ \A g, m : Serves(g, m) /\ m # n => Serves(g, m)'
      /\ \A g \in Fds : fd[g] \in {Listen, Free, App} => fd'[g] = fd[g]
  BY <1>1, <1>2, Answered DEF IInv, Present
<1>4. ServerType'
  BY DEF IInv, ServerType, NoReply, Replies, Sockets
<1>5. ThreadType'
  BY DEF IInv, ThreadType
<1>6. PhaseInv'
  BY DEF IInv, PhaseInv, Stopping
<1>7. ListenInv'
  BY <1>3, ListenStays DEF IInv
<1>8. ConnInv'
  BY <1>3 DEF IInv, ConnInv, RingInv, Pending, Present
<1>9. RingInv'
  BY <1>3 DEF IInv, RingInv, Pending, InQueue, Present
<1>10. HoldInv'
  BY <1>3 DEF IInv, HoldInv, Holding, Working, Alive, Purged, InQueue, Present
<1>11. OwnInv'
  BY <1>2, OwnFrame DEF IInv
<1> QED BY <1>3, <1>4, <1>5, <1>6, <1>7, <1>8, <1>9, <1>10, <1>11 DEF IInv

-----------------------------------------------------------------------------
(* The server thread.                                                      *)

(* A descriptor that was free is opened for owner o, which is not a client *)
(* that has one.                                                           *)
LEMMA Opened ==
    ASSUME NEW f \in Fds, NEW o \in Owners, WorldType, fd[f] = Free,
           fd' = [fd EXCEPT ![f] = o]
    PROVE  /\ fd' \in [Fds -> Owners]
           /\ fd'[f] = o
           /\ \A g \in Fds : g # f => fd'[g] = fd[g]
           /\ \A g, m : Serves(g, m) => Serves(g, m)'
<1>1. Free \notin Clients
  BY ClientsAssumption DEF Free
<1> QED BY <1>1 DEF WorldType, Serves

(* What the application or the listening socket takes changes nothing for  *)
(* clients.                                                                *)
LEMMA OpenedKeeps ==
    ASSUME NEW f \in Fds, NEW o \in {App, Listen}, IInv, fd[f] = Free,
           fd' = [fd EXCEPT ![f] = o],
           UNCHANGED <<asked, backlog, got, thread, todo, conns, ring, head, tail, qpc, out>>
    PROVE  WorldType' /\ ClientInv' /\ ConnInv' /\ RingInv'
<1>1. o \in Owners /\ o \notin Clients /\ WorldType
  BY ClientsAssumption DEF Owners, App, Listen, IInv
<1>2. /\ fd' \in [Fds -> Owners]
      /\ fd'[f] = o
      /\ \A g \in Fds : g # f => fd'[g] = fd[g]
      /\ \A g, m : Serves(g, m) => Serves(g, m)'
  BY <1>1, Opened
<1>3. WorldType'
  BY <1>2 DEF IInv, WorldType
<1>4. ClientInv'
  BY <1>1, <1>2 DEF IInv, ClientInv, Unseen, Present, OwnReply
<1>5. ConnInv'
  BY <1>2 DEF IInv, ConnInv, Present
<1>6. RingInv'
  BY <1>2 DEF IInv, RingInv, InQueue, Pending, Present
<1> QED BY <1>3, <1>4, <1>5, <1>6

(* http_accept_connections opens the listening socket, or fails.           *)
LEMMA ServerInitKeeps ==
    ASSUME IInv, ServerInit
    PROVE  IInv'
<1> USE DEF ServerInit, main, sender
<1>1. ServerType'
  BY LowestIsFree DEF IInv, ServerType, Sockets
<1>2. ThreadType'
  BY LowestIsFree DEF IInv, ThreadType, Sockets, Invalid
<1>3. PhaseInv'
  BY DEF IInv, PhaseInv, Stopping
<1>4. OwnInv'
  BY OwnFrame DEF IInv
<1>5. CASE ~should_run
  <2>1. WorldType' /\ ClientInv' /\ ConnInv' /\ RingInv'
    BY <1>5, WorldFrame, ClientFrame, ConnFrame, RingFrame DEF IInv
  <2>2. ListenInv'
    BY <1>5 DEF IInv, ListenInv, Stopping
  <2>3. HoldInv'
    BY <1>5 DEF IInv, HoldInv, Holding, Working, Alive, Purged
  <2> QED BY <1>1, <1>2, <1>3, <1>4, <2>1, <2>2, <2>3 DEF IInv
<1>6. CASE should_run
  <2> PICK f : f = Lowest
    OBVIOUS
  <2>1. f \in Fds /\ fd[f] = Free /\ fd' = [fd EXCEPT ![f] = Listen] /\ lsock' = f
    BY <1>6, LowestIsFree
  <2>2. WorldType' /\ ClientInv' /\ ConnInv' /\ RingInv'
    BY <2>1, OpenedKeeps
  <2>3. ListenInv'
    BY <1>6, <2>1 DEF IInv, WorldType, ListenInv, Stopping
  <2>4. HoldInv'
    BY <1>6 DEF HoldInv, Holding, Working, Alive, Purged
  <2> QED BY <1>1, <1>2, <1>3, <1>4, <2>2, <2>3, <2>4 DEF IInv
<1> QED BY <1>5, <1>6

(* The loop condition of http_accept_connections.                          *)
LEMMA ServerLoopKeeps ==
    ASSUME IInv, ServerLoop
    PROVE  IInv'
<1> USE DEF ServerLoop, world, srv, main, sender
<1>1. WorldType' /\ ServerType' /\ ClientInv' /\ ConnInv' /\ RingInv' /\ OwnInv'
  BY WorldFrame, ServerFrame, ClientFrame, ConnFrame, RingFrame, OwnFrame DEF IInv
<1>2. ThreadType'
  BY DEF IInv, ThreadType, ServerType
<1>3. PhaseInv'
  BY DEF IInv, PhaseInv, Stopping
<1>4. ListenInv'
  BY DEF IInv, ListenInv, Stopping
<1>5. HoldInv'
  BY DEF HoldInv, Holding, Working, Alive, Purged
<1> QED BY <1>1, <1>2, <1>3, <1>4, <1>5 DEF IInv

(* A client is accepted: its socket is new, and the thread's alone.        *)
LEMMA AcceptKeeps ==
    ASSUME IInv, ServerAccept, spc' = "connect"
    PROVE  IInv'
<1> USE DEF ServerAccept, srv, main, sender
<1>1. /\ csock \in Fds /\ fd[csock] = Listen /\ FreeFds # {}
      /\ csock' = Lowest
      /\ UNCHANGED <<errno, conn, retries>>
  BY DEF NextConnection
<1>2. PICK n \in backlog : fd' = [fd EXCEPT ![Lowest] = n] /\ backlog' = backlog \ {n} /\ peer' = n
  BY DEF NextConnection
<1> PICK f : f = Lowest
  OBVIOUS
<1>3. f \in Fds /\ fd[f] = Free /\ fd' = [fd EXCEPT ![f] = n] /\ csock' = f
  BY <1>1, <1>2, LowestIsFree
<1>4. n \in Clients /\ n \in Owners /\ asked[n] # "none" /\ Unseen(n)
  BY DEF IInv, WorldType, ClientInv, Owners
<1>5. /\ fd' \in [Fds -> Owners]
      /\ fd'[f] = n
      /\ \A g \in Fds : g # f => fd'[g] = fd[g]
      /\ \A g, m : Serves(g, m) => Serves(g, m)'
  BY <1>3, <1>4, Opened DEF IInv
<1>6. misused' = misused
  BY <1>1 DEF Use
<1>7. WorldType'
  BY <1>2, <1>5 DEF IInv, WorldType
<1>8. ServerType'
  BY ServerFrame DEF IInv
<1>9. ThreadType'
  BY <1>1, <1>2, <1>3, <1>4 DEF IInv, ThreadType, Sockets
<1>10. PhaseInv'
  BY <1>1 DEF IInv, PhaseInv, Stopping
<1>11. ListenInv'
  <2>1. csock = lsock /\ f # lsock
    BY <1>1, <1>3 DEF IInv, ListenInv, Fds, Invalid, Free, Listen
  <2>2. fd'[lsock] = fd[lsock]
    BY <1>1, <1>5, <2>1
  <2> QED BY <1>1, <2>1, <2>2 DEF IInv, ListenInv, Stopping
<1>12. ClientInv'
  <2>1. \A m \in Clients : asked'[m] = "none" \/ m \in backlog' => Unseen(m)'
    BY <1>2, <1>3, <1>4, <1>5 DEF IInv, ClientInv, Unseen, Present
  <2>2. \A g \in Fds : fd'[g] \in Clients => got'[fd'[g]] = <<>>
    BY <1>4, <1>5 DEF IInv, ClientInv, Unseen
  <2>3. \A g, h \in Fds : fd'[g] \in Clients /\ fd'[g] = fd'[h] => g = h
    BY <1>3, <1>4, <1>5 DEF IInv, ClientInv, Unseen
  <2> QED BY <1>2, <2>1, <2>2, <2>3 DEF IInv, ClientInv, OwnReply
<1>13. ConnInv'
  BY <1>5 DEF IInv, ConnInv, Present
<1>14. RingInv'
  BY <1>5 DEF IInv, RingInv, InQueue, Pending, Present
<1>15. HoldInv'
  <2>1. Serves(csock, peer)'
    BY <1>2, <1>3, <1>4, <1>5 DEF Serves
  <2>2. \A g, m : Serves(g, m) => m # n
    BY <1>4 DEF Serves, Unseen
  <2> QED BY <1>2, <1>4, <2>1, <2>2 DEF IInv, HoldInv, Holding, Working, Alive, Purged, RingInv, Pending,
                                      InQueue, Unseen, Present
<1> QED BY <1>6, <1>7, <1>8, <1>9, <1>10, <1>11, <1>12, <1>13, <1>14, <1>15, OwnFrame DEF IInv

(* accept returns a connection, or an error.                               *)
LEMMA ServerAcceptKeeps ==
    ASSUME IInv, ServerAccept
    PROVE  IInv'
<1> USE DEF ServerAccept, srv, main, sender
<1>1. CASE spc' = "connect"
  BY <1>1, AcceptKeeps
<1>2. CASE spc' # "connect"
  <2>1. NextConnection /\ UNCHANGED <<fd, backlog>>
    BY <1>2
  <2>2. csock \in Fds => (fd[csock] \in {Free, Listen} \/ "stop" \in raced)
    BY DEF IInv, ListenInv, Fds, Invalid
  <2>3. OwnInv'
    <3>1. misused' = misused \/ (misused' = misused \cup {"accept"} /\ "stop" \in raced)
      BY <2>2 DEF Use
    <3> QED BY <3>1 DEF IInv, OwnInv
  <2>4. WorldType' /\ ServerType' /\ ClientInv' /\ ConnInv' /\ RingInv'
    BY <2>1, WorldFrame, ServerFrame, ClientFrame, ConnFrame, RingFrame DEF IInv
  <2>5. ThreadType'
    BY <2>1, BoundsAssumption DEF IInv, ThreadType, NextConnection, Sockets
  <2>6. PhaseInv'
    BY <2>1 DEF IInv, PhaseInv, Stopping, NextConnection
  <2>7. ListenInv'
    BY <2>1 DEF IInv, ListenInv, Stopping, NextConnection
  <2>8. HoldInv'
    BY <2>1 DEF HoldInv, Holding, Working, Alive, Purged, NextConnection
  <2> QED BY <2>3, <2>4, <2>5, <2>6, <2>7, <2>8 DEF IInv
<1> QED BY <1>1, <1>2

(* http_init_connection: a new connection gets an id that is free.         *)
LEMMA ServerConnectKeeps ==
    ASSUME IInv, ServerConnect
    PROVE  IInv'
<1> USE DEF ServerConnect, world, main, sender
<1> PICK c, k : c = NewConn
                /\ k = [Removed EXCEPT !.sock = csock, !.for = peer, !.id = NewConn]
  OBVIOUS
<1>1. Serves(csock, peer) /\ \A i \in Present : conns[i].for \in Clients \ {peer}
  BY DEF IInv, HoldInv, Holding, ConnInv, Present
<1>2. c \in ConnIds \ Present
  BY <1>1, NewConnIsFree DEF IInv, ConnInv, Serves
<1>3. /\ k \in Connections
      /\ k.sock = csock /\ k.for = peer /\ k.id = c /\ k.request = "none"
  <2>1. 0 \in 0..PurgeRetry
    BY BoundsAssumption
  <2> QED BY <1>1, <1>2, <2>1 DEF Removed, Connections, Serves, Sockets
<1>4. conns' = [conns EXCEPT ![c] = k] /\ conns \in [ConnIds -> Connections] /\ conn' = c
  BY DEF IInv, ServerType
<1>5. /\ conns'[c] = k
      /\ \A i \in ConnIds : i # c => conns'[i] = conns[i]
      /\ c # 0
  BY <1>2, <1>4 DEF ConnIds
<1>6. Present' = Present \cup {c}
  BY <1>2, <1>3, <1>5 DEF Present
<1>7. WorldType' /\ OwnInv'
  BY WorldFrame, OwnFrame DEF IInv
<1>8. ServerType'
  BY <1>2, <1>3, <1>4 DEF IInv, ServerType
<1>9. ThreadType'
  BY <1>2, <1>4, BoundsAssumption DEF IInv, ThreadType
<1>10. PhaseInv'
  BY BoundsAssumption DEF IInv, PhaseInv, Stopping
<1>11. ListenInv'
  BY DEF IInv, ListenInv, Stopping
<1>12. ClientInv'
  <2>1. \A m \in Clients : asked[m] = "none" \/ m \in backlog => m # peer
    BY <1>1 DEF IInv, ClientInv, Unseen, Serves
  <2>2. \A m \in Clients : m # peer /\ Unseen(m) => Unseen(m)'
    BY <1>3, <1>5, <1>6 DEF Unseen, Present
  <2> QED BY <2>1, <2>2 DEF IInv, ClientInv, OwnReply
<1>13. ConnInv'
  <2>1. thread
    BY DEF IInv, PhaseInv
  <2>2. /\ conns'[c].for \in Clients
        /\ Serves(conns[c].sock, conns[c].for)'
        /\ conns'[c].request = "none"
        /\ conns'[c].id = c
    BY <1>1, <1>3, <1>5 DEF Serves
  <2>3. \A i \in Present : conns'[i] = conns[i] /\ conns'[i].for # conns'[c].for
    BY <1>1, <1>2, <1>3, <1>5 DEF Present
  <2> QED BY <1>2, <1>5, <1>6, <2>1, <2>2, <2>3 DEF IInv, ConnInv, Serves, Present
<1>14. RingInv'
  <2>1. \A j \in Slots : InQueue(j) => ring[j].for # peer
    BY DEF IInv, HoldInv, Holding
  <2>2. qpc = "send" => out.for # peer
    BY DEF IInv, HoldInv, Holding
  <2>3. \A r : Pending(r) /\ r.for # peer => Pending(r)'
    BY <1>3, <1>5, <1>6 DEF Pending, Serves, Present
  <2> QED BY <2>1, <2>2, <2>3 DEF IInv, RingInv, InQueue
<1>15. HoldInv'
  <2>1. conn' \in Present' /\ conn' \in ConnIds /\ csock' \in Fds /\ peer' \in Clients
    BY <1>1, <1>2, <1>4, <1>6 DEF Serves
  <2>2. conns'[conn'] = k /\ csock' = csock /\ peer' = peer
    BY <1>4, <1>5
  <2>3. Alive'
    BY <1>3, <2>1, <2>2 DEF Alive
  <2> QED BY <2>1, <2>3 DEF HoldInv, Holding, Working
<1> QED BY <1>7, <1>8, <1>9, <1>10, <1>11, <1>12, <1>13, <1>14, <1>15 DEF IInv

(* While the connection is there, the thread uses a descriptor of its      *)
(* client.                                                                 *)
LEMMA ReceivesFromPeer ==
    ASSUME IInv, Working, conns[conn].id # 0 \/ spc \in {"preflight", "enqueue", "cached"}
    PROVE  /\ Alive
           /\ conn \in Present /\ conn \in ConnIds /\ conns[conn].id = conn
           /\ conns[conn].sock = csock /\ conns[conn].for = peer
           /\ conns[conn].request = "none"
           /\ Serves(csock, peer)
           /\ fd[csock] # Free
<1>1. Alive /\ csock \in Fds /\ csock # Invalid
  BY DEF IInv, HoldInv, Purged, Fds, Invalid
<1>2. conn \in ConnIds /\ conns[conn].id = conn
  BY <1>1 DEF IInv, ConnInv, Alive, Present
<1>3. Serves(csock, peer)
  BY <1>1, <1>2 DEF IInv, ConnInv, Alive
<1>4. peer # Free
  BY <1>3, ClientsAssumption DEF Serves, Free
<1> QED BY <1>1, <1>2, <1>3, <1>4 DEF Serves, Alive

(* http_recv_connection: the socket may be another's if the connection was *)
(* purged.                                                                 *)
LEMMA ServerRecvKeeps ==
    ASSUME IInv, ServerRecv
    PROVE  IInv'
<1> USE DEF ServerRecv, srv, main, sender
<1>1. "receive" \in raced \/ fd[csock] = peer
  <2>1. Working /\ (Alive \/ Purged)
    BY DEF IInv, HoldInv, Working
  <2>2. CASE Alive
    <3>1. conns[conn].id # 0
      BY <2>2 DEF Alive, Present
    <3> QED BY <2>1, <3>1, ReceivesFromPeer DEF Serves
  <2>3. CASE Purged
    BY <2>3 DEF Purged
  <2> QED BY <2>1, <2>2, <2>3
<1>2. OwnInv'
  <2>1. misused' = misused \/ (misused' = misused \cup {"recv"} /\ "receive" \in raced)
    BY <1>1 DEF Use
  <2> QED BY <2>1 DEF IInv, OwnInv
<1>3. /\ WorldType' /\ ServerType' /\ ClientInv' /\ ConnInv' /\ RingInv'
  BY WorldFrame, ServerFrame, ClientFrame, ConnFrame, RingFrame DEF IInv
<1>4. ThreadType'
  BY BoundsAssumption DEF IInv, ThreadType, PhaseInv
<1>5. PhaseInv'
  BY DEF IInv, PhaseInv, Stopping
<1>6. ListenInv'
  BY DEF IInv, ListenInv, Stopping
<1>7. HoldInv'
  BY DEF IInv, HoldInv, Holding, Working, Alive, Purged, Present
<1> QED BY <1>2, <1>3, <1>4, <1>5, <1>6, <1>7 DEF IInv

(* The thread goes on to the next connection.                              *)
LEMMA Leaves ==
    ASSUME IInv, Working, NextConnection,
           UNCHANGED <<lsock, errno, ret, tries, world, srv, main, sender>>
    PROVE  IInv'
<1> USE DEF world, srv, main, sender
<1>1. /\ WorldType' /\ ServerType' /\ ClientInv' /\ ConnInv' /\ RingInv' /\ OwnInv'
  BY WorldFrame, ServerFrame, ClientFrame, ConnFrame, RingFrame, OwnFrame DEF IInv
<1>2. ThreadType'
  BY BoundsAssumption DEF IInv, ThreadType, NextConnection, Sockets
<1>3. PhaseInv'
  BY DEF IInv, PhaseInv, Stopping, NextConnection, Working
<1>4. ListenInv'
  BY DEF IInv, ListenInv, Stopping, NextConnection, Working
<1>5. HoldInv'
  BY DEF HoldInv, Holding, Working, NextConnection
<1> QED BY <1>1, <1>2, <1>3, <1>4, <1>5 DEF IInv

(* is_alive: the connection has been purged, or not.                       *)
LEMMA ServerCheckKeeps ==
    ASSUME IInv, ServerCheck
    PROVE  IInv'
<1>1. Working
  BY DEF ServerCheck, Working
<1>2. CASE conns[conn].id # conn \/ asked[peer] = "bad"
  BY <1>1, <1>2, Leaves DEF ServerCheck
<1>3. CASE ~(conns[conn].id # conn \/ asked[peer] = "bad")
  <2> USE DEF world, srv, main, sender, locals
  <2>1. /\ spc = "check"
        /\ spc' = IF asked[peer] = "options" THEN "preflight" ELSE "enqueue"
        /\ UNCHANGED <<locals, lsock, errno, ret, tries, world, srv, main, sender>>
    BY <1>3 DEF ServerCheck
  <2>2. /\ WorldType' /\ ServerType' /\ ClientInv' /\ ConnInv' /\ RingInv' /\ OwnInv'
    BY <2>1, WorldFrame, ServerFrame, ClientFrame, ConnFrame, RingFrame, OwnFrame DEF IInv
  <2>3. ThreadType'
    BY <2>1 DEF IInv, ThreadType
  <2>4. PhaseInv' /\ ListenInv'
    BY <2>1 DEF IInv, PhaseInv, ListenInv, Stopping
  <2>5. conn \in ConnIds /\ conn # 0
    BY <1>1 DEF IInv, HoldInv, ConnIds
  <2>6. Alive
    BY <1>1, <1>3, <2>5, ReceivesFromPeer
  <2>7. HoldInv'
    BY <1>1, <2>1, <2>6 DEF IInv, HoldInv, Holding, Working, Alive, Present
  <2> QED BY <2>2, <2>3, <2>4, <2>7 DEF IInv
<1> QED BY <1>2, <1>3

(* A reply to a preflight closes the connection's socket; the connection   *)
(* stays.                                                                  *)
LEMMA ServerPreflightKeeps ==
    ASSUME IInv, ServerPreflight
    PROVE  IInv'
<1> USE DEF ServerPreflight, main, sender
<1> PICK f, n : f = conns[conn].sock /\ n = conns[conn].for
  OBVIOUS
<1>1. /\ conn \in Present /\ conn \in ConnIds /\ conns[conn].id = conn
      /\ f = csock /\ n = peer
      /\ conns[conn].request = "none"
      /\ Serves(f, n)
  BY ReceivesFromPeer DEF Working
<1>2. asked[n] = "options" /\ fd[f] = n
  BY <1>1 DEF IInv, HoldInv, Serves
<1>3. /\ fd' = [fd EXCEPT ![f] = Free]
      /\ got' = [got EXCEPT ![n] = Append(@, "options")]
      /\ misused' = misused
  BY <1>1, <1>2 DEF Close, Deliver, Use, Serves
<1>4. conns \in [ConnIds -> Connections] /\ conns' = [conns EXCEPT ![conn].sock = Invalid]
  BY DEF IInv, ServerType
<1>5. /\ conns' \in [ConnIds -> Connections]
      /\ conns'[conn].sock = Invalid /\ conns'[conn].for = n /\ conns'[conn].id = conn
      /\ conns'[conn].request = "none"
      /\ \A i \in ConnIds : i # conn => conns'[i] = conns[i]
  <2>1. conns[conn] \in Connections /\ conns' = [conns EXCEPT ![conn] = [@ EXCEPT !.sock = Invalid]]
    BY <1>1, <1>4
  <2> PICK k : k = [conns[conn] EXCEPT !.sock = Invalid]
    OBVIOUS
  <2>2. /\ k \in Connections /\ k.sock = Invalid /\ k.for = n /\ k.id = conn
        /\ k.request = "none"
    BY <1>1, <2>1 DEF Connections, Sockets
  <2> QED BY <1>1, <1>4, <2>1, <2>2
<1>6. Present' = Present
  BY <1>1, <1>5 DEF Present
<1>7. \A i \in Present : conns'[i].for = conns[i].for
  BY <1>5 DEF Present
<1>8. /\ WorldType'
      /\ ClientInv'
      /\ \A g, m : Serves(g, m) /\ m # n => Serves(g, m)'
      /\ \A g \in Fds : fd[g] \in {Listen, Free, App} => fd'[g] = fd[g]
  BY <1>1, <1>2, <1>3, <1>6, <1>7, Answered DEF IInv
<1>9. ServerType'
  BY <1>5 DEF IInv, ServerType
<1>10. ThreadType'
  BY BoundsAssumption DEF IInv, ThreadType, NextConnection, Sockets
<1>11. PhaseInv'
  BY DEF IInv, PhaseInv, Stopping, NextConnection
<1>12. ListenInv'
  BY <1>8, ListenStays DEF IInv, NextConnection
<1>13. ConnInv'
  <2>1. \A i, j \in Present : conns[i].for = conns[j].for => i = j
    BY DEF IInv, ConnInv
  <2>2. \A i \in Present : i # conn => conns[i].for # n
    BY <1>1, <2>1
  <2> QED BY <1>1, <1>5, <1>6, <1>7, <1>8, <2>2 DEF IInv, ConnInv, Present
<1>14. RingInv'
  <2>1. \A r : Pending(r) => Pending(r)'
    BY <1>1, <1>6, <1>7, <1>8 DEF Pending
  <2> QED BY <2>1 DEF IInv, RingInv, InQueue
<1>15. HoldInv'
  BY DEF HoldInv, Holding, Working, Alive, Purged, NextConnection
<1> QED BY <1>3, <1>8, <1>9, <1>10, <1>11, <1>12, <1>13, <1>14, <1>15, OwnFrame DEF IInv

(* http_enqueue_request up to the lock.                                    *)
LEMMA ServerEnqueueKeeps ==
    ASSUME IInv, ServerEnqueue
    PROVE  IInv'
<1> USE DEF ServerEnqueue, srv, main, sender
<1>1. conn \in ConnIds /\ conns[conn].id = conn /\ conn # 0
  BY ReceivesFromPeer DEF Working, ConnIds
<1>2. misused' = misused
  BY <1>1
<1>3. /\ WorldType' /\ ServerType' /\ ClientInv' /\ ConnInv' /\ RingInv' /\ OwnInv'
  BY <1>2, WorldFrame, ServerFrame, ClientFrame, ConnFrame, RingFrame, OwnFrame DEF IInv
<1>4. ThreadType'
  BY DEF IInv, ThreadType
<1>5. PhaseInv' /\ ListenInv'
  BY DEF IInv, PhaseInv, ListenInv, Stopping
<1>6. HoldInv'
  BY DEF IInv, HoldInv, Holding, Working, Alive, Purged, Present
<1> QED BY <1>3, <1>4, <1>5, <1>6 DEF IInv

(* A connection is removed.                                                *)
LEMMA Dropped ==
    ASSUME NEW c \in Present, ServerType, conns' = [conns EXCEPT ![c] = Removed]
    PROVE  /\ conns' \in [ConnIds -> Connections]
           /\ Present' = Present \ {c}
           /\ \A i \in ConnIds : i # c => conns'[i] = conns[i]
           /\ conns'[c].id = 0
<1>1. Removed \in Connections /\ Removed.id = 0
  <2>1. 0 \in 0..PurgeRetry /\ 0 \in Fds
    BY BoundsAssumption DEF Fds
  <2> QED BY <2>1 DEF Removed, Connections, Sockets
<1>2. c \in ConnIds /\ conns \in [ConnIds -> Connections]
  BY DEF Present, ServerType
<1>3. /\ conns' \in [ConnIds -> Connections]
      /\ conns'[c] = Removed
      /\ \A i \in ConnIds : i # c => conns'[i] = conns[i]
  BY <1>1, <1>2
<1> QED BY <1>1, <1>2, <1>3 DEF Present

(* The connections that are left when connection c is removed.             *)
LEMMA OthersStay ==
    ASSUME NEW c \in Present, IInv, conns' = [conns EXCEPT ![c] = Removed],
           \A g, m : Serves(g, m) /\ m # conns[c].for => Serves(g, m)',
           todo' \subseteq todo \ {c},
           UNCHANGED <<asked, thread>>
    PROVE  ConnInv'
<1>1. /\ Present' = Present \ {c}
      /\ \A i \in ConnIds : i # c => conns'[i] = conns[i]
      /\ conns'[c].id = 0
  BY Dropped DEF IInv
<1>2. \A i, j \in Present : conns[i].for = conns[j].for => i = j
  BY DEF IInv, ConnInv
<1>3. \A i \in Present' : i \in ConnIds /\ i # c /\ conns'[i] = conns[i]
                          /\ conns[i].for # conns[c].for
  BY <1>1, <1>2 DEF Present
<1> QED BY <1>1, <1>2, <1>3 DEF IInv, ConnInv

(* http_send_reply of reply r to the client of connection c, which is      *)
(* removed: the reply is enqueued, or the socket is closed.                *)
LEMMA Replied ==
    ASSUME NEW c \in Present, NEW r, IInv,
           conns[c].sock # Invalid, r = asked[conns[c].for],
           SendReply(conns[c].sock, conns[c].for, r),
           conns' = [conns EXCEPT ![c] = Removed],
           todo' \subseteq todo \ {c},
           UNCHANGED <<asked, backlog, thread, qpc, out, raced>>
    PROVE  /\ WorldType' /\ ClientInv' /\ ConnInv' /\ RingInv' /\ OwnInv'
           /\ ring' \in [Slots -> Replies] /\ head' \in Slots /\ tail' \in Slots
           /\ should_run \/ UNCHANGED <<head, tail>>
           /\ \A g \in Fds : fd[g] \in {Listen, Free, App} => fd'[g] = fd[g]
           /\ \A g, m : Serves(g, m) /\ m # conns[c].for => Serves(g, m)'
           /\ \A j \in Slots : InQueue(j)' => \/ InQueue(j) /\ ring'[j] = ring[j]
                                              \/ ring'[j].for = conns[c].for
<1> PICK f, n : f = conns[c].sock /\ n = conns[c].for
  OBVIOUS
<1>1. Serves(f, n) /\ fd[f] = n /\ c \in ConnIds
  BY DEF IInv, ConnInv, Present, Serves
<1>2. /\ Present' = Present \ {c}
      /\ \A i \in ConnIds : i # c => conns'[i] = conns[i]
  BY Dropped DEF IInv
<1>3. \A i \in Present' : i \in Present /\ conns'[i].for = conns[i].for /\ conns[i].for # n
  <2>1. \A i, j \in Present : conns[i].for = conns[j].for => i = j
    BY DEF IInv, ConnInv
  <2> QED BY <1>2, <2>1 DEF Present
<1>4. ring \in [Slots -> Replies] /\ head \in Slots /\ tail \in Slots
  BY DEF IInv, ServerType
<1>5. \A s : Pending(s) => s.for # n
  BY DEF Pending
<1>6. CASE CanPost
  <2> PICK e : e = [sock |-> f, for |-> n, reply |-> r]
    OBVIOUS
  <2>1. /\ ring' = [ring EXCEPT ![head] = e] /\ head' = Next1(head) /\ tail' = tail
        /\ UNCHANGED <<fd, misused, got>>
    BY <1>6 DEF SendReply
  <2>2. e \in Replies /\ e.for = n /\ e.sock = f /\ e.reply = r
    BY <1>1 DEF Replies, Serves, Sockets, IInv, WorldType
  <2>3. ring' \in [Slots -> Replies] /\ head' \in Slots /\ tail' \in Slots
    BY <1>4, <2>1, <2>2, NextSlot
  <2>4. /\ ~InQueue(head)
        /\ \A j \in Slots : InQueue(j)' <=> InQueue(j) \/ j = head
    BY <1>4, <1>6, <2>1, PostSlot DEF CanPost, InQueue, Between
  <2>5. \A j \in Slots : InQueue(j)' => \/ InQueue(j) /\ ring'[j] = ring[j] /\ j # head
                                        \/ j = head /\ ring'[j] = e
    BY <1>4, <2>1, <2>4
  <2>6. WorldType' /\ OwnInv'
    BY <2>1, WorldFrame, OwnFrame DEF IInv
  <2>7. ClientInv'
    BY <1>3, <2>1 DEF IInv, ClientInv, Unseen, OwnReply
  <2>8. \A g, m : Serves(g, m) => Serves(g, m)'
    BY <2>1 DEF Serves
  <2>9. ConnInv'
    BY <2>8, OthersStay
  <2>10. Pending(e)'
    BY <1>1, <1>3, <2>2, <2>8 DEF Pending
  <2>11. \A s : Pending(s) => Pending(s)'
    BY <1>3, <2>8 DEF Pending
  <2>12. RingInv'
    <3>1. \A j \in Slots : InQueue(j)' => Pending(ring[j])'
      BY <2>5, <2>10, <2>11 DEF IInv, RingInv
    <3>2. \A j \in Slots : InQueue(j) => ring[j].for # n
      BY <1>5 DEF IInv, RingInv
    <3>3. \A j, k \in Slots : InQueue(j)' /\ InQueue(k)' /\ ring'[j].for = ring'[k].for => j = k
      BY <2>2, <2>5, <3>2 DEF IInv, RingInv
    <3>4. qpc = "send" => out.for # n
      BY <1>5 DEF IInv, RingInv
    <3> QED BY <2>2, <2>5, <2>11, <3>1, <3>3, <3>4 DEF IInv, RingInv
  <2> QED BY <1>6, <2>1, <2>2, <2>3, <2>5, <2>6, <2>7, <2>8, <2>9, <2>12 DEF CanPost
<1>7. CASE ~CanPost
  <2>1. /\ fd' = [fd EXCEPT ![f] = Free]
        /\ got' = [got EXCEPT ![n] = Append(@, "busy")]
        /\ misused' = misused
        /\ UNCHANGED <<ring, head, tail>>
    BY <1>1, <1>7 DEF SendReply, Deliver, Close, Use, Serves
  <2>2. /\ WorldType'
        /\ ClientInv'
        /\ \A g, m : Serves(g, m) /\ m # n => Serves(g, m)'
        /\ \A g \in Fds : fd[g] \in {Listen, Free, App} => fd'[g] = fd[g]
    BY <1>1, <1>3, <2>1, Answered DEF IInv
  <2>3. ConnInv'
    BY <2>2, OthersStay
  <2>4. \A s : Pending(s) => Pending(s)'
    BY <1>3, <1>5, <2>2 DEF Pending
  <2>5. RingInv'
    BY <2>1, <2>4 DEF IInv, RingInv, InQueue
  <2>6. OwnInv'
    BY <2>1, OwnFrame DEF IInv
  <2>7. \A j \in Slots : InQueue(j)' => InQueue(j) /\ ring'[j] = ring[j]
    BY <2>1 DEF InQueue
  <2> QED BY <1>4, <2>1, <2>2, <2>3, <2>5, <2>6, <2>7
<1> QED BY <1>6, <1>7

(* The reply from the cache.                                               *)
LEMMA ServerCachedKeeps ==
    ASSUME IInv, ServerCached
    PROVE  IInv'
<1> USE DEF ServerCached, main, sender
<1>1. /\ conn \in Present /\ conns[conn].sock # Invalid /\ conns[conn].for = peer
      /\ asked[peer] = "get" /\ todo = {}
  <2>1. Alive /\ Serves(csock, peer)
    BY ReceivesFromPeer DEF Working
  <2> QED BY <2>1 DEF IInv, HoldInv, PhaseInv, Alive, Serves, Fds, Invalid
<1>2. /\ WorldType' /\ ClientInv' /\ ConnInv' /\ RingInv' /\ OwnInv'
      /\ ring' \in [Slots -> Replies] /\ head' \in Slots /\ tail' \in Slots
      /\ should_run \/ UNCHANGED <<head, tail>>
      /\ \A g \in Fds : fd[g] \in {Listen, Free, App} => fd'[g] = fd[g]
  BY <1>1, Replied
<1>3. ServerType'
  BY <1>1, <1>2, Dropped DEF IInv, ServerType
<1>4. ThreadType'
  BY BoundsAssumption DEF IInv, ThreadType, NextConnection, Sockets
<1>5. PhaseInv'
  BY <1>2 DEF IInv, PhaseInv, Stopping, NextConnection
<1>6. ListenInv'
  BY <1>2, ListenStays DEF IInv, NextConnection
<1>7. HoldInv'
  BY DEF HoldInv, Holding, Working, Alive, Purged, NextConnection
<1> QED BY <1>2, <1>3, <1>4, <1>5, <1>6, <1>7 DEF IInv

(* http_enqueue_request under the lock: the connection is still there,     *)
LEMMA EnqueueKeeps ==
    ASSUME IInv, ServerEnqueueLocked, conns[conn].id = conn
    PROVE  IInv'
<1> USE DEF ServerEnqueueLocked, world, main, sender
<1>1. /\ conn \in Present /\ conn \in ConnIds /\ conns[conn].id = conn
      /\ conns[conn].for = peer /\ conns[conn].sock # Invalid /\ peer \in Clients
      /\ Alive /\ csock \in Fds
  <2>1. Working /\ conn # 0
    BY DEF IInv, HoldInv, Working, ConnIds
  <2> QED BY <2>1, ReceivesFromPeer DEF Serves, Fds, Invalid
<1>2. WorldType' /\ OwnInv'
  BY WorldFrame, OwnFrame DEF IInv
<1>3. ThreadType'
  BY BoundsAssumption DEF IInv, ThreadType, NextConnection, locals, Sockets
<1>4. PhaseInv'
  BY <1>1 DEF IInv, PhaseInv, Stopping, NextConnection, locals, Locked
<1>5. ListenInv'
  BY <1>1 DEF IInv, ListenInv, Stopping, NextConnection, locals
<1>6. CASE asked[peer] = "get" /\ cache = "fresh"
  <2>1. spc' = "cached" /\ UNCHANGED <<conns, csock, conn, retries, peer>>
    BY <1>1, <1>6 DEF locals
  <2>2. ServerType' /\ ClientInv' /\ ConnInv' /\ RingInv'
    BY <2>1, ServerFrame, ClientFrame, ConnFrame, RingFrame DEF IInv
  <2>3. HoldInv'
    BY <1>1, <1>6, <2>1 DEF HoldInv, Holding, Working, Alive, Present
  <2> QED BY <1>2, <1>3, <1>4, <1>5, <2>2, <2>3 DEF IInv
<1>7. CASE ~(asked[peer] = "get" /\ cache = "fresh")
  <2>1. NextConnection /\ conns' = [conns EXCEPT ![conn].request = asked[peer]]
    BY <1>1, <1>7
  <2>2. conns \in [ConnIds -> Connections] /\ asked[peer] \in Kinds \cup {"none"}
    BY <1>1 DEF IInv, ServerType, WorldType
  <2> PICK k : k = [conns[conn] EXCEPT !.request = asked[peer]]
    OBVIOUS
  <2>3. /\ k \in Connections /\ k.sock = conns[conn].sock /\ k.for = conns[conn].for
        /\ k.id = conn /\ k.request = asked[peer]
    BY <1>1, <2>2 DEF Connections
  <2>4. conns' = [conns EXCEPT ![conn] = k]
    BY <1>1, <2>1, <2>2
  <2>5. /\ conns' \in [ConnIds -> Connections]
        /\ conns'[conn] = k
        /\ \A i \in ConnIds : i # conn => conns'[i] = conns[i]
    BY <1>1, <2>2, <2>3, <2>4
  <2>6. /\ Present' = Present
        /\ \A i \in Present : conns'[i].for = conns[i].for /\ conns'[i].sock = conns[i].sock
    <3>1. \A i \in ConnIds : /\ conns'[i].for = conns[i].for /\ conns'[i].sock = conns[i].sock
                              /\ conns'[i].id = conns[i].id
      BY <1>1, <2>3, <2>5
    <3> QED BY <3>1 DEF Present
  <2>7. ServerType'
    BY <2>5 DEF IInv, ServerType
  <2>8. ClientInv'
    BY <2>6 DEF IInv, ClientInv, Unseen, OwnReply
  <2>9. ConnInv'
    <3>1. conns'[conn].request = asked[conns'[conn].for] /\ conns'[conn].id = conn
      BY <1>1, <2>3, <2>5
    <3>2. \A i \in ConnIds : conns'[i].id \in {0, i}
      BY <2>5, <3>1 DEF IInv, ConnInv
    <3>3. \A i \in Present : conns'[i].request # "none" =>
             conns'[i].request = asked[conns'[i].for] /\ conns'[i].sock # Invalid
      <4>1. conns'[conn].sock # Invalid
        BY <1>1, <2>6
      <4>2. \A i \in Present : i # conn => conns'[i] = conns[i] /\ i \in ConnIds
        BY <2>5 DEF Present
      <4> QED BY <3>1, <4>1, <4>2 DEF IInv, ConnInv
    <3> QED BY <2>6, <3>2, <3>3 DEF IInv, ConnInv, Serves
  <2>10. RingInv'
    BY <2>6 DEF IInv, RingInv, InQueue, Pending, Serves
  <2>11. HoldInv'
    BY <2>1 DEF HoldInv, Holding, Working, Alive, Purged, NextConnection
  <2> QED BY <1>2, <1>3, <1>4, <1>5, <2>7, <2>8, <2>9, <2>10, <2>11 DEF IInv
<1> QED BY <1>6, <1>7

(* or was purged.                                                          *)
LEMMA ServerEnqueueLockedKeeps ==
    ASSUME IInv, ServerEnqueueLocked
    PROVE  IInv'
<1>1. CASE conns[conn].id = conn
  BY <1>1, EnqueueKeeps
<1>2. CASE conns[conn].id # conn
  <2>1. /\ Working /\ NextConnection
        /\ UNCHANGED <<lsock, errno, ret, tries, world, srv, main, sender>>
    BY <1>2 DEF ServerEnqueueLocked, Working, srv
  <2> QED BY <2>1, Leaves
<1> QED BY <1>1, <1>2

(* The thread takes the socket out of the connection to close it,          *)
LEMMA GiveUpKeeps ==
    ASSUME IInv, ServerGiveUp, conns[conn].id = conn
    PROVE  IInv'
<1> USE DEF ServerGiveUp, world, main, sender
<1>1. /\ conn \in Present /\ conn \in ConnIds /\ conns[conn].id = conn
      /\ conns[conn].sock = csock /\ conns[conn].for = peer
      /\ conns[conn].request = "none" /\ Serves(csock, peer)
  <2>1. Working /\ conn # 0
    BY DEF IInv, HoldInv, Working, ConnIds
  <2> QED BY <2>1, ReceivesFromPeer
<1>2. /\ spc' = "giveclose" /\ conns' = [conns EXCEPT ![conn].sock = Invalid]
      /\ UNCHANGED <<csock, conn, retries, peer>>
  BY <1>1 DEF locals
<1>3. conns \in [ConnIds -> Connections]
  BY DEF IInv, ServerType
<1> PICK k : k = [conns[conn] EXCEPT !.sock = Invalid]
  OBVIOUS
<1>4. /\ k \in Connections /\ k.sock = Invalid /\ k.for = peer
      /\ k.id = conn /\ k.request = "none"
  BY <1>1, <1>3 DEF Connections, Sockets
<1>5. /\ conns' \in [ConnIds -> Connections]
      /\ conns'[conn] = k
      /\ \A i \in ConnIds : i # conn => conns'[i] = conns[i]
  BY <1>1, <1>2, <1>3, <1>4
<1>6. /\ Present' = Present
      /\ \A i \in Present : conns'[i].for = conns[i].for
  <2>1. \A i \in ConnIds : conns'[i].for = conns[i].for /\ conns'[i].id = conns[i].id
    BY <1>1, <1>4, <1>5
  <2> QED BY <2>1 DEF Present
<1>7. WorldType' /\ OwnInv'
  BY WorldFrame, OwnFrame DEF IInv
<1>8. ServerType'
  BY <1>5 DEF IInv, ServerType
<1>9. ThreadType'
  BY <1>2 DEF IInv, ThreadType
<1>10. PhaseInv' /\ ListenInv'
  BY <1>2 DEF IInv, PhaseInv, ListenInv, Stopping
<1>11. ClientInv'
  BY <1>6 DEF IInv, ClientInv, Unseen, OwnReply
<1>12. ConnInv'
  <2>1. \A i \in ConnIds : conns'[i].id \in {0, i}
    BY <1>4, <1>5 DEF IInv, ConnInv
  <2>2. \A i \in Present :
           \/ conns'[i] = conns[i]
           \/ conns'[i].sock = Invalid /\ conns'[i].request = "none"
    BY <1>4, <1>5 DEF Present
  <2> QED BY <1>6, <2>1, <2>2 DEF IInv, ConnInv, Serves
<1>13. RingInv'
  BY <1>6 DEF IInv, RingInv, InQueue, Pending, Serves
<1>14. HoldInv'
  <2>1. \A r : Pending(r) => r.for # peer
    BY <1>1 DEF Pending
  <2>2. \A i \in Present : conns[i].for = peer => i = conn
    <3>1. \A i, j \in Present : conns[i].for = conns[j].for => i = j
      BY DEF IInv, ConnInv
    <3> QED BY <1>1, <3>1
  <2>3. Serves(csock, peer)'
    BY <1>1, <1>2 DEF Serves
  <2>4. (\A j \in Slots : InQueue(j)' => ring'[j].for # peer') /\ (qpc' = "send" => out'.for # peer')
    BY <1>2, <2>1 DEF IInv, RingInv, InQueue
  <2>5. \A i \in Present' : conns'[i].for = peer' => conns'[i].sock = Invalid
    BY <1>2, <1>4, <1>5, <1>6, <2>2
  <2> QED BY <1>2, <2>3, <2>4, <2>5 DEF HoldInv, Holding, Working, Alive, Purged
<1> QED BY <1>7, <1>8, <1>9, <1>10, <1>11, <1>12, <1>13, <1>14 DEF IInv

(* if the connection is still there.                                       *)
LEMMA ServerGiveUpKeeps ==
    ASSUME IInv, ServerGiveUp
    PROVE  IInv'
<1>1. CASE conns[conn].id = conn
  BY <1>1, GiveUpKeeps
<1>2. CASE conns[conn].id # conn
  <2>1. /\ Working /\ NextConnection
        /\ UNCHANGED <<lsock, errno, ret, tries, world, srv, main, sender>>
    BY <1>2 DEF ServerGiveUp, Working, srv
  <2> QED BY <2>1, Leaves
<1> QED BY <1>1, <1>2

(* The server thread closes its copy of the socket.                        *)
LEMMA ServerGiveCloseKeeps ==
    ASSUME IInv, ServerGiveClose
    PROVE  IInv'
<1> USE DEF ServerGiveClose, srv, main, sender
<1>1. /\ Serves(csock, peer) /\ fd[csock] = peer
      /\ \A j \in Slots : InQueue(j) => ring[j].for # peer
      /\ qpc = "send" => out.for # peer
      /\ \A i \in Present : conns[i].for = peer => conns[i].sock = Invalid
  BY DEF IInv, HoldInv, Holding, Serves
<1>2. fd' = [fd EXCEPT ![csock] = Free] /\ misused' = misused /\ got' = got
  BY <1>1 DEF Close, Use, Serves
<1>3. /\ WorldType'
      /\ ClientInv'
      /\ \A g, m : Serves(g, m) /\ m # peer => Serves(g, m)'
      /\ \A g \in Fds : fd[g] \in {Listen, Free, App} => fd'[g] = fd[g]
  BY <1>1, <1>2, Answered DEF IInv, Present
<1>4. ServerType' /\ OwnInv'
  BY <1>2, ServerFrame, OwnFrame DEF IInv
<1>5. ThreadType'
  BY BoundsAssumption DEF IInv, ThreadType, NextConnection, Sockets
<1>6. PhaseInv'
  BY DEF IInv, PhaseInv, Stopping, NextConnection
<1>7. ListenInv'
  BY <1>3, ListenStays DEF IInv, NextConnection
<1>8. ConnInv'
  BY <1>1, <1>3 DEF IInv, ConnInv, Present
<1>9. RingInv'
  BY <1>1, <1>3 DEF IInv, RingInv, InQueue, Pending, Present
<1>10. HoldInv'
  BY DEF HoldInv, Holding, Working, Alive, Purged, NextConnection
<1> QED BY <1>3, <1>4, <1>5, <1>6, <1>7, <1>8, <1>9, <1>10 DEF IInv

(* A descriptor is closed that is no client's.                             *)
LEMMA ClosedKeeps ==
    ASSUME NEW f \in Fds, IInv, fd[f] \notin Clients, fd' = [fd EXCEPT ![f] = Free],
           UNCHANGED <<asked, got, thread, todo, conns, ring, head, tail, qpc, out>>,
           backlog' \subseteq backlog
    PROVE  WorldType' /\ ClientInv' /\ ConnInv' /\ RingInv' /\ \A g, m : Serves(g, m) => Serves(g, m)'
<1>1. Free \in Owners /\ Free \notin Clients
  BY ClientsAssumption DEF Owners, Free
<1>2. /\ fd' \in [Fds -> Owners]
      /\ \A g \in Fds : fd'[g] = IF g = f THEN Free ELSE fd[g]
  BY <1>1 DEF IInv, WorldType
<1>3. WorldType'
  BY <1>2 DEF IInv, WorldType
<1>4. \A g, m : Serves(g, m) => Serves(g, m)'
  BY <1>2 DEF Serves
<1>5. ClientInv'
  BY <1>1, <1>2 DEF IInv, ClientInv, Unseen, Present, OwnReply
<1>6. ConnInv'
  BY <1>4 DEF IInv, ConnInv, Present
<1>7. RingInv'
  BY <1>4 DEF IInv, RingInv, InQueue, Pending, Present
<1> QED BY <1>3, <1>4, <1>5, <1>6, <1>7

(* The same if nothing is closed.                                          *)
LEMMA BacklogKeeps ==
    ASSUME IInv, backlog' \subseteq backlog,
           UNCHANGED <<fd, asked, got, thread, todo, conns, ring, head, tail, qpc, out>>
    PROVE  WorldType' /\ ClientInv' /\ ConnInv' /\ RingInv' /\ \A g, m : Serves(g, m) => Serves(g, m)'
<1>1. WorldType'
  BY DEF IInv, WorldType
<1>2. ClientInv'
  BY DEF IInv, ClientInv, Unseen, Present, OwnReply
<1>3. ConnInv' /\ RingInv' /\ \A g, m : Serves(g, m) => Serves(g, m)'
  BY ConnFrame, RingFrame DEF IInv, Serves
<1> QED BY <1>1, <1>2, <1>3

(* The end of http_accept_connections.                                     *)
LEMMA ServerDoneKeeps ==
    ASSUME IInv, ServerDone
    PROVE  IInv'
<1> USE DEF ServerDone, main, sender
<1>1. lsock # Invalid => /\ lsock \in Fds /\ fd[lsock] \notin Clients
                         /\ fd[lsock] \in {Listen, Free} \/ "stop" \in raced
  BY ClientsAssumption DEF IInv, ListenInv, ThreadType, Sockets, Free, Listen, App
<1>2. OwnInv'
  <2>1. misused' = misused \/ (misused' = misused \cup {"close"} /\ "stop" \in raced)
    BY <1>1 DEF Close, Use
  <2> QED BY <2>1 DEF IInv, OwnInv
<1>3. WorldType' /\ ClientInv' /\ ConnInv' /\ RingInv'
  <2>1. CASE lsock # Invalid /\ errno # "EBADF"
    BY <1>1, <2>1, ClosedKeeps DEF Close
  <2>2. CASE ~(lsock # Invalid /\ errno # "EBADF")
    BY <2>2, BacklogKeeps
  <2> QED BY <2>1, <2>2
<1>4. ServerType'
  BY DEF IInv, ServerType, Sockets
<1>5. tries' \in 0..BindRetry /\ (spc' = "init" => tries' < BindRetry)
  <2>1. tries \in Nat /\ tries < BindRetry /\ ret \in {0, 1} /\ BindRetry \in Nat
    BY BoundsAssumption DEF IInv, PhaseInv, ThreadType
  <2> QED BY <2>1
<1>6. ThreadType'
  BY <1>5 DEF IInv, ThreadType, Sockets
<1>7. PhaseInv'
  BY <1>5 DEF IInv, PhaseInv, Stopping
<1>8. ListenInv'
  BY DEF IInv, ListenInv, Stopping
<1>9. HoldInv'
  BY DEF HoldInv, Holding, Working, Alive, Purged
<1> QED BY <1>2, <1>3, <1>4, <1>6, <1>7, <1>8, <1>9 DEF IInv

-----------------------------------------------------------------------------
(* The main thread.                                                        *)

(* ecs_http_server_start.                                                  *)
LEMMA StartKeeps ==
    ASSUME IInv, Start
    PROVE  IInv'
<1> USE DEF Start, Idle, world, main
<1>1. WorldType' /\ ClientInv' /\ OwnInv'
  BY WorldFrame, ClientFrame, OwnFrame DEF IInv
<1>2. ServerType'
  BY DEF IInv, ServerType
<1>3. ThreadType'
  BY BoundsAssumption DEF IInv, ThreadType
<1>4. PhaseInv'
  BY BoundsAssumption DEF IInv, PhaseInv, Stopping
<1>5. ListenInv'
  BY DEF IInv, ListenInv, PhaseInv, Stopping
<1>6. ConnInv'
  BY DEF IInv, ConnInv, Present, Serves
<1>7. RingInv'
  BY DEF IInv, RingInv, InQueue, Pending, Serves, Present
<1>8. HoldInv'
  BY DEF HoldInv, Holding, Working, Alive, Purged
<1> QED BY <1>1, <1>2, <1>3, <1>4, <1>5, <1>6, <1>7, <1>8 DEF IInv

(* ecs_http_server_dequeue takes the lock.                                 *)
LEMMA DequeueBeginKeeps ==
    ASSUME IInv, DequeueBegin
    PROVE  IInv'
<1> USE DEF DequeueBegin, Idle, world, srv, server, sender
<1>1. WorldType' /\ ClientInv' /\ RingInv' /\ HoldInv' /\ OwnInv'
  BY WorldFrame, ClientFrame, RingFrame, HoldFrame, OwnFrame DEF IInv
<1>2. ServerType'
  BY DEF IInv, ServerType, Present
<1>3. ThreadType'
  BY DEF IInv, ThreadType
<1>4. PhaseInv'
  BY DEF IInv, PhaseInv, Stopping, Locked
<1>5. ListenInv'
  BY DEF IInv, ListenInv, PhaseInv, Stopping
<1>6. ConnInv'
  BY DEF IInv, ConnInv, Present, Serves
<1> QED BY <1>1, <1>2, <1>3, <1>4, <1>5, <1>6 DEF IInv

(* A request is handled: its connection is not the one that the server     *)
(* thread works on.                                                        *)
LEMMA HandleKeeps ==
    ASSUME IInv, DequeueVisit, NEW i \in todo, HandleRequest(i), todo' = todo \ {i}
    PROVE  IInv'
<1> USE DEF HandleRequest
<1> PICK n : n = conns[i].for
  OBVIOUS
<1>1. /\ mpc = "dequeue"
      /\ UNCHANGED <<mpc, asked, backlog, should_run, srv_sock, thread>>
      /\ UNCHANGED <<spc, lsock, csock, conn, retries, errno, ret, tries, peer, qpc, out>>
  BY DEF DequeueVisit, server, sender
<1>2. /\ i \in Present /\ i \in ConnIds /\ conns[i].sock # Invalid
      /\ conns[i].request = asked[n] /\ n \in Clients
  BY DEF IInv, ConnInv, Present
<1>3. /\ WorldType' /\ ClientInv' /\ ConnInv' /\ RingInv' /\ OwnInv'
      /\ ring' \in [Slots -> Replies] /\ head' \in Slots /\ tail' \in Slots
      /\ should_run \/ UNCHANGED <<head, tail>>
      /\ \A g \in Fds : fd[g] \in {Listen, Free, App} => fd'[g] = fd[g]
      /\ \A g, m : Serves(g, m) /\ m # n => Serves(g, m)'
      /\ \A j \in Slots : InQueue(j)' => \/ InQueue(j) /\ ring'[j] = ring[j]
                                         \/ ring'[j].for = n
  BY <1>1, <1>2, Replied
<1>4. /\ conns' \in [ConnIds -> Connections]
      /\ Present' = Present \ {i}
      /\ \A k \in ConnIds : k # i => conns'[k] = conns[k]
  BY <1>2, Dropped DEF IInv
<1>5. ServerType'
  BY <1>1, <1>3, <1>4 DEF IInv, ServerType
<1>6. ThreadType'
  BY <1>1, ThreadFrame DEF IInv
<1>7. PhaseInv'
  BY <1>1, <1>3 DEF IInv, PhaseInv, Stopping
<1>8. ListenInv'
  BY <1>1, <1>3, ListenStays DEF IInv
<1>9. HoldInv'
  <2>1. Working => conn # i /\ conn \in ConnIds
    BY DEF IInv, HoldInv, ConnInv, Present, Alive, Purged
  <2>2. Holding => peer # n
    BY <1>2 DEF IInv, HoldInv
  <2>3. \A k \in Present' : k \in Present /\ conns'[k] = conns[k]
    BY <1>4 DEF Present
  <2>4. Holding => Serves(csock, peer)'
    BY <1>1, <1>3, <2>2 DEF IInv, HoldInv
  <2>5. Holding => /\ \A j \in Slots : InQueue(j)' => ring'[j].for # peer
                   /\ qpc = "send" => out.for # peer
                   /\ \A k \in Present' : conns'[k].for = peer =>
                         spc = "giveclose" /\ conns'[k].sock = Invalid
    BY <1>3, <2>2, <2>3 DEF IInv, HoldInv
  <2>6. Working => conns'[conn] = conns[conn] /\ (conn \in Present => conn \in Present')
    BY <1>4, <2>1
  <2> QED BY <1>1, <2>4, <2>5, <2>6 DEF IInv, HoldInv, Holding, Working, Alive, Purged
<1> QED BY <1>3, <1>5, <1>6, <1>7, <1>8, <1>9 DEF IInv

(* A connection that is old enough is closed. If it is the one that the    *)
(* server thread works on, the thread looks at it again.                   *)
LEMMA ExpireKeeps ==
    ASSUME IInv, "reply" \notin raced', DequeueVisit, NEW i \in todo, AgeConnection(i), Expired(i),
           todo' = todo \ {i}
    PROVE  IInv'
<1> PICK f, n : f = conns[i].sock /\ n = conns[i].for
  OBVIOUS
<1>1. /\ mpc = "dequeue"
      /\ UNCHANGED <<mpc, asked, backlog, should_run, srv_sock, thread>>
      /\ UNCHANGED <<spc, lsock, csock, conn, retries, errno, ret, tries, peer, qpc, out>>
      /\ Close(f, n) /\ conns' = [conns EXCEPT ![i] = Removed]
      /\ raced' = IF i = conn THEN raced \cup Window ELSE raced
      /\ UNCHANGED <<got, cache, ring, head, tail>>
  BY DEF DequeueVisit, server, sender, AgeConnection
<1>2. /\ i \in Present /\ i \in ConnIds /\ n \in Clients
      /\ f # Invalid => Serves(f, n)
      /\ f \in Sockets
  BY DEF IInv, ConnInv, Present, ServerType, Connections
<1>3. /\ conns' \in [ConnIds -> Connections]
      /\ Present' = Present \ {i}
      /\ \A k \in ConnIds : k # i => conns'[k] = conns[k]
      /\ conns'[i].id = 0
  BY <1>1, <1>2, Dropped DEF IInv
<1>4. \A k \in Present' : k \in Present /\ conns'[k] = conns[k]
  BY <1>3 DEF Present
<1>5. /\ WorldType' /\ ClientInv' /\ misused' = misused
      /\ \A g, m : Serves(g, m) /\ m # n => Serves(g, m)'
      /\ \A g, m : f = Invalid /\ Serves(g, m) => Serves(g, m)'
      /\ \A g \in Fds : fd[g] \in {Listen, Free, App} => fd'[g] = fd[g]
  <2>1. CASE f = Invalid
    <3>1. UNCHANGED <<fd, misused>>
      BY <1>1, <2>1 DEF Close, Use, Invalid, Fds
    <3>2. ClientInv'
      BY <1>1, <1>4, <3>1 DEF IInv, ClientInv, Unseen, OwnReply
    <3> QED BY <1>1, <3>1, <3>2, WorldFrame DEF IInv, Serves
  <2>2. CASE f # Invalid
    <3>1. fd' = [fd EXCEPT ![f] = Free] /\ misused' = misused
      BY <1>1, <1>2, <2>2 DEF Close, Use, Serves
    <3>2. /\ WorldType'
          /\ ClientInv'
          /\ \A g, m : Serves(g, m) /\ m # n => Serves(g, m)'
          /\ \A g \in Fds : fd[g] \in {Listen, Free, App} => fd'[g] = fd[g]
      <4>1. WorldType /\ ClientInv /\ Serves(f, n) /\ "busy" \in {asked[n], "busy"}
        BY <1>2, <2>2 DEF IInv
      <4>2. got' = got /\ UNCHANGED <<asked, backlog>>
        BY <1>1
      <4>3. \A k \in Present' : k \in Present /\ conns'[k].for = conns[k].for
        BY <1>4
      <4> QED BY ONLY <3>1, <4>1, <4>2, <4>3, Answered, Zenon
    <3> QED BY <2>2, <3>1, <3>2
  <2> QED BY <2>1, <2>2
<1>6. ServerType'
  BY <1>1, <1>3 DEF IInv, ServerType
<1>7. ThreadType' /\ PhaseInv' /\ OwnInv'
  BY <1>1, <1>5, ThreadFrame DEF IInv, PhaseInv, Stopping, OwnInv
<1>8. ListenInv'
  BY <1>1, <1>5, ListenStays DEF IInv
<1>9. ConnInv'
  BY <1>1, <1>2, <1>5, OthersStay
<1>10. RingInv'
  <2>1. \A r : Pending(r) => Pending(r)'
    BY <1>1, <1>2, <1>4, <1>5 DEF Pending
  <2> QED BY <1>1, <2>1 DEF IInv, RingInv, InQueue
<1>11. HoldInv'
  <2>1. i = conn /\ Working => Purged'
    <3>1. i = conn => raced' = raced \cup Window
      BY <1>1
    <3>2. i = conn => spc \notin {"preflight", "enqueue", "cached"}
      BY <1>1, <3>1 DEF Window, IInv, PhaseInv
    <3>3. i = conn /\ spc = "recv" => "receive" \in raced'
      BY <3>1 DEF Window
    <3> QED BY <1>1, <1>3, <3>2, <3>3 DEF Purged, Working
  <2>2. Holding => f = Invalid \/ peer # n
    BY <1>2 DEF IInv, HoldInv
  <2>3. spc # "cached"
    BY <1>1 DEF IInv, PhaseInv
  <2>4. Holding => Serves(csock, peer)'
    BY <1>1, <1>5, <2>2 DEF IInv, HoldInv
  <2>5. Holding => /\ \A j \in Slots : InQueue(j)' => ring'[j].for # peer
                   /\ qpc = "send" => out.for # peer
                   /\ \A k \in Present' : conns'[k].for = peer =>
                         spc = "giveclose" /\ conns'[k].sock = Invalid
    BY <1>1, <1>4 DEF IInv, HoldInv, InQueue
  <2>6. Working => Alive' \/ Purged'
    <3>1. CASE i = conn
      BY <2>1, <3>1
    <3>2. CASE i # conn
      <4>1. Working => conns'[conn] = conns[conn] /\ (conn \in Present => conn \in Present')
        BY <1>3, <3>2 DEF IInv, HoldInv
      <4> QED BY <1>1, <3>2, <4>1 DEF IInv, HoldInv, Alive, Purged
    <3> QED BY <3>1, <3>2
  <2> QED BY <1>1, <2>3, <2>4, <2>5, <2>6 DEF IInv, HoldInv, Holding, Working
<1> QED BY <1>5, <1>6, <1>7, <1>8, <1>9, <1>10, <1>11 DEF IInv

(* A connection grows older.                                               *)
LEMMA AgeKeeps ==
    ASSUME IInv, DequeueVisit, NEW i \in todo, AgeConnection(i), ~Expired(i),
           todo' = todo \ {i}
    PROVE  IInv'
<1> PICK k, a : /\ k = [conns[i] EXCEPT !.retries = Min({@ + 1, PurgeRetry})]
                /\ a = Min({conns[i].retries + 1, PurgeRetry})
  OBVIOUS
<1>1. /\ mpc = "dequeue"
      /\ UNCHANGED <<mpc, asked, backlog, should_run, srv_sock, thread>>
      /\ UNCHANGED <<spc, lsock, csock, conn, retries, errno, ret, tries, peer, qpc, out>>
      /\ UNCHANGED <<fd, misused, raced, got, cache, ring, head, tail>>
      /\ conns' = [conns EXCEPT ![i].retries = Min({@ + 1, PurgeRetry})]
  BY DEF DequeueVisit, server, sender, AgeConnection
<1>2. i \in ConnIds /\ conns \in [ConnIds -> Connections] /\ conns[i] \in Connections
  BY DEF IInv, ConnInv, Present, ServerType
<1>3. a \in 0..PurgeRetry
  <2>1. conns[i].retries \in Nat /\ PurgeRetry \in Nat /\ conns[i].retries <= PurgeRetry
    BY <1>2, BoundsAssumption DEF Connections
  <2>2. a \in {conns[i].retries + 1, PurgeRetry}
    BY <2>1, MinOfNumbers
  <2>3. \E x \in {conns[i].retries + 1, PurgeRetry} :
           \A y \in {conns[i].retries + 1, PurgeRetry} : x <= y
    <3>1. CASE conns[i].retries + 1 <= PurgeRetry
      BY <2>1, <3>1
    <3>2. CASE PurgeRetry <= conns[i].retries + 1
      BY <2>1, <3>2
    <3> QED BY <2>1, <3>1, <3>2
  <2>4. \A y \in {conns[i].retries + 1, PurgeRetry} : a <= y
    BY <2>3, Zenon DEF Min
  <2> QED BY <2>1, <2>2, <2>4
<1>4. /\ k \in Connections /\ k.sock = conns[i].sock /\ k.for = conns[i].for
      /\ k.id = conns[i].id /\ k.request = conns[i].request
  BY <1>2, <1>3 DEF Connections
<1>5. conns' = [conns EXCEPT ![i] = k]
  BY <1>1, <1>2
<1>6. /\ conns' \in [ConnIds -> Connections]
      /\ \A j \in ConnIds : /\ conns'[j].sock = conns[j].sock /\ conns'[j].for = conns[j].for
                            /\ conns'[j].id = conns[j].id
                            /\ conns'[j].request = conns[j].request
  BY <1>2, <1>4, <1>5
<1>7. Present' = Present /\ Present \subseteq ConnIds
  BY <1>6 DEF Present
<1>8. WorldType' /\ ThreadType' /\ ListenInv' /\ OwnInv'
  BY <1>1, WorldFrame, ThreadFrame, ListenFrame, OwnFrame DEF IInv
<1>9. ServerType'
  BY <1>1, <1>6 DEF IInv, ServerType
<1>10. PhaseInv'
  BY <1>1 DEF IInv, PhaseInv, Stopping
<1>11. ClientInv'
  BY <1>1, <1>6, <1>7 DEF IInv, ClientInv, Unseen, OwnReply
<1>12. ConnInv'
  BY <1>1, <1>6, <1>7 DEF IInv, ConnInv, Serves
<1>13. RingInv'
  BY <1>1, <1>6, <1>7 DEF IInv, RingInv, InQueue, Pending, Serves
<1>14. HoldInv'
  BY <1>1, <1>6, <1>7 DEF IInv, HoldInv, Holding, Working, Alive, Purged, InQueue, Serves
<1> QED BY <1>8, <1>9, <1>10, <1>11, <1>12, <1>13, <1>14 DEF IInv

(* http_dequeue_requests visits a connection.                              *)
LEMMA DequeueVisitKeeps ==
    ASSUME IInv, "reply" \notin raced', DequeueVisit
    PROVE  IInv'
<1>1. PICK i \in todo : (HandleRequest(i) \/ AgeConnection(i)) /\ todo' = todo \ {i}
  BY DEF DequeueVisit
<1>2. CASE HandleRequest(i)
  BY <1>1, <1>2, HandleKeeps
<1>3. CASE AgeConnection(i) /\ Expired(i)
  BY <1>1, <1>3, ExpireKeeps
<1>4. CASE AgeConnection(i) /\ ~Expired(i)
  BY <1>1, <1>4, AgeKeeps
<1> QED BY <1>1, <1>2, <1>3, <1>4

(* ecs_http_server_dequeue gives the lock back.                            *)
LEMMA DequeueEndKeeps ==
    ASSUME IInv, DequeueEnd
    PROVE  IInv'
<1> USE DEF DequeueEnd, world, srv, server, sender
<1>1. WorldType' /\ ClientInv' /\ ConnInv' /\ RingInv' /\ HoldInv' /\ OwnInv'
  BY WorldFrame, ClientFrame, ConnFrame, RingFrame, HoldFrame, OwnFrame DEF IInv
<1>2. ServerType'
  BY DEF IInv, ServerType
<1>3. ThreadType'
  BY DEF IInv, ThreadType
<1>4. PhaseInv' /\ ListenInv'
  BY DEF IInv, PhaseInv, ListenInv, Stopping
<1> QED BY <1>1, <1>2, <1>3, <1>4 DEF IInv

(* The cache is not part of what the threads depend on.                    *)
LEMMA CacheExpireKeeps ==
    ASSUME IInv, CacheExpire
    PROVE  IInv'
<1> USE DEF CacheExpire, world, main, server, sender
<1>1. /\ WorldType' /\ ThreadType' /\ PhaseInv' /\ ListenInv' /\ ClientInv'
      /\ ConnInv' /\ RingInv' /\ HoldInv' /\ OwnInv'
  BY WorldFrame, ThreadFrame, PhaseFrame, ListenFrame, ClientFrame, ConnFrame, RingFrame,
     HoldFrame, OwnFrame DEF IInv
<1>2. ServerType'
  BY DEF IInv, ServerType
<1> QED BY <1>1, <1>2 DEF IInv

(* ecs_http_server_http_request.                                           *)
LEMMA EmulateRequestKeeps ==
    ASSUME IInv, EmulateRequest
    PROVE  IInv'
<1> USE DEF EmulateRequest, main, server, sender
<1>1. /\ WorldType' /\ ThreadType' /\ PhaseInv' /\ ListenInv' /\ ClientInv'
      /\ ConnInv' /\ RingInv' /\ HoldInv'
  BY WorldFrame, ThreadFrame, PhaseFrame, ListenFrame, ClientFrame, ConnFrame, RingFrame,
     HoldFrame DEF IInv
<1>2. ServerType'
  BY DEF IInv, ServerType
<1>3. OwnInv'
  BY DEF IInv, OwnInv
<1> QED BY <1>1, <1>2, <1>3 DEF IInv

(* ecs_http_server_stop closes the listening socket.                       *)
LEMMA StopBeginKeeps ==
    ASSUME IInv, StopBegin
    PROVE  IInv'
<1> USE DEF StopBegin, Idle, server, sender
<1>1. srv_sock # Invalid => /\ srv_sock \in Fds /\ srv_sock = lsock
                            /\ fd[srv_sock] = Listen /\ fd[srv_sock] \notin Clients
  BY ClientsAssumption DEF IInv, ListenInv, ServerType, Sockets, Listen
<1>2. srv_sock = Invalid => srv_sock \notin Fds
  BY DEF Fds, Invalid
<1>3. misused' = misused
  BY <1>1, <1>2 DEF Close, Use
<1>4. /\ WorldType' /\ ClientInv' /\ ConnInv' /\ RingInv'
      /\ \A g, m : Serves(g, m) => Serves(g, m)'
  <2>1. CASE srv_sock # Invalid
    BY <1>1, <2>1, ClosedKeeps DEF Close
  <2>2. CASE srv_sock = Invalid
    BY <1>2, <2>2, BacklogKeeps DEF Close
  <2> QED BY <2>1, <2>2
<1>5. ServerType'
  BY DEF IInv, ServerType, Sockets
<1>6. ThreadType'
  BY DEF IInv, ThreadType
<1>7. PhaseInv'
  BY DEF IInv, PhaseInv, Stopping
<1>8. ListenInv'
  <2>1. lsock # Invalid => fd[lsock] = Listen /\ lsock \in Fds
    BY DEF IInv, ListenInv, ThreadType, Sockets, Stopping
  <2>2. lsock # Invalid => fd'[lsock] \in {Listen, Free}
    BY <1>1, <1>2, <2>1 DEF Close, IInv, WorldType
  <2> QED BY <2>2 DEF IInv, ListenInv, Stopping
<1>9. HoldInv'
  BY <1>4 DEF IInv, HoldInv, Holding, Working, Alive, Purged, InQueue, Present
<1> QED BY <1>3, <1>4, <1>5, <1>6, <1>7, <1>8, <1>9, OwnFrame DEF IInv

(* ecs_http_server_stop joins the server thread.                           *)
LEMMA JoinServerKeeps ==
    ASSUME IInv, JoinServer
    PROVE  IInv'
<1> USE DEF JoinServer, world, srv, server, sender
<1>1. WorldType' /\ ServerType' /\ ClientInv' /\ ConnInv' /\ RingInv' /\ HoldInv' /\ OwnInv'
  BY WorldFrame, ServerFrame, ClientFrame, ConnFrame, RingFrame, HoldFrame, OwnFrame DEF IInv
<1>2. ThreadType'
  BY DEF IInv, ThreadType
<1>3. PhaseInv' /\ ListenInv'
  BY DEF IInv, PhaseInv, ListenInv, Stopping
<1> QED BY <1>1, <1>2, <1>3 DEF IInv

(* Both threads have ended: connections and their sockets go.              *)
LEMMA JoinSenderKeeps ==
    ASSUME IInv, JoinSender
    PROVE  IInv'
<1> USE DEF JoinSender
<1> PICK socks : socks = {conns[i].sock : i \in Present}
  OBVIOUS
<1>1. spc = "ended" /\ ~should_run /\ head = tail /\ todo = {}
  BY DEF IInv, PhaseInv, Stopping
<1>2. fd' = [f \in Fds |-> IF f \in socks THEN Free ELSE fd[f]]
  OBVIOUS
<1>3. misused' = misused
  BY DEF IInv, ConnInv, Present, Serves, Invalid, Fds
<1>4. /\ conns' = [i \in ConnIds |-> Removed]
      /\ Removed \in Connections /\ Removed.id = 0
  <2>1. 0 \in 0..PurgeRetry /\ 0 \in Fds
    BY BoundsAssumption DEF Fds
  <2> QED BY <2>1 DEF Removed, Connections, Sockets
<1>5. Present' = {} /\ \A i \in ConnIds : conns'[i].id = 0
  BY <1>4 DEF Present
<1>6. WorldType'
  BY <1>2 DEF IInv, WorldType, Owners
<1>7. ServerType'
  BY <1>4 DEF IInv, ServerType
<1>8. ThreadType'
  BY DEF IInv, ThreadType
<1>9. PhaseInv'
  BY <1>1 DEF IInv, PhaseInv, Stopping
<1>10. ListenInv'
  BY <1>1 DEF IInv, ListenInv, Stopping
<1>11. ClientInv'
  <2>1. Free \notin Clients
    BY ClientsAssumption DEF Free
  <2>2. \A f \in Fds : fd'[f] = fd[f] \/ fd'[f] \notin Clients
    BY <1>2, <2>1
  <2> QED BY <1>5, <2>2 DEF IInv, ClientInv, Unseen, OwnReply
<1>12. ConnInv'
  BY <1>1, <1>5 DEF ConnInv
<1>13. RingInv'
  <2>1. head \in Nat /\ \A j \in Slots : j \in Nat
    BY DEF IInv, ServerType, Slots
  <2>2. \A j \in Slots : ~InQueue(j)'
    BY <1>1, <2>1 DEF InQueue
  <2> QED BY <2>2 DEF RingInv
<1>14. HoldInv'
  BY DEF HoldInv, Holding, Working, Alive, Purged
<1> QED BY <1>3, <1>6, <1>7, <1>8, <1>9, <1>10, <1>11, <1>12, <1>13, <1>14, OwnFrame DEF IInv

-----------------------------------------------------------------------------
(* The application and the clients.                                        *)

(* The application opens a descriptor of its own,                          *)
LEMMA AppOpenKeeps ==
    ASSUME IInv, AppOpen
    PROVE  IInv'
<1> USE DEF AppOpen, srv, main, server, sender
<1> PICK f : f = Lowest
  OBVIOUS
<1>1. /\ f \in Fds /\ fd[f] = Free /\ fd' = [fd EXCEPT ![f] = App]
      /\ raced' = IF f = lsock THEN raced \cup {"stop"} ELSE raced
  BY LowestIsFree
<1>2. WorldType' /\ ClientInv' /\ ConnInv' /\ RingInv'
  BY <1>1, OpenedKeeps
<1>3. ServerType' /\ ThreadType' /\ PhaseInv'
  BY ServerFrame, ThreadFrame, PhaseFrame DEF IInv
<1>4. OwnInv'
  BY <1>1 DEF IInv, OwnInv
<1>5. \A g, m : Serves(g, m) => Serves(g, m)'
  BY <1>1, Opened DEF IInv, Owners
<1>6. ListenInv'
  <2>1. fd \in [Fds -> Owners]
    BY DEF IInv, WorldType
  <2>2. lsock # Invalid => lsock \in Fds
    BY DEF IInv, ThreadType, Sockets
  <2>3. CASE lsock = f
    <3>1. lsock # Invalid => fd'[lsock] = App /\ Stopping /\ "stop" \in raced'
      BY <1>1, <2>1, <2>3 DEF IInv, ListenInv, Listen, Free, App
    <3>2. srv_sock = Invalid
      BY <1>1, <2>3 DEF IInv, ListenInv, Listen, Free
    <3> QED BY <3>1, <3>2 DEF IInv, ListenInv, Stopping
  <2>4. CASE lsock # f
    <3>1. lsock # Invalid => fd'[lsock] = fd[lsock]
      BY <1>1, <2>1, <2>2, <2>4
    <3> QED BY <1>1, <2>4, <3>1 DEF IInv, ListenInv, Stopping
  <2> QED BY <2>3, <2>4
<1>7. HoldInv'
  BY <1>1, <1>5 DEF IInv, HoldInv, Holding, Working, Alive, Purged, InQueue, Present
<1> QED BY <1>2, <1>3, <1>4, <1>6, <1>7 DEF IInv

(* and closes it.                                                          *)
LEMMA AppCloseKeeps ==
    ASSUME IInv, AppClose
    PROVE  IInv'
<1> USE DEF AppClose, srv, main, server, sender
<1>1. PICK f \in Fds : fd[f] = App /\ fd' = [fd EXCEPT ![f] = Free]
  OBVIOUS
<1>2. App \notin Clients /\ App # Listen /\ App # Free
  BY ClientsAssumption DEF App, Listen, Free
<1>3. /\ WorldType' /\ ClientInv' /\ ConnInv' /\ RingInv'
      /\ \A g, m : Serves(g, m) => Serves(g, m)'
  BY <1>1, <1>2, ClosedKeeps
<1>4. ServerType' /\ ThreadType' /\ PhaseInv' /\ OwnInv'
  BY ServerFrame, ThreadFrame, PhaseFrame, OwnFrame DEF IInv
<1>5. ListenInv'
  <2>1. \A g \in Fds : /\ fd[g] \in {Listen, Free} => fd'[g] = fd[g]
                       /\ fd[g] = App => fd'[g] \in {App, Free}
    BY <1>1, <1>2 DEF IInv, WorldType
  <2> QED BY <2>1, ListenStays DEF IInv
<1>6. HoldInv'
  BY <1>3 DEF IInv, HoldInv, Holding, Working, Alive, Purged, InQueue, Present
<1> QED BY <1>3, <1>4, <1>5, <1>6 DEF IInv

(* A client connects.                                                      *)
LEMMA ClientConnectKeeps ==
    ASSUME IInv, NEW n \in Clients, NEW r \in Asks(n), ClientConnect(n, r)
    PROVE  IInv'
<1> USE DEF ClientConnect, srv, main, server, sender
<1>1. r \in Kinds /\ r # "none"
  BY RequestsAssumption DEF Asks, Kinds
<1>2. Unseen(n) /\ asked[n] = "none"
  BY DEF IInv, ClientInv
<1>3. /\ asked' \in [Clients -> Kinds \cup {"none"}]
      /\ asked'[n] = r
      /\ \A m \in Clients : m # n => asked'[m] = asked[m]
  BY <1>1 DEF IInv, WorldType
<1>4. WorldType'
  BY <1>3 DEF IInv, WorldType
<1>5. /\ ServerType' /\ ThreadType' /\ PhaseInv' /\ ListenInv' /\ OwnInv'
  BY ServerFrame, ThreadFrame, PhaseFrame, ListenFrame, OwnFrame DEF IInv
<1>6. ClientInv'
  <2>1. \A m : Unseen(m) => Unseen(m)'
    BY DEF Unseen, Present
  <2>2. OwnReply'
    BY <1>2, <1>3 DEF IInv, ClientInv, OwnReply, Unseen
  <2>3. \A m \in backlog' : asked'[m] # "none"
    BY <1>1, <1>3 DEF IInv, ClientInv, WorldType
  <2>4. \A m \in Clients : asked'[m] = "none" \/ m \in backlog' => Unseen(m)'
    BY <1>2, <1>3, <2>1 DEF IInv, ClientInv
  <2> QED BY <2>2, <2>3, <2>4 DEF IInv, ClientInv
<1>7. \A g, m : Serves(g, m) => Serves(g, m)' /\ m # n /\ asked'[m] = asked[m]
  BY <1>2, <1>3 DEF Serves, Unseen
<1>8. ConnInv'
  BY <1>2, <1>3, <1>7 DEF IInv, ConnInv, Unseen, Present
<1>9. RingInv'
  BY <1>7 DEF IInv, RingInv, InQueue, Pending, Present
<1>10. HoldInv'
  <2>1. spc \in {"cached", "preflight"} => Serves(csock, peer)
    BY ReceivesFromPeer DEF Working
  <2>2. spc \in {"cached", "preflight"} => asked'[peer] = asked[peer]
    BY <1>7, <2>1
  <2> QED BY <1>7, <2>2 DEF IInv, HoldInv, Holding, Working, Alive, Purged, InQueue, Present
<1> QED BY <1>4, <1>5, <1>6, <1>8, <1>9, <1>10 DEF IInv

-----------------------------------------------------------------------------
(* The invariant holds of a server that was not started.                   *)
LEMMA IInvInit == Init => IInv
<1> SUFFICES ASSUME Init PROVE IInv
  OBVIOUS
<1> USE DEF Init
<1>1. Free \notin Clients /\ App \notin Clients
  BY ClientsAssumption DEF Free, App
<1>2. 0 \in 0..PurgeRetry /\ 0 \in Fds /\ 0 \in 0..RecvRetry /\ 0 \in 0..BindRetry /\ 0 \in Slots
  BY BoundsAssumption DEF Fds, Slots
<1>3. Removed \in Connections /\ Removed.id = 0 /\ NoReply \in Replies
  BY <1>2 DEF Removed, Connections, NoReply, Replies, Sockets
<1>4. \A f \in Fds : fd[f] \notin Clients
  BY <1>1
<1>5. Present = {}
  BY <1>3 DEF Present
<1>6. WorldType
  BY DEF WorldType, Owners
<1>7. ServerType
  BY <1>2, <1>3 DEF ServerType, Sockets, Slots
<1>8. ThreadType
  BY <1>2 DEF ThreadType, Sockets
<1>9. PhaseInv /\ ListenInv /\ OwnInv
  BY DEF PhaseInv, ListenInv, OwnInv, Stopping
<1>10. ClientInv
  BY <1>4, <1>5 DEF ClientInv, Unseen, OwnReply
<1>11. ConnInv
  BY <1>3, <1>5 DEF ConnInv
<1>12. RingInv
  BY DEF RingInv, InQueue, Slots
<1>13. HoldInv
  BY DEF HoldInv, Holding, Working, Alive, Purged
<1> QED BY <1>6, <1>7, <1>8, <1>9, <1>10, <1>11, <1>12, <1>13 DEF IInv

(* The history of races only grows.                                        *)
LEMMA RacedGrows == [Next]_vars => raced \subseteq raced'
BY DEF Next, vars, world, SenderStep, ServerStep, MainStep, SenderLoop, SenderGet, SenderSend,
       ServerInit, ServerLoop, ServerAccept, ServerConnect, ServerRecv, ServerCheck,
       ServerPreflight, ServerEnqueue, ServerEnqueueLocked, ServerCached, ServerGiveUp,
       ServerGiveClose, ServerDone, DequeueBegin, DequeueVisit, HandleRequest, AgeConnection,
       DequeueEnd, JoinServer, JoinSender, Start, StopBegin, EmulateRequest, CacheExpire,
       AppOpen, AppClose, ClientConnect

(* Every step keeps it, unless it is the purge that nobody notices.        *)
LEMMA IInvNext ==
    ASSUME IInv, "reply" \notin raced', [Next]_vars
    PROVE  IInv'
<1>1. CASE SenderStep
  BY <1>1, SenderLoopKeeps, SenderGetKeeps, SenderSendKeeps DEF SenderStep
<1>2. CASE ServerStep
  BY <1>2, ServerInitKeeps, ServerLoopKeeps, ServerAcceptKeeps, ServerConnectKeeps,
     ServerRecvKeeps, ServerCheckKeeps, ServerPreflightKeeps, ServerEnqueueKeeps,
     ServerEnqueueLockedKeeps, ServerCachedKeeps, ServerGiveUpKeeps, ServerGiveCloseKeeps,
     ServerDoneKeeps DEF ServerStep
<1>3. CASE MainStep
  BY <1>3, DequeueBeginKeeps, DequeueVisitKeeps, DequeueEndKeeps, JoinServerKeeps,
     JoinSenderKeeps DEF MainStep
<1>4. CASE Start \/ StopBegin \/ EmulateRequest \/ CacheExpire \/ AppOpen \/ AppClose
  BY <1>4, StartKeeps, StopBeginKeeps, EmulateRequestKeeps, CacheExpireKeeps, AppOpenKeeps,
     AppCloseKeeps
<1>5. CASE \E n \in Clients : \E r \in Asks(n) : ClientConnect(n, r)
  BY <1>5, ClientConnectKeeps
<1>6. CASE UNCHANGED vars
  BY <1>6, WorldFrame, ServerFrame, ThreadFrame, PhaseFrame, ListenFrame, ClientFrame,
     ConnFrame, RingFrame, HoldFrame, OwnFrame
     DEF IInv, vars, world, srv, main, server, sender
<1> QED BY <1>1, <1>2, <1>3, <1>4, <1>5, <1>6 DEF Next

(* What the invariant says of the queue: a reply goes to an open socket    *)
(* that no connection has.                                                 *)
LEMMA QueueInOrder == IInv => RepliesSent /\ QueuedSocketsOpen
<1> SUFFICES ASSUME IInv PROVE RepliesSent /\ QueuedSocketsOpen
  OBVIOUS
<1>1. RepliesSent
  BY DEF IInv, PhaseInv, RepliesSent
<1>2. ASSUME NEW r \in Queued
      PROVE  fd[r.sock] = r.for /\ \A i \in Present : conns[i].sock # r.sock
  <2>1. PICK j \in Slots : InQueue(j) /\ r = ring[j]
    BY DEF Queued, InQueue, Slots
  <2>2. Pending(r)
    BY <2>1 DEF IInv, RingInv
  <2>3. ASSUME NEW i \in Present, conns[i].sock = r.sock PROVE FALSE
    <3>1. conns[i].sock # Invalid
      BY <2>2, <2>3 DEF Pending, Serves, Fds, Invalid
    <3>2. fd[conns[i].sock] = conns[i].for
      BY <3>1 DEF IInv, ConnInv, Serves, Present
    <3> QED BY <2>2, <2>3, <3>2 DEF Pending, Serves
  <2> QED BY <2>2, <2>3 DEF Pending, Serves
<1> QED BY <1>1, <1>2 DEF QueuedSocketsOpen

-----------------------------------------------------------------------------
(* The invariant, until a connection is purged where nobody looks at it    *)
(* again.                                                                  *)
SafeInv == "reply" \notin raced => IInv

LEMMA SafeInvAlways == Spec => []SafeInv
<1>1. Init => SafeInv
  BY IInvInit DEF SafeInv
<1>2. SafeInv /\ [Next]_vars => SafeInv'
  BY RacedGrows, IInvNext DEF SafeInv
<1> QED BY <1>1, <1>2, PTL DEF Spec

(* In every state of a run with any number of starts and stops, until a    *)
(* purge falls between is_alive and what the server thread does without    *)
(* the lock: types are kept, the sender does not end before the last       *)
(* reply, and replies in the queue have an open socket of their own        *)
(* (http_send_queue_post, http_server_send_queue).                         *)
THEOREM ServerCorrect == Spec => []("reply" \notin raced => ServerInv)
<1>1. IInv => TypeOK
  BY DEF IInv, TypeOK, WorldType, ServerType, ThreadType, ConnInv, Kinds, Sockets, Slots,
         Connections
<1>2. SafeInv => ("reply" \notin raced => ServerInv)
  BY <1>1, QueueInOrder DEF ServerInv, SafeInv
<1> QED BY <1>2, SafeInvAlways, PTL

(* Whatever main purges and the application opens, also while the server   *)
(* thread is in recv: the only descriptors of somebody else that a thread  *)
(* uses are the one that it receives on after such a purge, and the number *)
(* of the listening socket in accept and close after it was given away     *)
(* during a stop (http_recv_connection, http_dequeue_requests,             *)
(* http_accept_connections).                                               *)
THEOREM DescriptorsOwned == Spec => []OwnDescriptors
<1>1. SafeInv => OwnDescriptors
  BY DEF SafeInv, IInv, OwnInv, OwnDescriptors
<1> QED BY <1>1, SafeInvAlways, PTL

(* A client gets at most one reply, which is the one to its own request or *)
(* "busy", also if connections are purged while their requests arrive      *)
(* (http_send_reply, http_dequeue_requests).                               *)
THEOREM RepliesRight == Spec => []RightReply
<1>1. SafeInv => RightReply
  BY DEF SafeInv, IInv, ClientInv, OwnReply, RightReply
<1> QED BY <1>1, SafeInvAlways, PTL
=============================================================================

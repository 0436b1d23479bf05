----------------------------- MODULE HttpServer ------------------------------
(***************************************************************************)
(* The threads of the HTTP server (src/addons/http/http.c): a server       *)
(* thread accepts connections and receives requests, the main thread       *)
(* handles them in ecs_http_server_dequeue, and a third thread sends the   *)
(* replies that are in a ring.                                             *)
(*                                                                         *)
(* A section under srv->lock is one step, except that main keeps the lock  *)
(* from DequeueBegin to DequeueEnd and the server thread while it sends a  *)
(* cached reply. Sockets are file descriptors, which the operating system  *)
(* hands out again, lowest first; descriptor 0 is the application's.       *)
(***************************************************************************)
EXTENDS Integers, Sequences, FiniteSets, FiniteSetsExt

CONSTANTS Clients,      \* clients, each of which connects once
          Requests,     \* what client 1 may ask: "get", "put", "options", "bad"
          MaxFd,        \* largest descriptor
          QueueMax,     \* ECS_HTTP_SEND_QUEUE_MAX
          RecvRetry,    \* ECS_HTTP_REQUEST_RECV_RETRY
          BindRetry,    \* ports that are tried
          PurgeRetry,   \* ECS_HTTP_CONNECTION_PURGE_RETRY_COUNT
          Emulates,     \* whether the application handles requests of its own
                        \* while the server runs
          MaxStarts     \* bound on ecs_http_server_start

ASSUME ClientsAssumption == Clients \subseteq Nat \ {0} /\ IsFiniteSet(Clients)
ASSUME RequestsAssumption == Requests \subseteq {"get", "put", "options", "bad"}
ASSUME BoundsAssumption ==
    /\ Emulates \in BOOLEAN
    /\ {MaxFd, PurgeRetry, MaxStarts} \subseteq Nat
    /\ {RecvRetry, BindRetry} \subseteq Nat \ {0}
    /\ QueueMax \in Nat \ {0, 1}

(* Clients are alike: what is asked beside "get" is asked by client 1.      *)
Asks(n) == IF n = 1 THEN Requests ELSE {"get"}

Fds == 0..MaxFd
Invalid == -1                           \* HTTP_SOCKET_INVALID
Free == 0
App == -1
Listen == -2
Owners == Clients \cup {Free, App, Listen}

VARIABLES
    fd,         \* what each descriptor is: a client's socket, Free, App, Listen
    misused,    \* history: operations on a descriptor or memory of someone else
    raced,      \* history: what was closed, and where, under the server thread
    asked,      \* request of each client, "none" before it connects
    backlog,    \* clients that wait to be accepted
    got,        \* history: replies each client received
    should_run, srv_sock, thread, starts,
    conns,      \* srv->connections: socket, request and retries of each id
    cache,      \* srv->request_cache for the one GET: "none" or "fresh"
    ring, head, tail,          \* srv->send_queue
    mpc, todo,                 \* main thread, connections it has yet to visit
    spc, lsock, csock, conn, retries, errno, ret, tries,  \* server thread
    peer,                      \* history: the client that csock was opened for
    qpc, out                   \* send thread and the entry it took

world == <<fd, misused, raced, asked, backlog, got>>
srv   == <<should_run, srv_sock, thread, starts, conns, cache, ring, head, tail>>
main  == <<mpc, todo>>
server == <<spc, lsock, csock, conn, retries, errno, ret, tries, peer>>
sender == <<qpc, out>>
vars == <<world, srv, main, server, sender>>

-----------------------------------------------------------------------------
(* Descriptors.                                                            *)

FreeFds == {f \in Fds : fd[f] = Free}
Lowest == Min(FreeFds)

(* Someone uses descriptor f as the one that owner o had opened: nothing   *)
(* happens if it is closed, and it is a mistake if it is another's.        *)
Use(what, f, o) ==
    misused' = IF f \in Fds /\ fd[f] \notin {Free, o} THEN misused \cup {what} ELSE misused

(* http_close.                                                             *)
Close(f, o) ==
    /\ fd' = IF f \in Fds THEN [fd EXCEPT ![f] = Free] ELSE fd
    /\ Use("close", f, o)

(* What goes out on a socket reaches the client at its other end.          *)
Deliver(f, reply) ==
    got' = IF f \in Fds /\ fd[f] \in Clients
           THEN [got EXCEPT ![fd[f]] = Append(@, reply)] ELSE got

(* The application's own descriptors.                                      *)
Stopping == mpc \in {"joinserver", "joinsender"}

AppOpen == /\ FreeFds # {}
           /\ \A f \in Fds : f # 0 => fd[f] # App      \* at most one open file
           /\ fd' = [fd EXCEPT ![Lowest] = App]
           /\ raced' = IF Lowest = lsock THEN raced \cup {"stop"} ELSE raced
           /\ UNCHANGED <<misused, asked, backlog, got, srv, main, server, sender>>

AppClose == /\ \E f \in Fds \ {0} : fd[f] = App /\ fd' = [fd EXCEPT ![f] = Free]
            /\ UNCHANGED <<misused, raced, asked, backlog, got, srv, main, server, sender>>

(* A client connects, if the server listens.                               *)
ClientConnect(n, r) ==
    /\ asked[n] = "none"
    /\ \E f \in Fds : fd[f] = Listen
    /\ asked' = [asked EXCEPT ![n] = r]
    /\ backlog' = backlog \cup {n}
    /\ UNCHANGED <<fd, misused, raced, got, srv, main, server, sender>>

-----------------------------------------------------------------------------
(* The send queue.                                                         *)

Next1(i) == (i + 1) % QueueMax
NoReply == [sock |-> Invalid, for |-> 0, reply |-> "none"]

(* http_send_queue_post finds room.                                        *)
CanPost == Next1(head) # tail /\ should_run

(* http_send_reply for the connection's socket f, under the lock: enqueue, *)
(* or else answer that the server is busy and close.                       *)
SendReply(f, n, reply) ==
    IF CanPost
    THEN /\ ring' = [ring EXCEPT ![head] = [sock |-> f, for |-> n, reply |-> reply]]
         /\ head' = Next1(head)
         /\ UNCHANGED <<tail, fd, misused, got>>
    ELSE /\ Deliver(f, "busy")
         /\ Close(f, n)
         /\ UNCHANGED <<ring, head, tail>>

(* http_server_send_queue. Its loop condition is read without the lock.    *)
(* Faulty variant: pending replies are dropped when the server stops.      *)
SenderLoopRunning ==
    /\ qpc = "loop"
    /\ qpc' = IF should_run THEN "get" ELSE "ended"
    /\ UNCHANGED <<out, world, srv, main, server>>

SenderLoop ==
    /\ qpc = "loop"
    /\ qpc' = IF should_run \/ head # tail THEN "get" ELSE "ended"
    /\ UNCHANGED <<out, world, srv, main, server>>

Locked == mpc = "dequeue" \/ spc = "cached"

(* http_send_queue_get; it sleeps if there is nothing.                     *)
SenderGet ==
    /\ qpc = "get"
    /\ ~Locked
    /\ IF head = tail
       THEN qpc' = "loop" /\ UNCHANGED <<out, ring, tail>>
       ELSE /\ qpc' = "send"
            /\ out' = ring[tail]
            /\ ring' = [ring EXCEPT ![tail] = NoReply]
            /\ tail' = Next1(tail)
    /\ UNCHANGED <<world, should_run, srv_sock, thread, starts, conns, cache,
                   head, main, server>>

SenderSend ==
    /\ qpc = "send"
    /\ qpc' = "loop"
    /\ out' = NoReply
    /\ Deliver(out.sock, out.reply)
    /\ Close(out.sock, out.for)
    /\ UNCHANGED <<raced, asked, backlog, srv, main, server>>

-----------------------------------------------------------------------------
(* The server thread. The locals of a connection end with it.              *)

locals == <<csock, conn, retries, peer>>
NextConnection == /\ spc' = "loop"
                  /\ csock' = Invalid /\ conn' = 0 /\ retries' = 0 /\ peer' = 0

(* http_accept_connections up to its loop. Binding fails because the port  *)
(* is in use (ret = 1) or for another reason.                              *)
ServerInit ==
    /\ spc = "init"
    /\ ~Locked
    /\ \/ /\ ~should_run
          /\ spc' = "loop" /\ lsock' = Invalid /\ ret' = 0
          /\ UNCHANGED <<fd, srv_sock>>
       \/ /\ should_run
          /\ FreeFds # {}
          /\ fd' = [fd EXCEPT ![Lowest] = Listen]
          /\ lsock' = Lowest
          /\ \/ spc' = "loop" /\ srv_sock' = Lowest /\ ret' = 0
             \/ spc' = "done" /\ ret' \in {0, 1} /\ UNCHANGED srv_sock
    /\ errno' = "other"
    /\ UNCHANGED <<csock, conn, retries, tries, peer, misused, raced, asked, backlog, got, should_run,
                   thread, starts, conns, cache, ring, head, tail, main, sender>>

(* The loop condition, and srv->sock as an argument of accept, both read   *)
(* without the lock.                                                       *)
ServerLoop ==
    /\ spc = "loop"
    /\ spc' = IF should_run THEN "accept" ELSE "done"
    /\ csock' = IF should_run THEN srv_sock ELSE csock
    /\ UNCHANGED <<lsock, conn, retries, errno, ret, tries, peer, world, srv, main, sender>>

(* accept. It times out every second; when the socket is closed the error  *)
(* depends on whether the call had begun.                                  *)
ServerAccept ==
    /\ spc = "accept"
    /\ Use("accept", csock, Listen)
    /\ \/ /\ csock \in Fds /\ fd[csock] = Listen /\ FreeFds # {}
          /\ \E n \in backlog :
                /\ fd' = [fd EXCEPT ![Lowest] = n]
                /\ backlog' = backlog \ {n}
                /\ peer' = n
          /\ csock' = Lowest
          /\ spc' = "connect"
          /\ UNCHANGED <<errno, conn, retries>>
       \/ /\ errno' \in IF csock \notin Fds THEN {"EBADF"}
                        ELSE IF fd[csock] = Free THEN {"EBADF", "other"} ELSE {"other"}
          /\ NextConnection
          /\ UNCHANGED <<fd, backlog>>
    /\ UNCHANGED <<lsock, ret, tries, raced, asked, got, srv, main, sender>>

(* http_init_connection. Ids of removed connections are used again: the    *)
(* sparse set is not told to count generations. A removed connection is    *)
(* zeroed memory, with descriptor 0.                                       *)
ConnIds == 1..Cardinality(Clients)
Removed == [sock |-> 0, for |-> 0, id |-> 0, request |-> "none", retries |-> 0]
Present == {i \in ConnIds : conns[i].id # 0}
NewConn == Min(ConnIds \ Present)

ServerConnect ==
    /\ spc = "connect"
    /\ ~Locked
    /\ conn' = NewConn
    /\ conns' = [conns EXCEPT ![NewConn] =
                   [Removed EXCEPT !.sock = csock, !.for = peer, !.id = NewConn]]
    /\ retries' = 0
    /\ spc' = "recv"
    /\ UNCHANGED <<lsock, csock, errno, ret, tries, peer, world, should_run, srv_sock,
                   thread, starts, cache, ring, head, tail, main, sender>>

(* http_recv_connection: receive on the socket, of which the thread has a  *)
(* copy. Data may take a while, and is read once.                          *)
ServerRecv ==
    /\ spc = "recv"
    /\ Use("recv", csock, peer)
    /\ \/ /\ fd[csock] # Free
          /\ spc' = "check"
          /\ UNCHANGED <<retries, errno>>
       \/ /\ retries' = retries + 1
          /\ errno' = IF fd[csock] = Free THEN "EBADF" ELSE "other"
          /\ spc' = IF retries' < RecvRetry THEN "recv" ELSE "giveup"
    /\ UNCHANGED <<lsock, csock, conn, ret, tries, peer, fd, raced, asked, backlog, got,
                   srv, main, sender>>

(* Faulty variant of ServerCheck: without is_alive.                        *)
ServerCheckAlways ==
    /\ spc = "check"
    /\ IF asked[peer] = "bad"
       THEN NextConnection
       ELSE /\ spc' = IF asked[peer] = "options" THEN "preflight" ELSE "enqueue"
            /\ UNCHANGED locals
    /\ UNCHANGED <<lsock, errno, ret, tries, world, srv, main, sender>>

(* is_alive, without the lock. A request that is cut short or not valid    *)
(* leaves the connection to be purged.                                     *)
ServerCheck ==
    /\ spc = "check"
    /\ IF conns[conn].id # conn \/ asked[peer] = "bad"
       THEN NextConnection
       ELSE /\ spc' = IF asked[peer] = "options" THEN "preflight" ELSE "enqueue"
            /\ UNCHANGED locals
    /\ UNCHANGED <<lsock, errno, ret, tries, world, srv, main, sender>>

(* http_send_reply for a preflight request, without the lock.              *)
ServerPreflight ==
    /\ spc = "preflight"
    /\ NextConnection
    /\ Deliver(conns[conn].sock, "options")
    /\ Close(conns[conn].sock, conns[conn].for)
    /\ conns' = [conns EXCEPT ![conn].sock = Invalid]
    /\ UNCHANGED <<lsock, errno, ret, tries, raced, asked, backlog,
                   should_run, srv_sock, thread, starts, cache, ring, head, tail,
                   main, sender>>

(* http_enqueue_request reads conn->pub.server before it takes the lock.   *)
ServerEnqueue ==
    /\ spc = "enqueue"
    /\ spc' = "locked"
    /\ misused' = IF conns[conn].id = 0 THEN misused \cup {"server"} ELSE misused
    /\ UNCHANGED <<lsock, csock, conn, retries, errno, ret, tries, peer, fd, raced, asked,
                   backlog, got, srv, main, sender>>

(* Under the lock: a GET with a fresh entry in the cache is answered by    *)
(* this thread, which keeps the lock; another request is left to main.     *)
ServerEnqueueLocked ==
    /\ spc = "locked"
    /\ ~Locked
    /\ CASE conns[conn].id # conn ->
              NextConnection /\ UNCHANGED conns
         [] conns[conn].id = conn /\ asked[peer] = "get" /\ cache = "fresh" ->
              spc' = "cached" /\ UNCHANGED <<conns, locals>>
         [] OTHER ->
              /\ NextConnection
              /\ conns' = [conns EXCEPT ![conn].request = asked[peer]]
    /\ UNCHANGED <<lsock, errno, ret, tries, world, should_run, srv_sock, thread,
                   starts, cache, ring, head, tail, main, sender>>

ServerCached ==
    /\ spc = "cached"
    /\ NextConnection
    /\ SendReply(conns[conn].sock, conns[conn].for, "get")
    /\ conns' = [conns EXCEPT ![conn] = Removed]
    /\ UNCHANGED <<lsock, errno, ret, tries, raced, asked, backlog,
                   should_run, srv_sock, thread, starts, cache, main, sender>>

(* Nothing was received. The thread closes the socket if it is still the   *)
(* connection's, after the lock is released.                               *)
ServerGiveUp ==
    /\ spc = "giveup"
    /\ ~Locked
    /\ IF conns[conn].id = conn
       THEN /\ spc' = "giveclose"
            /\ conns' = [conns EXCEPT ![conn].sock = Invalid]
            /\ UNCHANGED locals
       ELSE NextConnection /\ UNCHANGED conns
    /\ UNCHANGED <<lsock, errno, ret, tries, world, should_run, srv_sock, thread,
                   starts, cache, ring, head, tail, main, sender>>

ServerGiveClose ==
    /\ spc = "giveclose"
    /\ NextConnection
    /\ Close(csock, peer)
    /\ UNCHANGED <<lsock, errno, ret, tries, raced, asked, backlog,
                   got, srv, main, sender>>

(* The end of http_accept_connections closes the thread's copy of the      *)
(* listening socket, unless errno says that it is closed.                  *)
ServerDone ==
    /\ spc = "done"
    /\ ~Locked
    /\ IF lsock # Invalid /\ errno # "EBADF"
       THEN Close(lsock, Listen) /\ srv_sock' = Invalid
       ELSE UNCHANGED <<fd, misused, srv_sock>>
    /\ tries' = tries + ret
    /\ spc' = IF ret = 1 /\ tries' < BindRetry THEN "init" ELSE "ended"
    /\ lsock' = Invalid
    /\ backlog' = {}
    /\ UNCHANGED <<csock, conn, retries, errno, ret, peer, raced, asked, got,
                   should_run, thread, starts, conns, cache, ring, head, tail,
                   main, sender>>

-----------------------------------------------------------------------------
(* The main thread.                                                        *)

Idle == mpc = "idle"

Start ==
    /\ Idle
    /\ ~should_run /\ ~thread
    /\ starts < MaxStarts
    /\ starts' = starts + 1
    /\ should_run' = TRUE /\ thread' = TRUE
    /\ spc' = "init" /\ tries' = 0
    /\ qpc' = "loop"
    /\ UNCHANGED <<world, srv_sock, conns, cache, ring, head, tail, main, out,
                   lsock, csock, conn, retries, errno, ret, peer>>

(* ecs_http_server_dequeue, http_dequeue_requests.                         *)
DequeueBegin ==
    /\ Idle
    /\ should_run
    /\ ~Locked
    /\ mpc' = "dequeue"
    /\ todo' = Present
    /\ UNCHANGED <<world, srv, server, sender>>

(* Faulty variant of HandleRequest: the connection stays.                  *)
HandleRequestKeepsConnection(i) ==
    /\ conns[i].request # "none"
    /\ cache' = IF conns[i].request = "get" THEN "fresh" ELSE cache
    /\ SendReply(conns[i].sock, conns[i].for, conns[i].request)
    /\ UNCHANGED <<conns, raced>>

(* http_handle_request: run the callback, remember the answer to a GET,    *)
(* reply, and remove the connection.                                       *)
HandleRequest(i) ==
    /\ conns[i].request # "none"
    /\ cache' = IF conns[i].request = "get" THEN "fresh" ELSE cache
    /\ SendReply(conns[i].sock, conns[i].for, conns[i].request)
    /\ conns' = [conns EXCEPT ![i] = Removed]
    /\ UNCHANGED raced

(* Faulty variant of Expired: connections are not purged.                  *)
ExpiredNever(i) == FALSE

(* dequeue_timeout and dequeue_retries, whatever the server thread does.   *)
Expired(i) == conns[i].retries >= PurgeRetry

(* Where the server thread is with the connection it works on: in recv, or *)
(* after is_alive, when it uses the connection without the lock.           *)
Window == CASE spc = "recv" -> {"receive"}
            [] spc \in {"preflight", "enqueue"} -> {"reply"}
            [] OTHER -> {}

(* A connection without a request grows older, and is closed.              *)
AgeConnection(i) ==
    /\ conns[i].request = "none"
    /\ IF Expired(i)
       THEN /\ Close(conns[i].sock, conns[i].for)
            /\ conns' = [conns EXCEPT ![i] = Removed]
            /\ raced' = IF i = conn THEN raced \cup Window ELSE raced
       ELSE /\ conns' = [conns EXCEPT ![i].retries = Min({@ + 1, PurgeRetry})]
            /\ UNCHANGED <<fd, misused, raced>>
    /\ UNCHANGED <<got, cache, ring, head, tail>>

DequeueVisit ==
    /\ mpc = "dequeue"
    /\ \E i \in todo : /\ HandleRequest(i) \/ AgeConnection(i)
                       /\ todo' = todo \ {i}
    /\ UNCHANGED <<mpc, asked, backlog, should_run, srv_sock, thread, starts, server, sender>>

(* http_purge_request_cache drops what has expired long ago.               *)
DequeueEnd ==
    /\ mpc = "dequeue"
    /\ todo = {}
    /\ mpc' = "idle"
    /\ UNCHANGED <<todo, world, srv, server, sender>>

(* An entry of the cache passes cache_timeout: it is not found any more,   *)
(* and replaced by the next answer if it has not been purged by then.      *)
CacheExpire ==
    /\ cache = "fresh"
    /\ cache' = "none"
    /\ UNCHANGED <<world, should_run, srv_sock, thread, starts, conns, ring, head,
                   tail, main, server, sender>>

(* ecs_http_server_http_request: a GET that does not go through a socket,  *)
(* handled without the lock.                                               *)
EmulateRequest ==
    /\ Idle
    /\ should_run => Emulates
    /\ cache' = "fresh"
    /\ misused' = IF cache' # cache /\ spc = "cached" THEN misused \cup {"cache"} ELSE misused
    /\ UNCHANGED <<fd, raced, asked, backlog, got, should_run, srv_sock, thread, starts, conns,
                   ring, head, tail, main, server, sender>>

(* ecs_http_server_stop.                                                   *)
StopBegin ==
    /\ Idle
    /\ should_run
    /\ ~Locked
    /\ should_run' = FALSE
    /\ Close(srv_sock, Listen)
    /\ srv_sock' = Invalid
    /\ backlog' = {}
    /\ mpc' = "joinserver"
    /\ UNCHANGED <<todo, raced, asked, got, thread, starts, conns, cache, ring, head, tail,
                   server, sender>>

JoinServer ==
    /\ mpc = "joinserver"
    /\ spc = "ended"
    /\ mpc' = "joinsender"
    /\ UNCHANGED <<todo, world, srv, server, sender>>

(* Both threads have ended: free the connections that are left.            *)
JoinSender ==
    /\ mpc = "joinsender"
    /\ qpc = "ended"
    /\ mpc' = "idle"
    /\ LET socks == {conns[i].sock : i \in Present}
       IN  /\ fd' = [f \in Fds |-> IF f \in socks THEN Free ELSE fd[f]]
           /\ misused' = IF \E i \in Present : conns[i].sock \in Fds
                                               /\ fd[conns[i].sock] # conns[i].for
                         THEN misused \cup {"close"} ELSE misused
    /\ conns' = [i \in ConnIds |-> Removed]
    /\ thread' = FALSE
    /\ spc' = "off" /\ qpc' = "off"
    /\ UNCHANGED <<todo, raced, asked, backlog, got, should_run, srv_sock, starts, cache, ring,
                   head, tail, lsock, csock, conn, retries, errno, ret, tries, peer, out>>

-----------------------------------------------------------------------------
Init == /\ fd = [f \in Fds |-> IF f = 0 THEN App ELSE Free]
        /\ misused = {} /\ raced = {}
        /\ asked = [n \in Clients |-> "none"]
        /\ backlog = {}
        /\ got = [n \in Clients |-> <<>>]
        /\ should_run = FALSE /\ thread = FALSE /\ starts = 0
        /\ srv_sock = Invalid
        /\ conns = [i \in ConnIds |-> Removed]
        /\ cache = "none"
        /\ ring = [i \in 0..(QueueMax - 1) |-> NoReply]
        /\ head = 0 /\ tail = 0
        /\ mpc = "idle" /\ todo = {}
        /\ spc = "off" /\ lsock = Invalid /\ csock = Invalid /\ conn = 0
        /\ retries = 0 /\ errno = "other" /\ ret = 0 /\ tries = 0 /\ peer = 0
        /\ qpc = "off" /\ out = NoReply

SenderStep == SenderLoop \/ SenderGet \/ SenderSend
ServerStep == \/ ServerInit \/ ServerLoop \/ ServerAccept \/ ServerConnect \/ ServerRecv
              \/ ServerCheck \/ ServerPreflight \/ ServerEnqueue \/ ServerEnqueueLocked
              \/ ServerCached \/ ServerGiveUp \/ ServerGiveClose \/ ServerDone
MainStep == DequeueBegin \/ DequeueVisit \/ DequeueEnd \/ JoinServer \/ JoinSender

Next == \/ SenderStep \/ ServerStep \/ MainStep
        \/ Start \/ StopBegin \/ EmulateRequest \/ CacheExpire
        \/ AppOpen \/ AppClose
        \/ \E n \in Clients : \E r \in Asks(n) : ClientConnect(n, r)

(* Every thread runs, none of the server's is starved of the lock, and the *)
(* application calls ecs_http_server_dequeue in every frame.               *)
Fairness == SF_vars(SenderStep) /\ SF_vars(ServerStep) /\ WF_vars(MainStep)

Spec == Init /\ [][Next]_vars /\ Fairness

-----------------------------------------------------------------------------
(* Properties.                                                             *)

(* Types; the connections and the ring hold what the threads put there.    *)
TypeOK ==
    /\ fd \in [Fds -> Owners]
    /\ asked \in [Clients -> Requests \cup {"get", "none"}]
    /\ backlog \subseteq Clients
    /\ {should_run, thread} \subseteq BOOLEAN
    /\ srv_sock \in Fds \cup {Invalid}
    /\ \A i \in ConnIds : conns[i].id \in {0, i} /\ conns[i].retries \in 0..PurgeRetry
    /\ {head, tail} \subseteq 0..(QueueMax - 1)
    /\ mpc \in {"idle", "dequeue", "joinserver", "joinsender"}
    /\ Present = {} \/ thread
    /\ tries \in 0..BindRetry /\ retries \in 0..RecvRetry

(* A connection can be purged while the server thread receives its request,*)
(* and the number of the listening socket be given away before the thread  *)
(* has closed its copy. Unless the purge falls between is_alive and what   *)
(* the thread does without the lock, the first has no effect but a recv on *)
(* what may be somebody else's, and the second none but an accept and a    *)
(* close of it; otherwise every thread uses its own descriptors, and no    *)
(* connection that was removed.                                            *)
OwnDescriptors ==
    "reply" \notin raced =>
       /\ misused \subseteq {"recv", "accept", "close", "cache"}
       /\ "receive" \notin raced => "recv" \notin misused
       /\ "stop" \notin raced => {"accept", "close"} \cap misused = {}

(* "Connection has been purged by main thread": the server thread uses     *)
(* neither its socket nor its memory from then on.                         *)
PurgedNotUsed == {"recv", "server"} \cap misused = {}

(* A descriptor is closed by the one thread that owns it: "unless errno    *)
(* says that it is closed" has to be enough at the end of the server       *)
(* thread.                                                                 *)
ClosedByOwner == "close" \notin misused

(* The lock that is handed from http_enqueue_request to its caller keeps   *)
(* the entry it found in the cache as it is.                               *)
CachedEntryKept == "cache" \notin misused

(* A client gets one reply at most, and it is the one to its own request   *)
(* or "busy", although sockets, ids and slots of the queue are reused, and *)
(* connections purged while their requests arrive.                         *)
RightReply ==
    "reply" \notin raced =>
       \A n \in Clients :
          got[n] = <<>> \/ \E r \in {asked[n], "busy"} : got[n] = <<r>>

(* The send thread does not end before the last reply is sent: "no new     *)
(* messages will be enqueued" once the server is stopping.                 *)
RepliesSent == qpc = "ended" => head = tail

Queued == {ring[i] : i \in {j \in 0..(QueueMax - 1) :
              IF tail <= head THEN tail <= j /\ j < head ELSE tail <= j \/ j < head}}

(* A reply in the queue goes to a socket that is open, and nobody else     *)
(* closes.                                                                 *)
QueuedSocketsOpen ==
    \A r \in Queued : fd[r.sock] = r.for /\ \A i \in Present : conns[i].sock # r.sock

(* Connections and the ring of replies are in order: replies have their    *)
(* sockets, and the thread that sends them does not end too early.         *)
ServerInv ==
    /\ TypeOK
    /\ RepliesSent
    /\ "reply" \notin raced => QueuedSocketsOpen

Busy == Stopping \/ \E f \in Fds : fd[f] \in Clients

(* Every connection is answered or closed in the end, and a call of        *)
(* ecs_http_server_stop returns, also if the two happen at a time.         *)
ServerSettles == Busy ~> ~Busy
=============================================================================

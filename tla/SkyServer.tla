------------------------------ MODULE SkyServer ------------------------------
(***************************************************************************)
(* The life of a connection: the main thread that accepts and dispatches   *)
(* (src/core/server.cpp), the Connection objects that the workers read     *)
(* from and write to (src/core/connection.cpp), the epoll registrations    *)
(* that decide who may touch a connection (src/core/epoll_manager.cpp),    *)
(* and the sockets and clients around them.  The thread pool is the FIFO   *)
(* queue of module TaskQueue.                                              *)
(*                                                                         *)
(* A client connects once, so a client also names its Connection object.   *)
(* A request is Pieces segments, a response RespSize units; a client in    *)
(* Malformed sends a first segment that parseHeader refuses, which is      *)
(* answered (400) although the rest has not arrived.  The model follows    *)
(* the server from its construction until run() returns.                   *)
(***************************************************************************)
EXTENDS Naturals, FiniteSets, Sequences

CONSTANTS Clients, Malformed,  \* the clients; those whose request is refused
          Workers,             \* the worker threads
          Fds, NoFd,           \* descriptors left for clients (RLIMIT_NOFILE)
          NoConn, NoTask,
          Pieces,              \* segments of a request
          RespSize,            \* units of a response
          SndCap               \* units the kernel's send buffer holds

ASSUME ServerAssumption ==
    /\ IsFiniteSet(Clients) /\ IsFiniteSet(Workers) /\ IsFiniteSet(Fds)
    /\ Malformed \subseteq Clients
    /\ Workers # {} /\ Workers \cap {"main", "nobody"} = {}
    /\ NoFd \notin Fds
    /\ NoConn \notin Clients
    /\ Pieces \in Nat \ {0}
    /\ RespSize \in Nat \ {0}
    /\ SndCap \in Nat \ {0}
    /\ NoTask \notin [conn : Clients, ev : {"in", "out"}]

VARIABLES
    \* the clients and the network
    peer,         \* the client's end: new, open, fin (it closed), reset (RST),
                  \* broken (RST after the FIN: the socket's error is EPIPE)
    sent,         \* segments the client has sent
    got,          \* units of the response the client has read
    cut,          \* the server's RST destroyed what the client had not read
    \* the kernel
    backlog,      \* connections waiting for accept
    edge,         \* the listening socket has an unreported EPOLLET edge
    inbox,        \* segments in the receive buffer
    sndbuf,       \* units in the send buffer
    interest,     \* epoll registration: none, off (ONESHOT fired), in, out
    \* the Connection objects
    life,         \* none, backlog, live (constructed), gone (destroyed)
    fdOf,         \* client_fd_ of a live connection
    request,      \* segments in request_buffer_
    pending,      \* units left in pending_buffer_
    \* Server
    run,          \* running_
    proc,         \* the process: up, stopped (run() returned), crashed, killed
    mpc,          \* where the main thread is
    batch,        \* events epoll_wait returned and the loop has not handled
    listenEv,     \* one of them is for the listening socket
    hand,         \* main's local: the connection it handles, as a task
    connections,  \* connections_, by descriptor
    \* the workers
    queue, running,  \* the thread pool
    wpc              \* where each worker is in its task

netVars  == <<peer, sent, got, cut>>
sockVars == <<inbox, sndbuf>>
objVars  == <<life, fdOf, request, pending>>
mainVars == <<run, proc, mpc, batch, listenEv, hand>>
poolVars == <<queue, running>>
vars == <<netVars, backlog, edge, sockVars, interest, objVars, mainVars,
          connections, poolVars, wpc>>

Task  == [conn : Clients, ev : {"in", "out"}]
\* An event: data.fd and the readiness, and (auxiliary) the connection it is of.
Event == [fd : Fds, conn : Clients, ev : {"in", "out"}]

TQ == INSTANCE TaskQueue WITH Idle <- NoTask

Init ==
    /\ peer = [c \in Clients |-> "new"]
    /\ sent = [c \in Clients |-> 0]
    /\ got = [c \in Clients |-> 0]
    /\ cut = [c \in Clients |-> FALSE]
    /\ backlog = <<>>
    /\ edge = FALSE
    /\ inbox = [c \in Clients |-> 0]
    /\ sndbuf = [c \in Clients |-> 0]
    /\ interest = [f \in Fds |-> "none"]
    /\ life = [c \in Clients |-> "none"]
    /\ fdOf = [c \in Clients |-> NoFd]
    /\ request = [c \in Clients |-> 0]
    /\ pending = [c \in Clients |-> 0]
    /\ run = TRUE
    /\ proc = "up"
    /\ mpc = "check"
    /\ batch = {}
    /\ listenEv = FALSE
    /\ hand = NoTask
    /\ connections = [f \in Fds |-> NoConn]
    /\ TQ!Init
    /\ wpc = [w \in Workers |-> "idle"]

Up == proc = "up"
-----------------------------------------------------------------------------
(* The clients and the network.                                            *)

Connect(c) ==
    /\ Up /\ peer[c] = "new"
    /\ peer' = [peer EXCEPT ![c] = "open"]
    /\ life' = [life EXCEPT ![c] = "backlog"]
    /\ backlog' = Append(backlog, c)
    /\ edge' = TRUE
    /\ UNCHANGED <<sent, got, cut, sockVars, interest, fdOf, request, pending,
                   mainVars, connections, poolVars, wpc>>

\* A segment that reaches a closed socket is answered by an RST, which makes
\* the client's kernel throw away what the client has not read.
SendSegment(c) ==
    /\ Up /\ peer[c] = "open" /\ sent[c] < Pieces
    /\ sent' = [sent EXCEPT ![c] = @ + 1]
    /\ IF life[c] = "gone"
       THEN /\ cut' = [cut EXCEPT ![c] = TRUE]
            /\ sndbuf' = [sndbuf EXCEPT ![c] = 0]
            /\ UNCHANGED inbox
       ELSE /\ inbox' = [inbox EXCEPT ![c] = @ + 1]
            /\ UNCHANGED <<cut, sndbuf>>
    /\ UNCHANGED <<peer, got, backlog, edge, interest, objVars, mainVars,
                   connections, poolVars, wpc>>

\* The client closes its end, or only its sending side: it may still read.
Fin(c) ==
    /\ Up /\ peer[c] = "open" /\ life[c] # "gone"
    /\ peer' = [peer EXCEPT ![c] = "fin"]
    /\ UNCHANGED <<sent, got, cut, backlog, edge, sockVars, interest, objVars,
                   mainVars, connections, poolVars, wpc>>

\* An RST from the client: it aborts, or it has closed and data arrives.
Reset(c) ==
    /\ Up /\ peer[c] \in {"open", "fin"} /\ life[c] # "gone"
    /\ peer' = [peer EXCEPT ![c] = IF @ = "open" THEN "reset" ELSE "broken"]
    /\ sndbuf' = [sndbuf EXCEPT ![c] = 0]
    /\ UNCHANGED <<sent, got, cut, backlog, edge, inbox, interest, objVars,
                   mainVars, connections, poolVars, wpc>>

\* The client reads a unit of the response.
Deliver(c) ==
    /\ Up /\ peer[c] \in {"open", "fin"} /\ sndbuf[c] > 0
    /\ got' = [got EXCEPT ![c] = @ + 1]
    /\ sndbuf' = [sndbuf EXCEPT ![c] = @ - 1]
    /\ UNCHANGED <<peer, sent, cut, backlog, edge, inbox, interest, objVars,
                   mainVars, connections, poolVars, wpc>>
-----------------------------------------------------------------------------
(* EpollManager.                                                           *)

\* modFd: fails, and changes nothing, on a descriptor that is not registered.
modFd(f, ev) == [interest EXCEPT ![f] = IF @ = "none" THEN @ ELSE ev]

\* What epoll reports of an armed descriptor.  Arming polls the socket, so an
\* armed and ready descriptor is reported whenever it became ready.
Readable(c) == inbox[c] > 0 \/ peer[c] # "open"
Writable(c) == sndbuf[c] < SndCap \/ peer[c] \in {"reset", "broken"}

ReadyEvents ==
    {e \in Event : /\ life[e.conn] = "live" /\ fdOf[e.conn] = e.fd
                   /\ interest[e.fd] = e.ev
                   /\ IF e.ev = "in" THEN Readable(e.conn) ELSE Writable(e.conn)}

\* A mistake to be caught: EPOLLONESHOT is left out.
Disarm_NoOneshot(S) == interest

\* EPOLLONESHOT: a descriptor that is reported is disarmed.
Disarm(S) == [f \in Fds |-> IF \E e \in S : e.fd = f THEN "off" ELSE interest[f]]
-----------------------------------------------------------------------------
(* Connection: who refers to an object, and its end.                       *)

Refers(w, c) == running[w] # NoTask /\ running[w].conn = c

InQueue(c) == \E i \in 1..Len(queue) : queue[i].conn = c
InMap(c)   == \E f \in Fds : connections[f] = c

\* The shared_ptrs to c other than the one that is being dropped by t.
OthersHold(c, t) ==
    \/ InMap(c)
    \/ InQueue(c)
    \/ t # "main" /\ hand # NoTask /\ hand.conn = c
    \/ \E w \in Workers \ {t} : Refers(w, c)

\* A mistake to be caught: delFd is left out.
Drop_NoDelFd(c, t) ==
    IF OthersHold(c, t)
    THEN UNCHANGED <<interest, objVars, sockVars, cut>>
    ELSE /\ life' = [life EXCEPT ![c] = "gone"]
         /\ fdOf' = [fdOf EXCEPT ![c] = NoFd]
         /\ cut' = [cut EXCEPT ![c] = @ \/ inbox[c] > 0]
         /\ sndbuf' = [sndbuf EXCEPT ![c] = IF inbox[c] > 0 THEN 0 ELSE @]
         /\ inbox' = [inbox EXCEPT ![c] = 0]
         /\ request' = [request EXCEPT ![c] = 0]
         /\ pending' = [pending EXCEPT ![c] = 0]
         /\ UNCHANGED interest

\* t drops its shared_ptr; the last one runs ~Connection: delFd and close.
\* Closing a socket with unread data sends an RST.
Drop(c, t) ==
    IF OthersHold(c, t)
    THEN UNCHANGED <<interest, objVars, sockVars, cut>>
    ELSE /\ interest' = [interest EXCEPT ![fdOf[c]] = "none"]
         /\ life' = [life EXCEPT ![c] = "gone"]
         /\ fdOf' = [fdOf EXCEPT ![c] = NoFd]
         /\ cut' = [cut EXCEPT ![c] = @ \/ inbox[c] > 0]
         /\ sndbuf' = [sndbuf EXCEPT ![c] = IF inbox[c] > 0 THEN 0 ELSE @]
         /\ inbox' = [inbox EXCEPT ![c] = 0]
         /\ request' = [request EXCEPT ![c] = 0]
         /\ pending' = [pending EXCEPT ![c] = 0]
-----------------------------------------------------------------------------
(* Server::run and what it calls, on the main thread.                      *)

CheckRunning ==
    /\ Up /\ mpc = "check"
    /\ IF run THEN mpc' = "enter" /\ UNCHANGED proc
              ELSE proc' = "stopped" /\ UNCHANGED mpc
    /\ UNCHANGED <<netVars, backlog, edge, sockVars, interest, objVars, run,
                   batch, listenEv, hand, connections, poolVars, wpc>>

\* The call of epoll_wait: from here on, and not before, main can be woken.
EnterWait ==
    /\ Up /\ mpc = "enter"
    /\ mpc' = "wait"
    /\ UNCHANGED <<netVars, backlog, edge, sockVars, interest, objVars, run,
                   proc, batch, listenEv, hand, connections, poolVars, wpc>>

\* SIGINT and the like reach the main thread; the handler only clears running_.
\* epoll_wait returns with EINTR if, and only if, main is blocked in it.
Signal ==
    /\ Up /\ run
    /\ run' = FALSE
    /\ mpc' = IF mpc = "wait" THEN "check" ELSE mpc
    /\ UNCHANGED <<netVars, backlog, edge, sockVars, interest, objVars, proc,
                   batch, listenEv, hand, connections, poolVars, wpc>>

\* At most MAX_EVENTS of the ready descriptors are returned.
EpollWait ==
    /\ Up /\ mpc = "wait"
    /\ \E S \in SUBSET ReadyEvents, l \in {FALSE, edge} :
         /\ S # {} \/ l
         /\ batch' = S
         /\ listenEv' = l
         /\ interest' = Disarm(S)
         /\ edge' = (edge /\ ~l)
    /\ mpc' = "batch"
    /\ UNCHANGED <<netVars, backlog, sockVars, objVars, run, proc, hand,
                   connections, poolVars, wpc>>

BatchDone ==
    /\ Up /\ mpc = "batch" /\ batch = {} /\ ~listenEv
    /\ mpc' = "check"
    /\ UNCHANGED <<netVars, backlog, edge, sockVars, interest, objVars, run,
                   proc, batch, listenEv, hand, connections, poolVars, wpc>>

\* handleNewConnection, entered for the event of the listening socket.
HandleNewConnection ==
    /\ Up /\ mpc = "batch" /\ listenEv
    /\ listenEv' = FALSE
    /\ mpc' = "accept"
    /\ UNCHANGED <<netVars, backlog, edge, sockVars, interest, objVars, run,
                   proc, batch, hand, connections, poolVars, wpc>>

\* accept and the constructor of Connection, which registers the descriptor.
Accept ==
    /\ Up /\ mpc = "accept" /\ backlog # <<>>
    /\ LET c == Head(backlog) IN
       \E f \in {g \in Fds : \A d \in Clients : fdOf[d] # g} :
         /\ fdOf' = [fdOf EXCEPT ![c] = f]
         /\ life' = [life EXCEPT ![c] = "live"]
         /\ interest' = [interest EXCEPT ![f] = "in"]
         /\ hand' = [conn |-> c, ev |-> "in"]
    /\ backlog' = Tail(backlog)
    /\ mpc' = "insert"
    /\ UNCHANGED <<netVars, edge, sockVars, request, pending, run, proc, batch,
                   listenEv, connections, poolVars, wpc>>

\* A mistake to be caught: one accept per event.
Insert_Once ==
    /\ Up /\ mpc = "insert"
    /\ connections' = [connections EXCEPT ![fdOf[hand.conn]] = hand.conn]
    /\ hand' = NoTask
    /\ mpc' = "batch"
    /\ UNCHANGED <<netVars, backlog, edge, sockVars, interest, objVars, run,
                   proc, batch, listenEv, poolVars, wpc>>

\* connections_[client_fd] = conn, and the local shared_ptr is dropped.
Insert ==
    /\ Up /\ mpc = "insert"
    /\ connections' = [connections EXCEPT ![fdOf[hand.conn]] = hand.conn]
    /\ hand' = NoTask
    /\ mpc' = "accept"
    /\ UNCHANGED <<netVars, backlog, edge, sockVars, interest, objVars, run,
                   proc, batch, listenEv, poolVars, wpc>>

\* accept returns EAGAIN: no more connections.
AcceptDone ==
    /\ Up /\ mpc = "accept" /\ backlog = <<>>
    /\ mpc' = "batch"
    /\ UNCHANGED <<netVars, backlog, edge, sockVars, interest, objVars, run,
                   proc, batch, listenEv, hand, connections, poolVars, wpc>>

\* accept fails (EMFILE: no descriptor is left): the exception leaves main().
AcceptFails ==
    /\ Up /\ mpc = "accept" /\ backlog # <<>>
    /\ \A f \in Fds : \E d \in Clients : fdOf[d] = f
    /\ proc' = "crashed"
    /\ UNCHANGED <<netVars, backlog, edge, sockVars, interest, objVars, run,
                   mpc, batch, listenEv, hand, connections, poolVars, wpc>>

\* dispatchClient, the lookup under connections_mutex_.
FindClient(e) ==
    /\ Up /\ mpc = "batch" /\ e \in batch
    /\ batch' = batch \ {e}
    /\ IF connections[e.fd] = NoConn
       THEN UNCHANGED <<mpc, hand>>
       ELSE /\ hand' = [conn |-> connections[e.fd], ev |-> e.ev]
            /\ mpc' = "enqueue"
    /\ UNCHANGED <<netVars, backlog, edge, sockVars, interest, objVars, run,
                   proc, listenEv, connections, poolVars, wpc>>

EnqueueTask ==
    /\ Up /\ mpc = "enqueue"
    /\ TQ!Enqueue(hand)
    /\ mpc' = "drop"
    /\ UNCHANGED <<netVars, backlog, edge, sockVars, interest, objVars, run,
                   proc, batch, listenEv, hand, connections, wpc>>

\* dispatchClient returns: a worker may have finished with the connection.
DropHand ==
    /\ Up /\ mpc = "drop"
    /\ Drop(hand.conn, "main")
    /\ hand' = NoTask
    /\ mpc' = "batch"
    /\ UNCHANGED <<peer, sent, got, backlog, edge, run, proc, batch, listenEv, connections, poolVars, wpc>>
-----------------------------------------------------------------------------
(* The workers: handleRead, tryParse and handleWrite on the connection of  *)
(* the task.  closed_ is set by the destructor only, so a handler, whose   *)
(* task refers to the object, always finds it false.                       *)

StartTask(w) ==
    /\ Up /\ TQ!Start(w)
    /\ wpc' = [wpc EXCEPT ![w] = IF Head(queue).ev = "in" THEN "read" ELSE "write"]
    /\ UNCHANGED <<netVars, backlog, edge, sockVars, interest, objVars, mainVars,
                   connections>>

\* Mistakes to be caught: a terminating NUL is appended with the data; the
\* descriptor is armed again before the request is parsed.
Recv_OneMore(w) ==
    /\ Up /\ wpc[w] = "read"
    /\ LET c == running[w].conn IN
       IF inbox[c] > 0
       THEN /\ request' = [request EXCEPT ![c] = @ + inbox[c] + 1]
            /\ inbox' = [inbox EXCEPT ![c] = 0]
            /\ UNCHANGED wpc
       ELSE /\ wpc' = [wpc EXCEPT ![w] = IF peer[c] = "open" THEN "parse" ELSE "close"]
            /\ UNCHANGED <<request, inbox>>
    /\ UNCHANGED <<netVars, backlog, edge, sndbuf, interest, life, fdOf, pending,
                   mainVars, connections, poolVars>>

Recv_ArmsFirst(w) ==
    /\ Up /\ wpc[w] = "read"
    /\ LET c == running[w].conn IN
       IF inbox[c] > 0
       THEN /\ request' = [request EXCEPT ![c] = @ + inbox[c]]
            /\ inbox' = [inbox EXCEPT ![c] = 0]
            /\ UNCHANGED <<wpc, interest>>
       ELSE /\ wpc' = [wpc EXCEPT ![w] = IF peer[c] = "open" THEN "parse" ELSE "close"]
            /\ interest' = modFd(fdOf[c], "in")
            /\ UNCHANGED <<request, inbox>>
    /\ UNCHANGED <<netVars, backlog, edge, sndbuf, life, fdOf, pending,
                   mainVars, connections, poolVars>>

\* A call of recv: data, then EAGAIN, the end of the stream or an error.
Recv(w) ==
    /\ Up /\ wpc[w] = "read"
    /\ LET c == running[w].conn IN
       IF inbox[c] > 0
       THEN /\ request' = [request EXCEPT ![c] = @ + inbox[c]]
            /\ inbox' = [inbox EXCEPT ![c] = 0]
            /\ UNCHANGED wpc
       ELSE /\ wpc' = [wpc EXCEPT ![w] = IF peer[c] = "open" THEN "parse" ELSE "close"]
            /\ UNCHANGED <<request, inbox>>
    /\ UNCHANGED <<netVars, backlog, edge, sndbuf, interest, life, fdOf, pending,
                   mainVars, connections, poolVars>>

\* A mistake to be caught: the request is taken for complete too early.
Parsable_TooEarly(c) == request[c] >= IF c \in Malformed THEN 1 ELSE Pieces - 1

\* The request is complete, or can be refused on what is there.
Parsable(c) == request[c] >= IF c \in Malformed THEN 1 ELSE Pieces

\* tryParse: the whole response is made here.
TryParse(w) ==
    /\ Up /\ wpc[w] = "parse"
    /\ LET c == running[w].conn IN
       IF Parsable(c)
       THEN /\ pending' = [pending EXCEPT ![c] = RespSize]
            /\ wpc' = [wpc EXCEPT ![w] = "armOut"]
       ELSE /\ wpc' = [wpc EXCEPT ![w] = "armIn"]
            /\ UNCHANGED pending
    /\ UNCHANGED <<netVars, backlog, edge, sockVars, interest, life, fdOf, request,
                   mainVars, connections, poolVars>>

\* A mistake to be caught: an incomplete request is not waited for.
Arm_OutOnly(w) ==
    /\ Up /\ wpc[w] \in {"armIn", "armOut"}
    /\ interest' = IF wpc[w] = "armOut" THEN modFd(fdOf[running[w].conn], "out") ELSE interest
    /\ wpc' = [wpc EXCEPT ![w] = "tail"]
    /\ UNCHANGED <<netVars, backlog, edge, sockVars, objVars, mainVars,
                   connections, poolVars>>

\* modFd is the last thing a handler does to its connection.
Arm(w) ==
    /\ Up /\ wpc[w] \in {"armIn", "armOut"}
    /\ interest' = modFd(fdOf[running[w].conn], IF wpc[w] = "armIn" THEN "in" ELSE "out")
    /\ wpc' = [wpc EXCEPT ![w] = "tail"]
    /\ UNCHANGED <<netVars, backlog, edge, sockVars, objVars, mainVars,
                   connections, poolVars>>

Minimum(a, b) == IF a < b THEN a ELSE b

\* What handleWrite does with a response that does not fit the send buffer, and
\* mistakes to be caught: it returns without modFd, or waits for EPOLLIN.
SendBlocks_Lost(w) == wpc' = [wpc EXCEPT ![w] = "tail"]
SendBlocks_In(w)   == wpc' = [wpc EXCEPT ![w] = "armIn"]
SendBlocks(w)      == wpc' = [wpc EXCEPT ![w] = "armOut"]

\* An iteration of handleWrite.  send has no MSG_NOSIGNAL and SIGPIPE its
\* default action: EPIPE is never returned, the process is killed.
Send(w) ==
    /\ Up /\ wpc[w] = "write"
    /\ LET c == running[w].conn
           n == Minimum(pending[c], SndCap - sndbuf[c])
       IN
       \/ /\ pending[c] = 0 \/ peer[c] = "reset"
          /\ wpc' = [wpc EXCEPT ![w] = "close"]
          /\ UNCHANGED <<pending, sndbuf, proc>>
       \/ /\ pending[c] > 0 /\ peer[c] = "broken"
          /\ proc' = "killed"
          /\ UNCHANGED <<pending, sndbuf, wpc>>
       \/ /\ pending[c] > 0 /\ peer[c] \in {"open", "fin"} /\ n > 0
          /\ pending' = [pending EXCEPT ![c] = @ - n]
          /\ sndbuf' = [sndbuf EXCEPT ![c] = @ + n]
          /\ UNCHANGED <<wpc, proc>>
       \/ /\ pending[c] > 0 /\ peer[c] \in {"open", "fin"} /\ n = 0
          /\ SendBlocks(w)
          /\ UNCHANGED <<pending, sndbuf, proc>>
    /\ UNCHANGED <<netVars, backlog, edge, inbox, interest, life, fdOf, request,
                   run, mpc, batch, listenEv, hand, connections, poolVars>>

\* A mistake to be caught: the entry stays in the map.
RequestClose_NoErase(w) ==
    /\ Up /\ wpc[w] = "close"
    /\ wpc' = [wpc EXCEPT ![w] = "tail"]
    /\ UNCHANGED <<netVars, backlog, edge, sockVars, interest, objVars, mainVars,
                   connections, poolVars>>

\* requestCloseConnection: the callback erases the map's entry by descriptor.
RequestClose(w) ==
    /\ Up /\ wpc[w] = "close"
    /\ connections' = [connections EXCEPT ![fdOf[running[w].conn]] = NoConn]
    /\ wpc' = [wpc EXCEPT ![w] = "tail"]
    /\ UNCHANGED <<netVars, backlog, edge, sockVars, interest, objVars, mainVars,
                   poolVars>>

\* The task returns, and workerLoop destroys it with its shared_ptr.
EndTask(w) ==
    /\ Up /\ wpc[w] = "tail"
    /\ TQ!Finish(w)
    /\ Drop(running[w].conn, w)
    /\ wpc' = [wpc EXCEPT ![w] = "idle"]
    /\ UNCHANGED <<peer, sent, got, backlog, edge, mainVars, connections>>
-----------------------------------------------------------------------------
ClientStep(c) == Connect(c) \/ SendSegment(c) \/ Fin(c) \/ Reset(c) \/ Deliver(c)

MainStep ==
    \/ CheckRunning \/ EnterWait \/ EpollWait \/ BatchDone
    \/ HandleNewConnection \/ Accept \/ Insert \/ AcceptDone \/ AcceptFails
    \/ \E e \in batch : FindClient(e)
    \/ EnqueueTask \/ DropHand

WorkerStep(w) ==
    \/ StartTask(w) \/ Recv(w) \/ TryParse(w) \/ Arm(w) \/ Send(w)
    \/ RequestClose(w) \/ EndTask(w)

Next ==
    \/ \E c \in Clients : ClientStep(c)
    \/ Signal
    \/ MainStep
    \/ \E w \in Workers : WorkerStep(w)

Spec == Init /\ [][Next]_vars

\* The threads are scheduled, and a client reads what arrives.  Clients need
\* not connect, send or close; a signal need not come.
Fairness == /\ WF_vars(MainStep)
            /\ \A w \in Workers : WF_vars(WorkerStep(w))
            /\ \A c \in Clients : WF_vars(Deliver(c))

FairSpec == Spec /\ Fairness
-----------------------------------------------------------------------------
WorkerPc == {"idle", "read", "parse", "armIn", "armOut", "write", "close", "tail"}
MainPc   == {"check", "enter", "wait", "batch", "accept", "insert", "enqueue", "drop"}

TypeOK ==
    /\ peer \in [Clients -> {"new", "open", "fin", "reset", "broken"}]
    /\ sent \in [Clients -> 0..Pieces]
    /\ got \in [Clients -> 0..RespSize]
    /\ cut \in [Clients -> BOOLEAN]
    /\ backlog \in Seq(Clients)
    /\ edge \in BOOLEAN
    /\ inbox \in [Clients -> 0..Pieces]
    /\ sndbuf \in [Clients -> 0..SndCap]
    /\ interest \in [Fds -> {"none", "off", "in", "out"}]
    /\ life \in [Clients -> {"none", "backlog", "live", "gone"}]
    /\ fdOf \in [Clients -> Fds \cup {NoFd}]
    /\ request \in [Clients -> 0..Pieces]
    /\ pending \in [Clients -> 0..RespSize]
    /\ run \in BOOLEAN
    /\ proc \in {"up", "stopped", "crashed", "killed"}
    /\ mpc \in MainPc
    /\ batch \subseteq Event
    /\ listenEv \in BOOLEAN
    /\ hand \in Task \cup {NoTask}
    /\ connections \in [Fds -> Clients \cup {NoConn}]
    /\ queue \in Seq(Task)
    /\ running \in [Workers -> Task \cup {NoTask}]
    /\ wpc \in [Workers -> WorkerPc]

\* What may make the next move on a connection: its armed registration, an event
\* or a task on its way to a worker, or a worker inside a handler.
Armed(c)    == life[c] = "live" /\ interest[fdOf[c]] \in {"in", "out"}
InBatch(c)  == \E e \in batch : e.conn = c
InHand(c)   == mpc = "enqueue" /\ hand.conn = c
Handler(c)  == {w \in Workers : /\ wpc[w] \notin {"idle", "tail"}
                                /\ running[w].conn = c}

\* Drivers are exclusive: the buffers of a Connection are not synchronised, and
\* it is EPOLLONESHOT and the order modFd / return that keep two workers, or a
\* worker and a task on its way, off the same object (connection.cpp:39,77).
OneDriver ==
    \A c \in Clients :
        /\ Armed(c) => ~InBatch(c) /\ ~InHand(c) /\ ~InQueue(c) /\ Handler(c) = {}
        /\ InBatch(c) => ~InHand(c) /\ ~InQueue(c) /\ Handler(c) = {}
        /\ InHand(c) => ~InQueue(c) /\ Handler(c) = {}
        /\ InQueue(c) => Handler(c) = {}
        /\ \A v, w \in Handler(c) : v = w
        /\ \A i, j \in 1..Len(queue) :
               queue[i].conn = c /\ queue[j].conn = c => i = j

\* No connection in the map is forgotten: something will move it, or at least
\* look at it when its client does something (connection.cpp:77,79,151).
NoConnectionStranded ==
    \A c \in Clients :
        InMap(c) => Armed(c) \/ InBatch(c) \/ InHand(c) \/ InQueue(c) \/ Handler(c) # {}

\* A descriptor belongs to one live connection, also while it is reused: map,
\* registration and owner agree, and nothing is destroyed while it is referred
\* to, nor kept when nothing refers to it (server.cpp:138, connection.cpp:268).
Owner(f) == {c \in Clients : fdOf[c] = f}
DescriptorsOwned ==
    /\ \A c \in Clients : (life[c] = "live") <=> (fdOf[c] # NoFd)
    /\ \A f \in Fds : Cardinality(Owner(f)) <= 1
    /\ \A f \in Fds : (interest[f] = "none") <=> (Owner(f) = {})
    /\ \A f \in Fds : connections[f] # NoConn => Owner(f) = {connections[f]}
    /\ \A c \in Clients : (life[c] = "live") <=> OthersHold(c, "nobody")

\* An event is dispatched to the connection it is of: between epoll_wait and the
\* lookup, the descriptor was neither erased nor reused (server.cpp:142-151).
EventFindsItsConnection == \A e \in batch : connections[e.fd] = e.conn

\* EPOLLET reports a new connection once: whenever one waits, the accept loop
\* still has to run or to find it (server.cpp:108-117).
NoClientForgotten ==
    backlog # <<>> => edge \/ listenEv \/ mpc \in {"accept", "insert"}

\* A client whose request is well formed never loses its response to the
\* server's own close, and the server closes on an open client only after it has
\* handed over the whole response (connection.cpp:68,146,169).
NoResponseCut ==
    \A c \in Clients \ Malformed :
        /\ ~cut[c]
        /\ life[c] = "gone" /\ peer[c] = "open" => got[c] + sndbuf[c] = RespSize

\* A connection is answered once: no response is made while another, or a part
\* of one, has been sent (connection.cpp:134-137).
AnsweredOnce ==
    [][\A c \in Clients : pending'[c] > pending[c]
           => pending[c] = 0 /\ sndbuf[c] = 0 /\ got[c] = 0]_vars

\* A client that sent its request and stays gets the response, as long as the
\* server runs.
EventuallyAnswered ==
    \A c \in Clients \ Malformed :
        (sent[c] = Pieces) ~> (got[c] = RespSize \/ peer[c] # "open" \/ ~Up \/ ~run)

\* A client that leaves does not keep its descriptor for ever.
HungUpIsClosed ==
    \A c \in Clients :
        (peer[c] \in {"fin", "reset", "broken"}) ~> (life[c] = "gone" \/ ~Up \/ ~run)

\* README.md: a signal makes the server shut down smoothly.
SignalStopsServer == ~run ~> ~Up

\* handleWrite means to close the one connection whose send fails.
PeerFailureContained == proc # "killed"
=============================================================================

---------------------------- MODULE SkyServerProofs ----------------------------
(***************************************************************************)
(* What is proved of the server for any number of clients, workers and     *)
(* descriptors, and for any sizes of request, response and send buffer.    *)
(*                                                                         *)
(* The invariant is built in layers, each inductive with those before it:  *)
(*   BaseOK     types, and where main and a worker are without a task;     *)
(*   OwnInv     who owns a descriptor, who refers to a connection;         *)
(*   DriveInv   who moves a connection: one at a time, and always one      *)
(*              while it is in the map;                                    *)
(*   AnswerInv  what it is moved for, and how far its answer is;           *)
(*   FlagInv    that no response was destroyed.                            *)
(***************************************************************************)
EXTENDS SkyServer, FiniteSetTheorems, TLAPS

\* The inductive invariant: main enters epoll_wait only when it has handled the
\* event of the listening socket, so that epoll_wait cannot overwrite one.
ListenInv ==
    /\ edge \in BOOLEAN
    /\ listenEv \in BOOLEAN
    /\ mpc \in {"check", "enter", "wait"} => listenEv = FALSE
    /\ NoClientForgotten

LEMMA ListenInit == Init => ListenInv
  BY DEF Init, ListenInv, NoClientForgotten

\* A step that leaves the backlog, the edge and main's place alone.
LEMMA ListenUnchanged ==
    ASSUME ListenInv, UNCHANGED <<backlog, edge, listenEv, mpc>>
    PROVE  ListenInv'
  BY DEF ListenInv, NoClientForgotten

LEMMA ListenMain ==
    ASSUME ListenInv, MainStep
    PROVE  ListenInv'
  <1> USE DEF ListenInv
  <1>1. CASE CheckRunning \/ EnterWait \/ BatchDone \/ EnqueueTask \/ DropHand
    BY <1>1 DEF CheckRunning, EnterWait, BatchDone, EnqueueTask, DropHand, mainVars,
                NoClientForgotten
  <1>2. ASSUME NEW e \in batch, FindClient(e) PROVE ListenInv'
    BY <1>2 DEF FindClient, NoClientForgotten
  <1>3. CASE EpollWait
    <2>1. PICK l \in {FALSE, edge} : listenEv' = l /\ edge' = (edge /\ ~l)
      BY <1>3 DEF EpollWait
    <2>2. mpc = "wait" /\ mpc' = "batch" /\ backlog' = backlog
      BY <1>3 DEF EpollWait
    \* The edge is kept, or reported and so becomes listenEv.
    <2>3. CASE edge = TRUE
      <3>1. listenEv' \in BOOLEAN /\ edge' \in BOOLEAN /\ (edge' = TRUE \/ listenEv' = TRUE)
        BY <2>1, <2>3
      <3> QED BY <2>2, <3>1 DEF NoClientForgotten
    <2>4. CASE edge = FALSE
      <3>1. listenEv' = FALSE /\ edge' = FALSE
        BY <2>1, <2>4
      \* Main has nothing left to handle, so nothing waits either.
      <3>2. backlog = <<>>
        BY <2>2, <2>4 DEF NoClientForgotten
      <3> QED BY <2>2, <3>1, <3>2 DEF NoClientForgotten
    <2> QED BY <2>3, <2>4
  <1>4. CASE HandleNewConnection \/ Accept \/ Insert
    <2>1. mpc' \in {"accept", "insert"} /\ edge' = edge /\ listenEv' \in BOOLEAN
      BY <1>4 DEF HandleNewConnection, Accept, Insert
    <2> QED BY <2>1 DEF NoClientForgotten
  <1>5. CASE AcceptDone
    \* The loop is left when nothing waits.
    BY <1>5 DEF AcceptDone, NoClientForgotten
  <1>6. CASE AcceptFails
    BY <1>6, ListenUnchanged DEF AcceptFails
  <1> QED BY <1>1, <1>2, <1>3, <1>4, <1>5, <1>6 DEF MainStep

LEMMA ListenStep == ListenInv /\ [Next]_vars => ListenInv'
  <1> SUFFICES ASSUME ListenInv, [Next]_vars PROVE ListenInv'
    OBVIOUS
  <1>1. ASSUME NEW c \in Clients, Connect(c) PROVE ListenInv'
    BY <1>1 DEF Connect, ListenInv, NoClientForgotten, mainVars
  <1>2. ASSUME NEW c \in Clients, SendSegment(c) \/ Fin(c) \/ Reset(c) \/ Deliver(c)
        PROVE  ListenInv'
    BY <1>2, ListenUnchanged DEF SendSegment, Fin, Reset, Deliver, mainVars
  <1>3. CASE Signal
    BY <1>3 DEF Signal, ListenInv, NoClientForgotten
  <1>4. CASE MainStep
    BY <1>4, ListenMain
  <1>5. ASSUME NEW w \in Workers, WorkerStep(w) PROVE ListenInv'
    BY <1>5, ListenUnchanged
    DEF WorkerStep, StartTask, Recv, TryParse, Arm, Send, RequestClose, EndTask, mainVars
  <1>6. CASE UNCHANGED vars
    BY <1>6, ListenUnchanged DEF vars, mainVars
  <1> QED BY <1>1, <1>2, <1>3, <1>4, <1>5, <1>6 DEF Next, ClientStep

\* Whatever clients, workers and signals do meanwhile, a client in the backlog
\* has an unreported edge, an event main still handles, or the accept loop ahead
\* of it (server.cpp:98-99,108-118).
THEOREM AcceptLoopMissesNoClient == Spec => []NoClientForgotten
  <1>1. ListenInv => NoClientForgotten
    BY DEF ListenInv
  <1> QED BY <1>1, ListenInit, ListenStep, PTL DEF Spec
-----------------------------------------------------------------------------
(* Types.  The bound on got is left for later: it needs to know who answers. *)

NetTypes ==
    /\ peer \in [Clients -> {"new", "open", "fin", "reset", "broken"}]
    /\ sent \in [Clients -> 0..Pieces]
    /\ got \in [Clients -> Nat]
    /\ inbox \in [Clients -> Nat]
    /\ sndbuf \in [Clients -> 0..SndCap]
    /\ request \in [Clients -> Nat]
    /\ pending \in [Clients -> 0..RespSize]
    \* A segment is counted once, wherever it is.
    /\ \A c \in Clients : inbox[c] + request[c] <= sent[c]

ObjTypes ==
    /\ backlog \in Seq(Clients)
    /\ interest \in [Fds -> {"none", "off", "in", "out"}]
    /\ life \in [Clients -> {"none", "backlog", "live", "gone"}]
    /\ fdOf \in [Clients -> Fds \cup {NoFd}]
    /\ connections \in [Fds -> Clients \cup {NoConn}]
    /\ proc \in {"up", "stopped", "crashed", "killed"}

ThreadTypes ==
    /\ mpc \in MainPc
    /\ batch \subseteq Event
    /\ hand \in Task \cup {NoTask}
    /\ (hand = NoTask) <=> (mpc \notin {"insert", "enqueue", "drop"})
    /\ queue \in Seq(Task)
    /\ running \in [Workers -> Task \cup {NoTask}]
    /\ wpc \in [Workers -> WorkerPc]
    /\ \A w \in Workers : (running[w] = NoTask) <=> (wpc[w] = "idle")

BaseOK == NetTypes /\ ObjTypes /\ ThreadTypes

FlagTypes ==
    /\ cut \in [Clients -> BOOLEAN]
    /\ edge \in BOOLEAN
    /\ run \in BOOLEAN
    /\ listenEv \in BOOLEAN

LEMMA TaskIsSomething == NoTask \notin Task
  BY ServerAssumption DEF Task

LEMMA BaseInit == Init => BaseOK
  <1> SUFFICES ASSUME Init PROVE BaseOK
    OBVIOUS
  <1>1. NetTypes
    BY ServerAssumption DEF Init, NetTypes
  <1>2. ObjTypes
    BY ServerAssumption DEF Init, ObjTypes
  <1>3. ThreadTypes
    BY DEF Init, ThreadTypes, TQ!Init, MainPc, WorkerPc
  <1> QED BY <1>1, <1>2, <1>3 DEF BaseOK

\* What the last shared_ptr takes with it.
LEMMA DropTypes ==
    ASSUME NetTypes, ObjTypes, NEW c \in Clients, NEW t, Drop(c, t),
           UNCHANGED <<peer, sent, got, backlog, proc, connections>>
    PROVE  NetTypes' /\ ObjTypes'
  <1>1. CASE OthersHold(c, t)
    BY <1>1 DEF Drop, NetTypes, ObjTypes, objVars, sockVars
  <1>2. CASE ~OthersHold(c, t)
    <2>1. NetTypes'
      <3>1. /\ inbox' = [inbox EXCEPT ![c] = 0] /\ request' = [request EXCEPT ![c] = 0]
            /\ pending' = [pending EXCEPT ![c] = 0]
            /\ sndbuf' = [sndbuf EXCEPT ![c] = IF inbox[c] > 0 THEN 0 ELSE @]
        BY <1>2 DEF Drop
      <3>2. sndbuf' \in [Clients -> 0..SndCap] /\ pending' \in [Clients -> 0..RespSize]
        BY <3>1, ServerAssumption DEF NetTypes
      <3>3. inbox' \in [Clients -> Nat] /\ request' \in [Clients -> Nat]
        BY <3>1 DEF NetTypes
      <3>4. ASSUME NEW d \in Clients PROVE inbox'[d] + request'[d] <= sent'[d]
        BY <3>1 DEF NetTypes
      <3> QED BY <3>2, <3>3, <3>4 DEF NetTypes
    <2>2. ObjTypes'
      BY <1>2 DEF Drop, ObjTypes
    <2> QED BY <2>1, <2>2
  <1> QED BY <1>1, <1>2

LEMMA BaseClients ==
    ASSUME BaseOK, NEW c \in Clients, ClientStep(c)
    PROVE  BaseOK'
  <1> USE ServerAssumption DEF BaseOK
  <1>1. ThreadTypes'
    BY DEF ThreadTypes, ClientStep, Connect, SendSegment, Fin, Reset, Deliver, mainVars,
           poolVars
  <1>2. CASE Connect(c)
    <2>1. NetTypes'
      BY <1>2 DEF Connect, NetTypes, sockVars
    <2>2. ObjTypes'
      BY <1>2 DEF Connect, ObjTypes, mainVars
    <2> QED BY <1>1, <2>1, <2>2
  <1>3. CASE SendSegment(c)
    <2>1. NetTypes'
      BY <1>3 DEF SendSegment, NetTypes, objVars
    <2>2. ObjTypes'
      BY <1>3 DEF SendSegment, ObjTypes, mainVars, objVars
    <2> QED BY <1>1, <2>1, <2>2
  <1>4. CASE Fin(c)
    BY <1>1, <1>4 DEF Fin, NetTypes, ObjTypes, mainVars, objVars, sockVars
  <1>5. CASE Reset(c)
    BY <1>1, <1>5 DEF Reset, NetTypes, ObjTypes, mainVars, objVars
  <1>6. CASE Deliver(c)
    <2>1. NetTypes'
      BY <1>6 DEF Deliver, NetTypes, objVars
    <2>2. ObjTypes'
      BY <1>6 DEF Deliver, ObjTypes, objVars, mainVars
    <2> QED BY <1>1, <2>1, <2>2
  <1> QED BY <1>2, <1>3, <1>4, <1>5, <1>6 DEF ClientStep

LEMMA BaseMain ==
    ASSUME BaseOK, MainStep
    PROVE  BaseOK'
  <1> USE ServerAssumption, TaskIsSomething DEF BaseOK
  <1>1. CASE CheckRunning \/ EnterWait \/ BatchDone \/ HandleNewConnection \/ AcceptDone
             \/ AcceptFails
    <2>1. NetTypes'
      BY <1>1 DEF CheckRunning, EnterWait, BatchDone, HandleNewConnection, AcceptDone,
                  AcceptFails, NetTypes, netVars, sockVars, objVars
    <2>2. ObjTypes'
      BY <1>1 DEF CheckRunning, EnterWait, BatchDone, HandleNewConnection, AcceptDone,
                  AcceptFails, ObjTypes, objVars
    <2>3. ThreadTypes'
      BY <1>1 DEF CheckRunning, EnterWait, BatchDone, HandleNewConnection, AcceptDone,
                  AcceptFails, ThreadTypes, MainPc, poolVars
    <2> QED BY <2>1, <2>2, <2>3
  <1>2. CASE EpollWait
    <2>1. NetTypes'
      BY <1>2 DEF EpollWait, NetTypes, netVars, sockVars, objVars
    <2>2. ObjTypes'
      BY <1>2 DEF EpollWait, Disarm, ObjTypes, objVars
    <2>3. ThreadTypes'
      BY <1>2 DEF EpollWait, ReadyEvents, ThreadTypes, MainPc, poolVars
    <2> QED BY <2>1, <2>2, <2>3
  <1>3. CASE Accept
    <2>1. NetTypes'
      BY <1>3 DEF Accept, NetTypes, netVars, sockVars
    <2>2. PICK f \in Fds : /\ fdOf' = [fdOf EXCEPT ![Head(backlog)] = f]
                           /\ life' = [life EXCEPT ![Head(backlog)] = "live"]
                           /\ interest' = [interest EXCEPT ![f] = "in"]
                           /\ hand' = [conn |-> Head(backlog), ev |-> "in"]
      BY <1>3 DEF Accept
    <2>3. Head(backlog) \in Clients /\ backlog' = Tail(backlog) /\ backlog' \in Seq(Clients)
      BY <1>3 DEF Accept, ObjTypes
    <2>4. ObjTypes'
      BY <1>3, <2>2, <2>3 DEF Accept, ObjTypes
    <2>5. hand' \in Task
      BY <2>2, <2>3 DEF Task
    <2>6. ThreadTypes'
      BY <1>3, <2>5 DEF Accept, ThreadTypes, MainPc, poolVars
    <2> QED BY <2>1, <2>4, <2>6
  <1>4. CASE Insert
    <2>1. hand.conn \in Clients
      BY <1>4 DEF Insert, ThreadTypes, Task
    <2> QED BY <1>4, <2>1 DEF Insert, NetTypes, ObjTypes, ThreadTypes, MainPc, netVars,
                              sockVars, objVars, poolVars
  <1>5. ASSUME NEW e \in batch, FindClient(e) PROVE BaseOK'
    <2>1. NetTypes' /\ ObjTypes'
      BY <1>5 DEF FindClient, NetTypes, ObjTypes, netVars, sockVars, objVars
    <2>2. CASE connections[e.fd] = NoConn
      BY <1>5, <2>1, <2>2 DEF FindClient, ThreadTypes, poolVars
    <2>3. CASE connections[e.fd] # NoConn
      <3>1. hand' \in Task
        BY <1>5, <2>3 DEF FindClient, ThreadTypes, ObjTypes, Event, Task
      <3> QED BY <1>5, <2>1, <2>3, <3>1 DEF FindClient, ThreadTypes, MainPc, poolVars
    <2> QED BY <2>2, <2>3
  <1>6. CASE EnqueueTask
    <2>1. hand \in Task /\ queue' = Append(queue, hand) /\ running' = running
      BY <1>6 DEF EnqueueTask, TQ!Enqueue, ThreadTypes
    <2>2. queue' \in Seq(Task)
      BY <2>1 DEF ThreadTypes
    <2> QED BY <1>6, <2>1, <2>2 DEF EnqueueTask, NetTypes, ObjTypes, ThreadTypes, MainPc,
                                    netVars, sockVars, objVars
  <1>7. CASE DropHand
    <2>1. hand.conn \in Clients
      BY <1>7 DEF DropHand, ThreadTypes, Task
    <2>2. NetTypes' /\ ObjTypes'
      BY <1>7, <2>1, DropTypes DEF DropHand
    <2> QED BY <1>7, <2>2 DEF DropHand, ThreadTypes, MainPc, poolVars
  <1> QED BY <1>1, <1>2, <1>3, <1>4, <1>5, <1>6, <1>7 DEF MainStep

LEMMA BaseWorkers ==
    ASSUME BaseOK, NEW w \in Workers, WorkerStep(w)
    PROVE  BaseOK'
  <1> USE ServerAssumption, TaskIsSomething DEF BaseOK
  <1>1. CASE StartTask(w)
    <2>1. queue # <<>> /\ queue' = Tail(queue)
          /\ running' = [running EXCEPT ![w] = Head(queue)]
      BY <1>1 DEF StartTask, TQ!Start
    <2>2. Head(queue) \in Task /\ queue' \in Seq(Task)
      BY <2>1 DEF ThreadTypes
    <2>3. ThreadTypes'
      BY <1>1, <2>1, <2>2 DEF StartTask, ThreadTypes, WorkerPc, mainVars
    <2> QED BY <1>1, <2>3 DEF StartTask, NetTypes, ObjTypes, netVars, sockVars, objVars, mainVars
  <1>2. ASSUME wpc[w] \in WorkerPc \ {"idle"} PROVE running[w] \in Task /\ running[w].conn \in Clients
    BY <1>2 DEF ThreadTypes, WorkerPc, Task
  <1>3. CASE Recv(w)
    <2>1. running[w].conn \in Clients
      BY <1>2, <1>3 DEF Recv, WorkerPc
    <2>2. NetTypes'
      BY <1>3, <2>1 DEF Recv, NetTypes, netVars
    <2> QED BY <1>3, <2>2 DEF Recv, ObjTypes, ThreadTypes, WorkerPc, mainVars, poolVars
  <1>4. CASE TryParse(w)
    <2>1. running[w].conn \in Clients
      BY <1>2, <1>4 DEF TryParse, WorkerPc
    <2>2. NetTypes'
      BY <1>4, <2>1 DEF TryParse, NetTypes, netVars, sockVars
    <2> QED BY <1>4, <2>2 DEF TryParse, ObjTypes, ThreadTypes, WorkerPc, mainVars, poolVars
  <1>5. CASE Arm(w)
    BY <1>5 DEF Arm, modFd, NetTypes, ObjTypes, ThreadTypes, WorkerPc, netVars, sockVars, objVars,
                mainVars, poolVars
  <1>6. CASE Send(w)
    <2>1. running[w].conn \in Clients
      BY <1>2, <1>6 DEF Send, WorkerPc
    <2>2. NetTypes'
      BY <1>6, <2>1 DEF Send, Minimum, NetTypes, netVars
    <2>3. ObjTypes'
      BY <1>6 DEF Send, ObjTypes
    <2>4. ThreadTypes'
      BY <1>6 DEF Send, SendBlocks, ThreadTypes, WorkerPc, poolVars
    <2> QED BY <2>2, <2>3, <2>4
  <1>7. CASE RequestClose(w)
    BY <1>7 DEF RequestClose, NetTypes, ObjTypes, ThreadTypes, WorkerPc, netVars, sockVars,
                objVars, mainVars, poolVars
  <1>8. CASE EndTask(w)
    <2>1. running[w].conn \in Clients
      BY <1>2, <1>8 DEF EndTask, WorkerPc
    <2>2. NetTypes' /\ ObjTypes'
      BY <1>8, <2>1, DropTypes DEF EndTask, mainVars
    <2>3. ThreadTypes'
      BY <1>8 DEF EndTask, TQ!Finish, ThreadTypes, WorkerPc, mainVars
    <2> QED BY <2>2, <2>3
  <1> QED BY <1>1, <1>3, <1>4, <1>5, <1>6, <1>7, <1>8 DEF WorkerStep

LEMMA BaseStep == BaseOK /\ [Next]_vars => BaseOK'
  <1> SUFFICES ASSUME BaseOK, [Next]_vars PROVE BaseOK'
    OBVIOUS
  <1>1. CASE Signal
    BY <1>1 DEF Signal, BaseOK, NetTypes, ObjTypes, ThreadTypes, MainPc, netVars, sockVars,
                objVars, poolVars
  <1>2. CASE UNCHANGED vars
    BY <1>2 DEF vars, BaseOK, NetTypes, ObjTypes, ThreadTypes, netVars, sockVars, objVars,
                mainVars, poolVars
  <1> QED BY <1>1, <1>2, BaseClients, BaseMain, BaseWorkers DEF Next
-----------------------------------------------------------------------------
(* Who owns a descriptor, and who keeps a connection alive.                *)

\* The shared_ptrs to c.
Held(c) == \/ InMap(c) \/ InQueue(c)
           \/ hand # NoTask /\ hand.conn = c
           \/ \E w \in Workers : Refers(w, c)

\* A descriptor has one owner, which is live, and is registered exactly then.
FdInv ==
    /\ \A c \in Clients : (life[c] = "live") <=> (fdOf[c] # NoFd)
    /\ \A c, d \in Clients : fdOf[c] = fdOf[d] /\ fdOf[c] # NoFd => c = d
    /\ \A f \in Fds : interest[f] # "none" <=> \E c \in Clients : fdOf[c] = f
    /\ \A f \in Fds : connections[f] # NoConn => fdOf[connections[f]] = f

\* A connection lives exactly as long as something refers to it.
HeldInv == \A c \in Clients : (life[c] = "live") <=> Held(c)

\* The backlog holds clients that were not accepted, each once.
BacklogInv ==
    /\ \A i \in 1..Len(backlog) : life[backlog[i]] = "backlog"
    /\ \A i, j \in 1..Len(backlog) : backlog[i] = backlog[j] => i = j
    /\ \A c \in Clients : (life[c] = "none") <=> (peer[c] = "new")

OwnInv == FdInv /\ HeldInv /\ BacklogInv

LEMMA AppendQueue ==
    ASSUME queue \in Seq(Task), NEW t \in Task, queue' = Append(queue, t), NEW c
    PROVE  InQueue(c)' <=> InQueue(c) \/ t.conn = c
  <1>1. Len(queue) \in Nat /\ Len(queue') = Len(queue) + 1
    OBVIOUS
  <1>2. \A i \in 1..Len(queue) : queue'[i] = queue[i]
    OBVIOUS
  <1>3. queue'[Len(queue) + 1] = t
    OBVIOUS
  <1> QED BY <1>1, <1>2, <1>3 DEF InQueue

LEMMA TailQueue ==
    ASSUME queue \in Seq(Task), queue # <<>>, queue' = Tail(queue), NEW c
    PROVE  InQueue(c) <=> InQueue(c)' \/ Head(queue).conn = c
  <1>1. Len(queue) \in Nat \ {0} /\ Len(queue') = Len(queue) - 1
    OBVIOUS
  <1>2. \A i \in 1..Len(queue') : queue'[i] = queue[i + 1]
    OBVIOUS
  <1>3. Head(queue) = queue[1]
    OBVIOUS
  <1>4. InQueue(c)' => InQueue(c)
    BY <1>1, <1>2 DEF InQueue
  <1>5. Head(queue).conn = c => InQueue(c)
    BY <1>1, <1>3 DEF InQueue
  <1>6. ASSUME NEW i \in 1..Len(queue), queue[i].conn = c, i # 1 PROVE InQueue(c)'
    <2>1. i - 1 \in 1..Len(queue') /\ queue'[i - 1] = queue[i]
      BY <1>1, <1>2, <1>6
    <2> QED BY <1>6, <2>1 DEF InQueue
  <1> QED BY <1>3, <1>4, <1>5, <1>6 DEF InQueue

LEMMA OwnInit == Init => OwnInv
  <1> SUFFICES ASSUME Init PROVE OwnInv
    OBVIOUS
  <1>1. FdInv
    BY ServerAssumption DEF Init, FdInv
  <1>2. HeldInv
    BY ServerAssumption DEF Init, TQ!Init, HeldInv, Held, InMap, InQueue, Refers
  <1>3. BacklogInv
    BY DEF Init, BacklogInv
  <1> QED BY <1>1, <1>2, <1>3 DEF OwnInv

\* A reference is moved or copied, none is the last to go.
LEMMA OwnFrame ==
    ASSUME OwnInv, UNCHANGED <<fdOf, life, interest, connections, backlog, peer>>,
           \A c \in Clients : Held(c)' <=> Held(c)
    PROVE  OwnInv'
  BY DEF OwnInv, FdInv, HeldInv, BacklogInv

\* The shared_ptr of t to c goes; if it is the last one, the descriptor with it.
LEMMA OwnDrop ==
    ASSUME BaseOK, OwnInv, NEW c \in Clients, NEW t, Drop(c, t), Held(c),
           UNCHANGED <<connections, backlog, peer>>,
           OthersHold(c, t) => Held(c)', Held(c)' => OthersHold(c, t),
           \A d \in Clients \ {c} : Held(d)' <=> Held(d)
    PROVE  OwnInv'
  <1>1. CASE OthersHold(c, t)
    <2>1. UNCHANGED <<fdOf, life, interest>>
      BY <1>1 DEF Drop, objVars
    <2> QED BY <1>1, <2>1, OwnFrame
  <1>2. CASE ~OthersHold(c, t)
    <2>1. /\ interest' = [interest EXCEPT ![fdOf[c]] = "none"]
          /\ life' = [life EXCEPT ![c] = "gone"]
          /\ fdOf' = [fdOf EXCEPT ![c] = NoFd]
      BY <1>2 DEF Drop
    <2>2. life[c] = "live" /\ fdOf[c] \in Fds /\ ~InMap(c)
      BY <1>2 DEF OwnInv, HeldInv, FdInv, OthersHold, BaseOK, ObjTypes
    <2>3. FdInv'
      <3>1. \A d \in Clients : (life[d] = "live")' <=> (fdOf[d] # NoFd)'
        BY <2>1 DEF OwnInv, FdInv, BaseOK, ObjTypes
      <3>2. \A d, e \in Clients : fdOf'[d] = fdOf'[e] /\ fdOf'[d] # NoFd => d = e
        BY <2>1 DEF OwnInv, FdInv, BaseOK, ObjTypes
      <3>3. \A f \in Fds : interest'[f] # "none" <=> \E d \in Clients : fdOf'[d] = f
        BY <2>1, <2>2, ServerAssumption DEF OwnInv, FdInv, BaseOK, ObjTypes
      <3>4. \A f \in Fds : connections'[f] # NoConn => fdOf'[connections'[f]] = f
        BY <2>1, <2>2 DEF OwnInv, FdInv, BaseOK, ObjTypes, InMap
      <3> QED BY <3>1, <3>2, <3>3, <3>4 DEF FdInv
    <2>4. HeldInv'
      BY <1>2, <2>1 DEF OwnInv, HeldInv, BaseOK, ObjTypes
    <2>5. BacklogInv'
      BY <2>1, <2>2 DEF OwnInv, BacklogInv, BaseOK, ObjTypes
    <2> QED BY <2>3, <2>4, <2>5 DEF OwnInv
  <1> QED BY <1>1, <1>2

LEMMA OwnClients ==
    ASSUME BaseOK, OwnInv, NEW c \in Clients, ClientStep(c)
    PROVE  OwnInv'
  <1>1. /\ \A d \in Clients : Held(d)' <=> Held(d)
        /\ UNCHANGED <<fdOf, interest, connections>>
    BY DEF ClientStep, Connect, SendSegment, Fin, Reset, Deliver, mainVars, objVars, poolVars,
           Held, InMap, InQueue, Refers
  <1>2. CASE Connect(c)
    <2>1. /\ life' = [life EXCEPT ![c] = "backlog"] /\ peer' = [peer EXCEPT ![c] = "open"]
          /\ backlog' = Append(backlog, c) /\ life[c] = "none"
      BY <1>2 DEF Connect, OwnInv, BacklogInv
    <2>2. FdInv' /\ HeldInv'
      BY <1>1, <2>1 DEF OwnInv, FdInv, HeldInv, BaseOK, ObjTypes
    <2>3. BacklogInv'
      <3>1. backlog \in Seq(Clients) /\ Len(backlog) \in Nat /\ Len(backlog') = Len(backlog) + 1
            /\ backlog'[Len(backlog) + 1] = c
        BY <2>1 DEF BaseOK, ObjTypes
      <3>2. \A i \in 1..Len(backlog) : backlog'[i] = backlog[i] /\ backlog[i] # c
                                       /\ backlog[i] \in Clients
        BY <2>1 DEF BaseOK, ObjTypes, OwnInv, BacklogInv
      <3>3. \A i \in 1..Len(backlog') : life'[backlog'[i]] = "backlog"
        BY <2>1, <3>1, <3>2 DEF OwnInv, BacklogInv, BaseOK, ObjTypes
      <3>4. \A i, j \in 1..Len(backlog') : backlog'[i] = backlog'[j] => i = j
        BY <3>1, <3>2 DEF OwnInv, BacklogInv
      <3>5. \A d \in Clients : (life'[d] = "none") <=> (peer'[d] = "new")
        BY <2>1 DEF OwnInv, BacklogInv, BaseOK, ObjTypes, NetTypes
      <3> QED BY <3>3, <3>4, <3>5 DEF BacklogInv
    <2> QED BY <2>2, <2>3 DEF OwnInv
  <1>3. CASE SendSegment(c) \/ Deliver(c)
    BY <1>1, <1>3, OwnFrame DEF SendSegment, Deliver, objVars
  <1>4. CASE Fin(c) \/ Reset(c)
    <2>1. life' = life /\ backlog' = backlog /\ peer[c] # "new"
          /\ \E p \in {"fin", "reset", "broken"} : peer' = [peer EXCEPT ![c] = p]
      BY <1>4 DEF Fin, Reset, objVars
    <2>2. FdInv' /\ HeldInv'
      BY <1>1, <2>1 DEF OwnInv, FdInv, HeldInv
    <2>3. BacklogInv'
      BY <2>1 DEF OwnInv, BacklogInv, BaseOK, NetTypes
    <2> QED BY <2>2, <2>3 DEF OwnInv
  <1> QED BY <1>2, <1>3, <1>4 DEF ClientStep

LEMMA OwnAccept ==
    ASSUME BaseOK, OwnInv, Accept
    PROVE  OwnInv'
  <1>0. PICK c \in Clients : c = Head(backlog)
    BY DEF Accept, BaseOK, ObjTypes
  <1>1. PICK f \in Fds : /\ \A d \in Clients : fdOf[d] # f
                         /\ fdOf' = [fdOf EXCEPT ![c] = f]
                         /\ life' = [life EXCEPT ![c] = "live"]
                         /\ interest' = [interest EXCEPT ![f] = "in"]
                         /\ hand' = [conn |-> c, ev |-> "in"]
    BY <1>0 DEF Accept
  <1>2. backlog # <<>> /\ backlog' = Tail(backlog) /\ backlog \in Seq(Clients)
        /\ UNCHANGED <<connections, queue, running, peer>>
    BY DEF Accept, poolVars, netVars, BaseOK, ObjTypes
  <1>3. c = backlog[1] /\ c \in Clients /\ Len(backlog) \in Nat \ {0}
        /\ Len(backlog') = Len(backlog) - 1
        /\ \A i \in 1..Len(backlog') : backlog'[i] = backlog[i + 1] /\ backlog[i + 1] \in Clients
    BY <1>0, <1>2
  <1>4. life[c] = "backlog" /\ fdOf[c] = NoFd
    BY <1>3 DEF OwnInv, BacklogInv, FdInv
  <1>5. FdInv'
    <2>1. \A d \in Clients : (life[d] = "live")' <=> (fdOf[d] # NoFd)'
      BY <1>1, <1>3, ServerAssumption DEF OwnInv, FdInv, BaseOK, ObjTypes
    <2>2. \A d, e \in Clients : fdOf'[d] = fdOf'[e] /\ fdOf'[d] # NoFd => d = e
      BY <1>1, <1>3 DEF OwnInv, FdInv, BaseOK, ObjTypes
    <2>3. \A g \in Fds : interest'[g] # "none" <=> \E d \in Clients : fdOf'[d] = g
      BY <1>1, <1>3, <1>4, ServerAssumption DEF OwnInv, FdInv, BaseOK, ObjTypes
    <2>4. \A g \in Fds : connections'[g] # NoConn => fdOf'[connections'[g]] = g
      BY <1>1, <1>2, <1>3, <1>4, ServerAssumption DEF OwnInv, FdInv, BaseOK, ObjTypes
    <2> QED BY <2>1, <2>2, <2>3, <2>4 DEF FdInv
  <1>6. HeldInv'
    <2>1. hand = NoTask /\ hand' # NoTask /\ hand'.conn = c
      BY <1>1, <1>3, TaskIsSomething DEF Accept, BaseOK, ThreadTypes, Task
    <2>2. \A d \in Clients \ {c} : Held(d)' <=> Held(d)
      BY <1>2, <2>1 DEF Held, InMap, InQueue, Refers
    <2>3. Held(c)'
      BY <2>1 DEF Held
    <2> QED BY <1>1, <1>3, <2>2, <2>3 DEF OwnInv, HeldInv, BaseOK, ObjTypes
  <1>7. BacklogInv'
    <2>1. \A i \in 1..Len(backlog') : backlog'[i] # c /\ life'[backlog'[i]] = "backlog"
      <3> SUFFICES ASSUME NEW i \in 1..Len(backlog') PROVE backlog'[i] # c /\ life'[backlog'[i]] = "backlog"
        OBVIOUS
      <3>1. i + 1 \in 1..Len(backlog) /\ 1 \in 1..Len(backlog) /\ i + 1 # 1
        BY <1>3
      <3>2. backlog[i + 1] # c /\ life[backlog[i + 1]] = "backlog"
        BY <1>3, <3>1 DEF OwnInv, BacklogInv
      <3> QED BY <1>1, <1>3, <3>2 DEF BaseOK, ObjTypes
    <2>2. \A i, j \in 1..Len(backlog') : backlog'[i] = backlog'[j] => i = j
      <3> SUFFICES ASSUME NEW i \in 1..Len(backlog'), NEW j \in 1..Len(backlog'),
                          backlog'[i] = backlog'[j]
                   PROVE  i = j
        OBVIOUS
      <3>1. i + 1 \in 1..Len(backlog) /\ j + 1 \in 1..Len(backlog)
            /\ backlog[i + 1] = backlog[j + 1]
        BY <1>3
      <3>2. i + 1 = j + 1
        BY <3>1 DEF OwnInv, BacklogInv
      <3> QED BY <3>2, <1>3
    <2>3. \A d \in Clients : (life'[d] = "none") <=> (peer'[d] = "new")
      BY <1>1, <1>2, <1>3, <1>4 DEF OwnInv, BacklogInv, BaseOK, ObjTypes
    <2> QED BY <2>1, <2>2, <2>3 DEF BacklogInv
  <1> QED BY <1>5, <1>6, <1>7 DEF OwnInv

LEMMA OwnMain ==
    ASSUME BaseOK, OwnInv, MainStep
    PROVE  OwnInv'
  <1>1. CASE CheckRunning \/ EnterWait \/ BatchDone \/ HandleNewConnection \/ AcceptDone
             \/ AcceptFails
    <2>1. UNCHANGED <<fdOf, life, interest, connections, backlog, peer, hand, queue, running>>
      BY <1>1 DEF CheckRunning, EnterWait, BatchDone, HandleNewConnection, AcceptDone, AcceptFails,
                  netVars, objVars, poolVars
    <2> QED BY <2>1, OwnFrame DEF Held, InMap, InQueue, Refers
  <1>2. CASE EpollWait
    <2>1. PICK S \in SUBSET ReadyEvents : interest' = Disarm(S)
      BY <1>2 DEF EpollWait
    <2>2. UNCHANGED <<fdOf, life, connections, backlog, peer, hand, queue, running>>
      BY <1>2 DEF EpollWait, netVars, objVars, poolVars
    <2>3. \A f \in Fds : interest'[f] # "none" <=> interest[f] # "none"
      BY <2>1 DEF Disarm, ReadyEvents, Event
    <2>4. FdInv'
      BY <2>2, <2>3 DEF OwnInv, FdInv
    <2>5. HeldInv' /\ BacklogInv'
      BY <2>2 DEF OwnInv, HeldInv, BacklogInv, Held, InMap, InQueue, Refers
    <2> QED BY <2>4, <2>5 DEF OwnInv
  <1>3. CASE Accept
    BY <1>3, OwnAccept
  <1>4. CASE Insert
    <2>1. PICK c \in Clients : hand # NoTask /\ c = hand.conn
      BY <1>4 DEF Insert, BaseOK, ThreadTypes, Task
    <2>2. /\ connections' = [connections EXCEPT ![fdOf[c]] = c] /\ hand' = NoTask
          /\ UNCHANGED <<fdOf, life, interest, backlog, peer, queue, running>>
      BY <1>4, <2>1 DEF Insert, netVars, objVars, poolVars
    <2>3. Held(c) /\ fdOf[c] \in Fds
      BY <2>1 DEF Held, OwnInv, HeldInv, FdInv, BaseOK, ObjTypes
    <2>4. FdInv' /\ BacklogInv'
      BY <2>2, <2>3 DEF OwnInv, FdInv, BacklogInv, BaseOK, ObjTypes
    <2>5. InMap(c)'
      BY <2>2, <2>3 DEF InMap, BaseOK, ObjTypes
    <2>6. ASSUME NEW d \in Clients \ {c} PROVE Held(d)' <=> Held(d)
      \* The entry that is overwritten was nobody's.
      <3>0. connections[fdOf[c]] # d
        BY <2>3, ServerAssumption DEF OwnInv, FdInv
      <3>1. InMap(d)' <=> InMap(d)
        BY <2>2, <2>3, <3>0 DEF InMap, BaseOK, ObjTypes
      <3> QED BY <2>1, <2>2, <3>1 DEF Held, InQueue, Refers
    <2>7. HeldInv'
      BY <2>2, <2>3, <2>5, <2>6 DEF OwnInv, HeldInv, Held
    <2> QED BY <2>4, <2>7 DEF OwnInv
  <1>5. ASSUME NEW e \in batch, FindClient(e) PROVE OwnInv'
    <2>1. UNCHANGED <<fdOf, life, interest, connections, backlog, peer, queue, running>>
      BY <1>5 DEF FindClient, netVars, objVars, poolVars
    <2>2. CASE connections[e.fd] = NoConn
      BY <1>5, <2>1, <2>2, OwnFrame DEF FindClient, Held, InMap, InQueue, Refers
    <2>3. CASE connections[e.fd] # NoConn
      <3>1. hand = NoTask /\ e.fd \in Fds
        BY <1>5 DEF FindClient, BaseOK, ThreadTypes, Event
      <3>2. hand'.conn = connections[e.fd] /\ InMap(hand'.conn)
        BY <1>5, <2>3, <3>1 DEF FindClient, InMap
      <3> QED BY <2>1, <3>1, <3>2, OwnFrame DEF Held, InMap, InQueue, Refers
    <2> QED BY <2>2, <2>3
  <1>6. CASE EnqueueTask
    <2>1. hand \in Task /\ queue' = Append(queue, hand) /\ hand # NoTask
          /\ UNCHANGED <<fdOf, life, interest, connections, backlog, peer, running, hand>>
      BY <1>6, TaskIsSomething
      DEF EnqueueTask, TQ!Enqueue, BaseOK, ThreadTypes, netVars, objVars
    <2>2. ASSUME NEW c \in Clients PROVE Held(c)' <=> Held(c)
      <3>1. InQueue(c)' <=> InQueue(c) \/ hand.conn = c
        BY <2>1, AppendQueue DEF BaseOK, ThreadTypes
      <3> QED BY <2>1, <3>1 DEF Held, InMap, Refers
    <2> QED BY <2>1, <2>2, OwnFrame
  <1>7. CASE DropHand
    <2>1. PICK c \in Clients : hand # NoTask /\ c = hand.conn
      BY <1>7 DEF DropHand, BaseOK, ThreadTypes, Task
    <2>2. /\ hand' = NoTask /\ Drop(c, "main")
          /\ UNCHANGED <<connections, backlog, peer, queue, running>>
      BY <1>7, <2>1 DEF DropHand, poolVars
    <2>3. Held(c)' <=> OthersHold(c, "main")
      BY <2>2, ServerAssumption DEF Held, OthersHold, InMap, InQueue, Refers
    <2>4. \A d \in Clients \ {c} : Held(d)' <=> Held(d)
      BY <2>1, <2>2 DEF Held, InMap, InQueue, Refers
    <2> QED BY <2>1, <2>2, <2>3, <2>4, OwnDrop DEF Held
  <1> QED BY <1>1, <1>2, <1>3, <1>4, <1>5, <1>6, <1>7 DEF MainStep

LEMMA OwnWorkers ==
    ASSUME BaseOK, OwnInv, NEW w \in Workers, WorkerStep(w)
    PROVE  OwnInv'
  <1>1. CASE StartTask(w)
    <2>1. /\ queue # <<>> /\ queue' = Tail(queue) /\ running[w] = NoTask
          /\ running' = [running EXCEPT ![w] = Head(queue)]
          /\ UNCHANGED <<fdOf, life, interest, connections, backlog, peer, hand>>
      BY <1>1 DEF StartTask, TQ!Start, netVars, objVars, mainVars
    <2>2. Head(queue) \in Task /\ Head(queue) # NoTask
      BY <2>1, TaskIsSomething DEF BaseOK, ThreadTypes
    <2>3. ASSUME NEW c \in Clients PROVE Held(c)' <=> Held(c)
      <3>1. InQueue(c) <=> InQueue(c)' \/ Head(queue).conn = c
        BY <2>1, TailQueue DEF BaseOK, ThreadTypes
      <3>2. (\E v \in Workers : Refers(v, c))'
              <=> (\E v \in Workers : Refers(v, c)) \/ Head(queue).conn = c
        BY <2>1, <2>2 DEF Refers, BaseOK, ThreadTypes
      <3> QED BY <2>1, <3>1, <3>2 DEF Held, InMap
    <2> QED BY <2>1, <2>3, OwnFrame
  <1>2. CASE Recv(w) \/ TryParse(w) \/ Send(w)
    <2>1. UNCHANGED <<fdOf, life, interest, connections, backlog, peer, hand, queue, running>>
      BY <1>2 DEF Recv, TryParse, Send, netVars, mainVars, poolVars
    <2> QED BY <2>1, OwnFrame DEF Held, InMap, InQueue, Refers
  <1>3. CASE Arm(w)
    <2>1. \A f \in Fds : interest'[f] # "none" <=> interest[f] # "none"
      BY <1>3 DEF Arm, modFd, BaseOK, ObjTypes
    <2>2. UNCHANGED <<fdOf, life, connections, backlog, peer, hand, queue, running>>
      BY <1>3 DEF Arm, netVars, objVars, mainVars, poolVars
    <2>3. FdInv'
      BY <2>1, <2>2 DEF OwnInv, FdInv
    <2>4. HeldInv' /\ BacklogInv'
      BY <2>2 DEF OwnInv, HeldInv, BacklogInv, Held, InMap, InQueue, Refers
    <2> QED BY <2>3, <2>4 DEF OwnInv
  <1>4. CASE RequestClose(w)
    <2>1. PICK c \in Clients : Refers(w, c) /\ c = running[w].conn
      BY <1>4 DEF RequestClose, BaseOK, ThreadTypes, Task, Refers
    <2>2. /\ connections' = [connections EXCEPT ![fdOf[c]] = NoConn]
          /\ UNCHANGED <<fdOf, life, interest, backlog, peer, hand, queue, running>>
      BY <1>4, <2>1 DEF RequestClose, netVars, objVars, mainVars, poolVars
    <2>3. Held(c) /\ fdOf[c] \in Fds
      BY <2>1 DEF Held, OwnInv, HeldInv, FdInv, BaseOK, ObjTypes
    <2>4. FdInv' /\ BacklogInv'
      BY <2>2, <2>3 DEF OwnInv, FdInv, BacklogInv, BaseOK, ObjTypes
    <2>5. ASSUME NEW d \in Clients PROVE Held(d)' <=> Held(d)
      <3>1. CASE d = c
        BY <2>1, <2>2, <3>1 DEF Held, Refers
      <3>2. CASE d # c
        <4>1. InMap(d)' <=> InMap(d)
          BY <2>2, <2>3, <3>2, ServerAssumption DEF InMap, BaseOK, ObjTypes, OwnInv, FdInv
        <4> QED BY <2>2, <4>1 DEF Held, InQueue, Refers
      <3> QED BY <3>1, <3>2
    <2> QED BY <2>2, <2>4, <2>5 DEF OwnInv, HeldInv
  <1>5. CASE EndTask(w)
    <2>1. PICK c \in Clients : running[w] # NoTask /\ c = running[w].conn
      BY <1>5 DEF EndTask, BaseOK, ThreadTypes, Task
    <2>2. /\ running' = [running EXCEPT ![w] = NoTask] /\ Drop(c, w)
          /\ UNCHANGED <<connections, backlog, peer, queue, hand>>
      BY <1>5, <2>1 DEF EndTask, TQ!Finish, mainVars
    <2>3. Held(c)' <=> OthersHold(c, w)
      BY <2>2, ServerAssumption
      DEF Held, OthersHold, InMap, InQueue, Refers, BaseOK, ThreadTypes
    <2>4. \A d \in Clients \ {c} : Held(d)' <=> Held(d)
      BY <2>1, <2>2 DEF Held, InMap, InQueue, Refers, BaseOK, ThreadTypes
    <2>5. Held(c)
      BY <2>1 DEF Held, Refers
    <2> QED BY <2>1, <2>2, <2>3, <2>4, <2>5, OwnDrop
  <1> QED BY <1>1, <1>2, <1>3, <1>4, <1>5 DEF WorkerStep

LEMMA OwnStep == BaseOK /\ OwnInv /\ [Next]_vars => OwnInv'
  <1> SUFFICES ASSUME BaseOK, OwnInv, [Next]_vars PROVE OwnInv'
    OBVIOUS
  <1>1. CASE Signal \/ UNCHANGED vars
    <2>1. UNCHANGED <<fdOf, life, interest, connections, backlog, peer, hand, queue, running>>
      BY <1>1 DEF Signal, vars, netVars, objVars, mainVars, poolVars
    <2> QED BY <2>1, OwnFrame DEF Held, InMap, InQueue, Refers
  <1> QED BY <1>1, OwnClients, OwnMain, OwnWorkers DEF Next
-----------------------------------------------------------------------------
(* Who drives a connection.                                                *)

Driven(c) == Armed(c) \/ InBatch(c) \/ InHand(c) \/ InQueue(c) \/ Handler(c) # {}

\* c was accepted and is not yet in the map.
Entering(c) == mpc = "insert" /\ hand.conn = c

\* OneDriver, for c, in two parts.
Exclusive(c) ==
    /\ Armed(c) => ~InBatch(c) /\ ~InHand(c) /\ ~InQueue(c) /\ Handler(c) = {}
    /\ InBatch(c) => ~InHand(c) /\ ~InQueue(c) /\ Handler(c) = {}
    /\ InHand(c) => ~InQueue(c) /\ Handler(c) = {}
    /\ InQueue(c) => Handler(c) = {}
    /\ \A v, w \in Handler(c) : v = w

QueuedOnce(c) ==
    \A i, j \in 1..Len(queue) : queue[i].conn = c /\ queue[j].conn = c => i = j

\* A connection is in the map, or on its way there, exactly while it is driven.
DriverOK(c) ==
    /\ Exclusive(c)
    /\ Entering(c) => Armed(c)
    /\ Driven(c) <=> InMap(c) \/ Entering(c)

\* The events main still has to handle: none while it waits for more, one of a
\* connection, each of the connection its descriptor leads to.
BatchInv ==
    /\ mpc \in {"check", "enter", "wait"} => batch = {}
    /\ \A d, e \in batch : d.conn = e.conn => d = e
    /\ EventFindsItsConnection

OnceInv == \A c \in Clients : QueuedOnce(c)

DriveInv == /\ \A c \in Clients : DriverOK(c)
            /\ OnceInv
            /\ BatchInv

LEMMA OneDriverParts ==
    ASSUME \A c \in Clients : DriverOK(c), OnceInv
    PROVE  OneDriver
  BY DEF OneDriver, DriverOK, Exclusive, OnceInv, QueuedOnce

LEMMA DriveInit == Init => DriveInv
  <1> SUFFICES ASSUME Init PROVE DriveInv
    OBVIOUS
  <1>1. ASSUME NEW c \in Clients PROVE DriverOK(c) /\ QueuedOnce(c)
    BY ServerAssumption
    DEF Init, TQ!Init, DriverOK, Exclusive, QueuedOnce, Driven, Entering, Armed, InBatch, InHand,
        InQueue, Handler, InMap
  <1>2. BatchInv
    BY DEF Init, BatchInv, EventFindsItsConnection
  <1> QED BY <1>1, <1>2 DEF DriveInv, OnceInv

\* Nothing happens to the drivers of c.
LEMMA SameDriver ==
    ASSUME NEW c, DriverOK(c),
           Armed(c)' <=> Armed(c), InBatch(c)' <=> InBatch(c), InHand(c)' <=> InHand(c),
           InQueue(c)' <=> InQueue(c), Handler(c)' = Handler(c),
           InMap(c)' <=> InMap(c), Entering(c)' <=> Entering(c)
    PROVE  DriverOK(c)'
  BY DEF DriverOK, Exclusive, Driven

\* Nothing happens to any driver.
LEMMA DriveFrame ==
    ASSUME DriveInv, UNCHANGED <<batch, queue, connections>>,
           \A c \in Clients : /\ Armed(c)' <=> Armed(c)
                              /\ InHand(c)' <=> InHand(c)
                              /\ Entering(c)' <=> Entering(c)
                              /\ Handler(c)' = Handler(c),
           mpc' \in {"check", "enter", "wait"} => batch = {}
    PROVE  DriveInv'
  <1>1. ASSUME NEW c \in Clients PROVE DriverOK(c)'
    <2>1. /\ InBatch(c)' <=> InBatch(c)
          /\ InQueue(c)' <=> InQueue(c)
          /\ InMap(c)' <=> InMap(c)
      BY DEF InBatch, InQueue, InMap
    <2> QED BY <2>1, SameDriver DEF DriveInv
  <1>2. OnceInv'
    BY DEF DriveInv, OnceInv, QueuedOnce
  <1>3. BatchInv'
    BY DEF DriveInv, BatchInv, EventFindsItsConnection
  <1> QED BY <1>1, <1>2, <1>3 DEF DriveInv

LEMMA AppendOnce ==
    ASSUME BaseOK, OnceInv, NEW t \in Task, queue' = Append(queue, t), ~InQueue(t.conn)
    PROVE  OnceInv'
  <1>1. Len(queue) \in Nat /\ Len(queue') = Len(queue) + 1 /\ queue'[Len(queue) + 1] = t
    BY DEF BaseOK, ThreadTypes
  <1>2. \A i \in 1..Len(queue) : queue'[i] = queue[i] /\ queue[i].conn # t.conn
    BY DEF BaseOK, ThreadTypes, InQueue
  <1> SUFFICES ASSUME NEW c \in Clients, NEW i \in 1..Len(queue'), NEW j \in 1..Len(queue'),
                      queue'[i].conn = c, queue'[j].conn = c
               PROVE  i = j
    BY DEF OnceInv, QueuedOnce
  <1>3. CASE i \in 1..Len(queue) /\ j \in 1..Len(queue)
    BY <1>2, <1>3 DEF OnceInv, QueuedOnce
  <1>4. CASE i = Len(queue) + 1 \/ j = Len(queue) + 1
    BY <1>1, <1>2, <1>4
  <1> QED BY <1>1, <1>3, <1>4

LEMMA TailOnce ==
    ASSUME BaseOK, OnceInv, queue # <<>>, queue' = Tail(queue),
           NEW c \in Clients, c = Head(queue).conn
    PROVE  OnceInv' /\ ~InQueue(c)'
  <1>1. Len(queue) \in Nat \ {0} /\ Len(queue') = Len(queue) - 1
        /\ \A i \in 1..Len(queue') : queue'[i] = queue[i + 1] /\ i + 1 \in 1..Len(queue)
    BY DEF BaseOK, ThreadTypes
  <1>2. Head(queue) = queue[1] /\ queue[1] \in Task /\ 1 \in 1..Len(queue)
    BY <1>1 DEF BaseOK, ThreadTypes
  <1>3. OnceInv'
    <2> SUFFICES ASSUME NEW d \in Clients, NEW i \in 1..Len(queue'), NEW j \in 1..Len(queue'),
                        queue'[i].conn = d, queue'[j].conn = d
                 PROVE  i = j
      BY DEF OnceInv, QueuedOnce
    <2>1. i + 1 = j + 1
      BY <1>1 DEF OnceInv, QueuedOnce
    <2> QED BY <2>1, <1>1
  <1>5. \A i \in 1..Len(queue') : queue'[i].conn # c
    <2> SUFFICES ASSUME NEW i \in 1..Len(queue'), queue'[i].conn = c PROVE FALSE
      OBVIOUS
    <2>1. i + 1 = 1
      BY <1>1, <1>2 DEF OnceInv, QueuedOnce
    <2> QED BY <2>1, <1>1
  <1>6. ~InQueue(c)'
    BY <1>5 DEF InQueue
  <1> QED BY <1>3, <1>6

\* Other connections do not share the descriptor of a live one.
LEMMA OtherFd ==
    ASSUME OwnInv, NEW c \in Clients, NEW d \in Clients, c # d, life[d] = "live"
    PROVE  fdOf[d] # fdOf[c]
  BY DEF OwnInv, FdInv

\* In the map, at its descriptor.
LEMMA MapFd ==
    ASSUME BaseOK, OwnInv, NEW c \in Clients, InMap(c)
    PROVE  fdOf[c] \in Fds /\ connections[fdOf[c]] = c /\ life[c] = "live"
  BY ServerAssumption DEF BaseOK, ObjTypes, OwnInv, FdInv, InMap

\* An object that is destroyed was not armed, and no other is disarmed.
ArmedFor(c, ev) == life[c] = "live" /\ interest[fdOf[c]] = ev

LEMMA DropArmedFor ==
    ASSUME BaseOK, OwnInv, DriveInv, NEW c \in Clients, NEW t, Drop(c, t),
           Entering(c) => t # "main",
           NEW d \in Clients, NEW ev \in {"in", "out"}
    PROVE  ArmedFor(d, ev)' <=> ArmedFor(d, ev)
  <1>1. CASE OthersHold(c, t)
    BY <1>1 DEF Drop, objVars, ArmedFor
  <1>2. CASE ~OthersHold(c, t)
    <2>1. /\ interest' = [interest EXCEPT ![fdOf[c]] = "none"]
          /\ life' = [life EXCEPT ![c] = "gone"]
          /\ fdOf' = [fdOf EXCEPT ![c] = NoFd]
      BY <1>2 DEF Drop
    <2>2. CASE d = c
      <3>1. ~Armed(c)
        BY <1>2 DEF OthersHold, DriveInv, DriverOK, Driven, Entering, BaseOK, ThreadTypes
      <3> QED BY <2>1, <2>2, <3>1 DEF Armed, ArmedFor, BaseOK, ObjTypes
    <2>3. CASE d # c
      BY <2>1, <2>3, OtherFd DEF ArmedFor, BaseOK, ObjTypes, OwnInv, FdInv
    <2> QED BY <2>2, <2>3
  <1> QED BY <1>1, <1>2

LEMMA DropArmed ==
    ASSUME BaseOK, OwnInv, DriveInv, NEW c \in Clients, NEW t, Drop(c, t),
           Entering(c) => t # "main",
           NEW d \in Clients
    PROVE  Armed(d)' <=> Armed(d)
  BY DropArmedFor DEF Armed, ArmedFor

LEMMA DriveEpollWait ==
    ASSUME BaseOK, OwnInv, DriveInv, EpollWait
    PROVE  DriveInv'
  <1>1. PICK S \in SUBSET ReadyEvents : batch' = S /\ interest' = Disarm(S)
    BY DEF EpollWait
  <1>2. /\ batch = {} /\ mpc = "wait" /\ mpc' = "batch"
        /\ UNCHANGED <<life, fdOf, queue, running, wpc, connections, hand>>
    BY DEF EpollWait, DriveInv, BatchInv, objVars, poolVars
  <1>3. \A e \in S : /\ e \in Event /\ e.conn \in Clients /\ e.fd \in Fds /\ e.ev \in {"in", "out"}
                     /\ life[e.conn] = "live" /\ fdOf[e.conn] = e.fd /\ interest[e.fd] = e.ev
    BY <1>1 DEF ReadyEvents, Event
  \* What is reported was armed, and so is in the map.
  <1>4. \A e \in S : Armed(e.conn) /\ InMap(e.conn) /\ connections[e.fd] = e.conn
    <2> SUFFICES ASSUME NEW e \in S PROVE Armed(e.conn) /\ InMap(e.conn) /\ connections[e.fd] = e.conn
      OBVIOUS
    <2>1. Armed(e.conn)
      BY <1>3 DEF Armed
    <2>2. InMap(e.conn)
      BY <1>2, <1>3, <2>1 DEF DriveInv, DriverOK, Driven, Entering
    <2> QED BY <1>3, <2>1, <2>2, MapFd
  <1>5. ASSUME NEW c \in Clients PROVE DriverOK(c)'
    <2>1. /\ ~InBatch(c) /\ ~InHand(c) /\ ~InHand(c)' /\ ~Entering(c) /\ ~Entering(c)'
          /\ InQueue(c)' <=> InQueue(c)
          /\ Handler(c)' = Handler(c)
          /\ InMap(c)' <=> InMap(c)
      BY <1>2 DEF InBatch, InHand, Entering, InQueue, Handler, InMap
    <2>2. DriverOK(c)
      BY DEF DriveInv
    <2>3. CASE \E e \in S : e.conn = c
      <3>1. Armed(c) /\ InBatch(c)' /\ InMap(c)
        BY <1>1, <1>4, <2>3 DEF InBatch
      <3>2. ~Armed(c)'
        BY <1>1, <1>2, <1>3, <2>3 DEF Armed, Disarm
      <3> QED BY <2>1, <2>2, <3>1, <3>2 DEF DriverOK, Exclusive, Driven
    <2>4. CASE ~\E e \in S : e.conn = c
      <3>1. ~InBatch(c)'
        BY <1>1, <2>4 DEF InBatch
      <3>2. life[c] = "live" => fdOf[c] \in Fds /\ \A e \in S : e.fd # fdOf[c]
        BY <1>3, <2>4 DEF OwnInv, FdInv, BaseOK, ObjTypes
      <3>3. Armed(c)' <=> Armed(c)
        BY <1>1, <1>2, <3>2 DEF Armed, Disarm
      <3> QED BY <2>1, <2>2, <3>1, <3>3, SameDriver
    <2> QED BY <2>3, <2>4
  <1>6. BatchInv'
    <2>1. \A d, e \in S : d.conn = e.conn => d = e
      <3> SUFFICES ASSUME NEW d \in S, NEW e \in S, d.conn = e.conn PROVE d = e
        OBVIOUS
      <3>1. d.fd = e.fd /\ d.ev = e.ev
        BY <1>3
      <3> QED BY <1>3, <3>1 DEF Event
    <2> QED BY <1>1, <1>2, <1>4, <2>1 DEF BatchInv, EventFindsItsConnection
  <1>7. OnceInv'
    BY <1>2 DEF DriveInv, OnceInv, QueuedOnce
  <1> QED BY <1>5, <1>6, <1>7 DEF DriveInv

LEMMA DriveAccept ==
    ASSUME BaseOK, OwnInv, DriveInv, Accept
    PROVE  DriveInv'
  <1>1. PICK c \in Clients : c = Head(backlog)
    BY DEF Accept, BaseOK, ObjTypes
  <1>2. PICK f \in Fds : /\ \A d \in Clients : fdOf[d] # f
                         /\ fdOf' = [fdOf EXCEPT ![c] = f]
                         /\ life' = [life EXCEPT ![c] = "live"]
                         /\ interest' = [interest EXCEPT ![f] = "in"]
                         /\ hand' = [conn |-> c, ev |-> "in"]
    BY <1>1 DEF Accept
  <1>3. /\ mpc = "accept" /\ mpc' = "insert"
        /\ UNCHANGED <<batch, queue, running, wpc, connections>>
    BY DEF Accept, poolVars
  \* Nothing refers to what was just accepted.
  <1>4. ~Held(c)
    <2>1. life[c] = "backlog"
      BY <1>1 DEF Accept, BaseOK, ObjTypes, OwnInv, BacklogInv
    <2> QED BY <2>1 DEF OwnInv, HeldInv
  <1>5. ~InMap(c) /\ ~InQueue(c) /\ ~InBatch(c) /\ Handler(c) = {}
    <2>1. ~InMap(c) /\ ~InQueue(c) /\ Handler(c) = {}
      BY <1>4 DEF Held, Handler, Refers, BaseOK, ThreadTypes
    <2>2. ~InBatch(c)
      BY <2>1 DEF InBatch, InMap, DriveInv, BatchInv, EventFindsItsConnection, BaseOK,
                  ThreadTypes, Event
    <2> QED BY <2>1, <2>2
  <1>6. ASSUME NEW d \in Clients PROVE DriverOK(d)'
    <2>1. /\ ~InHand(d)
          /\ ~InHand(d)'
          /\ ~Entering(d)
          /\ Entering(d)' <=> d = c
          /\ InQueue(d)' <=> InQueue(d)
          /\ Handler(d)' = Handler(d)
          /\ InMap(d)' <=> InMap(d)
          /\ InBatch(d)' <=> InBatch(d)
      BY <1>2, <1>3 DEF InHand, Entering, InQueue, Handler, InMap, InBatch
    <2>2. CASE d = c
      <3>1. Armed(c)'
        BY <1>2 DEF Armed, BaseOK, ObjTypes
      <3> QED BY <1>5, <2>1, <2>2, <3>1 DEF DriverOK, Exclusive, Driven
    <2>3. CASE d # c
      <3>1. Armed(d)' <=> Armed(d)
        BY <1>2, <2>3 DEF Armed, BaseOK, ObjTypes
      <3> QED BY <2>1, <2>3, <3>1, SameDriver DEF DriveInv
    <2> QED BY <2>2, <2>3
  <1>7. OnceInv' /\ BatchInv'
    BY <1>3 DEF DriveInv, OnceInv, QueuedOnce, BatchInv, EventFindsItsConnection
  <1> QED BY <1>6, <1>7 DEF DriveInv

LEMMA DriveInsert ==
    ASSUME BaseOK, OwnInv, DriveInv, Insert
    PROVE  DriveInv'
  <1>1. PICK c \in Clients : c = hand.conn /\ hand # NoTask
    BY DEF Insert, BaseOK, ThreadTypes, Task
  <1>2. /\ mpc = "insert" /\ mpc' = "accept" /\ hand' = NoTask
        /\ connections' = [connections EXCEPT ![fdOf[c]] = c]
        /\ UNCHANGED <<life, fdOf, interest, batch, queue, running, wpc>>
    BY <1>1 DEF Insert, objVars, poolVars
  <1>3. Entering(c) /\ Armed(c)
    BY <1>1, <1>2 DEF Entering, DriveInv, DriverOK
  <1>4. fdOf[c] \in Fds
    BY <1>3 DEF Armed, OwnInv, FdInv, BaseOK, ObjTypes
  <1>5. ASSUME NEW d \in Clients PROVE DriverOK(d)'
    <2>1. /\ ~InHand(d)
          /\ ~InHand(d)'
          /\ Entering(d) <=> d = c
          /\ ~Entering(d)'
          /\ InQueue(d)' <=> InQueue(d)
          /\ Handler(d)' = Handler(d)
          /\ InBatch(d)' <=> InBatch(d)
          /\ Armed(d)' <=> Armed(d)
      BY <1>1, <1>2 DEF InHand, Entering, InQueue, Handler, InBatch, Armed
    <2>2. DriverOK(d)
      BY DEF DriveInv
    <2>3. CASE d = c
      <3>1. InMap(c)'
        BY <1>2, <1>4 DEF InMap, BaseOK, ObjTypes
      <3> QED BY <1>3, <2>1, <2>2, <2>3, <3>1 DEF DriverOK, Exclusive, Driven
    <2>4. CASE d # c
      <3>1. connections[fdOf[c]] # d
        BY <1>4, <2>4, ServerAssumption DEF OwnInv, FdInv
      <3>2. InMap(d)' <=> InMap(d)
        BY <1>2, <1>4, <2>4, <3>1 DEF InMap, BaseOK, ObjTypes
      <3> QED BY <2>1, <2>2, <2>4, <3>2, SameDriver
    <2> QED BY <2>3, <2>4
  <1>6. BatchInv'
    <2>1. \A e \in batch : connections'[e.fd] = e.conn
      <3> SUFFICES ASSUME NEW e \in batch PROVE connections'[e.fd] = e.conn
        OBVIOUS
      <3>1. connections[e.fd] = e.conn /\ e.conn \in Clients /\ e.fd \in Fds
        BY DEF DriveInv, BatchInv, EventFindsItsConnection, BaseOK, ThreadTypes, Event
      <3>2. fdOf[e.conn] = e.fd
        BY <3>1, ServerAssumption DEF OwnInv, FdInv
      <3>3. e.fd = fdOf[c] => e.conn = c
        BY <1>4, <3>1, <3>2, ServerAssumption DEF OwnInv, FdInv
      <3> QED BY <1>2, <3>1, <3>3 DEF BaseOK, ObjTypes
    <2> QED BY <1>2, <2>1 DEF DriveInv, BatchInv, EventFindsItsConnection
  <1>7. OnceInv'
    BY <1>2 DEF DriveInv, OnceInv, QueuedOnce
  <1> QED BY <1>5, <1>6, <1>7 DEF DriveInv

LEMMA DriveFindClient ==
    ASSUME BaseOK, OwnInv, DriveInv, NEW e \in batch, FindClient(e)
    PROVE  DriveInv'
  <1>1. PICK c \in Clients : c = e.conn /\ connections[e.fd] = c /\ e.fd \in Fds
    BY DEF DriveInv, BatchInv, EventFindsItsConnection, BaseOK, ThreadTypes, Event
  <1>2. /\ mpc = "batch" /\ mpc' = "enqueue" /\ hand' = [conn |-> c, ev |-> e.ev]
        /\ batch' = batch \ {e}
        /\ UNCHANGED <<life, fdOf, interest, queue, running, wpc, connections>>
    BY <1>1, ServerAssumption DEF FindClient, objVars, poolVars
  <1>3. InBatch(c) /\ ~InBatch(c)' /\ InHand(c)'
    BY <1>1, <1>2 DEF InBatch, InHand, DriveInv, BatchInv
  <1>4. ASSUME NEW d \in Clients PROVE DriverOK(d)'
    <2>1. /\ ~InHand(d)
          /\ InHand(d)' <=> d = c
          /\ ~Entering(d)
          /\ ~Entering(d)'
          /\ InQueue(d)' <=> InQueue(d)
          /\ Handler(d)' = Handler(d)
          /\ Armed(d)' <=> Armed(d)
          /\ InMap(d)' <=> InMap(d)
      BY <1>2 DEF InHand, Entering, InQueue, Handler, Armed, InMap
    <2>2. DriverOK(d)
      BY DEF DriveInv
    <2>3. CASE d = c
      BY <1>3, <2>1, <2>2, <2>3 DEF DriverOK, Exclusive, Driven
    <2>4. CASE d # c
      <3>1. InBatch(d)' <=> InBatch(d)
        BY <1>1, <1>2, <2>4 DEF InBatch
      <3> QED BY <2>1, <2>2, <2>4, <3>1, SameDriver
    <2> QED BY <2>3, <2>4
  <1>5. OnceInv' /\ BatchInv'
    BY <1>2 DEF DriveInv, OnceInv, QueuedOnce, BatchInv, EventFindsItsConnection
  <1> QED BY <1>4, <1>5 DEF DriveInv

LEMMA DriveEnqueue ==
    ASSUME BaseOK, OwnInv, DriveInv, EnqueueTask
    PROVE  DriveInv'
  <1>1. PICK c \in Clients : c = hand.conn /\ hand \in Task
    BY DEF EnqueueTask, BaseOK, ThreadTypes, Task
  <1>2. /\ mpc = "enqueue" /\ mpc' = "drop" /\ hand' = hand /\ queue' = Append(queue, hand)
        /\ UNCHANGED <<life, fdOf, interest, batch, running, wpc, connections>>
    BY DEF EnqueueTask, TQ!Enqueue, objVars
  <1>3. InHand(c) /\ ~InQueue(c)
    BY <1>1, <1>2 DEF InHand, DriveInv, DriverOK, Exclusive
  <1>4. ASSUME NEW d \in Clients PROVE DriverOK(d)'
    <2>1. /\ InHand(d) <=> d = c
          /\ ~InHand(d)'
          /\ ~Entering(d)
          /\ ~Entering(d)'
          /\ InBatch(d)' <=> InBatch(d)
          /\ Handler(d)' = Handler(d)
          /\ Armed(d)' <=> Armed(d)
          /\ InMap(d)' <=> InMap(d)
      BY <1>1, <1>2 DEF InHand, Entering, InBatch, Handler, Armed, InMap
    <2>2. InQueue(d)' <=> InQueue(d) \/ d = c
      BY <1>1, <1>2, AppendQueue DEF BaseOK, ThreadTypes
    <2>3. DriverOK(d)
      BY DEF DriveInv
    <2>4. CASE d = c
      BY <1>3, <2>1, <2>2, <2>3, <2>4 DEF DriverOK, Exclusive, Driven
    <2>5. CASE d # c
      BY <2>1, <2>2, <2>3, <2>5, SameDriver
    <2> QED BY <2>4, <2>5
  <1>5. OnceInv'
    BY <1>1, <1>2, <1>3, AppendOnce DEF DriveInv
  <1>6. BatchInv'
    BY <1>2 DEF DriveInv, BatchInv, EventFindsItsConnection
  <1> QED BY <1>4, <1>5, <1>6 DEF DriveInv

LEMMA DriveStart ==
    ASSUME BaseOK, OwnInv, DriveInv, NEW w \in Workers, StartTask(w)
    PROVE  DriveInv'
  <1>1. /\ queue # <<>> /\ queue' = Tail(queue) /\ running[w] = NoTask
        /\ running' = [running EXCEPT ![w] = Head(queue)]
        /\ \E l \in {"read", "write"} : wpc' = [wpc EXCEPT ![w] = l]
        /\ UNCHANGED <<life, fdOf, interest, batch, connections, hand, mpc>>
    BY DEF StartTask, TQ!Start, objVars, mainVars
  <1>2. PICK c \in Clients : c = Head(queue).conn
    <2>1. Head(queue) \in Task
      BY <1>1 DEF BaseOK, ThreadTypes
    <2> QED BY <2>1 DEF Task
  <1>3. wpc[w] = "idle"
    BY <1>1 DEF BaseOK, ThreadTypes
  <1>4. \A d \in Clients : InQueue(d) <=> InQueue(d)' \/ d = c
    BY <1>1, <1>2, TailQueue DEF BaseOK, ThreadTypes
  <1>5. OnceInv' /\ ~InQueue(c)'
    BY <1>1, <1>2, TailOnce DEF DriveInv
  <1>6. ASSUME NEW d \in Clients PROVE DriverOK(d)'
    <2>1. /\ InHand(d)' <=> InHand(d)
          /\ Entering(d)' <=> Entering(d)
          /\ InBatch(d)' <=> InBatch(d)
          /\ Armed(d)' <=> Armed(d)
          /\ InMap(d)' <=> InMap(d)
      BY <1>1 DEF InHand, Entering, InBatch, Armed, InMap
    <2>2. Handler(d)' = IF d = c THEN Handler(d) \cup {w} ELSE Handler(d)
      BY <1>1, <1>2, <1>3 DEF Handler, BaseOK, ThreadTypes
    <2>3. DriverOK(d)
      BY DEF DriveInv
    <2>4. CASE d = c
      <3>1. InQueue(c) /\ Handler(c) = {}
        BY <1>4, <2>3, <2>4 DEF DriverOK, Exclusive
      <3>2. Handler(c)' = {w}
        BY <2>2, <2>4, <3>1
      <3> QED BY <1>5, <2>1, <2>3, <2>4, <3>1, <3>2 DEF DriverOK, Exclusive, Driven
    <2>5. CASE d # c
      BY <1>4, <2>1, <2>2, <2>3, <2>5, SameDriver
    <2> QED BY <2>4, <2>5
  <1>7. BatchInv'
    BY <1>1 DEF DriveInv, BatchInv, EventFindsItsConnection
  <1> QED BY <1>5, <1>6, <1>7 DEF DriveInv

\* A worker in a handler is the only driver of its connection.
LEMMA HandlerAlone ==
    ASSUME BaseOK, DriveInv, NEW w \in Workers, wpc[w] \notin {"idle", "tail"}
    PROVE  /\ running[w] \in Task /\ running[w].conn \in Clients
           /\ \A c \in Clients : c = running[w].conn =>
                 /\ Handler(c) = {w}
                 /\ ~Armed(c) /\ ~InBatch(c) /\ ~InHand(c) /\ ~InQueue(c) /\ ~Entering(c)
                 /\ InMap(c)
  <1>1. running[w] \in Task /\ running[w].conn \in Clients
    BY DEF BaseOK, ThreadTypes, Task
  <1>2. ASSUME NEW c \in Clients, c = running[w].conn
        PROVE  /\ Handler(c) = {w}
               /\ ~Armed(c) /\ ~InBatch(c) /\ ~InHand(c) /\ ~InQueue(c) /\ ~Entering(c)
               /\ InMap(c)
    <2>1. w \in Handler(c) /\ DriverOK(c)
      BY <1>2 DEF Handler, DriveInv
    <2> QED BY <2>1 DEF DriverOK, Exclusive, Driven
  <1> QED BY <1>1, <1>2

LEMMA DriveArm ==
    ASSUME BaseOK, OwnInv, DriveInv, NEW w \in Workers, Arm(w)
    PROVE  DriveInv'
  <1>1. PICK c \in Clients : c = running[w].conn
    BY HandlerAlone DEF Arm
  <1>2. /\ Handler(c) = {w} /\ InMap(c)
        /\ ~Armed(c) /\ ~InBatch(c) /\ ~InHand(c) /\ ~InQueue(c) /\ ~Entering(c)
    BY <1>1, HandlerAlone DEF Arm
  <1>3. fdOf[c] \in Fds /\ life[c] = "live" /\ interest[fdOf[c]] # "none"
    BY <1>2, MapFd DEF OwnInv, FdInv
  <1>4. /\ \E ev \in {"in", "out"} : interest' = [interest EXCEPT ![fdOf[c]] = ev]
        /\ wpc' = [wpc EXCEPT ![w] = "tail"]
        /\ UNCHANGED <<life, fdOf, queue, running, batch, connections, hand, mpc>>
    BY <1>1, <1>3 DEF Arm, modFd, objVars, mainVars, poolVars
  <1>5. ASSUME NEW d \in Clients PROVE DriverOK(d)'
    <2>1. /\ InHand(d)' <=> InHand(d)
          /\ Entering(d)' <=> Entering(d)
          /\ InBatch(d)' <=> InBatch(d)
          /\ InQueue(d)' <=> InQueue(d)
          /\ InMap(d)' <=> InMap(d)
      BY <1>4 DEF InHand, Entering, InBatch, InQueue, InMap
    <2>2. Handler(d)' = Handler(d) \ {w}
      BY <1>4 DEF Handler, BaseOK, ThreadTypes
    <2>3. CASE d = c
      <3>1. Armed(c)'
        BY <1>3, <1>4 DEF Armed, BaseOK, ObjTypes
      <3> QED BY <1>2, <2>1, <2>2, <2>3, <3>1 DEF DriverOK, Exclusive, Driven
    <2>4. CASE d # c
      <3>1. Armed(d)' <=> Armed(d)
        BY <1>4, <2>4, OtherFd DEF Armed, BaseOK, ObjTypes
      <3>2. Handler(d)' = Handler(d)
        BY <1>1, <2>2, <2>4 DEF Handler
      <3> QED BY <2>1, <3>1, <3>2, SameDriver DEF DriveInv
    <2> QED BY <2>3, <2>4
  <1>6. OnceInv' /\ BatchInv'
    BY <1>4 DEF DriveInv, OnceInv, QueuedOnce, BatchInv, EventFindsItsConnection
  <1> QED BY <1>5, <1>6 DEF DriveInv

LEMMA DriveClose ==
    ASSUME BaseOK, OwnInv, DriveInv, NEW w \in Workers, RequestClose(w)
    PROVE  DriveInv'
  <1>1. PICK c \in Clients : c = running[w].conn
    BY HandlerAlone DEF RequestClose
  <1>2. /\ Handler(c) = {w} /\ InMap(c)
        /\ ~Armed(c) /\ ~InBatch(c) /\ ~InHand(c) /\ ~InQueue(c) /\ ~Entering(c)
    BY <1>1, HandlerAlone DEF RequestClose
  <1>3. /\ connections' = [connections EXCEPT ![fdOf[c]] = NoConn]
        /\ wpc' = [wpc EXCEPT ![w] = "tail"]
        /\ UNCHANGED <<life, fdOf, interest, queue, running, batch, hand, mpc>>
    BY <1>1 DEF RequestClose, objVars, mainVars, poolVars
  <1>4. fdOf[c] \in Fds /\ connections[fdOf[c]] = c
    BY <1>2, MapFd
  <1>5. ASSUME NEW d \in Clients PROVE DriverOK(d)'
    <2>1. /\ InHand(d)' <=> InHand(d)
          /\ Entering(d)' <=> Entering(d)
          /\ InBatch(d)' <=> InBatch(d)
          /\ InQueue(d)' <=> InQueue(d)
          /\ Armed(d)' <=> Armed(d)
      BY <1>3 DEF InHand, Entering, InBatch, InQueue, Armed
    <2>2. Handler(d)' = Handler(d) \ {w}
      BY <1>3 DEF Handler, BaseOK, ThreadTypes
    <2>3. CASE d = c
      <3>1. ~InMap(c)'
        BY <1>3, <1>4, ServerAssumption DEF InMap, BaseOK, ObjTypes, OwnInv, FdInv
      <3> QED BY <1>2, <2>1, <2>2, <2>3, <3>1 DEF DriverOK, Exclusive, Driven
    <2>4. CASE d # c
      <3>1. InMap(d)' <=> InMap(d)
        BY <1>3, <1>4, <2>4, ServerAssumption DEF InMap, BaseOK, ObjTypes
      <3>2. Handler(d)' = Handler(d)
        BY <1>1, <2>2, <2>4 DEF Handler
      <3> QED BY <2>1, <3>1, <3>2, SameDriver DEF DriveInv
    <2> QED BY <2>3, <2>4
  \* No event still to be handled is of c, so none loses its entry.
  <1>6. BatchInv'
    <2>1. \A e \in batch : connections'[e.fd] = e.conn
      <3> SUFFICES ASSUME NEW e \in batch PROVE connections'[e.fd] = e.conn
        OBVIOUS
      <3>1. connections[e.fd] = e.conn /\ e.conn # c /\ e.fd \in Fds
        BY <1>2 DEF DriveInv, BatchInv, EventFindsItsConnection, InBatch, BaseOK, ThreadTypes,
                    Event
      <3> QED BY <1>3, <1>4, <3>1 DEF BaseOK, ObjTypes
    <2> QED BY <1>3, <2>1 DEF DriveInv, BatchInv, EventFindsItsConnection
  <1>7. OnceInv'
    BY <1>3 DEF DriveInv, OnceInv, QueuedOnce
  <1> QED BY <1>5, <1>6, <1>7 DEF DriveInv

LEMMA DriveClients ==
    ASSUME BaseOK, OwnInv, DriveInv, NEW c \in Clients, ClientStep(c)
    PROVE  DriveInv'
  <1>1. UNCHANGED <<fdOf, interest, batch, queue, running, wpc, connections, hand, mpc>>
    BY DEF ClientStep, Connect, SendSegment, Fin, Reset, Deliver, mainVars, objVars, poolVars
  <1>2. \A d \in Clients : (life[d] = "live")' <=> life[d] = "live"
    BY DEF ClientStep, Connect, SendSegment, Fin, Reset, Deliver, objVars, BaseOK, ObjTypes,
           OwnInv, BacklogInv
  <1>3. \A d \in Clients : /\ Armed(d)' <=> Armed(d)
                           /\ InHand(d)' <=> InHand(d)
                           /\ Entering(d)' <=> Entering(d)
                           /\ Handler(d)' = Handler(d)
    BY <1>1, <1>2 DEF Armed, InHand, Entering, Handler
  <1> QED BY <1>1, <1>3, DriveFrame DEF DriveInv, BatchInv

LEMMA DriveMain ==
    ASSUME BaseOK, OwnInv, DriveInv, MainStep
    PROVE  DriveInv'
  <1>1. CASE CheckRunning \/ EnterWait \/ BatchDone \/ HandleNewConnection \/ AcceptDone
             \/ AcceptFails
    <2>1. UNCHANGED <<life, fdOf, interest, batch, queue, running, wpc, connections, hand>>
      BY <1>1 DEF CheckRunning, EnterWait, BatchDone, HandleNewConnection, AcceptDone, AcceptFails,
                  objVars, poolVars
    <2>2. /\ {mpc, mpc'} \cap {"insert", "enqueue"} = {}
          /\ mpc' \in {"check", "enter", "wait"} => batch = {}
      BY <1>1 DEF CheckRunning, EnterWait, BatchDone, HandleNewConnection, AcceptDone, AcceptFails,
                  DriveInv, BatchInv
    <2>3. \A d \in Clients : /\ Armed(d)' <=> Armed(d)
                             /\ InHand(d)' <=> InHand(d)
                             /\ Entering(d)' <=> Entering(d)
                             /\ Handler(d)' = Handler(d)
      BY <2>1, <2>2 DEF Armed, InHand, Entering, Handler
    <2> QED BY <2>1, <2>2, <2>3, DriveFrame
  <1>2. CASE DropHand
    <2>1. PICK c \in Clients : c = hand.conn
      BY <1>2 DEF DropHand, BaseOK, ThreadTypes, Task
    <2>2. /\ mpc = "drop" /\ mpc' = "batch" /\ Drop(c, "main") /\ ~Entering(c)
          /\ UNCHANGED <<batch, queue, running, wpc, connections>>
      BY <1>2, <2>1 DEF DropHand, poolVars, Entering
    <2>3. \A d \in Clients : Armed(d)' <=> Armed(d)
      BY <2>2, DropArmed
    <2>4. \A d \in Clients : /\ InHand(d)' <=> InHand(d)
                             /\ Entering(d)' <=> Entering(d)
                             /\ Handler(d)' = Handler(d)
      BY <2>2 DEF InHand, Entering, Handler
    <2> QED BY <2>2, <2>3, <2>4, DriveFrame
  <1> QED BY <1>1, <1>2, DriveEpollWait, DriveAccept, DriveInsert, DriveFindClient, DriveEnqueue
          DEF MainStep

LEMMA DriveWorkers ==
    ASSUME BaseOK, OwnInv, DriveInv, NEW w \in Workers, WorkerStep(w)
    PROVE  DriveInv'
  <1>1. CASE Recv(w) \/ TryParse(w) \/ Send(w)
    <2>1. UNCHANGED <<life, fdOf, interest, batch, queue, running, connections, hand, mpc>>
      BY <1>1 DEF Recv, TryParse, Send, mainVars, poolVars
    \* The handler goes on.
    <2>2. /\ wpc[w] \notin {"idle", "tail"}
          /\ \E l \in WorkerPc \ {"idle", "tail"} : wpc' = [wpc EXCEPT ![w] = l]
      <3>1. wpc' = wpc => wpc' = [wpc EXCEPT ![w] = wpc[w]]
        BY DEF BaseOK, ThreadTypes
      <3> QED BY <1>1, <3>1 DEF Recv, TryParse, Send, SendBlocks, WorkerPc
    <2>3. \A d \in Clients : /\ Armed(d)' <=> Armed(d)
                             /\ InHand(d)' <=> InHand(d)
                             /\ Entering(d)' <=> Entering(d)
      BY <2>1 DEF Armed, InHand, Entering
    <2>4. \A d \in Clients : Handler(d)' = Handler(d)
      BY <2>1, <2>2 DEF Handler, BaseOK, ThreadTypes
    <2> QED BY <2>1, <2>3, <2>4, DriveFrame DEF DriveInv, BatchInv
  <1>2. CASE EndTask(w)
    <2>1. PICK c \in Clients : c = running[w].conn /\ running[w] # NoTask
      BY <1>2 DEF EndTask, BaseOK, ThreadTypes, Task
    <2>2. /\ running' = [running EXCEPT ![w] = NoTask] /\ wpc' = [wpc EXCEPT ![w] = "idle"]
          /\ wpc[w] = "tail" /\ Drop(c, w)
          /\ UNCHANGED <<batch, queue, connections, hand, mpc>>
      BY <1>2, <2>1 DEF EndTask, TQ!Finish, mainVars
    <2>4. \A d \in Clients : Armed(d)' <=> Armed(d)
      BY <2>2, DropArmed, ServerAssumption
    <2>5. \A d \in Clients : /\ InHand(d)' <=> InHand(d)
                             /\ Entering(d)' <=> Entering(d)
                             /\ Handler(d)' = Handler(d)
      BY <2>2 DEF InHand, Entering, Handler, BaseOK, ThreadTypes
    <2> QED BY <2>2, <2>4, <2>5, DriveFrame DEF DriveInv, BatchInv
  <1> QED BY <1>1, <1>2, DriveStart, DriveArm, DriveClose DEF WorkerStep

LEMMA DriveStep == BaseOK /\ OwnInv /\ DriveInv /\ [Next]_vars => DriveInv'
  <1> SUFFICES ASSUME BaseOK, OwnInv, DriveInv, [Next]_vars PROVE DriveInv'
    OBVIOUS
  <1>1. CASE Signal \/ UNCHANGED vars
    <2>1. /\ UNCHANGED <<life, fdOf, interest, batch, queue, running, wpc, connections, hand>>
          /\ mpc' = mpc \/ (mpc = "wait" /\ mpc' = "check")
      BY <1>1 DEF Signal, vars, objVars, mainVars, poolVars
    <2>2. \A d \in Clients : /\ Armed(d)' <=> Armed(d)
                             /\ InHand(d)' <=> InHand(d)
                             /\ Entering(d)' <=> Entering(d)
                             /\ Handler(d)' = Handler(d)
      BY <2>1 DEF Armed, InHand, Entering, Handler
    <2>3. mpc' \in {"check", "enter", "wait"} => batch = {}
      BY <2>1 DEF DriveInv, BatchInv
    <2> QED BY <2>1, <2>2, <2>3, DriveFrame
  <1> QED BY <1>1, DriveClients, DriveMain, DriveWorkers DEF Next
-----------------------------------------------------------------------------
(* What a connection is driven for: to read its request, or to write its   *)
(* response.                                                               *)

QueuedFor(c, ev) == \E i \in 1..Len(queue) : queue[i].conn = c /\ queue[i].ev = ev
InBatchFor(c, ev) == \E e \in batch : e.conn = c /\ e.ev = ev
InHandFor(c, ev) == mpc = "enqueue" /\ hand.conn = c /\ hand.ev = ev
HandlerAt(c, S) == \E w \in Workers : wpc[w] \in S /\ running[w].conn = c

Coming(c, ev) == ArmedFor(c, ev) \/ InBatchFor(c, ev) \/ InHandFor(c, ev) \/ QueuedFor(c, ev)
Reading(c) == Coming(c, "in") \/ HandlerAt(c, {"read", "parse", "armIn"})
Writing(c) == Coming(c, "out") \/ HandlerAt(c, {"write", "armOut"})

SameTurn(c) == /\ Reading(c)' <=> Reading(c)
               /\ Writing(c)' <=> Writing(c)

LEMMA TurnIsLive ==
    ASSUME BaseOK, OwnInv, DriveInv, NEW c \in Clients, Reading(c) \/ Writing(c)
    PROVE  Driven(c) /\ life[c] = "live"
  <1>1. \A ev \in {"in", "out"} : Coming(c, ev) => Driven(c)
    BY DEF Coming, ArmedFor, InBatchFor, InHandFor, QueuedFor, Driven, Armed, InBatch, InHand,
           InQueue
  <1>2. HandlerAt(c, {"read", "parse", "armIn"}) \/ HandlerAt(c, {"write", "armOut"}) => Driven(c)
    BY DEF HandlerAt, Driven, Handler
  <1>3. InMap(c) \/ Entering(c)
    BY <1>1, <1>2 DEF Reading, Writing, DriveInv, DriverOK
  <1>4. Held(c)
    BY <1>3 DEF Held, Entering, BaseOK, ThreadTypes
  <1> QED BY <1>1, <1>2, <1>4 DEF Reading, Writing, OwnInv, HeldInv

\* What the handler w is in tells what its connection is driven for.
LEMMA HandlerTurn ==
    ASSUME BaseOK, DriveInv, NEW w \in Workers, wpc[w] \notin {"idle", "tail"},
           NEW c \in Clients, c = running[w].conn
    PROVE  /\ Reading(c) <=> wpc[w] \in {"read", "parse", "armIn"}
           /\ Writing(c) <=> wpc[w] \in {"write", "armOut"}
  <1>1. /\ Handler(c) = {w}
        /\ ~Armed(c) /\ ~InBatch(c) /\ ~InHand(c) /\ ~InQueue(c)
    BY HandlerAlone
  <1>2. ~Coming(c, "in") /\ ~Coming(c, "out")
    BY <1>1 DEF Coming, ArmedFor, InBatchFor, InHandFor, QueuedFor, Armed, InBatch, InHand,
                InQueue
  <1>3. /\ HandlerAt(c, {"read", "parse", "armIn"}) <=> wpc[w] \in {"read", "parse", "armIn"}
        /\ HandlerAt(c, {"write", "armOut"}) <=> wpc[w] \in {"write", "armOut"}
    BY <1>1 DEF HandlerAt, Handler
  <1> QED BY <1>2, <1>3 DEF Reading, Writing

LEMMA AppendFor ==
    ASSUME queue \in Seq(Task), NEW t \in Task, queue' = Append(queue, t), NEW c, NEW ev
    PROVE  QueuedFor(c, ev)' <=> QueuedFor(c, ev) \/ (t.conn = c /\ t.ev = ev)
  <1>1. Len(queue) \in Nat /\ Len(queue') = Len(queue) + 1
    OBVIOUS
  <1>2. \A i \in 1..Len(queue) : queue'[i] = queue[i]
    OBVIOUS
  <1>3. queue'[Len(queue) + 1] = t
    OBVIOUS
  <1> QED BY <1>1, <1>2, <1>3 DEF QueuedFor

LEMMA TailFor ==
    ASSUME queue \in Seq(Task), queue # <<>>, queue' = Tail(queue), NEW c, NEW ev
    PROVE  QueuedFor(c, ev) <=> QueuedFor(c, ev)' \/ (Head(queue).conn = c /\ Head(queue).ev = ev)
  <1>1. Len(queue) \in Nat \ {0} /\ Len(queue') = Len(queue) - 1
    OBVIOUS
  <1>2. \A i \in 1..Len(queue') : queue'[i] = queue[i + 1]
    OBVIOUS
  <1>3. Head(queue) = queue[1]
    OBVIOUS
  <1>4. QueuedFor(c, ev)' => QueuedFor(c, ev)
    BY <1>1, <1>2 DEF QueuedFor
  <1>5. Head(queue).conn = c /\ Head(queue).ev = ev => QueuedFor(c, ev)
    BY <1>1, <1>3 DEF QueuedFor
  <1>6. ASSUME NEW i \in 1..Len(queue), queue[i].conn = c, queue[i].ev = ev, i # 1
        PROVE  QueuedFor(c, ev)'
    <2>1. i - 1 \in 1..Len(queue') /\ queue'[i - 1] = queue[i]
      BY <1>1, <1>2, <1>6
    <2> QED BY <1>6, <2>1 DEF QueuedFor
  <1> QED BY <1>3, <1>4, <1>5, <1>6 DEF QueuedFor

\* A registration is kept or dropped with its object, the rest does not move.
LEMMA TurnFrame ==
    ASSUME NEW c, UNCHANGED <<batch, queue>>,
           \A ev \in {"in", "out"} : /\ ArmedFor(c, ev)' <=> ArmedFor(c, ev)
                                     /\ InHandFor(c, ev)' <=> InHandFor(c, ev),
           \A S \in {{"read", "parse", "armIn"}, {"write", "armOut"}} :
               HandlerAt(c, S)' <=> HandlerAt(c, S)
    PROVE  SameTurn(c)
  BY DEF SameTurn, Reading, Writing, Coming, InBatchFor, QueuedFor

LEMMA TurnMain ==
    ASSUME BaseOK, OwnInv, DriveInv, MainStep, ~Accept, NEW c \in Clients
    PROVE  SameTurn(c)
  <1>1. CASE CheckRunning \/ EnterWait \/ BatchDone \/ HandleNewConnection \/ Insert
             \/ AcceptDone \/ AcceptFails
    <2>1. /\ UNCHANGED <<life, fdOf, interest, batch, queue, running, wpc>>
          /\ mpc # "enqueue" /\ mpc' # "enqueue"
      BY <1>1 DEF CheckRunning, EnterWait, BatchDone, HandleNewConnection, Insert, AcceptDone,
                  AcceptFails, objVars, poolVars
    <2> QED BY <2>1, TurnFrame DEF ArmedFor, InHandFor, HandlerAt
  <1>2. CASE EpollWait
    <2>1. PICK S \in SUBSET ReadyEvents : batch' = S /\ interest' = Disarm(S)
      BY <1>2 DEF EpollWait
    <2>2. /\ batch = {} /\ mpc = "wait" /\ mpc' = "batch"
          /\ UNCHANGED <<life, fdOf, queue, running, wpc>>
      BY <1>2 DEF EpollWait, DriveInv, BatchInv, objVars, poolVars
    <2>3. \A e \in S : /\ e.conn \in Clients /\ e.fd \in Fds /\ e.ev \in {"in", "out"}
                       /\ life[e.conn] = "live" /\ fdOf[e.conn] = e.fd /\ interest[e.fd] = e.ev
      BY <2>1 DEF ReadyEvents, Event
    <2>4. ASSUME NEW ev \in {"in", "out"}
          PROVE  ArmedFor(c, ev)' \/ InBatchFor(c, ev)' <=> ArmedFor(c, ev) \/ InBatchFor(c, ev)
      <3>1. CASE \E e \in S : e.conn = c
        BY <2>1, <2>2, <2>3, <3>1 DEF ArmedFor, InBatchFor, Disarm
      <3>2. CASE ~\E e \in S : e.conn = c
        <4>1. life[c] = "live" => fdOf[c] \in Fds /\ \A e \in S : e.fd # fdOf[c]
          BY <2>3, <3>2 DEF OwnInv, FdInv, BaseOK, ObjTypes
        <4> QED BY <2>1, <2>2, <3>2, <4>1 DEF ArmedFor, InBatchFor, Disarm
      <3> QED BY <3>1, <3>2
    <2> QED BY <2>2, <2>4
            DEF SameTurn, Reading, Writing, Coming, InHandFor, QueuedFor, HandlerAt
  <1>3. ASSUME NEW e \in batch, FindClient(e) PROVE SameTurn(c)
    <2>1. /\ mpc = "batch" /\ mpc' = "enqueue" /\ hand' = [conn |-> e.conn, ev |-> e.ev]
          /\ batch' = batch \ {e}
          /\ UNCHANGED <<life, fdOf, interest, queue, running, wpc>>
      BY <1>3, ServerAssumption DEF FindClient, objVars, poolVars, DriveInv, BatchInv,
                                    EventFindsItsConnection, BaseOK, ThreadTypes, Event
    <2>2. ASSUME NEW ev \in {"in", "out"}
          PROVE  InHandFor(c, ev)' \/ InBatchFor(c, ev)' <=> InHandFor(c, ev) \/ InBatchFor(c, ev)
      BY <2>1 DEF InHandFor, InBatchFor
    <2> QED BY <2>1, <2>2 DEF SameTurn, Reading, Writing, Coming, ArmedFor, QueuedFor, HandlerAt
  <1>4. CASE EnqueueTask
    <2>1. /\ mpc = "enqueue" /\ mpc' = "drop" /\ queue' = Append(queue, hand) /\ hand \in Task
          /\ UNCHANGED <<life, fdOf, interest, batch, running, wpc>>
      BY <1>4 DEF EnqueueTask, TQ!Enqueue, objVars, BaseOK, ThreadTypes
    <2>2. ASSUME NEW ev \in {"in", "out"}
          PROVE  InHandFor(c, ev)' \/ QueuedFor(c, ev)' <=> InHandFor(c, ev) \/ QueuedFor(c, ev)
      BY <2>1, AppendFor DEF InHandFor, BaseOK, ThreadTypes
    <2> QED BY <2>1, <2>2 DEF SameTurn, Reading, Writing, Coming, ArmedFor, InBatchFor, HandlerAt
  <1>5. CASE DropHand
    <2>1. PICK d \in Clients : d = hand.conn
      BY <1>5 DEF DropHand, BaseOK, ThreadTypes, Task
    <2>2. /\ mpc = "drop" /\ mpc' = "batch" /\ Drop(d, "main") /\ ~Entering(d)
          /\ UNCHANGED <<batch, queue, running, wpc>>
      BY <1>5, <2>1 DEF DropHand, poolVars, Entering
    <2>3. \A ev \in {"in", "out"} : ArmedFor(c, ev)' <=> ArmedFor(c, ev)
      BY <2>2, DropArmedFor
    <2> QED BY <2>2, <2>3, TurnFrame DEF InHandFor, HandlerAt
  <1> QED BY <1>1, <1>2, <1>3, <1>4, <1>5 DEF MainStep

LEMMA TurnWorkers ==
    ASSUME BaseOK, OwnInv, DriveInv, NEW w \in Workers, NEW c \in Clients,
           StartTask(w) \/ Arm(w) \/ RequestClose(w) \/ EndTask(w)
    PROVE  SameTurn(c)
  <1>1. CASE StartTask(w)
    <2>1. /\ queue # <<>> /\ queue' = Tail(queue) /\ running[w] = NoTask
          /\ running' = [running EXCEPT ![w] = Head(queue)]
          /\ wpc' = [wpc EXCEPT ![w] = IF Head(queue).ev = "in" THEN "read" ELSE "write"]
          /\ UNCHANGED <<life, fdOf, interest, batch, hand, mpc>>
      BY <1>1 DEF StartTask, TQ!Start, objVars, mainVars
    <2>2. wpc[w] = "idle" /\ Head(queue).ev \in {"in", "out"}
      <3>1. Head(queue) \in Task
        BY <2>1 DEF BaseOK, ThreadTypes
      <3> QED BY <2>1, <3>1 DEF BaseOK, ThreadTypes, Task
    <2>3. \A ev \in {"in", "out"} :
             QueuedFor(c, ev) <=> QueuedFor(c, ev)' \/ (Head(queue).conn = c /\ Head(queue).ev = ev)
      BY <2>1, TailFor DEF BaseOK, ThreadTypes
    <2>4. /\ HandlerAt(c, {"read", "parse", "armIn"})'
               <=> \/ HandlerAt(c, {"read", "parse", "armIn"})
                   \/ Head(queue).conn = c /\ Head(queue).ev = "in"
          /\ HandlerAt(c, {"write", "armOut"})'
               <=> \/ HandlerAt(c, {"write", "armOut"})
                   \/ Head(queue).conn = c /\ Head(queue).ev = "out"
      BY <2>1, <2>2 DEF HandlerAt, BaseOK, ThreadTypes
    <2> QED BY <2>1, <2>3, <2>4
            DEF SameTurn, Reading, Writing, Coming, ArmedFor, InBatchFor, InHandFor
  <1>2. CASE Arm(w)
    <2>1. PICK d \in Clients : d = running[w].conn
      BY <1>2, HandlerAlone DEF Arm
    <2>2. /\ Handler(d) = {w} /\ ~InBatch(d) /\ ~InHand(d) /\ ~InQueue(d)
          /\ fdOf[d] \in Fds /\ life[d] = "live" /\ interest[fdOf[d]] # "none"
      BY <1>2, <2>1, HandlerAlone, MapFd DEF Arm, OwnInv, FdInv
    <2>3. /\ interest' = [interest EXCEPT ![fdOf[d]] = IF wpc[w] = "armIn" THEN "in" ELSE "out"]
          /\ wpc[w] \in {"armIn", "armOut"} /\ wpc' = [wpc EXCEPT ![w] = "tail"]
          /\ UNCHANGED <<life, fdOf, queue, running, batch, hand, mpc>>
      BY <1>2, <2>1, <2>2 DEF Arm, modFd, objVars, mainVars, poolVars
    <2>4. CASE c = d
      <3>1. /\ Reading(d) <=> wpc[w] = "armIn"
            /\ Writing(d) <=> wpc[w] = "armOut"
        BY <1>2, <2>1, <2>3, HandlerTurn DEF Arm
      <3>2. \A ev \in {"in", "out"} :
               /\ ~InBatchFor(d, ev)'
               /\ ~InHandFor(d, ev)'
               /\ ~QueuedFor(d, ev)'
        BY <2>2, <2>3 DEF InBatchFor, InHandFor, QueuedFor, InBatch, InHand, InQueue
      <3>3. /\ ~HandlerAt(d, {"read", "parse", "armIn"})'
            /\ ~HandlerAt(d, {"write", "armOut"})'
        BY <2>2, <2>3 DEF Handler, HandlerAt, BaseOK, ThreadTypes
      <3>4. /\ ArmedFor(d, "in")' <=> wpc[w] = "armIn"
            /\ ArmedFor(d, "out")' <=> wpc[w] = "armOut"
        BY <2>2, <2>3 DEF ArmedFor, BaseOK, ObjTypes
      <3> QED BY <2>4, <3>1, <3>2, <3>3, <3>4 DEF SameTurn, Reading, Writing, Coming
    <2>5. CASE c # d
      <3>1. \A ev \in {"in", "out"} : ArmedFor(c, ev)' <=> ArmedFor(c, ev)
        BY <2>3, <2>5, OtherFd DEF ArmedFor, BaseOK, ObjTypes
      <3>2. \A S \in {{"read", "parse", "armIn"}, {"write", "armOut"}} :
               HandlerAt(c, S)' <=> HandlerAt(c, S)
        BY <2>1, <2>3, <2>5 DEF HandlerAt, BaseOK, ThreadTypes
      <3> QED BY <2>3, <3>1, <3>2, TurnFrame DEF InHandFor
    <2> QED BY <2>4, <2>5
  <1>3. CASE RequestClose(w)
    <2>1. /\ wpc[w] = "close" /\ wpc' = [wpc EXCEPT ![w] = "tail"]
          /\ UNCHANGED <<life, fdOf, interest, queue, running, batch, hand, mpc>>
      BY <1>3 DEF RequestClose, objVars, mainVars, poolVars
    <2>2. \A S \in {{"read", "parse", "armIn"}, {"write", "armOut"}} :
             HandlerAt(c, S)' <=> HandlerAt(c, S)
      BY <2>1 DEF HandlerAt, BaseOK, ThreadTypes
    <2> QED BY <2>1, <2>2, TurnFrame DEF ArmedFor, InHandFor
  <1>4. CASE EndTask(w)
    <2>1. PICK d \in Clients : d = running[w].conn
      BY <1>4 DEF EndTask, BaseOK, ThreadTypes, Task
    <2>2. /\ running' = [running EXCEPT ![w] = NoTask] /\ wpc' = [wpc EXCEPT ![w] = "idle"]
          /\ wpc[w] = "tail" /\ Drop(d, w) /\ UNCHANGED <<batch, queue, hand, mpc>>
      BY <1>4, <2>1 DEF EndTask, TQ!Finish, mainVars
    <2>3. \A ev \in {"in", "out"} : ArmedFor(c, ev)' <=> ArmedFor(c, ev)
      BY <2>2, DropArmedFor, ServerAssumption
    <2>4. \A S \in {{"read", "parse", "armIn"}, {"write", "armOut"}} :
             HandlerAt(c, S)' <=> HandlerAt(c, S)
      BY <2>2 DEF HandlerAt, BaseOK, ThreadTypes
    <2> QED BY <2>2, <2>3, <2>4, TurnFrame DEF InHandFor
  <1> QED BY <1>1, <1>2, <1>3, <1>4
-----------------------------------------------------------------------------
(* How far a connection's answer is.                                       *)

\* What there is of the response, read, buffered or still to be sent.
Made(c) == got[c] + sndbuf[c] + pending[c]

Complete(c) == c \notin Malformed => request[c] = Pieces

\* The server may close: it has the request and has handed the response over.
Done(c) == /\ inbox[c] = 0
           /\ peer[c] = "open" => /\ pending[c] = 0 /\ got[c] + sndbuf[c] = RespSize
                                  /\ sent[c] = Pieces

\* Before the response is made there is nothing of it, then all of it; who is no
\* longer driven to read or to write is done.
AnswerOK(c) ==
    /\ Made(c) <= RespSize
    /\ life[c] \in {"none", "backlog"} \/ Reading(c) => Made(c) = 0
    /\ Writing(c) => Complete(c) /\ (peer[c] \in {"open", "fin"} => Made(c) = RespSize)
    /\ c \notin Malformed /\ life[c] \in {"live", "gone"}
           => Reading(c) \/ Writing(c) \/ Done(c)

AnswerInv == \A c \in Clients : AnswerOK(c)

LEMMA Counts ==
    ASSUME BaseOK, NEW c \in Clients
    PROVE  /\ got[c] \in Nat /\ sndbuf[c] \in 0..SndCap /\ pending[c] \in 0..RespSize
           /\ inbox[c] \in Nat /\ request[c] \in Nat /\ sent[c] \in 0..Pieces
           /\ inbox[c] + request[c] <= sent[c]
           /\ RespSize \in Nat \ {0} /\ Pieces \in Nat \ {0} /\ SndCap \in Nat \ {0}
  BY ServerAssumption DEF BaseOK, NetTypes

LEMMA NothingMade ==
    ASSUME BaseOK, NEW c \in Clients, Made(c) = 0
    PROVE  got[c] = 0 /\ sndbuf[c] = 0 /\ pending[c] = 0
  <1>1. got[c] \in Nat /\ sndbuf[c] \in Nat /\ pending[c] \in Nat
    BY Counts
  <1>2. ASSUME NEW g \in Nat, NEW s \in Nat, NEW p \in Nat, g + s + p = 0
        PROVE  g = 0 /\ s = 0 /\ p = 0
    BY <1>2
  <1>3. got[c] + sndbuf[c] + pending[c] = 0
    BY DEF Made
  <1> QED BY <1>1, <1>2, <1>3

\* Nothing that concerns c happens.
SameAnswer(c) ==
    /\ peer'[c] = peer[c] /\ sent'[c] = sent[c] /\ got'[c] = got[c]
    /\ inbox'[c] = inbox[c] /\ sndbuf'[c] = sndbuf[c]
    /\ request'[c] = request[c] /\ pending'[c] = pending[c] /\ life'[c] = life[c]

LEMMA AnswerFrame ==
    ASSUME NEW c, AnswerOK(c), SameTurn(c), SameAnswer(c)
    PROVE  AnswerOK(c)'
  BY DEF AnswerOK, SameTurn, SameAnswer, Made, Complete, Done

LEMMA AnswerInit == Init => AnswerInv
  <1> SUFFICES ASSUME Init, NEW c \in Clients PROVE AnswerOK(c)
    BY DEF AnswerInv
  <1>1. ~Reading(c) /\ ~Writing(c)
    BY DEF Init, TQ!Init, Reading, Writing, Coming, ArmedFor, InBatchFor, InHandFor, QueuedFor,
           HandlerAt
  <1>2. Made(c) = 0 /\ life[c] = "none"
    BY DEF Init, Made
  <1> QED BY <1>1, <1>2, ServerAssumption DEF AnswerOK

\* A connection that is destroyed was done.
LEMMA DropWhenDone ==
    ASSUME BaseOK, OwnInv, DriveInv, AnswerInv, NEW c \in Clients, NEW t,
           Drop(c, t), ~OthersHold(c, t), Entering(c) => t # "main", life[c] = "live"
    PROVE  /\ ~Reading(c) /\ ~Writing(c)
           /\ c \notin Malformed => Done(c)
  <1>1. ~InMap(c) /\ ~Entering(c)
    BY DEF OthersHold, Entering, BaseOK, ThreadTypes
  <1>2. ~Driven(c)
    BY <1>1 DEF DriveInv, DriverOK
  <1>3. ~Reading(c) /\ ~Writing(c)
    BY <1>2, TurnIsLive
  <1> QED BY <1>3 DEF AnswerInv, AnswerOK

LEMMA AnswerDrop ==
    ASSUME BaseOK, OwnInv, DriveInv, AnswerInv, NEW d \in Clients, NEW t,
           Drop(d, t), Entering(d) => t # "main", life[d] = "live",
           UNCHANGED <<peer, sent, got>>,
           \A c \in Clients : SameTurn(c)
    PROVE  AnswerInv'
  <1> SUFFICES ASSUME NEW c \in Clients PROVE AnswerOK(c)'
    BY DEF AnswerInv
  <1>1. AnswerOK(c) /\ SameTurn(c)
    BY DEF AnswerInv
  <1>2. CASE OthersHold(d, t)
    BY <1>1, <1>2, AnswerFrame DEF Drop, objVars, sockVars, SameAnswer
  <1>3. CASE ~OthersHold(d, t)
    <2>1. /\ life' = [life EXCEPT ![d] = "gone"]
          /\ sndbuf' = [sndbuf EXCEPT ![d] = IF inbox[d] > 0 THEN 0 ELSE @]
          /\ inbox' = [inbox EXCEPT ![d] = 0]
          /\ request' = [request EXCEPT ![d] = 0]
          /\ pending' = [pending EXCEPT ![d] = 0]
      BY <1>3 DEF Drop
    <2>2. CASE c # d
      BY <1>1, <2>1, <2>2, AnswerFrame DEF SameAnswer, BaseOK, NetTypes, ObjTypes
    <2>3. CASE c = d
      <3>1. ~Reading(c)' /\ ~Writing(c)'
        BY <1>1, <1>3, <2>3, DropWhenDone DEF SameTurn
      <3>2. /\ life'[c] = "gone" /\ inbox'[c] = 0 /\ pending'[c] = 0
            /\ sndbuf'[c] = IF inbox[c] > 0 THEN 0 ELSE sndbuf[c]
            /\ peer'[c] = peer[c] /\ got'[c] = got[c] /\ sent'[c] = sent[c]
        BY <2>1, <2>3 DEF BaseOK, NetTypes, ObjTypes
      <3>3. Made(c)' <= RespSize
        BY <1>1, <3>2, Counts DEF AnswerOK, Made
      <3>4. c \notin Malformed => Done(c)'
        BY <1>3, <2>3, <3>2, DropWhenDone, Counts DEF Done
      <3> QED BY <3>1, <3>2, <3>3, <3>4 DEF AnswerOK
    <2> QED BY <2>2, <2>3
  <1> QED BY <1>2, <1>3

\* What clients do moves no connection.
LEMMA TurnClients ==
    ASSUME BaseOK, OwnInv, NEW d \in Clients, ClientStep(d), NEW c \in Clients
    PROVE  SameTurn(c)
  <1>1. UNCHANGED <<fdOf, interest, batch, queue, running, wpc, hand, mpc>>
    BY DEF ClientStep, Connect, SendSegment, Fin, Reset, Deliver, objVars, mainVars, poolVars
  <1>2. life'[c] = "live" <=> life[c] = "live"
    <2>1. CASE Connect(d)
      <3>1. life' = [life EXCEPT ![d] = "backlog"] /\ life[d] # "live"
        BY <2>1 DEF Connect, OwnInv, BacklogInv
      <3> QED BY <3>1 DEF BaseOK, ObjTypes
    <2>2. CASE ~Connect(d)
      BY <2>2 DEF ClientStep, SendSegment, Fin, Reset, Deliver, objVars
    <2> QED BY <2>1, <2>2
  <1> QED BY <1>1, <1>2, TurnFrame DEF ArmedFor, InHandFor, HandlerAt

LEMMA AnswerClients ==
    ASSUME BaseOK, OwnInv, DriveInv, AnswerInv, NEW d \in Clients, ClientStep(d)
    PROVE  AnswerInv'
  <1> SUFFICES ASSUME NEW c \in Clients PROVE AnswerOK(c)'
    BY DEF AnswerInv
  <1>1. AnswerOK(c) /\ SameTurn(c)
    BY TurnClients DEF AnswerInv
  <1>2. Reading(c) \/ Writing(c) => life[c] = "live"
    BY TurnIsLive
  <1>3. CASE Connect(d)
    <2>1. /\ peer[d] = "new" /\ life[d] = "none"
          /\ life' = [life EXCEPT ![d] = "backlog"] /\ peer' = [peer EXCEPT ![d] = "open"]
          /\ UNCHANGED <<sent, got, inbox, sndbuf, request, pending>>
      BY <1>3 DEF Connect, OwnInv, BacklogInv, sockVars
    <2>2. CASE c = d
      <3>1. ~Reading(c)' /\ ~Writing(c)' /\ Made(c)' = 0 /\ life'[c] = "backlog"
        BY <1>1, <1>2, <2>1, <2>2 DEF SameTurn, AnswerOK, Made, BaseOK, ObjTypes
      <3> QED BY <3>1, ServerAssumption DEF AnswerOK
    <2>3. CASE c # d
      BY <1>1, <2>1, <2>3, AnswerFrame DEF SameAnswer, BaseOK, NetTypes, ObjTypes
    <2> QED BY <2>2, <2>3
  <1>4. CASE SendSegment(d)
    <2>1. /\ peer[d] = "open" /\ sent[d] < Pieces
          /\ sent' = [sent EXCEPT ![d] = @ + 1]
          /\ IF life[d] = "gone"
             THEN sndbuf' = [sndbuf EXCEPT ![d] = 0] /\ inbox' = inbox
             ELSE inbox' = [inbox EXCEPT ![d] = @ + 1] /\ sndbuf' = sndbuf
          /\ UNCHANGED <<peer, got, request, pending, life>>
      BY <1>4 DEF SendSegment, objVars
    <2>2. CASE c = d
      \* Somebody who is done has sent all there is to send.
      <3>1. ~Done(c)
        BY <2>1, <2>2, Counts DEF Done
      <3>2. c \notin Malformed => life[c] # "gone"
        BY <1>1, <1>2, <3>1 DEF AnswerOK
      <3>3. /\ peer'[c] = peer[c] /\ got'[c] = got[c] /\ request'[c] = request[c]
            /\ pending'[c] = pending[c] /\ life'[c] = life[c]
            /\ sndbuf'[c] = IF life[c] = "gone" THEN 0 ELSE sndbuf[c]
        BY <2>1, <2>2 DEF BaseOK, NetTypes
      <3>4. life[c] # "gone" => Made(c)' = Made(c)
        BY <3>3 DEF Made
      <3>5. Made(c)' <= Made(c) /\ Made(c) \in Nat /\ Made(c)' \in Nat
        BY <3>3, Counts DEF Made
      <3>6. Complete(c)' <=> Complete(c)
        BY <3>3 DEF Complete
      <3> QED BY <1>1, <1>2, <3>1, <3>2, <3>3, <3>4, <3>5, <3>6, Counts DEF AnswerOK, SameTurn
    <2>3. CASE c # d
      BY <1>1, <2>1, <2>3, AnswerFrame DEF SameAnswer, BaseOK, NetTypes
    <2> QED BY <2>2, <2>3
  <1>5. CASE Fin(d)
    <2>1. /\ peer[d] = "open" /\ peer' = [peer EXCEPT ![d] = "fin"]
          /\ UNCHANGED <<sent, got, inbox, sndbuf, request, pending, life>>
      BY <1>5 DEF Fin, sockVars, objVars
    <2>2. CASE c = d
      <3>1. peer'[c] = "fin" /\ peer[c] = "open"
        BY <2>1, <2>2 DEF BaseOK, NetTypes
      <3>2. Made(c)' = Made(c) /\ (Complete(c)' <=> Complete(c))
        BY <2>1 DEF Made, Complete
      <3>3. Done(c) => Done(c)'
        BY <2>1, <3>1 DEF Done
      <3> QED BY <1>1, <2>1, <3>1, <3>2, <3>3 DEF AnswerOK, SameTurn
    <2>3. CASE c # d
      BY <1>1, <2>1, <2>3, AnswerFrame DEF SameAnswer, BaseOK, NetTypes
    <2> QED BY <2>2, <2>3
  <1>6. CASE Reset(d)
    <2>1. /\ peer' = [peer EXCEPT ![d] = IF @ = "open" THEN "reset" ELSE "broken"]
          /\ sndbuf' = [sndbuf EXCEPT ![d] = 0]
          /\ UNCHANGED <<sent, got, inbox, request, pending, life>>
      BY <1>6 DEF Reset, objVars
    <2>2. CASE c = d
      <3>1. peer'[c] \in {"reset", "broken"} /\ sndbuf'[c] = 0
        BY <2>1, <2>2 DEF BaseOK, NetTypes
      <3>2. Made(c)' <= Made(c) /\ Made(c) \in Nat /\ Made(c)' \in Nat
            /\ (Complete(c)' <=> Complete(c))
        BY <2>1, <3>1, Counts DEF Made, Complete
      <3>3. Done(c) => Done(c)'
        BY <2>1, <3>1 DEF Done
      <3> QED BY <1>1, <2>1, <3>1, <3>2, <3>3, Counts DEF AnswerOK, SameTurn
    <2>3. CASE c # d
      BY <1>1, <2>1, <2>3, AnswerFrame DEF SameAnswer, BaseOK, NetTypes
    <2> QED BY <2>2, <2>3
  <1>7. CASE Deliver(d)
    <2>1. /\ sndbuf[d] > 0
          /\ got' = [got EXCEPT ![d] = @ + 1] /\ sndbuf' = [sndbuf EXCEPT ![d] = @ - 1]
          /\ UNCHANGED <<peer, sent, inbox, request, pending, life>>
      BY <1>7 DEF Deliver, objVars
    <2>2. CASE c = d
      <3>1. got'[c] = got[c] + 1 /\ sndbuf'[c] = sndbuf[c] - 1
        BY <2>1, <2>2 DEF BaseOK, NetTypes
      <3>2. got'[c] + sndbuf'[c] = got[c] + sndbuf[c]
        <4>1. got[c] \in Nat /\ sndbuf[c] \in Nat
          BY Counts
        <4> QED BY <3>1, <4>1
      <3>3. Made(c)' = Made(c) /\ (Complete(c)' <=> Complete(c)) /\ (Done(c)' <=> Done(c))
        BY <2>1, <3>2 DEF Made, Complete, Done
      <3> QED BY <1>1, <2>1, <3>3 DEF AnswerOK, SameTurn
    <2>3. CASE c # d
      BY <1>1, <2>1, <2>3, AnswerFrame DEF SameAnswer, BaseOK, NetTypes
    <2> QED BY <2>2, <2>3
  <1> QED BY <1>3, <1>4, <1>5, <1>6, <1>7 DEF ClientStep

\* A new connection is armed to be read.
LEMMA AnswerAccept ==
    ASSUME BaseOK, OwnInv, DriveInv, AnswerInv, Accept
    PROVE  AnswerInv'
  <1> SUFFICES ASSUME NEW c \in Clients PROVE AnswerOK(c)'
    BY DEF AnswerInv
  <1>0. AnswerOK(c)
    BY DEF AnswerInv
  <1>1. PICK d \in Clients : d = Head(backlog) /\ life[d] = "backlog"
    BY DEF Accept, OwnInv, BacklogInv, BaseOK, ObjTypes
  <1>2. PICK f \in Fds : /\ \A e \in Clients : fdOf[e] # f
                         /\ fdOf' = [fdOf EXCEPT ![d] = f]
                         /\ life' = [life EXCEPT ![d] = "live"]
                         /\ interest' = [interest EXCEPT ![f] = "in"]
    BY <1>1 DEF Accept
  <1>3. /\ mpc = "accept" /\ mpc' = "insert"
        /\ UNCHANGED <<batch, queue, running, wpc, peer, sent, got, inbox, sndbuf, request,
                       pending>>
    BY DEF Accept, netVars, sockVars, poolVars
  <1>4. \A S \in {{"read", "parse", "armIn"}, {"write", "armOut"}} :
           HandlerAt(c, S)' <=> HandlerAt(c, S)
    BY <1>3 DEF HandlerAt
  <1>5. \A ev \in {"in", "out"} : ~InHandFor(c, ev)' /\ ~InHandFor(c, ev)
    BY <1>3 DEF InHandFor
  <1>6. CASE c # d
    <2>1. \A ev \in {"in", "out"} : ArmedFor(c, ev)' <=> ArmedFor(c, ev)
      BY <1>2, <1>6 DEF ArmedFor, BaseOK, ObjTypes
    <2>2. SameTurn(c)
      BY <1>3, <1>4, <1>5, <2>1, TurnFrame
    <2> QED BY <1>0, <1>2, <1>3, <1>6, <2>2, AnswerFrame DEF SameAnswer, BaseOK, ObjTypes
  <1>7. CASE c = d
    <2>1. ArmedFor(c, "in")' /\ ~ArmedFor(c, "out")'
      BY <1>2, <1>7 DEF ArmedFor, BaseOK, ObjTypes
    <2>2. ~Reading(c) /\ ~Writing(c)
      BY <1>1, <1>7, TurnIsLive
    <2>3. Reading(c)' /\ ~Writing(c)'
      BY <1>3, <1>4, <1>5, <2>1, <2>2 DEF Reading, Writing, Coming, InBatchFor, QueuedFor
    <2>4. Made(c)' = 0
      BY <1>0, <1>1, <1>3, <1>7 DEF AnswerOK, Made
    <2> QED BY <2>3, <2>4, ServerAssumption DEF AnswerOK
  <1> QED BY <1>6, <1>7

LEMMA AnswerMain ==
    ASSUME BaseOK, OwnInv, DriveInv, AnswerInv, MainStep
    PROVE  AnswerInv'
  <1>1. CASE Accept
    BY <1>1, AnswerAccept
  <1>2. CASE DropHand
    <2>1. PICK d \in Clients : d = hand.conn
      BY <1>2 DEF DropHand, BaseOK, ThreadTypes, Task
    <2>2. Drop(d, "main") /\ ~Entering(d) /\ UNCHANGED <<peer, sent, got>> /\ ~Accept
      BY <1>2, <2>1 DEF DropHand, Entering, Accept
    <2>3. life[d] = "live"
      BY <1>2, <2>1 DEF DropHand, OwnInv, HeldInv, Held, BaseOK, ThreadTypes
    <2>4. \A c \in Clients : SameTurn(c)
      BY <2>2, TurnMain
    <2> QED BY <2>2, <2>3, <2>4, AnswerDrop
  <1>3. CASE ~Accept /\ ~DropHand
    <2> SUFFICES ASSUME NEW c \in Clients PROVE AnswerOK(c)'
      BY DEF AnswerInv
    <2>1. SameTurn(c) /\ AnswerOK(c)
      BY <1>3, TurnMain DEF AnswerInv
    <2>2. SameAnswer(c)
      BY <1>3 DEF MainStep, CheckRunning, EnterWait, EpollWait, BatchDone, HandleNewConnection,
                  Insert, AcceptDone, AcceptFails, FindClient, EnqueueTask, SameAnswer, netVars,
                  sockVars, objVars
    <2> QED BY <2>1, <2>2, AnswerFrame
  <1> QED BY <1>1, <1>2, <1>3

\* A handler goes on to p: it alone says what its connection is driven for.
LEMMA HandlerMoves ==
    ASSUME BaseOK, DriveInv, NEW w \in Workers, wpc[w] \notin {"idle", "tail"},
           NEW c \in Clients, c = running[w].conn,
           NEW p \in WorkerPc, wpc' = [wpc EXCEPT ![w] = p],
           UNCHANGED <<life, fdOf, interest, batch, queue, running, hand, mpc>>
    PROVE  /\ Reading(c)' <=> p \in {"read", "parse", "armIn"}
           /\ Writing(c)' <=> p \in {"write", "armOut"}
           /\ \A d \in Clients \ {c} : SameTurn(d)
  <1>1. /\ Handler(c) = {w}
        /\ ~Armed(c) /\ ~InBatch(c) /\ ~InHand(c) /\ ~InQueue(c)
    BY HandlerAlone
  <1>2. ~Coming(c, "in")' /\ ~Coming(c, "out")'
    BY <1>1 DEF Coming, ArmedFor, InBatchFor, InHandFor, QueuedFor, Armed, InBatch, InHand,
                InQueue
  <1>3. /\ HandlerAt(c, {"read", "parse", "armIn"})' <=> p \in {"read", "parse", "armIn"}
        /\ HandlerAt(c, {"write", "armOut"})' <=> p \in {"write", "armOut"}
    BY <1>1 DEF HandlerAt, Handler, BaseOK, ThreadTypes
  <1>4. ASSUME NEW d \in Clients \ {c} PROVE SameTurn(d)
    <2>1. \A S \in {{"read", "parse", "armIn"}, {"write", "armOut"}} :
             HandlerAt(d, S)' <=> HandlerAt(d, S)
      BY <1>4 DEF HandlerAt, BaseOK, ThreadTypes
    <2> QED BY <2>1, TurnFrame DEF ArmedFor, InHandFor
  <1> QED BY <1>2, <1>3, <1>4 DEF Reading, Writing

\* No thread moves.
LEMMA TurnStays ==
    ASSUME UNCHANGED <<life, fdOf, interest, batch, queue, running, hand, mpc, wpc>>, NEW c
    PROVE  SameTurn(c)
  BY TurnFrame DEF ArmedFor, InHandFor, HandlerAt

LEMMA AnswerRecv ==
    ASSUME BaseOK, OwnInv, DriveInv, AnswerInv, NEW w \in Workers, Recv(w)
    PROVE  AnswerInv'
  <1>1. PICK c \in Clients : c = running[w].conn
    BY HandlerAlone DEF Recv
  <1>2. /\ wpc[w] = "read"
        /\ UNCHANGED <<life, fdOf, interest, batch, queue, running, hand, mpc, peer, sent, got,
                       sndbuf, pending>>
    BY DEF Recv, netVars, mainVars, poolVars
  <1>3. Reading(c) /\ ~Writing(c) /\ life[c] = "live" /\ AnswerOK(c)
    BY <1>1, <1>2, HandlerTurn, TurnIsLive DEF AnswerInv
  <1>4. Made(c) = 0 /\ Made(c)' = 0
    BY <1>2, <1>3 DEF AnswerOK, Made
  <1>5. CASE inbox[c] > 0
    <2>1. /\ request' = [request EXCEPT ![c] = @ + inbox[c]]
          /\ inbox' = [inbox EXCEPT ![c] = 0] /\ wpc' = wpc
      BY <1>1, <1>5 DEF Recv
    <2>2. ASSUME NEW d \in Clients PROVE AnswerOK(d)'
      <3>1. SameTurn(d)
        BY <1>2, <2>1, TurnStays
      <3>2. CASE d = c
        BY <1>3, <1>4, <3>1, <3>2, ServerAssumption DEF AnswerOK, SameTurn
      <3>3. CASE d # c
        BY <1>2, <2>1, <3>1, <3>3, AnswerFrame DEF AnswerInv, SameAnswer, BaseOK, NetTypes
      <3> QED BY <3>2, <3>3
    <2> QED BY <2>2 DEF AnswerInv
  <1>6. CASE ~(inbox[c] > 0)
    <2>1. PICK p \in {"parse", "close"} : /\ p = IF peer[c] = "open" THEN "parse" ELSE "close"
                                          /\ wpc' = [wpc EXCEPT ![w] = p]
                                          /\ UNCHANGED <<request, inbox>>
      BY <1>1, <1>6 DEF Recv
    <2>2. /\ Reading(c)' <=> p = "parse"
          /\ ~Writing(c)'
          /\ \A d \in Clients \ {c} : SameTurn(d)
      <3>1. p \in WorkerPc
        BY DEF WorkerPc
      <3> QED BY <1>1, <1>2, <2>1, <3>1, HandlerMoves
    <2>3. ASSUME NEW d \in Clients PROVE AnswerOK(d)'
      <3>1. CASE d = c
        \* The client has closed, and all it sent was read.
        <4>1. p = "close" => Done(c)'
          BY <1>2, <1>6, <2>1, Counts DEF Done
        <4>2. p # "close" => Reading(c)'
          BY <2>2
        <4> QED BY <1>2, <1>4, <2>2, <3>1, <4>1, <4>2, <1>3, ServerAssumption DEF AnswerOK
      <3>2. CASE d # c
        BY <1>2, <2>1, <2>2, <3>2, AnswerFrame DEF AnswerInv, SameAnswer
      <3> QED BY <3>1, <3>2
    <2> QED BY <2>3 DEF AnswerInv
  <1> QED BY <1>5, <1>6

\* The response is made while the connection is read, when there is none yet.
LEMMA AnswerTryParse ==
    ASSUME BaseOK, OwnInv, DriveInv, AnswerInv, NEW w \in Workers, TryParse(w)
    PROVE  AnswerInv'
  <1>1. PICK c \in Clients : c = running[w].conn
    BY HandlerAlone DEF TryParse
  <1>2. /\ wpc[w] = "parse"
        /\ UNCHANGED <<life, fdOf, interest, batch, queue, running, hand, mpc, peer, sent, got,
                       inbox, sndbuf, request>>
    BY DEF TryParse, netVars, sockVars, mainVars, poolVars
  <1>3. Reading(c) /\ ~Writing(c) /\ life[c] = "live" /\ AnswerOK(c)
    BY <1>1, <1>2, HandlerTurn, TurnIsLive DEF AnswerInv
  <1>4. got[c] = 0 /\ sndbuf[c] = 0 /\ pending[c] = 0
    BY <1>3, NothingMade DEF AnswerOK
  <1>5. CASE Parsable(c)
    <2>1. pending' = [pending EXCEPT ![c] = RespSize] /\ wpc' = [wpc EXCEPT ![w] = "armOut"]
      BY <1>1, <1>5 DEF TryParse
    <2>2. ~Reading(c)' /\ Writing(c)' /\ \A d \in Clients \ {c} : SameTurn(d)
      <3>1. "armOut" \in WorkerPc
        BY DEF WorkerPc
      <3> QED BY <1>1, <1>2, <2>1, <3>1, HandlerMoves
    <2>3. ASSUME NEW d \in Clients PROVE AnswerOK(d)'
      <3>1. CASE d = c
        <4>1. Made(c)' = RespSize
          BY <1>2, <1>4, <2>1, ServerAssumption DEF Made, BaseOK, NetTypes
        <4>2. Complete(c)'
          BY <1>2, <1>5, Counts DEF Parsable, Complete
        <4> QED BY <1>2, <1>3, <2>2, <3>1, <4>1, <4>2, ServerAssumption DEF AnswerOK
      <3>2. CASE d # c
        BY <1>2, <2>1, <2>2, <3>2, AnswerFrame DEF AnswerInv, SameAnswer, BaseOK, NetTypes
      <3> QED BY <3>1, <3>2
    <2> QED BY <2>3 DEF AnswerInv
  <1>6. CASE ~Parsable(c)
    <2>1. UNCHANGED pending /\ wpc' = [wpc EXCEPT ![w] = "armIn"]
      BY <1>1, <1>6 DEF TryParse
    <2>2. Reading(c)' /\ ~Writing(c)' /\ \A d \in Clients \ {c} : SameTurn(d)
      <3>1. "armIn" \in WorkerPc
        BY DEF WorkerPc
      <3> QED BY <1>1, <1>2, <2>1, <3>1, HandlerMoves
    <2>3. ASSUME NEW d \in Clients PROVE AnswerOK(d)'
      <3>1. SameTurn(d)
        BY <1>3, <2>2 DEF SameTurn
      <3> QED BY <1>2, <2>1, <3>1, AnswerFrame DEF AnswerInv, SameAnswer
    <2> QED BY <2>3 DEF AnswerInv
  <1> QED BY <1>5, <1>6

LEMMA AnswerSend ==
    ASSUME BaseOK, OwnInv, DriveInv, AnswerInv, NEW w \in Workers, Send(w)
    PROVE  AnswerInv'
  <1>1. PICK c \in Clients : c = running[w].conn
    BY HandlerAlone DEF Send
  <1>2. /\ wpc[w] = "write"
        /\ UNCHANGED <<life, fdOf, interest, batch, queue, running, hand, mpc, peer, sent, got,
                       inbox, request>>
    BY DEF Send, netVars, poolVars
  <1>3. ~Reading(c) /\ Writing(c) /\ life[c] = "live" /\ AnswerOK(c)
    BY <1>1, <1>2, HandlerTurn, TurnIsLive DEF AnswerInv
  <1>4. CASE /\ pending[c] = 0 \/ peer[c] = "reset"
             /\ wpc' = [wpc EXCEPT ![w] = "close"] /\ UNCHANGED <<pending, sndbuf>>
    <2>1. ~Reading(c)' /\ ~Writing(c)' /\ \A d \in Clients \ {c} : SameTurn(d)
      <3>1. "close" \in WorkerPc
        BY DEF WorkerPc
      <3> QED BY <1>1, <1>2, <1>4, <3>1, HandlerMoves
    <2>2. ASSUME NEW d \in Clients PROVE AnswerOK(d)'
      <3>1. CASE d = c
        \* The request was complete, and all of the response is with the kernel.
        <4>1. c \notin Malformed => request[c] = Pieces /\ sent[c] = Pieces /\ inbox[c] = 0
          BY <1>3, Counts DEF AnswerOK, Complete
        <4>2. peer[c] = "open" => pending[c] = 0 /\ got[c] + sndbuf[c] = RespSize
          BY <1>3, <1>4, Counts DEF AnswerOK, Made
        <4>3. c \notin Malformed => Done(c)'
          BY <1>2, <1>4, <4>1, <4>2 DEF Done
        <4>4. Made(c)' = Made(c)
          BY <1>2, <1>4 DEF Made
        <4> QED BY <1>2, <1>3, <2>1, <3>1, <4>3, <4>4 DEF AnswerOK
      <3>2. CASE d # c
        BY <1>2, <1>4, <2>1, <3>2, AnswerFrame DEF AnswerInv, SameAnswer
      <3> QED BY <3>1, <3>2
    <2> QED BY <2>2 DEF AnswerInv
  <1>5. CASE UNCHANGED <<pending, sndbuf, wpc>>
    <2> SUFFICES ASSUME NEW d \in Clients PROVE AnswerOK(d)'
      BY DEF AnswerInv
    <2>1. SameTurn(d)
      BY <1>2, <1>5, TurnStays
    <2> QED BY <1>2, <1>5, <2>1, AnswerFrame DEF AnswerInv, SameAnswer
  <1>6. ASSUME NEW n \in Nat, n <= pending[c], UNCHANGED wpc,
               pending' = [pending EXCEPT ![c] = @ - n], sndbuf' = [sndbuf EXCEPT ![c] = @ + n]
        PROVE  AnswerInv'
    <2> SUFFICES ASSUME NEW d \in Clients PROVE AnswerOK(d)'
      BY DEF AnswerInv
    <2>1. SameTurn(d) /\ AnswerOK(d)
      BY <1>2, <1>6, TurnStays DEF AnswerInv
    <2>2. CASE d = c
      <3>1. got[c] \in Nat /\ pending[c] \in Nat /\ sndbuf[c] \in Nat
        BY Counts
      <3>2. pending'[c] = pending[c] - n /\ sndbuf'[c] = sndbuf[c] + n
        BY <1>6 DEF BaseOK, NetTypes
      <3>3. Made(c)' = Made(c)
        BY <1>2, <3>1, <3>2 DEF Made
      <3>4. Complete(c)' <=> Complete(c)
        BY <1>2 DEF Complete
      <3> QED BY <1>2, <1>3, <2>1, <2>2, <3>3, <3>4 DEF AnswerOK, SameTurn
    <2>3. CASE d # c
      BY <1>2, <1>6, <2>1, <2>3, AnswerFrame DEF SameAnswer, BaseOK, NetTypes
    <2> QED BY <2>2, <2>3
  <1>7. CASE wpc' = [wpc EXCEPT ![w] = "armOut"] /\ UNCHANGED <<pending, sndbuf>>
    <2>1. ~Reading(c)' /\ Writing(c)' /\ \A d \in Clients \ {c} : SameTurn(d)
      <3>1. "armOut" \in WorkerPc
        BY DEF WorkerPc
      <3> QED BY <1>1, <1>2, <1>7, <3>1, HandlerMoves
    <2> SUFFICES ASSUME NEW d \in Clients PROVE AnswerOK(d)'
      BY DEF AnswerInv
    <2>2. SameTurn(d)
      BY <1>3, <2>1 DEF SameTurn
    <2> QED BY <1>2, <1>7, <2>2, AnswerFrame DEF AnswerInv, SameAnswer
  <1> DEFINE n == Minimum(pending[c], SndCap - sndbuf[c])
  <1>8. n > 0 => n \in Nat /\ n <= pending[c]
    BY Counts DEF Minimum
  <1> QED BY <1>1, <1>4, <1>5, <1>6, <1>7, <1>8 DEF Send, SendBlocks

LEMMA AnswerWorkers ==
    ASSUME BaseOK, OwnInv, DriveInv, AnswerInv, NEW w \in Workers, WorkerStep(w)
    PROVE  AnswerInv'
  <1>1. CASE StartTask(w) \/ Arm(w) \/ RequestClose(w)
    <2> SUFFICES ASSUME NEW c \in Clients PROVE AnswerOK(c)'
      BY DEF AnswerInv
    <2>1. SameTurn(c) /\ AnswerOK(c)
      BY <1>1, TurnWorkers DEF AnswerInv
    <2>2. SameAnswer(c)
      BY <1>1 DEF StartTask, Arm, RequestClose, SameAnswer, netVars, sockVars, objVars
    <2> QED BY <2>1, <2>2, AnswerFrame
  <1>2. CASE EndTask(w)
    <2>1. PICK d \in Clients : d = running[w].conn
      BY <1>2 DEF EndTask, BaseOK, ThreadTypes, Task
    <2>2. Drop(d, w) /\ UNCHANGED <<peer, sent, got>> /\ w # "main"
      BY <1>2, <2>1, ServerAssumption DEF EndTask
    <2>3. life[d] = "live"
      BY <1>2, <2>1 DEF EndTask, OwnInv, HeldInv, Held, Refers, BaseOK, ThreadTypes
    <2>4. \A c \in Clients : SameTurn(c)
      BY <1>2, TurnWorkers
    <2> QED BY <2>2, <2>3, <2>4, AnswerDrop
  <1> QED BY <1>1, <1>2, AnswerRecv, AnswerTryParse, AnswerSend DEF WorkerStep

LEMMA AnswerStep == BaseOK /\ OwnInv /\ DriveInv /\ AnswerInv /\ [Next]_vars => AnswerInv'
  <1> SUFFICES ASSUME BaseOK, OwnInv, DriveInv, AnswerInv, [Next]_vars PROVE AnswerInv'
    OBVIOUS
  <1>1. CASE Signal \/ UNCHANGED vars
    <2> SUFFICES ASSUME NEW c \in Clients PROVE AnswerOK(c)'
      BY DEF AnswerInv
    <2>1. SameTurn(c)
      <3>1. UNCHANGED <<life, fdOf, interest, batch, queue, running, hand, wpc>>
        BY <1>1 DEF Signal, vars, objVars, mainVars, poolVars
      <3>2. mpc' = "enqueue" <=> mpc = "enqueue"
        BY <1>1 DEF Signal, vars, mainVars
      <3> QED BY <3>1, <3>2, TurnFrame DEF ArmedFor, InHandFor, HandlerAt
    <2>2. SameAnswer(c)
      BY <1>1 DEF Signal, vars, SameAnswer, netVars, sockVars, objVars
    <2> QED BY <2>1, <2>2, AnswerFrame DEF AnswerInv
  <1> QED BY <1>1, AnswerClients, AnswerMain, AnswerWorkers DEF Next
-----------------------------------------------------------------------------
(* The flags.                                                              *)

\* No RST of the server's own has destroyed a response to a well-formed request.
NoneCut == \A c \in Clients \ Malformed : cut[c] = FALSE

FlagInv == FlagTypes /\ NoneCut

LEMMA FlagInit == Init => FlagInv
  <1> SUFFICES ASSUME Init PROVE FlagInv
    OBVIOUS
  <1>1. cut = [c \in Clients |-> FALSE] /\ edge = FALSE /\ run = TRUE /\ listenEv = FALSE
    BY DEF Init
  <1>2. cut \in [Clients -> BOOLEAN]
    BY <1>1
  <1>3. NoneCut
    BY <1>1 DEF NoneCut
  <1> QED BY <1>1, <1>2, <1>3 DEF FlagInv, FlagTypes

\* The object of a connection that is not malformed goes with an empty inbox.
LEMMA FlagDrop ==
    ASSUME BaseOK, OwnInv, DriveInv, AnswerInv, FlagInv, NEW d \in Clients, NEW t,
           Drop(d, t), Entering(d) => t # "main", life[d] = "live",
           UNCHANGED <<edge, run, listenEv>>
    PROVE  FlagInv'
  <1>1. CASE OthersHold(d, t)
    <2>1. cut' = cut
      BY <1>1 DEF Drop
    <2> QED BY <2>1 DEF FlagInv, FlagTypes, NoneCut
  <1>2. CASE ~OthersHold(d, t)
    <2>1. cut' = [cut EXCEPT ![d] = @ \/ inbox[d] > 0]
      BY <1>2 DEF Drop
    <2>2. cut' \in [Clients -> BOOLEAN]
      BY <2>1 DEF FlagInv, FlagTypes
    <2>3. ASSUME NEW c \in Clients \ Malformed PROVE cut'[c] = FALSE
      <3>1. CASE c = d
        <4>1. ~(inbox[d] > 0)
          BY <1>2, <2>3, <3>1, DropWhenDone DEF Done
        <4>2. cut'[d] = (cut[d] \/ inbox[d] > 0)
          BY <2>1 DEF FlagInv, FlagTypes
        <4>3. cut[d] = FALSE
          BY <2>3, <3>1 DEF FlagInv, NoneCut
        <4> QED BY <3>1, <4>1, <4>2, <4>3
      <3>2. CASE c # d
        BY <2>1, <2>3, <3>2 DEF FlagInv, FlagTypes, NoneCut
      <3> QED BY <3>1, <3>2
    <2> QED BY <2>2, <2>3 DEF FlagInv, FlagTypes, NoneCut
  <1> QED BY <1>1, <1>2

LEMMA FlagStep ==
    BaseOK /\ OwnInv /\ DriveInv /\ AnswerInv /\ FlagInv /\ [Next]_vars => FlagInv'
  <1> SUFFICES ASSUME BaseOK, OwnInv, DriveInv, AnswerInv, FlagInv, [Next]_vars
               PROVE  FlagInv'
    OBVIOUS
  <1>1. ASSUME NEW d \in Clients, SendSegment(d) PROVE FlagInv'
    <2>1. peer[d] = "open" /\ sent[d] < Pieces /\ UNCHANGED <<edge, run, listenEv>>
      BY <1>1 DEF SendSegment, mainVars
    <2>2. CASE life[d] = "gone"
      \* Only a connection whose request was refused has more to send.
      <3>1. d \in Malformed
        <4>1. ~Reading(d) /\ ~Writing(d)
          BY <2>2, TurnIsLive
        <4>2. ~Done(d)
          BY <2>1, Counts DEF Done
        <4> QED BY <2>2, <4>1, <4>2 DEF AnswerInv, AnswerOK
      <3>2. cut' = [cut EXCEPT ![d] = TRUE]
        BY <1>1, <2>2 DEF SendSegment
      <3> QED BY <2>1, <3>1, <3>2 DEF FlagInv, FlagTypes, NoneCut
    <2>3. CASE life[d] # "gone"
      BY <1>1, <2>1, <2>3 DEF SendSegment, FlagInv, FlagTypes, NoneCut
    <2> QED BY <2>2, <2>3
  <1>2. ASSUME NEW d \in Clients, Connect(d) \/ Fin(d) \/ Reset(d) \/ Deliver(d)
        PROVE  FlagInv'
    <2>1. cut' = cut /\ run' = run /\ listenEv' = listenEv /\ (edge' = edge \/ edge' = TRUE)
      BY <1>2 DEF Connect, Fin, Reset, Deliver, mainVars
    <2> QED BY <2>1 DEF FlagInv, FlagTypes, NoneCut
  <1>3. CASE EpollWait
    <2>1. PICK l \in {FALSE, edge} : listenEv' = l /\ edge' = (edge /\ ~l)
      BY <1>3 DEF EpollWait
    <2>2. listenEv' \in BOOLEAN /\ edge' \in BOOLEAN
      BY <2>1 DEF FlagInv, FlagTypes
    <2>3. cut' = cut /\ run' = run
      BY <1>3 DEF EpollWait, netVars
    <2> QED BY <2>2, <2>3 DEF FlagInv, FlagTypes, NoneCut
  <1>4. CASE DropHand
    <2>1. PICK d \in Clients : d = hand.conn
      BY <1>4 DEF DropHand, BaseOK, ThreadTypes, Task
    <2>2. Drop(d, "main") /\ ~Entering(d) /\ UNCHANGED <<edge, run, listenEv>>
      BY <1>4, <2>1 DEF DropHand, Entering
    <2>3. life[d] = "live"
      BY <1>4, <2>1 DEF DropHand, OwnInv, HeldInv, Held, BaseOK, ThreadTypes
    <2> QED BY <2>2, <2>3, FlagDrop
  <1>5. ASSUME NEW w \in Workers, EndTask(w) PROVE FlagInv'
    <2>1. PICK d \in Clients : d = running[w].conn
      BY <1>5 DEF EndTask, BaseOK, ThreadTypes, Task
    <2>2. Drop(d, w) /\ w # "main" /\ UNCHANGED <<edge, run, listenEv>>
      BY <1>5, <2>1, ServerAssumption DEF EndTask, mainVars
    <2>3. life[d] = "live"
      BY <1>5, <2>1 DEF EndTask, OwnInv, HeldInv, Held, Refers, BaseOK, ThreadTypes
    <2> QED BY <2>2, <2>3, FlagDrop
  <1>6. CASE MainStep /\ ~EpollWait /\ ~DropHand
    <2>1. cut' = cut /\ edge' = edge /\ run' = run
          /\ (listenEv' = listenEv \/ listenEv' = FALSE)
      BY <1>6 DEF MainStep, CheckRunning, EnterWait, BatchDone, HandleNewConnection, Accept,
                  Insert, AcceptDone, AcceptFails, FindClient, EnqueueTask, netVars
    <2> QED BY <2>1 DEF FlagInv, FlagTypes, NoneCut
  <1>7. ASSUME NEW w \in Workers, WorkerStep(w), ~EndTask(w) PROVE FlagInv'
    <2>1. UNCHANGED <<cut, edge, run, listenEv>>
      BY <1>7 DEF WorkerStep, StartTask, Recv, TryParse, Arm, Send, RequestClose, netVars,
                  mainVars
    <2> QED BY <2>1 DEF FlagInv, FlagTypes, NoneCut
  <1>8. CASE Signal \/ UNCHANGED vars
    <2>1. cut' = cut /\ edge' = edge /\ listenEv' = listenEv /\ (run' = run \/ run' = FALSE)
      BY <1>8 DEF Signal, vars, netVars, mainVars
    <2> QED BY <2>1 DEF FlagInv, FlagTypes, NoneCut
  <1> QED BY <1>1, <1>2, <1>3, <1>4, <1>5, <1>6, <1>7, <1>8 DEF Next, ClientStep
-----------------------------------------------------------------------------
(* The theorems.                                                           *)

ServerInv == BaseOK /\ OwnInv /\ DriveInv /\ AnswerInv /\ FlagInv

LEMMA ServerInvariant == Spec => []ServerInv
  <1>1. Init => ServerInv
    BY BaseInit, OwnInit, DriveInit, AnswerInit, FlagInit DEF ServerInv
  <1>2. ServerInv /\ [Next]_vars => ServerInv'
    BY BaseStep, OwnStep, DriveStep, AnswerStep, FlagStep DEF ServerInv
  <1> QED BY <1>1, <1>2, PTL DEF Spec

\* No buffer or counter of a connection leaves its bounds: at most Pieces segments
\* are read into request_buffer_, and no more than one response is ever produced,
\* buffered and read (connection.cpp:43-80,129-173).
THEOREM ServerTypes == Spec => []TypeOK
  <1>1. ServerInv => TypeOK
    <2> SUFFICES ASSUME ServerInv PROVE TypeOK
      OBVIOUS
    <2>1. ASSUME NEW c \in Clients
          PROVE  got[c] \in 0..RespSize /\ inbox[c] \in 0..Pieces /\ request[c] \in 0..Pieces
      <3>1. BaseOK /\ Made(c) <= RespSize
        BY DEF ServerInv, AnswerInv, AnswerOK
      <3>2. got[c] \in Nat /\ sndbuf[c] \in Nat /\ pending[c] \in Nat
        BY <3>1, Counts
      <3>3. got[c] \in 0..RespSize
        BY <3>1, <3>2, ServerAssumption DEF Made
      <3>4. inbox[c] \in 0..Pieces /\ request[c] \in 0..Pieces
        BY <3>1, Counts
      <3> QED BY <3>3, <3>4
    <2>2. /\ got \in [Clients -> 0..RespSize]
          /\ inbox \in [Clients -> 0..Pieces]
          /\ request \in [Clients -> 0..Pieces]
      BY <2>1 DEF ServerInv, BaseOK, NetTypes
    <2>3. /\ cut \in [Clients -> BOOLEAN]
          /\ edge \in BOOLEAN /\ run \in BOOLEAN /\ listenEv \in BOOLEAN
      BY DEF ServerInv, FlagInv, FlagTypes
    <2> QED BY <2>2, <2>3 DEF ServerInv, BaseOK, NetTypes, ObjTypes, ThreadTypes, TypeOK
  <1> QED BY <1>1, ServerInvariant, PTL

\* However many workers there are, a Connection is in one place at a time: armed,
\* in the batch, with main, in the queue once, or in one handler.  Its buffers
\* need no lock (connection.cpp:39,77, epoll_manager.cpp).
THEOREM OneDriverAtATime == Spec => []OneDriver
  <1>1. ServerInv => OneDriver
    BY OneDriverParts DEF ServerInv, DriveInv
  <1> QED BY <1>1, ServerInvariant, PTL

\* A connection that connections_ holds is never left with nobody to move it: no
\* path of handleRead or handleWrite returns without modFd or a close
\* (connection.cpp:65-79,146-173).
THEOREM NobodyIsStranded == Spec => []NoConnectionStranded
  <1>1. ServerInv => NoConnectionStranded
    BY DEF ServerInv, DriveInv, DriverOK, Driven, NoConnectionStranded
  <1> QED BY <1>1, ServerInvariant, PTL

\* Map, registration and Connection agree on every descriptor, through close and
\* reuse, and an object dies with its last reference and not later
\* (server.cpp:108-151, connection.cpp:262-274).
THEOREM DescriptorsAreOwned == Spec => []DescriptorsOwned
  <1>1. ServerInv => DescriptorsOwned
    <2> SUFFICES ASSUME ServerInv PROVE DescriptorsOwned
      OBVIOUS
    <2>1. BaseOK /\ OwnInv
      BY DEF ServerInv
    <2>2. ASSUME NEW f \in Fds PROVE Cardinality(Owner(f)) <= 1
      <3>1. CASE Owner(f) = {}
        BY <3>1, FS_EmptySet
      <3>2. CASE Owner(f) # {}
        <4>1. PICK c \in Clients : fdOf[c] = f
          BY <3>2 DEF Owner
        <4>2. Owner(f) = {c}
          BY <2>1, <4>1, ServerAssumption DEF Owner, OwnInv, FdInv
        <4> QED BY <4>2, FS_Singleton
      <3> QED BY <3>1, <3>2
    <2>3. ASSUME NEW f \in Fds PROVE (interest[f] = "none") <=> (Owner(f) = {})
      BY <2>1 DEF Owner, OwnInv, FdInv
    <2>4. ASSUME NEW f \in Fds, connections[f] # NoConn PROVE Owner(f) = {connections[f]}
      <3>1. connections[f] \in Clients /\ fdOf[connections[f]] = f
        BY <2>1, <2>4 DEF BaseOK, ObjTypes, OwnInv, FdInv
      <3> QED BY <2>1, <3>1, ServerAssumption DEF Owner, OwnInv, FdInv
    <2>5. ASSUME NEW c \in Clients PROVE Held(c) <=> OthersHold(c, "nobody")
      BY ServerAssumption DEF Held, OthersHold
    <2> QED BY <2>1, <2>2, <2>3, <2>4, <2>5 DEF DescriptorsOwned, OwnInv, FdInv, HeldInv
  <1> QED BY <1>1, ServerInvariant, PTL

\* An event main has still to handle leads to the connection it is of: the worker
\* that could erase or reuse its descriptor has to get that event first
\* (server.cpp:142-151).
THEOREM EventsFindTheirConnection == Spec => []EventFindsItsConnection
  <1>1. ServerInv => EventFindsItsConnection
    BY DEF ServerInv, DriveInv, BatchInv
  <1> QED BY <1>1, ServerInvariant, PTL

\* No client with a well-formed request loses any of its response to the server's
\* close, whatever the size of the response and of the send buffer
\* (connection.cpp:68,129-173).
THEOREM ResponsesAreWhole == Spec => []NoResponseCut
  <1>1. ServerInv => NoResponseCut
    <2> SUFFICES ASSUME ServerInv, NEW c \in Clients \ Malformed
                 PROVE  /\ ~cut[c]
                        /\ life[c] = "gone" /\ peer[c] = "open" => got[c] + sndbuf[c] = RespSize
      BY DEF NoResponseCut
    <2>1. cut[c] = FALSE
      BY DEF ServerInv, FlagInv, NoneCut
    <2>2. life[c] = "gone" => ~Reading(c) /\ ~Writing(c)
      BY TurnIsLive DEF ServerInv
    <2>3. life[c] = "gone" /\ peer[c] = "open" => got[c] + sndbuf[c] = RespSize
      BY <2>2 DEF ServerInv, AnswerInv, AnswerOK, Done
    <2> QED BY <2>1, <2>3
  <1> QED BY <1>1, ServerInvariant, PTL

\* A step never makes a response while there is one: pending_buffer_ grows in
\* tryParse only, and whoever is there reads (connection.cpp:129-137).
THEOREM AnsweredAtMostOnce == Spec => AnsweredOnce
  <1>1. ASSUME ServerInv, [Next]_vars
        PROVE  [\A c \in Clients : pending'[c] > pending[c]
                    => pending[c] = 0 /\ sndbuf[c] = 0 /\ got[c] = 0]_vars
    <2> SUFFICES ASSUME NEW c \in Clients, pending'[c] > pending[c]
                 PROVE  pending[c] = 0 /\ sndbuf[c] = 0 /\ got[c] = 0
      OBVIOUS
    <2>0. BaseOK /\ DriveInv
      BY <1>1 DEF ServerInv
    <2>1. pending[c] \in Nat /\ ~(pending[c] > pending[c])
      BY <2>0, Counts
    \* What is destroyed or sent is no growth.
    <2>2. ASSUME NEW d \in Clients, NEW t, Drop(d, t) PROVE FALSE
      <3>1. pending' = pending \/ pending' = [pending EXCEPT ![d] = 0]
        BY <2>2 DEF Drop, objVars
      <3> QED BY <2>0, <2>1, <3>1 DEF BaseOK, NetTypes
    <2>3. ASSUME NEW w \in Workers, Send(w) PROVE FALSE
      <3>1. PICK d \in Clients : d = running[w].conn
        BY <2>0, <2>3, HandlerAlone DEF Send
      <3>2. CASE pending' = pending
        BY <2>1, <3>2
      <3>3. ASSUME NEW n \in Nat, pending' = [pending EXCEPT ![d] = @ - n] PROVE FALSE
        BY <2>0, <2>1, <3>3 DEF BaseOK, NetTypes
      <3>4. Minimum(pending[d], SndCap - sndbuf[d]) > 0
               => Minimum(pending[d], SndCap - sndbuf[d]) \in Nat
        BY <2>0, Counts DEF Minimum
      <3> QED BY <2>3, <3>1, <3>2, <3>3, <3>4 DEF Send
    <2>4. ASSUME NEW w \in Workers, TryParse(w)
          PROVE  pending[c] = 0 /\ sndbuf[c] = 0 /\ got[c] = 0
      <3>1. PICK d \in Clients : d = running[w].conn
        BY <2>0, <2>4, HandlerAlone DEF TryParse
      <3>2. pending' = pending \/ pending' = [pending EXCEPT ![d] = RespSize]
        BY <2>4, <3>1 DEF TryParse
      <3>3. c = d
        BY <2>0, <2>1, <3>2 DEF BaseOK, NetTypes
      <3>4. Reading(c)
        BY <2>0, <2>4, <3>1, <3>3, HandlerTurn DEF TryParse
      <3>5. Made(c) = 0
        BY <1>1, <3>4 DEF ServerInv, AnswerInv, AnswerOK
      <3> QED BY <2>0, <3>5, NothingMade
    <2>5. ASSUME NEW d \in Clients, ClientStep(d) PROVE FALSE
      <3>1. pending' = pending
        BY <2>5 DEF ClientStep, Connect, SendSegment, Fin, Reset, Deliver, objVars
      <3> QED BY <2>1, <3>1
    <2>6. CASE Signal \/ UNCHANGED vars \/ (MainStep /\ ~DropHand)
      <3>1. pending' = pending
        BY <2>6 DEF Signal, vars, MainStep, CheckRunning, EnterWait, EpollWait, BatchDone,
                    HandleNewConnection, Accept, Insert, AcceptDone, AcceptFails, FindClient,
                    EnqueueTask, objVars
      <3> QED BY <2>1, <3>1
    <2>7. CASE DropHand
      <3>1. hand.conn \in Clients /\ Drop(hand.conn, "main")
        BY <2>0, <2>7 DEF DropHand, BaseOK, ThreadTypes, Task
      <3> QED BY <2>2, <3>1
    <2>8. ASSUME NEW w \in Workers, EndTask(w) PROVE FALSE
      <3>1. running[w].conn \in Clients /\ Drop(running[w].conn, w)
        BY <2>0, <2>8 DEF EndTask, BaseOK, ThreadTypes, Task
      <3> QED BY <2>2, <3>1
    <2>9. ASSUME NEW w \in Workers, StartTask(w) \/ Recv(w) \/ Arm(w) \/ RequestClose(w)
          PROVE  FALSE
      <3>1. pending' = pending
        BY <2>9 DEF StartTask, Recv, Arm, RequestClose, objVars
      <3> QED BY <2>1, <3>1
    <2> QED BY <1>1, <2>3, <2>4, <2>5, <2>6, <2>7, <2>8, <2>9 DEF Next, WorkerStep
  <1> QED BY <1>1, ServerInvariant, PTL DEF Spec, AnsweredOnce
=============================================================================

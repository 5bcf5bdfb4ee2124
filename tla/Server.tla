------------------------------- MODULE Server -------------------------------
(***************************************************************************)
(* TcpServer with its Acceptor and ReactorThreadPool                       *)
(* (src/flute/net/TcpServer.cc, Acceptor.cc, ReactorThreadPool.cc).        *)
(*                                                                         *)
(* Reactor 0 is the acceptor reactor (the thread that built the server);   *)
(* reactors 1..pool_size are the pool's workers.  A reactor runs a task    *)
(* inline when run_asap_in_reactor is called on its own thread and queues  *)
(* it otherwise (Reactor.cc 136-152); each queue is FIFO.  A connection    *)
(* is the number g_conn_counter had when it was named, plus one, and       *)
(* holds its fd from accept until connect_destroyed has run (the Socket    *)
(* is closed when the last TcpConnectionPtr, held by that task, goes).     *)
(* The TcpConnection itself is abstracted to its m_conn_state; its I/O is  *)
(* the TcpConnection module.                                               *)
(***************************************************************************)
EXTENDS Integers, Sequences, SequencesExt, FiniteSets

CONSTANTS
  Clients,    \* peers that connect to the listening port
  PoolSizes,  \* the values set_reactor_pool_size may have been given
  FdLimit     \* RLIMIT_NOFILE, counting the reserved fd and the accepted ones

Conns == 1..Clients
MaxPool == CHOOSE n \in PoolSizes : \A m \in PoolSizes : m <= n
Reactors == 0..MaxPool
Base == 0
None == -1
States == {"none", "connecting", "connected", "disconnected", "destroyed"}
Tasks == [op : {"established", "destroyed", "remove"}, conn : Conns]

VARIABLES
  pool_size,   \* m_reactor_thread_poll->m_size_pool
  started,     \* m_has_started (TcpServer and ReactorThreadPool)
  listening,   \* m_acceptor->m_is_listening
  next_idx,    \* ReactorThreadPool::m_next_idx
  counter,     \* TcpServer::g_conn_counter
  arrived,     \* peers that have called connect()
  backlog,     \* completed connections waiting in the listen queue
  conn_map,    \* the names in m_conn_map
  reactor_of,  \* TcpConnection::m_reactor
  state,       \* TcpConnection::m_conn_state
  queue,       \* Reactor::m_pending_tasks of each reactor
  alive,       \* the TcpServer object has not been destroyed
  bad,         \* an assert of this code path failed
  uaf,         \* a close callback called into a destroyed TcpServer
  aborted      \* LOG_FATAL called abort() (LogLine::~LogLine)

vars == <<pool_size, started, listening, next_idx, counter, arrived, backlog,
          conn_map, reactor_of, state, queue, alive, bad, uaf, aborted>>

(* Open fds: the reserved /dev/null fd and every accepted connection.     *)
Fds == 1 + Cardinality({c \in Conns : state[c] \notin {"none", "destroyed"}})

(* Acceptor, ReactorThreadPool and TcpServer constructors.                 *)
Init ==
  /\ pool_size \in PoolSizes
  /\ started = FALSE
  /\ listening = FALSE
  /\ next_idx = 0
  /\ counter = 0
  /\ arrived = 0
  /\ backlog = 0
  /\ conn_map = {}
  /\ reactor_of = [c \in Conns |-> None]
  /\ state = [c \in Conns |-> "none"]
  /\ queue = [r \in Reactors |-> <<>>]
  /\ alive = TRUE
  /\ bad = FALSE
  /\ uaf = FALSE
  /\ aborted = FALSE

(* ReactorThreadPool::get_next_reactor: the default reactor without       *)
(* workers, else m_reactors[m_next_idx], advancing the index round-robin. *)
AdvanceIdxNoWrap == IF pool_size = 0 THEN next_idx ELSE next_idx + 1
AdvanceIdx == IF pool_size = 0 THEN next_idx ELSE (next_idx + 1) % pool_size
NextReactor == IF pool_size = 0 THEN Base ELSE next_idx + 1

(* Acceptor::listen: listen() on the socket and watch it for reading.      *)
Listen == listening' = TRUE

(* TcpServer::start, called on the acceptor reactor's thread: starts the  *)
(* pool (its threads are the reactors 1..pool_size) and runs              *)
(* Acceptor::listen inline, since run_asap_in_reactor is on that thread.  *)
start ==
  /\ ~started
  /\ alive
  /\ started' = TRUE
  /\ Listen
  /\ UNCHANGED <<pool_size, next_idx, counter, arrived, backlog, conn_map,
                 reactor_of, state, queue, alive, bad, uaf, aborted>>

(* A peer's connect() completes the handshake into the listen queue.      *)
client_connect ==
  /\ arrived < Clients
  /\ arrived' = arrived + 1
  /\ backlog' = backlog + 1
  /\ UNCHANGED <<pool_size, started, listening, next_idx, counter, conn_map,
                 reactor_of, state, queue, alive, bad, uaf, aborted>>

(* TcpConnection::connect_established, on the connection's reactor.       *)
ConnectEstablished(s, c) ==
  [ok |-> s[c] = "connecting", state |-> [s EXCEPT ![c] = "connected"]]

(* TcpConnection::connect_destroyed: remove_self_from_reactor asserts the  *)
(* channel is registered, which it is from connect_established on and     *)
(* until the first connect_destroyed.                                      *)
ConnectDestroyed(s, c) ==
  [ok |-> s[c] \in {"connected", "disconnected"},
   state |-> [s EXCEPT ![c] = "destroyed"]]

(* socket_ops::accept: accept4 fails with EMFILE once the process holds  *)
(* FdLimit fds.  It calls LOG_FATAL (abort) itself on the errors outside   *)
(* its "expected" list and returns -1 on the ones in it, EMFILE included. *)
ExpectedAcceptErrors ==
  {"EAGAIN", "ECONNABORTED", "EINTR", "EPROTO", "EPERM", "EMFILE"}
AcceptErrno == IF Fds < FdLimit THEN "none" ELSE "EMFILE"
SocketOpsAcceptAborts(err) == err # "none" /\ err \notin ExpectedAcceptErrors

(* LOG_FATAL: LogLine's destructor writes the line, flushes the output    *)
(* and, at FATAL level, calls abort(): the process stops in that step.    *)
LogFatal == aborted' = TRUE

(* Socket::accept: LOG_FATAL, which aborts, on every accept that returned  *)
(* -1, expected or not.  The first form returns -1 to its caller instead.  *)
SocketAcceptReturns(err) == FALSE
SocketAcceptAborts(err) == err # "none"

(* Reactor::run_asap_in_reactor called on reactor `on`'s thread for      *)
(* reactor r: the task runs inline when is_in_reactor_thread, and is      *)
(* queued on r otherwise.                                                  *)
RunsInline(on, r) == on = r

(* TcpServer::new_conn_callback on a new fd: name it #g_conn_counter,      *)
(* choose its reactor, enter it in m_conn_map and run connect_established *)
(* there.                                                                  *)
accept_conn ==
  LET c == counter + 1
      r == NextReactor
      s == [state EXCEPT ![c] = "connecting"]
  IN /\ backlog' = backlog - 1
     /\ counter' = counter + 1
     /\ next_idx' = AdvanceIdx
     /\ conn_map' = conn_map \cup {c}
     /\ reactor_of' = [reactor_of EXCEPT ![c] = r]
     /\ IF RunsInline(Base, r)
          THEN /\ state' = ConnectEstablished(s, c).state
               /\ bad' = (bad \/ ~ConnectEstablished(s, c).ok)
               /\ UNCHANGED queue
          ELSE /\ state' = s
               /\ queue' = [queue EXCEPT ![r] =
                              Append(@, [op |-> "established", conn |-> c])]
               /\ UNCHANGED bad
     /\ UNCHANGED <<pool_size, started, listening, arrived, alive, uaf, aborted>>

(* handle_conn_arrival's EMFILE branch: close the reserved fd, accept the  *)
(* connection on it, close that, reopen /dev/null.  The peer sees its      *)
(* connection closed; the fd count is what it was.                         *)
accept_emfile ==
  /\ backlog' = backlog - 1
  /\ UNCHANGED <<pool_size, started, listening, next_idx, counter, arrived,
                 conn_map, reactor_of, state, queue, alive, bad, uaf, aborted>>

(* Acceptor::handle_conn_arrival, run while the listen socket is readable: *)
(* Socket::accept, then new_conn_callback on an fd, or the process aborts  *)
(* inside Socket::accept, or the EMFILE branch runs.                       *)
handle_conn_arrival ==
  /\ alive /\ listening /\ backlog > 0
  /\ LET err == AcceptErrno IN
       IF err = "none" THEN accept_conn
       ELSE IF SocketOpsAcceptAborts(err) \/ SocketAcceptAborts(err)
         THEN /\ LogFatal
              /\ UNCHANGED <<pool_size, started, listening, next_idx, counter,
                             arrived, backlog, conn_map, reactor_of, state,
                             queue, alive, bad, uaf>>
       ELSE accept_emfile

(* A reactor that is running: the acceptor reactor until the server is    *)
(* destroyed at the end of its loop, a worker while the pool has it.       *)
Running(r) == IF r = Base THEN alive ELSE r <= pool_size

(* TcpServer::remove_connection_in_reactor on the acceptor reactor: erase  *)
(* the name (assert n == 1) and queue connect_destroyed on the            *)
(* connection's own reactor.                                               *)
RemoveKeepsName(q, c) ==
  [ok |-> c \in conn_map, map |-> conn_map,
   queue |-> [q EXCEPT ![reactor_of[c]] =
                Append(@, [op |-> "destroyed", conn |-> c])]]
RemoveNoDestroy(q, c) ==
  [ok |-> c \in conn_map, map |-> conn_map \ {c}, queue |-> q]
RemoveConnectionInReactor(q, c) ==
  [ok |-> c \in conn_map,
   map |-> conn_map \ {c},
   queue |-> [q EXCEPT ![reactor_of[c]] =
                Append(@, [op |-> "destroyed", conn |-> c])]]

(* Reactor r runs the oldest of its pending tasks.                         *)
run_task(r) ==
  /\ Running(r)
  /\ queue[r] # <<>>
  /\ LET t == Head(queue[r])
         c == t.conn
         q == [queue EXCEPT ![r] = Tail(@)]
     IN CASE t.op = "established" ->
               /\ state' = ConnectEstablished(state, c).state
               /\ bad' = (bad \/ ~ConnectEstablished(state, c).ok)
               /\ queue' = q
               /\ UNCHANGED conn_map
          [] t.op = "destroyed" ->
               /\ state' = ConnectDestroyed(state, c).state
               /\ bad' = (bad \/ ~ConnectDestroyed(state, c).ok)
               /\ queue' = q
               /\ UNCHANGED conn_map
          [] t.op = "remove" ->
               /\ conn_map' = RemoveConnectionInReactor(q, c).map
               /\ queue' = RemoveConnectionInReactor(q, c).queue
               /\ bad' = (bad \/ ~RemoveConnectionInReactor(q, c).ok)
               /\ UNCHANGED state
  /\ UNCHANGED <<pool_size, started, listening, next_idx, counter, arrived,
                 backlog, reactor_of, alive, uaf, aborted>>

(* TcpServer::remove_conn, called on c's reactor:                          *)
(* run_asap_in_reactor(remove_connection_in_reactor) on the acceptor       *)
(* reactor runs it inline when c lives there and queues it otherwise.      *)
RemoveConn(c) ==
  IF RunsInline(reactor_of[c], Base)
    THEN /\ conn_map' = RemoveConnectionInReactor(queue, c).map
         /\ queue' = RemoveConnectionInReactor(queue, c).queue
         /\ bad' = (bad \/ ~RemoveConnectionInReactor(queue, c).ok)
    ELSE /\ queue' = [queue EXCEPT ![Base] =
                        Append(@, [op |-> "remove", conn |-> c])]
         /\ UNCHANGED <<conn_map, bad>>

(* The peer closes connection c: its reactor reads 0 bytes and runs        *)
(* TcpConnection::handle_close, whose close callback is                    *)
(* TcpServer::remove_conn: run_asap_in_reactor(remove_connection_in_reactor) *)
(* on the acceptor reactor, inline when c lives there.  The callback is    *)
(* bound to the raw TcpServer pointer, so after the server is destroyed    *)
(* it calls into freed memory.                                             *)
peer_close(c) ==
  /\ Running(reactor_of[c])
  /\ state[c] = "connected"
  /\ state' = [state EXCEPT ![c] = "disconnected"]
  /\ IF ~alive
       THEN /\ uaf' = TRUE
            /\ UNCHANGED <<conn_map, queue, bad>>
       ELSE /\ RemoveConn(c)
            /\ UNCHANGED uaf
  /\ UNCHANGED <<pool_size, started, listening, next_idx, counter, arrived,
                 backlog, reactor_of, alive, aborted>>

(* The connections of m_conn_map that live on reactor r, in name order.    *)
MapOn(r) == SetToSortSeq({c \in conn_map : reactor_of[c] = r}, <)

(* ~TcpServer, on the acceptor reactor's thread once its loop has          *)
(* returned (the last iteration ran the tasks that thread queued for       *)
(* itself; tasks other threads queue after it are never run), then        *)
(* ~Acceptor.  Every connection still in m_conn_map gets                   *)
(* connect_destroyed by run_asap_in_reactor: inline on the acceptor        *)
(* reactor, queued on a worker.                                            *)
destroy ==
  /\ alive
  /\ \A i \in DOMAIN queue[Base] : queue[Base][i].op # "destroyed"
  /\ alive' = FALSE
  /\ listening' = FALSE
  /\ state' = [c \in Conns |->
                 IF c \in conn_map /\ RunsInline(Base, reactor_of[c])
                   THEN ConnectDestroyed(state, c).state[c] ELSE state[c]]
  /\ bad' = (bad \/ \E c \in conn_map :
                       RunsInline(Base, reactor_of[c]) /\ ~ConnectDestroyed(state, c).ok)
  /\ queue' = [r \in Reactors |->
                 IF r = Base THEN queue[r]
                 ELSE queue[r] \o [i \in DOMAIN MapOn(r) |->
                                     [op |-> "destroyed", conn |-> MapOn(r)[i]]]]
  /\ UNCHANGED <<pool_size, started, next_idx, counter, arrived, backlog,
                 conn_map, reactor_of, uaf, aborted>>

(* After abort() no thread of the process takes another step.             *)
Next ==
  /\ ~aborted
  /\ \/ start
     \/ client_connect
     \/ handle_conn_arrival
     \/ \E r \in Reactors : run_task(r)
     \/ \E c \in Conns : peer_close(c)
     \/ destroy

(* The acceptor's channel stays readable while the listen queue is not     *)
(* empty (level-triggered), and each reactor runs its pending tasks on     *)
(* every loop iteration while the server lives.  ~TcpServer is followed   *)
(* by the pool's destruction, whose ReactorThreads mark_quit and join, so *)
(* nothing is promised of a worker after it.  Peers, start and the         *)
(* destructor are not forced.                                              *)
Spec ==
  /\ Init /\ [][Next]_vars
  /\ WF_vars(~aborted /\ handle_conn_arrival)
  /\ \A r \in Reactors : WF_vars(alive /\ run_task(r))

-----------------------------------------------------------------------------

TypeOK ==
  /\ pool_size \in PoolSizes
  /\ started \in BOOLEAN /\ listening \in BOOLEAN
  /\ next_idx \in 0..MaxPool
  /\ counter \in 0..Clients /\ arrived \in 0..Clients /\ backlog \in 0..Clients
  /\ conn_map \subseteq Conns
  /\ reactor_of \in [Conns -> Reactors \cup {None}]
  /\ state \in [Conns -> States]
  /\ queue \in [Reactors -> Seq(Tasks)]
  /\ alive \in BOOLEAN /\ bad \in BOOLEAN /\ uaf \in BOOLEAN
  /\ aborted \in BOOLEAN

(* The asserts on these paths hold: connect_established finds the state   *)
(* kConnecting, connect_destroyed finds the channel registered (so it      *)
(* runs once), and remove_connection_in_reactor erases exactly one name.  *)
AssertsHold == ~bad

(* A listening server takes every completed connection off the listen      *)
(* queue, even when the process is out of fds: that is what the reserved-fd *)
(* branch of handle_conn_arrival is for.  Not in a passing run: Socket::   *)
(* accept aborts on the EMFILE first (MCServerEMFILE.cfg).                 *)
BacklogDrains == (listening /\ backlog > 0) ~> (backlog = 0 \/ ~alive)

(* A connection closed while the server lives is eventually destroyed, its *)
(* channel removed and its fd released: handle_close on the worker queues *)
(* remove_connection_in_reactor on the acceptor, which erases the name and *)
(* queues connect_destroyed back on the worker -- unless ~TcpServer comes *)
(* first, after which the pool's threads are quit and joined and what they *)
(* still run is not guaranteed (QuitDrainsQueue of Reactor).               *)
ClosedConnDestroyed ==
  \A c \in Conns :
    state[c] = "disconnected" ~> (state[c] = "destroyed" \/ ~alive)

(* remove_conn is bound to the raw TcpServer pointer ("FIXME: unsafe"): no *)
(* close callback may run after ~TcpServer.  Not in a passing run: a peer  *)
(* closing a worker's connection before the connect_destroyed the          *)
(* destructor queued for it runs breaks it (MCServerDestroyRace.cfg).      *)
NoCallIntoDestroyedServer == ~uaf

=============================================================================

------------------------------ MODULE Connector ------------------------------
(***************************************************************************)
(* Connector and TcpClient (src/flute/net/Connector.cc, TcpClient.cc).     *)
(*                                                                         *)
(* Actors:                                                                 *)
(*   - the loop thread: queued tasks (start_in_reactor, stop_in_reactor,   *)
(*     reset_channel), retry timers firing start_in_reactor, the channel's *)
(*     writable and error events, and the close of TcpClient's connection  *)
(*     (remove_conn, then restart when retry is enabled);                  *)
(*   - the user thread: TcpClient::stop (two stores and Connector::stop), *)
(*     TcpClient::connect, TcpClient::disconnect and ~TcpClient (on the    *)
(*     loop thread, or on the user thread: DtorThreads);                   *)
(*   - the network, which decides how each connect() ends.                 *)
(* Retry timers all run the same start_in_reactor, so they are a count;   *)
(* their delays are m_retry_delay_ms, kept in `delay`.  The TcpConnection  *)
(* made by new_conn_callback is abstracted to its m_conn_state and its    *)
(* close callback; it closes when the peer closes or force_close runs.     *)
(***************************************************************************)
EXTENDS Naturals, Sequences, SequencesExt, FiniteSets

CONSTANTS
  InitDelay,    \* kInitRetryDelayMs
  MaxDelay,     \* kMaxRetryDelayMs
  MaxAttempts,  \* connect() calls after which the server accepts
  EnableRetry,  \* TcpClient::m_enable_retry
  UserOps,      \* what the user thread calls: "stop", "connect" (again),
                \* "disconnect", "destroy" (~TcpClient)
  DtorThreads   \* the threads ~TcpClient may run on: "loop", "user"

ASSUME /\ InitDelay \in Nat \ {0} /\ MaxDelay \in Nat /\ InitDelay <= MaxDelay
       /\ MaxAttempts \in Nat \ {0}
       /\ EnableRetry \in BOOLEAN
       /\ UserOps \subseteq {"stop", "connect", "disconnect", "destroy"}
       /\ DtorThreads \subseteq {"loop", "user"}

States == {"Disconnected", "Connecting", "Connected"}

VARIABLES
  state,      \* Connector::m_state
  conn_on,    \* Connector::m_is_connected
  client_on,  \* TcpClient::m_is_connected
  chan,       \* m_channel: "none", "write" (registered, wants to write) or
              \* "removed" (end_all and removed, reset_channel not yet run)
  q,          \* the loop's queued tasks for this client
  timers,     \* pending retry timers
  delay,      \* m_retry_delay_ms
  conn,       \* TcpClient::connection_: "none", "new" (made in this
              \* iteration: its Channel is not yet polled) or "up"
  batch,      \* tasks of q still to run in this do_queueing_tasks
  lpc,        \* loop thread: "idle" or "restart" (inside remove_conn)
  upc,        \* user thread: "idle" or "stop" (inside TcpClient::stop)
  done,       \* user calls made
  attempts,   \* connect() calls so far (up to MaxAttempts)
  bad_start,  \* history: start_in_reactor ran outside kDisconnected
  bad_chan,   \* history: connecting found m_channel still set
  cst,        \* the connection's m_conn_state
  close_cb,   \* its m_close_callback: "client" (TcpClient::remove_conn) or
              \* "detail" (detail::remove_conn, set by ~TcpClient)
  fin,        \* its write side is shut (shutdown_in_reactor)
  destroyed,  \* ~TcpClient has run
  dconn,      \* ~TcpClient read connection_ as set
  dunique,    \* ... and connection_.unique() as true
  uaf,        \* history: a member of the destroyed TcpClient was called
  bad_dtor,   \* history: ~Connector ran with m_channel set or a task bound
              \* to its raw `this` still queued
  fds         \* sockets connect() created that are neither closed nor
              \* handed to a TcpConnection by new_conn_callback

client_vars == <<cst, close_cb, fin, destroyed, dconn, dunique, uaf,
                  bad_dtor>>

vars == <<state, conn_on, client_on, chan, q, timers, delay, conn, batch, lpc,
          upc, done, attempts, bad_start, bad_chan, client_vars, fds>>

Min2(a, b) == IF a < b THEN a ELSE b

\* Mutant: the delay grows without the kMaxRetryDelayMs cap.
RetryNoCap(on, t, d, f) ==
  /\ fds' = f - 1
  /\ state' = "Disconnected"
  /\ IF on THEN /\ timers' = t + 1 /\ delay' = d * 2
           ELSE /\ timers' = t /\ delay' = d

\* Mutant: retry does not close the socket it abandons.
RetryNoClose(on, t, d, f) ==
  /\ fds' = f
  /\ state' = "Disconnected"
  /\ IF on THEN /\ timers' = t + 1
                /\ delay' = Min2(d * 2, MaxDelay)
           ELSE /\ timers' = t /\ delay' = d

(* retry: close the socket, kDisconnected, and while m_is_connected (`on`) *)
(* schedule start_in_reactor after m_retry_delay_ms, doubling the delay up *)
(* to kMaxRetryDelayMs.  t, d and f are the timers, delay and open sockets *)
(* before the call.                                                         *)
Retry(on, t, d, f) ==
  /\ fds' = f - 1
  /\ state' = "Disconnected"
  /\ IF on THEN /\ timers' = t + 1
                /\ delay' = Min2(d * 2, MaxDelay)
           ELSE /\ timers' = t /\ delay' = d

\* Mutant: connecting() does not ask for writability.
ConnectingNoInterest ==
  /\ state' = "Connecting"
  /\ bad_chan' = (bad_chan \/ chan # "none")
  /\ chan' = "removed"

(* connecting: kConnecting, a new Channel (assert(!m_channel)) that wants  *)
(* to write.                                                               *)
Connecting ==
  /\ state' = "Connecting"
  /\ bad_chan' = (bad_chan \/ chan # "none")
  /\ chan' = "write"

(* connect: the outcomes of ::connect on a non-blocking socket: in         *)
(* progress (or done), a retryable error, or a fatal error that closes the *)
(* socket and gives up.  After MaxAttempts the server accepts.  s is       *)
(* m_state before the call; the socket is created first (its failure      *)
(* aborts the process).                                                     *)
Connect(s, on, t, d) ==
  /\ attempts' = Min2(attempts + 1, MaxAttempts)
  /\ \/ /\ Connecting
        /\ fds' = fds + 1
        /\ timers' = t /\ delay' = d
     \/ /\ attempts + 1 < MaxAttempts
        /\ Retry(on, t, d, fds + 1)
        /\ UNCHANGED <<chan, bad_chan>>
     \/ /\ attempts + 1 < MaxAttempts
        /\ state' = s /\ timers' = t /\ delay' = d
        /\ UNCHANGED <<chan, bad_chan, fds>>

(* start_in_reactor: assert(m_state == kDisconnected); connect while       *)
(* m_is_connected.                                                          *)
StartInReactor(s, on, t, d) ==
  /\ bad_start' = (bad_start \/ s # "Disconnected")
  /\ IF on THEN Connect(s, on, t, d)
     ELSE /\ state' = s /\ timers' = t /\ delay' = d
          /\ UNCHANGED <<chan, attempts, bad_chan, fds>>

(* remove_and_reset_channel: end_all, remove from the poller, and queue    *)
(* reset_channel (the Channel cannot be destroyed inside its handler).     *)
RemoveAndResetChannel(rest) ==
  /\ chan' = "removed"
  /\ q' = Append(rest, "reset")

(* new_conn_callback (TcpClient): a TcpConnection whose close callback is  *)
(* TcpClient::remove_conn, stored in connection_ and established           *)
(* (kConnected).  Its Channel is polled from the next iteration.  Called   *)
(* on a destroyed TcpClient, it runs on freed memory.                      *)
NewConnCallback ==
  /\ conn' = "new"
  /\ cst' = "Connected"
  /\ close_cb' = "client"
  /\ fin' = FALSE
  /\ uaf' = (uaf \/ destroyed)

(* TcpClient::remove_conn: drop connection_, queue connect_destroyed and,  *)
(* when m_enable_retry && m_is_connected, go on to restart.                *)
ClientRemoveConn ==
  /\ uaf' = (uaf \/ destroyed)
  /\ lpc' = IF EnableRetry /\ client_on THEN "restart" ELSE "idle"

(* TcpConnection::handle_close: kDisconnected, then the close callback:    *)
(* TcpClient::remove_conn, or detail::remove_conn, which only queues       *)
(* connect_destroyed.  rest is the task queue after the calling task.      *)
HandleClose(rest) ==
  /\ conn' = "none"
  /\ cst' = "Disconnected"
  /\ q' = rest
  /\ IF close_cb = "client" THEN ClientRemoveConn
     ELSE /\ lpc' = "idle"
          /\ UNCHANGED uaf

(* ~TcpClient drops connector_: ~Connector runs at once unless a retry     *)
(* timer holds it (shared_from_this).  It asserts !m_channel, and a queued *)
(* start, stop or reset_channel bound to its raw `this` would run on freed *)
(* memory.  rest is the queue it leaves.                                   *)
ConnectorReleased(rest) ==
  bad_dtor' = (bad_dtor \/ (timers = 0 /\ (chan # "none" \/
                 Range(rest) \cap {"start", "stop", "reset"} # {})))

\* Mutant: ~TcpClient does not force_close a connection it holds alone.
DtorConnNoForceClose(th, rest, unique) ==
  /\ close_cb' = IF th = "loop" THEN "detail" ELSE close_cb
  /\ q' = IF th = "loop" THEN rest ELSE Append(rest, "setcb")
  /\ cst' = cst
  /\ ConnectorReleased(q')
  /\ UNCHANGED conn_on

(* ~TcpClient with a connection: set its close callback to detail::       *)
(* remove_conn through run_asap_in_reactor (inline on the loop thread,     *)
(* queued from another), then, if connection_ was its only owner          *)
(* (unique), force_close: if kConnected or kDisconnecting, kDisconnecting  *)
(* and queue force_close_in_reactor.  The Connector is not stopped.        *)
DtorConn(th, rest, unique) ==
  /\ close_cb' = IF th = "loop" THEN "detail" ELSE close_cb
  /\ LET r == IF th = "loop" THEN rest ELSE Append(rest, "setcb")
     IN IF unique /\ cst \in {"Connected", "Disconnecting"}
          THEN /\ cst' = "Disconnecting"
               /\ q' = Append(r, "force_close")
          ELSE /\ cst' = cst
               /\ q' = r
  /\ ConnectorReleased(q')
  /\ UNCHANGED conn_on

(* ~TcpClient without a connection: Connector::stop (m_is_connected =      *)
(* false, queue stop_in_reactor); the one-second removeConnector timer     *)
(* keeps the Connector alive until stop_in_reactor has run.                *)
DtorNoConn(rest) ==
  /\ conn_on' = FALSE
  /\ q' = Append(rest, "stop")
  /\ UNCHANGED <<cst, close_cb, bad_dtor>>

-----------------------------------------------------------------------------
(* The loop thread.                                                         *)

LoopIdle == lpc = "idle"

(* Reactor::loop polls and handles the ready Channels' events, then        *)
(* do_queueing_tasks swaps out the pending tasks and runs them; tasks     *)
(* queued while they run wait for the next iteration.                      *)
Events == LoopIdle /\ batch = 0
TaskStep(name) ==
  /\ LoopIdle /\ batch > 0 /\ Head(q) = name
  /\ batch' = batch - 1

(* do_queueing_tasks begins: the tasks queued so far form this batch, and  *)
(* a connection made during the events is polled from now on.              *)
do_queueing_tasks ==
  /\ Events
  /\ q # <<>> \/ conn = "new"
  /\ batch' = Len(q)
  /\ conn' = IF conn = "new" THEN "up" ELSE conn
  /\ UNCHANGED <<state, conn_on, client_on, chan, q, timers, delay, lpc, upc,
                 done, attempts, fds, bad_start, bad_chan, client_vars>>

(* A queued start_in_reactor (Connector::start from another thread).        *)
start_task ==
  /\ TaskStep("start")
  /\ q' = Tail(q)
  /\ StartInReactor(state, conn_on, timers, delay)
  /\ UNCHANGED <<conn_on, client_on, conn, lpc, upc, done, client_vars>>

(* A retry timer fires start_in_reactor.  Its delay is at least           *)
(* kInitRetryDelayMs, so a reset_channel queued by the loop, which runs in *)
(* the next iteration, has run by then.                                     *)
retry_timer ==
  /\ Events /\ timers > 0 /\ "reset" \notin Range(q)
  /\ StartInReactor(state, conn_on, timers - 1, delay)
  /\ UNCHANGED <<conn_on, client_on, q, conn, batch, lpc, upc, done,
                 client_vars>>

(* stop_in_reactor: a connect in progress is abandoned: kDisconnected, the *)
(* Channel removed, and retry (which schedules nothing once m_is_connected *)
(* is false).                                                               *)
stop_in_reactor ==
  /\ TaskStep("stop")
  /\ IF state = "Connecting"
       THEN /\ RemoveAndResetChannel(Tail(q))
            /\ Retry(conn_on, timers, delay, fds)
       ELSE /\ q' = Tail(q)
            /\ UNCHANGED <<state, chan, timers, delay, fds>>
  /\ UNCHANGED <<conn_on, client_on, conn, lpc, upc, done, attempts, bad_start,
                 bad_chan, client_vars>>

(* reset_channel: destroy the Channel.                                      *)
reset_channel ==
  /\ TaskStep("reset")
  /\ q' = Tail(q)
  /\ chan' = "none"
  /\ UNCHANGED <<state, conn_on, client_on, timers, delay, conn, lpc, upc, done,
                 attempts, fds, bad_start, bad_chan, client_vars>>

(* socket_ops::getSocketError: the socket's SO_ERROR, 0 once the          *)
(* handshake has completed.  The failures are abstracted to two errnos,    *)
(* ETIMEDOUT and ECONNREFUSED (their Linux numbers).                       *)
SoErrors == {0, 110, 111}

(* The server address and the addresses the kernel can bind the           *)
(* connecting socket to: a connect to a local port nobody listens on can   *)
(* be given that same port and connect to itself.                          *)
ServerAddr == [family |-> "AF_INET", ip |-> "lo", port |-> 1]
LocalAddrs == {[family |-> "AF_INET", ip |-> "lo", port |-> p] : p \in {1, 2}}

(* socket_ops::isSelfConnect: for AF_INET and AF_INET6 the local and peer  *)
(* port and address are equal; any other family is never a self-connect.   *)
IsSelfConnect(local, peer) ==
  /\ local.family \in {"AF_INET", "AF_INET6"}
  /\ local.port = peer.port
  /\ local.ip = peer.ip

(* handle_write on a connecting socket: remove the Channel, then by        *)
(* SO_ERROR: retry on an error or a self-connect, else kConnected and      *)
(* new_conn_callback while m_is_connected, or close the socket.            *)
handle_write ==
  /\ Events /\ chan = "write"
  /\ IF state = "Connecting"
       THEN /\ RemoveAndResetChannel(q)
            /\ \E err \in SoErrors, local \in LocalAddrs :
               \/ /\ err # 0 \/ IsSelfConnect(local, ServerAddr)
                  /\ attempts < MaxAttempts
                  /\ Retry(conn_on, timers, delay, fds)
                  /\ UNCHANGED <<conn, cst, close_cb, fin, uaf>>
               \/ /\ err = 0 /\ ~IsSelfConnect(local, ServerAddr)
                  /\ state' = "Connected"
                  /\ fds' = fds - 1
                  /\ IF conn_on THEN NewConnCallback
                     ELSE UNCHANGED <<conn, cst, close_cb, fin, uaf>>
                  /\ UNCHANGED <<timers, delay>>
       ELSE UNCHANGED <<state, chan, q, timers, delay, conn, cst,
                        close_cb, fin, uaf, fds>>
  /\ UNCHANGED <<conn_on, client_on, batch, lpc, upc, done, attempts, bad_start,
                 bad_chan, destroyed, dconn, dunique, bad_dtor>>

(* handle_error on a connecting socket: remove the Channel and retry.       *)
handle_error ==
  /\ Events /\ chan = "write" /\ state = "Connecting"
  /\ attempts < MaxAttempts
  /\ RemoveAndResetChannel(q)
  /\ Retry(conn_on, timers, delay, fds)
  /\ UNCHANGED <<conn_on, client_on, conn, batch, lpc, upc, done, attempts,
                 bad_start, bad_chan, client_vars>>

(* The peer closes: handle_read reads 0 bytes and calls handle_close.      *)
peer_close ==
  /\ Events /\ conn = "up"
  /\ HandleClose(q)
  /\ UNCHANGED <<state, conn_on, client_on, chan, timers, delay, batch, upc,
                 done, attempts, fds, bad_start, bad_chan, close_cb, fin,
                 destroyed, dconn, dunique, bad_dtor>>

(* force_close_in_reactor: handle_close if kConnected or kDisconnecting.   *)
force_close_task ==
  /\ TaskStep("force_close")
  /\ IF cst \in {"Connected", "Disconnecting"} THEN HandleClose(Tail(q))
     ELSE /\ q' = Tail(q)
          /\ UNCHANGED <<conn, cst, lpc, uaf>>
  /\ UNCHANGED <<state, conn_on, client_on, chan, timers, delay, upc, done,
                 attempts, fds, bad_start, bad_chan, close_cb, fin,
                 destroyed, dconn, dunique, bad_dtor>>

(* shutdown_in_reactor: shut the write side unless the Channel is writing; *)
(* the client's connection has no output pending, so it never is.          *)
shutdown_task ==
  /\ TaskStep("shutdown")
  /\ q' = Tail(q)
  /\ fin' = TRUE
  /\ UNCHANGED <<state, conn_on, client_on, chan, timers, delay, conn, lpc, upc,
                 done, attempts, fds, bad_start, bad_chan, cst, close_cb,
                 destroyed, dconn, dunique, uaf, bad_dtor>>

(* set_close_callback(detail::remove_conn), queued by ~TcpClient on        *)
(* another thread through run_asap_in_reactor.                             *)
setcb_task ==
  /\ TaskStep("setcb")
  /\ q' = Tail(q)
  /\ close_cb' = "detail"
  /\ UNCHANGED <<state, conn_on, client_on, chan, timers, delay, conn, lpc, upc,
                 done, attempts, fds, bad_start, bad_chan, cst, fin,
                 destroyed, dconn, dunique, uaf, bad_dtor>>

(* ~TcpClient on the loop thread (the user posts the deletion): the whole  *)
(* destructor in one task.  Between tasks no handler of the loop holds the *)
(* connection, so connection_ is its only owner (unique).                  *)
dtor_task ==
  /\ TaskStep("dtor")
  /\ destroyed' = TRUE
  /\ dconn' = (conn # "none")
  /\ dunique' = (conn # "none")
  /\ IF conn # "none" THEN DtorConn("loop", Tail(q), TRUE)
     ELSE DtorNoConn(Tail(q))
  /\ UNCHANGED <<state, client_on, chan, timers, delay, conn, lpc, upc, done,
                 attempts, fds, bad_start, bad_chan, fin, uaf>>

(* restart: kDisconnected, the initial delay, m_is_connected = true, and   *)
(* start_in_reactor at once.                                                *)
restart ==
  /\ lpc = "restart"
  /\ lpc' = "idle"
  /\ conn_on' = TRUE
  /\ StartInReactor("Disconnected", TRUE, timers, InitDelay)
  /\ UNCHANGED <<client_on, q, conn, batch, upc, done, client_vars>>

-----------------------------------------------------------------------------
(* The user thread.  It calls nothing on a destroyed TcpClient.             *)

UserIdle(op) == upc = "idle" /\ op \in UserOps \ done /\ "destroy" \notin done

(* TcpClient::stop: m_is_connected = false ...                              *)
client_stop ==
  /\ UserIdle("stop")
  /\ client_on' = FALSE
  /\ upc' = "stop"
  /\ UNCHANGED <<state, batch, conn_on, chan, q, timers, delay, conn, lpc, done,
                 attempts, fds, bad_start, bad_chan, client_vars>>

(* ... then Connector::stop: m_is_connected = false and queue              *)
(* stop_in_reactor; the retry timer is not removed (FIXME in the code).    *)
connector_stop ==
  /\ upc = "stop"
  /\ conn_on' = FALSE
  /\ q' = Append(q, "stop")
  /\ upc' = "idle"
  /\ done' = done \cup {"stop"}
  /\ UNCHANGED <<state, batch, client_on, chan, timers, delay, conn, lpc,
                 attempts, fds, bad_start, bad_chan, client_vars>>

(* TcpClient::connect after a stop: both flags true and Connector::start,  *)
(* which queues start_in_reactor.                                           *)
client_connect ==
  /\ UserIdle("connect") /\ "stop" \in done
  /\ client_on' = TRUE
  /\ conn_on' = TRUE
  /\ q' = Append(q, "start")
  /\ done' = done \cup {"connect"}
  /\ UNCHANGED <<state, batch, chan, timers, delay, conn, lpc, upc, attempts,
                 fds, bad_start, bad_chan, client_vars>>

(* TcpClient::disconnect: m_is_connected = false, and under the mutex      *)
(* connection_->shutdown(): if kConnected, kDisconnecting and queue        *)
(* shutdown_in_reactor.  The Connector is left running.                    *)
client_disconnect ==
  /\ UserIdle("disconnect")
  /\ client_on' = FALSE
  /\ IF conn # "none" /\ cst = "Connected"
       THEN /\ cst' = "Disconnecting"
            /\ q' = Append(q, "shutdown")
       ELSE UNCHANGED <<cst, q>>
  /\ done' = done \cup {"disconnect"}
  /\ UNCHANGED <<state, batch, conn_on, chan, timers, delay, conn, lpc, upc,
                 attempts, fds, bad_start, bad_chan, close_cb, fin,
                 destroyed, dconn, dunique, uaf, bad_dtor>>

(* The user destroys the TcpClient: on the loop thread by posting the      *)
(* deletion, or itself, where ~TcpClient first reads connection_ and      *)
(* unique() under the mutex.  From another thread unique() is false while *)
(* the loop thread is inside a handler that holds the connection too       *)
(* (Channel::handle_event's tie guard, new_conn_callback's local conn),    *)
(* and the steps here are coarser than that window, so either is read ... *)
client_destroy ==
  /\ UserIdle("destroy")
  /\ \/ /\ "loop" \in DtorThreads
        /\ q' = Append(q, "dtor")
        /\ done' = done \cup {"destroy"}
        /\ UNCHANGED <<upc, dconn, dunique>>
     \/ /\ "user" \in DtorThreads
        /\ upc' = "dtor"
        /\ dconn' = (conn # "none")
        /\ dunique' \in IF conn # "none" THEN BOOLEAN ELSE {FALSE}
        /\ UNCHANGED <<q, done>>
  /\ UNCHANGED <<state, batch, conn_on, client_on, chan, timers, delay, conn,
                 lpc, attempts, fds, bad_start, bad_chan, cst, close_cb,
                 fin, destroyed, uaf, bad_dtor>>

(* ... and then acts on what it read.                                       *)
dtor_act ==
  /\ upc = "dtor"
  /\ upc' = "idle"
  /\ done' = done \cup {"destroy"}
  /\ destroyed' = TRUE
  /\ IF dconn THEN DtorConn("user", q, dunique) ELSE DtorNoConn(q)
  /\ UNCHANGED <<state, batch, client_on, chan, timers, delay, conn, lpc,
                 attempts, fds, bad_start, bad_chan, fin, dconn, dunique, uaf>>

-----------------------------------------------------------------------------
(* TcpClient::connect has been called once by the constructing thread.    *)
(* TcpClient::TcpClient: a fresh Connector, no connection yet, and         *)
(* m_is_connected = true; new_conn_callback becomes the Connector's        *)
(* new-connection callback.                                               *)
ClientInit == client_on = TRUE /\ conn = "none"

Init ==
  /\ state = "Disconnected"
  /\ conn_on = TRUE /\ ClientInit
  /\ chan = "none"
  /\ q = <<"start">>
  /\ timers = 0
  /\ delay = InitDelay
  /\ batch = 0
  /\ lpc = "idle" /\ upc = "idle"
  /\ done = {}
  /\ attempts = 0
  /\ bad_start = FALSE /\ bad_chan = FALSE
  /\ cst = "Disconnected" /\ close_cb = "client" /\ fin = FALSE
  /\ destroyed = FALSE /\ dconn = FALSE /\ dunique = FALSE
  /\ uaf = FALSE /\ bad_dtor = FALSE
  /\ fds = 0

LoopTask ==
  \/ start_task \/ stop_in_reactor \/ reset_channel \/ force_close_task
  \/ shutdown_task \/ setcb_task \/ dtor_task

LoopNext ==
  \/ do_queueing_tasks \/ LoopTask \/ retry_timer \/ handle_write
  \/ handle_error \/ peer_close \/ restart

UserNext ==
  \/ client_stop \/ connector_stop \/ client_connect \/ client_disconnect
  \/ client_destroy \/ dtor_act

Next == LoopNext \/ UserNext

(* The loop thread runs its tasks, timers and events; a socket's connect   *)
(* completes or fails, so a registered writable Channel fires; the user    *)
(* thread finishes TcpClient::stop and ~TcpClient once begun.  The peer    *)
(* need not close the connection, and the user need not call anything.     *)
Fairness ==
  /\ WF_vars(do_queueing_tasks \/ LoopTask \/ retry_timer \/ handle_write
             \/ restart)
  /\ WF_vars(connector_stop \/ dtor_act)

Spec == Init /\ [][Next]_vars /\ Fairness

-----------------------------------------------------------------------------
(* Properties.                                                              *)

TypeOK ==
  /\ state \in States
  /\ conn_on \in BOOLEAN /\ client_on \in BOOLEAN
  /\ chan \in {"none", "write", "removed"}
  /\ q \in Seq({"start", "stop", "reset", "force_close", "shutdown", "setcb",
                 "dtor"})
  /\ timers \in Nat
  /\ delay \in InitDelay..MaxDelay
  /\ conn \in {"none", "new", "up"}
  /\ batch \in 0..Len(q)
  /\ lpc \in {"idle", "restart"} /\ upc \in {"idle", "stop", "dtor"}
  /\ done \subseteq UserOps
  /\ attempts \in 0..MaxAttempts
  /\ bad_start \in BOOLEAN /\ bad_chan \in BOOLEAN
  /\ cst \in {"Connected", "Disconnecting", "Disconnected"}
  /\ close_cb \in {"client", "detail"}
  /\ {fin, destroyed, dconn, dunique, uaf, bad_dtor} \subseteq BOOLEAN
  /\ fds \in Nat

(* Every socket connect() creates is closed or handed over exactly once:  *)
(* retry closes the one it abandons (after a retryable connect errno, an  *)
(* SO_ERROR, a self-connect, handle_error or stop_in_reactor), a fatal     *)
(* errno closes it, and handle_write gives it to new_conn_callback or      *)
(* closes it.  So the Connector holds one open socket exactly while it is  *)
(* kConnecting -- unless an assert already failed: start_in_reactor's     *)
(* (StartPrecondition), where a stale retry timer's connect abandons the  *)
(* socket of the connect in progress, or connecting's assert(!m_channel)  *)
(* (OneChannel), where the replaced Channel's socket is never closed.      *)
SocketOwned ==
  bad_start \/ bad_chan \/ fds = IF state = "Connecting" THEN 1 ELSE 0

(* A connect in progress always ends: the writable Channel made by         *)
(* connecting fires handle_write, or stop_in_reactor abandons it, so the   *)
(* Connector does not stay kConnecting -- unless connecting broke its      *)
(* assert(!m_channel) (OneChannel), after which the old Channel's queued   *)
(* reset_channel destroys the new one.                                      *)
ConnectAttemptEnds ==
  (state = "Connecting") ~> (state # "Connecting" \/ bad_chan)

(* start_in_reactor's assert(m_state == kDisconnected): every timer and    *)
(* task that runs it finds the Connector disconnected, even when the user  *)
(* stops and connects again while a retry timer is pending (Connector::   *)
(* stop does not remove the timer).                                         *)
StartPrecondition == ~bad_start

(* connecting's assert(!m_channel): a new Channel is made only after the  *)
(* last one was destroyed by its queued reset_channel, so reset_channel    *)
(* never destroys the Channel of a later connect.                          *)
OneChannel == ~bad_chan

(* TcpClient::stop stops the client: once it has returned, and until the  *)
(* user connects again, no new connection is made, even if the current    *)
(* one closes while stop runs (remove_conn reads m_is_connected, then      *)
(* restart sets the Connector's flag back to true).                        *)
NoConnectAfterStop ==
  [][("stop" \in done /\ "connect" \notin done)
        => ~(conn = "none" /\ conn' = "new")]_vars


(* ~TcpClient closes the connection it holds alone: once it has run having *)
(* read connection_ as set and unique (always so on the loop thread), the  *)
(* connection is eventually closed (its force_close_in_reactor runs        *)
(* handle_close, whose callback is by then detail::remove_conn, racing     *)
(* the queued set_close_callback and a peer close), even though the peer  *)
(* need not close, unless a member of the freed TcpClient or Connector    *)
(* was reached first.                                                      *)
DestroyClosesConnection ==
  (destroyed /\ dconn /\ dunique) ~> (conn = "none" \/ uaf \/ bad_dtor)

(* Nothing calls into a destroyed TcpClient: neither the connection's     *)
(* close callback (TcpClient::remove_conn, replaced by ~TcpClient through *)
(* run_asap_in_reactor, "not 100% safe" from another thread) nor the      *)
(* Connector's new_conn_callback.                                          *)
NoCallIntoDeadClient == ~uaf

(* ~Connector's assert(!m_channel), and no task bound to its raw `this`    *)
(* outlives it: when ~TcpClient drops the Connector while a connection is *)
(* open, its reset_channel has run and no start or stop is queued.        *)
ConnectorDestroyedClean == ~bad_dtor

=========================================================================

---------------------------- MODULE TcpConnection ----------------------------
(***************************************************************************)
(* One server-side TcpConnection (src/flute/net/TcpConnection.cc) as       *)
(* driven by TcpServer (src/flute/net/TcpServer.cc) and HttpServer         *)
(* (src/flute/net/http/HttpServer.cc).                                     *)
(*                                                                         *)
(* Actors:                                                                 *)
(*   - the worker loop thread owning the connection: it runs the tasks of  *)
(*     its reactor queue `wq` in order and dispatches the channel's        *)
(*     readable/writable events;                                           *)
(*   - the acceptor loop thread holding TcpServer::m_conn_map: it runs     *)
(*     its queue `aq` (remove_connection_in_reactor);                      *)
(*   - a user thread other than the loop thread holding a                  *)
(*     TcpConnectionPtr and calling send/shutdown/force_close, whose       *)
(*     state check and state write are separate steps;                     *)
(*   - the peer: it sends HTTP requests and may close its side.            *)
(* The message callback is HttpServer's: each request is answered by a     *)
(* header (and body) appended with send_buffer, optionally followed by a   *)
(* file through the zero copier and by shutdown() when the response asks  *)
(* to close.  Bytes are abstracted to units <<kind, request, index>>; a   *)
(* file unit is one byte of the file, sent by ZeroCopier's send_one_chunk. *)
(***************************************************************************)
EXTENDS Naturals, Sequences, SequencesExt, FiniteSets, ZeroCopier

CONSTANTS
  MaxRequests,   \* requests the peer sends
  FileUnits,     \* size of a file response, in bytes
  UserOps,       \* operations the user thread calls: subset of AllUserOps
  Pipelining     \* may the peer send a request before the previous
                 \* response has fully arrived?

AllUserOps == {"send", "shutdown", "force_close", "shutdown_close",
               "force_close_delay", "start_read", "stop_read"}

ASSUME /\ MaxRequests \in Nat \ {0}
       /\ FileUnits \in Nat \ {0}
       /\ UserOps \subseteq AllUserOps
       /\ Pipelining \in BOOLEAN

VARIABLES
  conn_state,     \* m_conn_state
  sending_state,  \* m_sending_state
  is_reading,     \* read interest of m_channel
  is_writing,     \* write interest of m_channel
  in_poller,      \* m_channel is registered with the worker's poller
  out_buf,        \* m_output_buffer, as a sequence of units
  zc,             \* m_zero_copier_ptr: req = 0 for nullptr
  shut_wr,        \* the socket's write side has been shut down
  wq,             \* pending task queue of the worker reactor
  aq,             \* pending task queue of the acceptor reactor
  in_map,         \* the connection is in TcpServer::m_conn_map
  peer_data,      \* requests in the socket not yet read
  peer_fin,       \* the peer has closed its side (read returns 0)
  requests,       \* requests the peer has sent
  upc,            \* user thread: "idle" or the operation between check and act
  uops_done,      \* user operations already called
  wire,           \* history: units written to the socket, in order
  sent,           \* history: units accepted for sending, in order
  close_cbs,      \* history: times m_close_callback ran
  destroyed,      \* history: times connect_destroyed ran
  reading_flag,   \* m_is_reading
  timers          \* pending timers of the worker reactor: the weak
                  \* callbacks "force_close" and "force_close_in_reactor"

vars == <<conn_state, sending_state, is_reading, is_writing, in_poller, out_buf,
          zc, shut_wr, wq, aq, in_map, peer_data, peer_fin, requests, upc,
          uops_done, wire, sent, close_cbs, destroyed, reading_flag, timers>>

ConnStates == {"Connecting", "Connected", "Disconnecting", "Disconnected"}
SendingStates == {"NotSending", "SendingBuffer", "SendingFile"}
Units == ({"h"} \X (1..MaxRequests) \X {1, 2})
         \cup ({"b"} \X (1..MaxRequests) \X {0})
         \cup ({"f"} \X (1..MaxRequests) \X (1..FileUnits))
         \cup {<<"u", 0, 0>>}
Tasks == {"established", "send", "shutdown", "force_close", "destroyed",
          "shutdown_close", "start_read", "stop_read"}
TimerCbs == {"force_close", "force_close_in_reactor"}

\* A unit appended by the user thread's send().
UserUnit == <<"u", 0, 0>>
\* The header of the response to request r: status line, then fields, so
\* that a write may stop inside it.
HeaderOf(r) == <<<<"h", r, 1>>, <<"h", r, 2>>>>
\* The file units of the response to request r.
FileOf(r) == [k \in 1..FileUnits |-> <<"f", r, k>>]

-----------------------------------------------------------------------------
\* Mutant: has_finished one chunk early.
HasFinishedOneEarly(z) == z.off + 1 >= z.total

(* ZeroCopier::has_finished: offset reached the size (0 after mark_abort). *)
HasFinished(z) == z.off = z.total

\* Mutant: m_zero_copier_ptr is never reset.
ReleaseCopierNever(z) == z

(* handle_socket_writable drops a finished copier (m_zero_copier_ptr.reset). *)
ReleaseCopier(z) == IF HasFinished(z) THEN NoCopier ELSE z

\* Mutant: kSendingBuffer ends whether or not the buffer is empty.
TransferSendingStateEagerBuffer(ss, out, z) ==
  CASE ss = "NotSending" /\ out # <<>> -> "SendingBuffer"
    [] ss = "NotSending" /\ out = <<>> /\ z.req # 0 /\ ~HasFinished(z)
                                       -> "SendingFile"
    [] ss = "SendingBuffer" -> "NotSending"
    [] ss = "SendingFile" /\ HasFinished(z) -> "NotSending"
    [] OTHER -> ss

(* handle_socket_writable sends a file chunk only with the buffer empty. *)
CanSendChunk(out, z, ss) ==
  out = <<>> /\ z.req # 0 /\ ss \in {"NotSending", "SendingFile"}

(* transfer_sending_state, as a function of the state it reads.           *)
TransferSendingState(ss, out, z) ==
  CASE ss = "NotSending" /\ out # <<>> -> "SendingBuffer"
    [] ss = "NotSending" /\ out = <<>> /\ z.req # 0 /\ ~HasFinished(z)
                                       -> "SendingFile"
    [] ss = "SendingBuffer" /\ out = <<>> -> "NotSending"
    [] ss = "SendingFile" /\ HasFinished(z) -> "NotSending"
    [] OTHER -> ss

(* send_bytes_in_reactor: give up when Disconnected, else append the bytes *)
(* and enable write interest.  The direct write at entry is commented out  *)
(* in the source, so every byte goes through m_output_buffer.              *)
send_bytes_in_reactor(units) ==
  IF conn_state = "Disconnected"
    THEN UNCHANGED <<out_buf, is_writing, sent>>
    ELSE /\ out_buf' = out_buf \o units
         /\ sent' = sent \o units
         /\ is_writing' = TRUE

\* Mutant: shut the write side even while writing.
ShutdownInReactorAlways(writing) == shut_wr' = TRUE

(* shutdown_in_reactor: shut the write side unless still writing.         *)
ShutdownInReactor(writing) == shut_wr' = (shut_wr \/ ~writing)

\* Mutant: handle_close keeps the channel's interest (no end_all).
HandleCloseNoEndAll ==
  /\ conn_state' = "Disconnected"
  /\ UNCHANGED <<is_reading, is_writing>>
  /\ close_cbs' = close_cbs + 1
  /\ aq' = Append(aq, "remove")

\* Mutant: the close callback queues connect_destroyed on the acceptor.
HandleCloseQueuesDestroy ==
  /\ conn_state' = "Disconnected"
  /\ is_reading' = FALSE
  /\ is_writing' = FALSE
  /\ close_cbs' = close_cbs + 1
  /\ aq' = Append(aq, "destroyed")

(* handle_close: Disconnected, no interest, connection callback, then the *)
(* close callback TcpServer::remove_conn, which run_asap's                 *)
(* remove_connection_in_reactor onto the acceptor reactor.                 *)
handle_close ==
  /\ conn_state' = "Disconnected"
  /\ is_reading' = FALSE
  /\ is_writing' = FALSE
  /\ close_cbs' = close_cbs + 1
  /\ aq' = Append(aq, "remove")

-----------------------------------------------------------------------------
(* The worker loop thread: tasks of its queue.                             *)

(* connect_established: Connected, tie, want to read, connection callback *)
(* (HttpServer::on_connection allocates the HttpContext).                  *)
connect_established ==
  /\ wq # <<>> /\ Head(wq) = "established"
  /\ wq' = Tail(wq)
  /\ conn_state = "Connecting"
  /\ conn_state' = "Connected"
  /\ is_reading' = TRUE
  /\ in_poller' = TRUE
  /\ UNCHANGED <<sending_state, is_writing, out_buf, zc, shut_wr, aq, in_map,
                 peer_data, peer_fin, requests, upc, uops_done, wire, sent,
                 close_cbs, destroyed,
                 reading_flag, timers>>

(* send_in_reactor queued by a send() from the user thread.                *)
send_in_reactor ==
  /\ wq # <<>> /\ Head(wq) = "send"
  /\ wq' = Tail(wq)
  /\ send_bytes_in_reactor(<<UserUnit>>)
  /\ UNCHANGED <<conn_state, sending_state, is_reading, in_poller, zc, shut_wr,
                 aq, in_map, peer_data, peer_fin, requests, upc, uops_done,
                 wire, close_cbs, destroyed,
                 reading_flag, timers>>

(* shutdown_in_reactor queued by a shutdown() from the user thread.        *)
shutdown_task ==
  /\ wq # <<>> /\ Head(wq) = "shutdown"
  /\ wq' = Tail(wq)
  /\ ShutdownInReactor(is_writing)
  /\ UNCHANGED <<conn_state, sending_state, is_reading, is_writing, in_poller,
                 out_buf, zc, aq, in_map, peer_data, peer_fin, requests, upc,
                 uops_done, wire, sent, close_cbs, destroyed,
                 reading_flag, timers>>

(* force_close_in_reactor: as if 0 bytes were read, when Connected or     *)
(* Disconnecting.                                                          *)
force_close_in_reactor ==
  /\ wq # <<>> /\ Head(wq) = "force_close"
  /\ wq' = Tail(wq)
  /\ IF conn_state \in {"Connected", "Disconnecting"}
       THEN handle_close
       ELSE UNCHANGED <<conn_state, is_reading, is_writing, close_cbs, aq>>
  /\ UNCHANGED <<sending_state, in_poller, out_buf, zc, shut_wr, in_map,
                 peer_data, peer_fin, requests, upc, uops_done, wire, sent,
                 destroyed,
                 reading_flag, timers>>

(* shutdown_and_force_close_in_reactor_after: shut the write side unless   *)
(* writing, then run_after a weak callback to force_close_in_reactor.      *)
shutdown_close_task ==
  /\ wq # <<>> /\ Head(wq) = "shutdown_close"
  /\ wq' = Tail(wq)
  /\ ShutdownInReactor(is_writing)
  /\ timers' = timers \cup {"force_close_in_reactor"}
  /\ UNCHANGED <<conn_state, sending_state, is_reading, is_writing, in_poller,
                 out_buf, zc, aq, in_map, peer_data, peer_fin, requests, upc,
                 uops_done, wire, sent, close_cbs, destroyed, reading_flag>>

(* Channel::wang_to_read and end_reading change the interest and call      *)
(* update_self_in_reactor, which (re-)registers the channel.               *)
start_read_task ==
  /\ wq # <<>> /\ Head(wq) = "start_read"
  /\ wq' = Tail(wq)
  /\ IF ~reading_flag \/ ~is_reading
       THEN /\ is_reading' = TRUE /\ in_poller' = TRUE /\ reading_flag' = TRUE
       ELSE UNCHANGED <<is_reading, in_poller, reading_flag>>
  /\ UNCHANGED <<conn_state, sending_state, is_writing, out_buf, zc, shut_wr,
                 aq, in_map, peer_data, peer_fin, requests, upc, uops_done,
                 wire, sent, close_cbs, destroyed, timers>>

(* stop_read_in_reactor: end_reading when m_is_reading or the channel     *)
(* reads.                                                                  *)
stop_read_task ==
  /\ wq # <<>> /\ Head(wq) = "stop_read"
  /\ wq' = Tail(wq)
  /\ IF reading_flag \/ is_reading
       THEN /\ is_reading' = FALSE /\ in_poller' = TRUE /\ reading_flag' = FALSE
       ELSE UNCHANGED <<is_reading, in_poller, reading_flag>>
  /\ UNCHANGED <<conn_state, sending_state, is_writing, out_buf, zc, shut_wr,
                 aq, in_map, peer_data, peer_fin, requests, upc, uops_done,
                 wire, sent, close_cbs, destroyed, timers>>

(* A timer of the worker reactor fires.  The user thread holds a          *)
(* TcpConnectionPtr, so the weak callback finds the connection alive and   *)
(* calls force_close (from the loop thread: store kDisconnecting and queue *)
(* force_close_in_reactor) or force_close_in_reactor.                      *)
timer_fire ==
  /\ \E cb \in timers :
       /\ timers' = timers \ {cb}
       /\ IF conn_state \notin {"Connected", "Disconnecting"}
            THEN UNCHANGED <<conn_state, is_reading, is_writing, close_cbs, aq, wq>>
          ELSE IF cb = "force_close"
            THEN /\ conn_state' = "Disconnecting"
                 /\ wq' = Append(wq, "force_close")
                 /\ UNCHANGED <<is_reading, is_writing, close_cbs, aq>>
            ELSE handle_close /\ UNCHANGED wq
  /\ UNCHANGED <<sending_state, in_poller, out_buf, zc, shut_wr, in_map,
                 peer_data, peer_fin, requests, upc, uops_done, wire, sent,
                 destroyed, reading_flag>>

\* Mutant: connect_destroyed without remove_self_from_reactor.
ConnectDestroyedKeepsChannel ==
  /\ wq # <<>> /\ Head(wq) = "destroyed"
  /\ wq' = Tail(wq)
  /\ IF conn_state = "Connected"
       THEN /\ conn_state' = "Disconnected"
            /\ is_reading' = FALSE
            /\ is_writing' = FALSE
       ELSE UNCHANGED <<conn_state, is_reading, is_writing>>
  /\ destroyed' = destroyed + 1
  /\ UNCHANGED <<sending_state, in_poller, out_buf, zc, shut_wr, aq, in_map,
                 peer_data, peer_fin, requests, upc, uops_done, wire, sent,
                 close_cbs,
                 reading_flag, timers>>

(* connect_destroyed: when still Connected, Disconnected + end_all +      *)
(* connection callback; then remove_self_from_reactor.                     *)
connect_destroyed ==
  /\ wq # <<>> /\ Head(wq) = "destroyed"
  /\ wq' = Tail(wq)
  /\ IF conn_state = "Connected"
       THEN /\ conn_state' = "Disconnected"
            /\ is_reading' = FALSE
            /\ is_writing' = FALSE
       ELSE UNCHANGED <<conn_state, is_reading, is_writing>>
  /\ in_poller' = FALSE
  /\ destroyed' = destroyed + 1
  /\ UNCHANGED <<sending_state, out_buf, zc, shut_wr, aq, in_map, peer_data,
                 peer_fin, requests, upc, uops_done, wire, sent, close_cbs,
                 reading_flag, timers>>

-----------------------------------------------------------------------------
(* The worker loop thread: channel events.                                 *)

(* enable_zero_copy: m_zero_copier_ptr becomes the response's copier,    *)
(* aimed at this socket's fd and started, and write interest is enabled.  *)
EnableZeroCopy(r) ==
  /\ zc' = NewCopier(r, FileUnits)
  /\ is_writing' = TRUE

(* HttpServer::on_good_request for request r on the loop thread:          *)
(* send_buffer(header and, for an html page, body: HttpResponse puts both *)
(* in the buffer; dropped unless Connected), enable_zero_copy for a       *)
(* file response (no state check: the copier is replaced and write        *)
(* interest enabled), shutdown() when the response closes (Connected ->  *)
(* Disconnecting, shutdown_in_reactor inline).                            *)
on_good_request(r, file, close) ==
  LET header == IF file THEN HeaderOf(r) ELSE HeaderOf(r) \o <<<<"b", r, 0>>>>
      body   == IF file THEN FileOf(r) ELSE <<>>
      hdr_ok == conn_state = "Connected"
  IN
  /\ out_buf' = IF hdr_ok THEN out_buf \o header ELSE out_buf
  /\ sent' = (IF hdr_ok THEN sent \o header ELSE sent) \o body
  /\ IF file THEN EnableZeroCopy(r)
             ELSE /\ is_writing' = (is_writing \/ hdr_ok)
                  /\ UNCHANGED zc
  /\ IF close /\ conn_state = "Connected"
       THEN /\ conn_state' = "Disconnecting"
            /\ ShutdownInReactor(is_writing')
       ELSE UNCHANGED <<conn_state, shut_wr>>

(* handle_socket_readable with data: one request is read into the input   *)
(* buffer and the message callback answers it.                            *)
handle_read ==
  /\ in_poller /\ is_reading
  /\ peer_data > 0
  /\ peer_data' = peer_data - 1
  /\ \E file, close \in BOOLEAN : on_good_request(requests - peer_data + 1,
                                                 file, close)
  /\ UNCHANGED <<sending_state, is_reading, in_poller, wq, aq, in_map,
                 peer_fin, requests, upc, uops_done, wire, close_cbs,
                 destroyed,
                 reading_flag, timers>>

(* handle_socket_readable reading 0 bytes: FIN received, handle_close.     *)
handle_read_eof ==
  /\ in_poller /\ is_reading
  /\ peer_data = 0 /\ peer_fin
  /\ handle_close
  /\ UNCHANGED <<sending_state, in_poller, out_buf, zc, shut_wr, wq, in_map,
                 peer_data, peer_fin, requests, upc, uops_done, wire, sent,
                 destroyed,
                 reading_flag, timers>>

(* handle_socket_writable.  write_socket_from_buffer writes a prefix of    *)
(* the buffer (nothing, with an error logged, once the write side is      *)
(* shut); then, with the buffer empty, send_one_chunk sends a chunk of    *)
(* the file, of which the socket takes `room` bytes (failing on a shut    *)
(* socket: kMaxTrial failures abort the copier); then,                    *)
(* when NotSending, write interest is dropped and a pending shutdown done.*)

(* write_socket_from_buffer: nothing to do on an empty buffer; otherwise  *)
(* write() takes the first n bytes, which are retrieved; a failed write    *)
(* (n < 0) is logged and retrieves nothing, as n = 0 does.                *)
WriteSocketFromBuffer(n) ==
  [out  |-> SubSeq(out_buf, n + 1, Len(out_buf)),
   wire |-> wire \o SubSeq(out_buf, 1, n)]

handle_write ==
  /\ in_poller /\ is_writing
  /\ \E n \in 0..Len(out_buf), room \in 1..ChunkSize :
     /\ shut_wr => n = 0
     /\ ~shut_wr /\ out_buf # <<>> => n > 0
     /\ LET writeBuf == sending_state \in {"NotSending", "SendingBuffer"}
            out1 == IF writeBuf THEN WriteSocketFromBuffer(n).out ELSE out_buf
            wire1 == IF writeBuf THEN WriteSocketFromBuffer(n).wire ELSE wire
            ss1 == IF writeBuf
                     THEN TransferSendingState("SendingBuffer", out1, zc)
                     ELSE sending_state
            sendFile == CanSendChunk(out1, zc, ss1)
            chunk == SendOneChunk(zc, ~shut_wr, room)
            zc1 == IF sendFile THEN chunk.z ELSE zc
            wire2 == IF sendFile
                       THEN wire1 \o [i \in DOMAIN chunk.bytes |->
                                         <<"f", zc.req, chunk.bytes[i]>>]
                       ELSE wire1
            ss2 == IF sendFile
                     THEN TransferSendingState("SendingFile", out1, zc1)
                     ELSE ss1
            zc2 == IF sendFile THEN ReleaseCopier(zc1) ELSE zc1
            done == ss2 = "NotSending"
        IN /\ out_buf' = out1
           /\ wire' = wire2
           /\ sending_state' = ss2
           /\ zc' = zc2
           /\ is_writing' = ~done
           /\ shut_wr' = (shut_wr \/ (done /\ conn_state = "Disconnecting"))
  /\ UNCHANGED <<conn_state, is_reading, in_poller, wq, aq, in_map, peer_data,
                 peer_fin, requests, upc, uops_done, sent, close_cbs,
                 destroyed,
                 reading_flag, timers>>

-----------------------------------------------------------------------------
(* The acceptor loop thread.                                               *)

\* Mutant: the connection is erased but connect_destroyed never queued.
RemoveConnectionNoDestroy ==
  /\ aq # <<>>
  /\ aq' = Tail(aq)
  /\ in_map' = FALSE
  /\ UNCHANGED <<conn_state, sending_state, is_reading, is_writing, in_poller,
                 out_buf, zc, shut_wr, wq, peer_data, peer_fin, requests, upc,
                 uops_done, wire, sent, close_cbs, destroyed,
                 reading_flag, timers>>

(* remove_connection_in_reactor: erase from m_conn_map, then queue        *)
(* connect_destroyed onto the worker reactor.                             *)
remove_connection_in_reactor ==
  /\ aq # <<>>
  /\ aq' = Tail(aq)
  /\ in_map' = FALSE
  /\ wq' = Append(wq, "destroyed")
  /\ UNCHANGED <<conn_state, sending_state, is_reading, is_writing, in_poller,
                 out_buf, zc, shut_wr, peer_data, peer_fin, requests, upc,
                 uops_done, wire, sent, close_cbs, destroyed,
                 reading_flag, timers>>

-----------------------------------------------------------------------------
(* The user thread: each call reads m_conn_state, then acts.              *)

(* The check of m_conn_state each call makes: kConnected for             *)
(* send_string_piece, shutdown and shutdown_and_force_close_after,         *)
(* kConnected or kDisconnecting for force_close and force_close_with_delay;*)
(* start_read and stop_read check nothing.                                 *)
UserGuard(op) ==
  CASE op \in {"force_close", "force_close_delay"}
         -> conn_state \in {"Connected", "Disconnecting"}
    [] op \in {"start_read", "stop_read"} -> TRUE
    [] OTHER -> conn_state = "Connected"

user_check(op) ==
  /\ upc = "idle"
  /\ op \in UserOps \ uops_done
  /\ uops_done' = uops_done \cup {op}
  /\ upc' = IF UserGuard(op) THEN op ELSE "idle"
  /\ UNCHANGED <<conn_state, sending_state, is_reading, is_writing, in_poller,
                 out_buf, zc, shut_wr, wq, aq, in_map, peer_data, peer_fin,
                 requests, wire, sent, close_cbs, destroyed,
                 reading_flag, timers>>

(* The act: send, start_read and stop_read queue their _in_reactor task;  *)
(* the others store kDisconnecting, then shutdown, force_close and        *)
(* shutdown_and_force_close_after queue theirs, and force_close_with_delay *)
(* arms a timer for a weak callback to force_close.                       *)
user_act ==
  /\ upc # "idle"
  /\ upc' = "idle"
  /\ wq' = IF upc = "force_close_delay" THEN wq ELSE Append(wq, upc)
  /\ timers' = IF upc = "force_close_delay" THEN timers \cup {"force_close"}
                                             ELSE timers
  /\ conn_state' = IF upc \in {"send", "start_read", "stop_read"}
                     THEN conn_state ELSE "Disconnecting"
  /\ UNCHANGED <<sending_state, is_reading, is_writing, in_poller, out_buf, zc,
                 shut_wr, aq, in_map, peer_data, peer_fin, requests, uops_done,
                 wire, sent, close_cbs, destroyed, reading_flag>>

-----------------------------------------------------------------------------
(* The peer.                                                               *)

(* The whole of every earlier response has arrived.                       *)
ResponsesComplete == wire = sent /\ out_buf = <<>> /\ zc.req = 0

peer_request ==
  /\ requests < MaxRequests
  /\ ~peer_fin
  /\ Pipelining \/ (peer_data = 0 /\ ResponsesComplete /\ ~shut_wr)
  /\ requests' = requests + 1
  /\ peer_data' = peer_data + 1
  /\ UNCHANGED <<conn_state, sending_state, is_reading, is_writing, in_poller,
                 out_buf, zc, shut_wr, wq, aq, in_map, peer_fin, upc,
                 uops_done, wire, sent, close_cbs, destroyed,
                 reading_flag, timers>>

peer_close ==
  /\ ~peer_fin
  /\ peer_fin' = TRUE
  /\ UNCHANGED <<conn_state, sending_state, is_reading, is_writing, in_poller,
                 out_buf, zc, shut_wr, wq, aq, in_map, peer_data, requests,
                 upc, uops_done, wire, sent, close_cbs, destroyed,
                 reading_flag, timers>>

-----------------------------------------------------------------------------
(* TcpServer::new_conn_callback has created the connection (Connecting),  *)
(* put it in m_conn_map and queued connect_established on the worker.     *)
Init ==
  /\ conn_state = "Connecting"
  /\ sending_state = "NotSending"
  /\ is_reading = FALSE /\ is_writing = FALSE /\ in_poller = FALSE
  /\ out_buf = <<>>
  /\ zc = NoCopier
  /\ shut_wr = FALSE
  /\ wq = <<"established">>
  /\ aq = <<>>
  /\ in_map = TRUE
  /\ peer_data = 0 /\ peer_fin = FALSE /\ requests = 0
  /\ upc = "idle" /\ uops_done = {}
  /\ wire = <<>> /\ sent = <<>>
  /\ close_cbs = 0 /\ destroyed = 0
  /\ reading_flag = TRUE
  /\ timers = {}

WorkerTask ==
  \/ connect_established \/ send_in_reactor \/ shutdown_task
  \/ force_close_in_reactor \/ connect_destroyed
  \/ shutdown_close_task \/ start_read_task \/ stop_read_task

Next ==
  \/ WorkerTask
  \/ handle_read \/ handle_read_eof \/ handle_write \/ timer_fire
  \/ remove_connection_in_reactor
  \/ \E op \in UserOps : user_check(op)
  \/ user_act
  \/ peer_request \/ peer_close

(* The loop threads are never descheduled forever and a socket with write *)
(* interest becomes writable again (the peer keeps reading).  The peer    *)
(* and the user thread are not obliged to act.                            *)
Fairness ==
  /\ WF_vars(WorkerTask)
  /\ WF_vars(handle_read) /\ WF_vars(handle_read_eof) /\ WF_vars(handle_write)
  /\ WF_vars(timer_fire)
  /\ WF_vars(remove_connection_in_reactor)
  /\ WF_vars(user_act)

Spec == Init /\ [][Next]_vars /\ Fairness

-----------------------------------------------------------------------------
(* Properties.                                                             *)

TypeOK ==
  /\ conn_state \in ConnStates
  /\ sending_state \in SendingStates
  /\ {is_reading, is_writing, in_poller, shut_wr, in_map, peer_fin} \subseteq BOOLEAN
  /\ out_buf \in Seq(Units) /\ wire \in Seq(Units) /\ sent \in Seq(Units)
  /\ zc \in [req : 0..MaxRequests, off : 0..FileUnits, pos : 0..FileUnits,
             total : 0..FileUnits, fails : 0..MaxTrial]
  /\ wq \in Seq(Tasks) /\ aq \in Seq({"remove"})
  /\ peer_data \in 0..MaxRequests /\ requests \in 0..MaxRequests
  /\ upc \in {"idle"} \cup UserOps /\ uops_done \subseteq UserOps
  /\ close_cbs \in Nat /\ destroyed \in Nat
  /\ reading_flag \in BOOLEAN /\ timers \subseteq TimerCbs

(* handle_close runs m_close_callback (TcpServer::remove_conn) at most     *)
(* once: a second run reaches remove_connection_in_reactor with the name  *)
(* already erased (assert(n == 1)) and queues connect_destroyed twice.    *)
CloseOnce == close_cbs <= 1

(* The assertion of ~TcpConnection.                                        *)
DtorAssertion == conn_state = "Disconnected"

(* Once connect_destroyed has run, the connection is kDisconnected (the   *)
(* assertion of ~TcpConnection, which may run as soon as the last task    *)
(* holding the connection is done) and its channel is out of the poller. *)
DestroyedDisconnected ==
  destroyed > 0 => DtorAssertion /\ ~in_poller

(* The socket carries the bytes in the order send_buffer, send and        *)
(* enable_zero_copy accepted them: header, then file, then the next       *)
(* response; what is written is always a prefix of what was accepted.     *)
ByteStreamOrder == IsPrefix(wire, sent)

(* The write side is shut (shutdown_in_reactor, or handle_socket_writable *)
(* on kDisconnecting) only when nothing is left to send: no byte stays in *)
(* m_output_buffer and no file in m_zero_copier_ptr behind the FIN.       *)
ShutdownAfterDrain == shut_wr => out_buf = <<>> /\ zc.req = 0

(* Every accepted byte is eventually written to the socket, unless the   *)
(* connection closes first: handle_socket_writable makes progress.        *)
OutputDrains == (wire # sent) ~> (wire = sent \/ conn_state = "Disconnected")

(* A file handed to enable_zero_copy is eventually released: the copier *)
(* finishes or aborts and handle_socket_writable resets                   *)
(* m_zero_copier_ptr, unless the connection closes first.                 *)
FileTransferEnds ==
  \A r \in 1..MaxRequests :
    (zc.req = r) ~> (zc.req # r \/ conn_state = "Disconnected")

(* A closed connection is eventually erased from m_conn_map, destroyed by *)
(* connect_destroyed and removed from the poller.                         *)
CloseLeadsToDestroy ==
  (conn_state = "Disconnected") ~> (~in_map /\ destroyed > 0 /\ ~in_poller)

=============================================================================

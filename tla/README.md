# TLA+ models of flute

flute (`src/flute`) is a multi-reactor ("one loop per thread") network
library with a small HTTP server on top of it. This directory holds TLA+
models of its concurrent parts, the TLC configurations that check them, and
`PROJECT.json`. That file lists the components, the runs, the mutants, the map
from every modelled definition to its source lines, the findings, and the
hazards.

## The system

| Part | Source | State | Operations |
|---|---|---|---|
| Reactor | `net/Reactor.cc` | `m_going_to_quit`, `m_is_looping`, `m_is_calling_pending_tasks`, `m_pending_tasks` (mutex), the wakeup eventfd, `m_active_channels` | `loop()` (poll → dispatch → `do_queueing_tasks`), `mark_quit`, `run_asap_in_reactor`, `queue_in_reactor`, `handle_wakeup`, `update/remove_channel`, timer entry points |
| ReactorThread | `net/ReactorThread.cc` | `m_reactor` (mutex + condition), the thread | `start_reactor` (waits for the Reactor to be published), `reactor_thread_loop_func`, destructor (`mark_quit` + `join`) |
| ReactorThreadPool | `net/ReactorThreadPool.cc` | worker threads, round-robin index | `start`, `get_next_reactor` |
| Channel | `net/Channel.h/.cc` | `m_concerned_events`, `m_idx`, `m_is_in_reactor`, received events, tie to owner | the interest calls (`wang_to_read` … `end_all`) through `update_self_in_reactor`, `remove_self_from_reactor`, `handle_event` (close → error → read → write) |
| Pollers | `net/poller/*.cc`, `net/Poller.cc` | fd → Channel map; PollPoller: `pollfds_` with ignored entries at -fd-1; EPollPoller: kNew/kAdded/kDeleted and the kernel epoll set | `poll` with `register_active_channels`, `update_channel`, `remove_channel` (swap-remove in PollPoller), `has_channel` |
| TimerQueue | `net/TimerQueue.cc` | timers by expiry, active timers, canceling set, timerfd | `add_timer`, `cancel`, `handle_timerfd_read`, `reset` |
| Buffer | `net/Buffer.h/.cc` | `m_buffer`, `m_read_idx`, `m_write_idx` | the append, retrieve, unwrite and prepend families, `shrink`, `read_all_from` (with extrabuf), over `ensure_writable_len`/`make_space`; `find_CRLF`, `find_EOL` |
| Acceptor, TcpServer | `net/Acceptor.cc`, `net/TcpServer.cc` | `m_is_listening`, the reserved fd; `m_conn_map` and `g_conn_counter` on the acceptor loop | `listen`, `handle_conn_arrival` (`Socket::accept`, and the reserved fd on EMFILE), `start`, `new_conn_callback`, `remove_conn` → `remove_connection_in_reactor` → `connect_destroyed` on the worker, the destructor |
| TcpConnection | `net/TcpConnection.cc` | `m_conn_state` (Connecting/Connected/Disconnecting/Disconnected), `m_sending_state` (NotSending/SendingBuffer/SendingFile), output buffer, `m_zero_copier_ptr` | `connect_established`, `send*`, `enable_zero_copy`, `shutdown*`, `force_close*`, `start_read`/`stop_read`, socket readable/writable handlers, `handle_close`, `connect_destroyed` |
| ZeroCopier | `common/ZeroCopier.cc` | `m_offset`, the source fd's file position, `m_total_bytes`, `m_failure_counter` | the constructor, `send_one_chunk` in the three copy modes (sendfile, mmap, read/write), `has_finished`, `mark_abort` |
| HttpServer, HttpContext | `net/http/HttpServer.cc`, `net/http/HttpContext.cc` | per-connection HttpContext: `m_state`, `m_request` | `on_connection`, `default_on_request`, `on_good_request`; `parse_request`, `process_request_line`, `reset` |
| Connector, TcpClient | `net/Connector.cc`, `net/TcpClient.cc` | `m_state`, `m_connect`, `m_channel`, `m_retry_delay_ms`; TcpClient's `m_is_connected`, `m_retry` | `start`/`start_in_reactor`, `connect` (in progress, retry, fatal), `handle_write`, `handle_error`, `retry`, `stop`/`stop_in_reactor`, `restart`; `TcpClient::connect`, `stop`, `disconnect`, `~TcpClient`, `new_conn_callback`, `remove_conn` |
| TaskDeque, deques | `common/TaskDeque.cc`, `common/*BlockingDeque.h` | bounded queue, running flag | `push_task`, `take_one`, `stop` |
| AsyncLogging | `common/AsyncLogging.h/.cc`, `common/FixedBuffer.h` | `m_cur_buffer_ptr`, `m_reserved_buffer_ptr`, `m_used_buffers` (mutex), `m_is_running`, the backend's two spare buffers and `buffers_to_write` | `append`, `backend_thread_func`, `start` (latch wait), `stop` (also from the destructor) |

How they interact:
- Each Reactor belongs to one thread. Every other thread talks to it only by
  `queue_in_reactor`: a push onto `m_pending_tasks` under a mutex, followed by
  a write to the eventfd that interrupts `poll`.
- TcpServer accepts on the acceptor loop and hands each connection to a
  worker loop with `run_asap_in_reactor(connect_established)`.
- When the worker closes a connection, it goes back to the acceptor
  (`remove_conn`) and then to the worker again (`connect_destroyed`).
- HttpServer's message callback runs on the worker loop. It parses the
  input buffer with the connection's HttpContext once the buffer ends with
  an empty line. It answers with `send_buffer`, then `enable_zero_copy` for
  a file, then `shutdown` for a closing response or a 400.

The hard behaviours are:
- cross-thread calls whose check and act are separate steps (`shutdown`,
  `force_close`, `send`);
- the wakeup protocol between submitters and a loop blocked in `poll`;
- quit and join racing the start of the loop;
- the two state machines of TcpConnection, driven by level-triggered
  writability;
- the hand-offs of a closing connection across two loops.

## Modules

### `Reactor.tla`: Reactor and ReactorThread

Actors:
- the loop thread (`lpc`);
- the owner of the ReactorThread (`opc`);
- two submitter threads (`spc`), each splitting `queue_in_reactor` into its
  push and its eventfd write;
- a peer making an I/O channel readable.

The new thread first runs `Thread::starter`/`run` up to `m_func()`
(`thread_run`: the latch countdown), then `reactor_thread_loop_func`
(`publish_reactor`). The loop steps are the statements of `Reactor::loop`:
- `loop_start`: lines 91-95;
- `loop_check`: the `while` test;
- `poll_return` / `poll_timeout`;
- `handle_wakeup`: reading the eventfd resets its counter;
- `handle_io`: a read callback that may queue a task from the loop thread;
- `do_queueing_tasks`: the swap;
- `run_task`: a task that may itself queue a task;
- `finish_tasks`.

The owner steps are:
- `start_reactor`, which calls `Thread::start`;
- `thread_start_return`: `Thread::start` returns once the new thread has
  counted down its `CountdownLatch` (`latch`, `Countdown`, `LatchOpen`);
- `start_reactor_return`, which waits until `m_reactor` is published;
- `mark_quit` and `mark_quit_wakeup`, from the destructor;
- `join`.

`Init` is the state the constructors leave: `ReactorThreadInit`
(`m_reactor` NULL) with `ThreadInit` (not started, the latch at 1), and the
eventfd counter at 0 (`CreateEventFd`). `join` waits for the thread to have
returned (`ThreadJoined`).

Tasks are numbered in push order. The history variables `executed`,
`announced` (a task whose eventfd write, if any, is done) and
`queued_before_quit` record what happened to them.

### `TcpConnection.tla`: one connection of an HttpServer

Actors:
- the worker loop: its task queue `wq`, and the readable and writable
  handlers;
- the acceptor loop: its task queue `aq` and `m_conn_map`;
- a user thread calling the public operations in `UserOps` (a subset of
  `AllUserOps`: `send`, `shutdown`, `force_close`,
  `shutdown_and_force_close_after`, `force_close_with_delay`, `start_read`,
  `stop_read`), with the state check (`user_check`, whose condition is
  `UserGuard`) and the act (`user_act`) as separate steps. The act queues the
  in-reactor half on the worker (`shutdown_close_task`, `start_read_task`,
  `stop_read_task`, ...) or, for `force_close_with_delay`, adds a timer;
- the worker's timers (`timers`): `timer_fire` runs a timer's callback,
  `force_close` for the delayed close and `force_close_in_reactor` for
  `shutdown_and_force_close_after`. The weak callback always locks, because
  the user thread holds the connection;
- the peer, which sends requests and closes.

The message callback is `HttpServer::on_good_request`:
- it appends the header (and, for an html page, the body) to the output
  buffer;
- for a file, it installs a zero copier of a `FileUnits`-byte file;
- for a closing response, it moves to kDisconnecting and calls
  `shutdown_in_reactor`.

`handle_write` is the whole of `handle_socket_writable`:
- it writes any prefix of the buffer; the write fails once the write side is
  shut;
- it calls `send_one_chunk` when the buffer is empty. The socket takes
  between 1 and `ChunkSize` bytes of the chunk (`room`). A chunk fails on a
  shut socket, and kMaxTrial failures abort the copier;
- the two `transfer_sending_state` calls and the copier release;
- the end of writing with the deferred `shutdown_in_reactor`.

`EnableZeroCopy` and `WriteSocketFromBuffer` are the two helpers these
actions call, `enable_zero_copy` and `write_socket_from_buffer`.
`DtorAssertion` is the assertion of `~TcpConnection`, which
`DestroyedDisconnected` checks once `connect_destroyed` has run.

Bytes are units `<<kind, request, index>>`. A file unit is one byte of the
file. The history `sent` holds the units in the order the code accepted
them: header, body or file, then the next response. `wire` holds the units
written to the socket.

### `HttpSession.tla`: HttpServer's message callback and HttpContext

The peer sends requests (the set `Kinds`) whose bytes reach the socket in
pieces of any size (`peer_send`). A client that does not pipeline begins a
request only when every earlier one is answered. Bytes are tokens: `CR`,
`LF`, and one token for the content of a line. The content is a request
line that `process_request_line` accepts as HTTP/1.1 or 1.0, or one it
rejects, or a header line with its colon. No content token holds CR or LF,
so `find_CRLF` finds the same line ends as on the bytes.

`handle_read` is `handle_socket_readable` with `read_all_from` taking every
byte in the socket, followed by the whole of `default_on_request`:
- nothing happens unless the buffer ends with `\r\n\r\n`
  (`EndsWithBlankLine`);
- `ParseLoop` is the `while (has_more)` loop of `parse_request`, and its
  `ok` starts false on every call;
- a false result sends the 400 response and calls `shutdown`;
- a context in kGotAll goes to `on_good_request`, then `reset`.
  `on_good_request` closes on `Connection: close`, or on HTTP/1.0 without
  `Keep-Alive`. The response callback answers 200, or 404 and close, as the
  HttpServer test's does (`ResponseCallback`), or 404 and close as
  `dummy_404_callback` does, the callback an HttpServer has until one is
  set (`Dummy404Callback`); `CallbackResponses` holds both.

`send_buffer` and `shutdown` are TcpConnection's: only kConnected sends,
and `shutdown` moves kConnected to kDisconnecting. Reads go on after a
shutdown, because `shutdown_in_reactor` only shuts the write side.

### `ZeroCopier.tla`: the file sender

`ZeroCopier` is a value that `TcpConnection` extends. It has no actions, and
each call is a function from the old copier to the new one:
- `NewCopier` is the constructor: offset 0, file position 0, and the
  file's size;
- `SendOneChunk` is `send_one_chunk`. Nothing left to send is a no-op. The
  chunk is `min(g_chunk_size, remaining)`. A failed send counts, and
  kMaxTrial failures in a row call `mark_abort`. Any other result resets the
  counter. It returns the new copier and the file bytes that went on the
  socket, in order;
- `SendFromOffset` covers kZeroCopy and kMMap. Both send from `m_offset`,
  which advances by what the socket took;
- `SendReadWrite` covers kReadWrite. `::read` moves the fd's own position
  (`pos`) by what it read. `m_offset` moves by what `write` took. At end of
  file, read returns 0 and so does the write.

`CopyMode` and `ChunkSize` are constants, like the globals
`g_copy_mode` and `g_chunk_size`, which the HttpServer test sets before it
starts the server.

### `TimerQueue.tla`: the timers of one Reactor

Actors:
- the loop thread (`lpc`): queued `add_timer_in_reactor` and
  `cancel_in_reactor` tasks, `handle_timerfd_read`, one `run_callback` per
  expired timer, and `finish_callbacks` (the end of the batch and `reset`);
- a user thread calling `add_timer` (through `run_after`/`run_every`, the set
  `TimerArgs`) and `remove`, both queued onto the loop;
- the clock (`tick`).

State:
- `heap` maps an address to the Timer there, or to `FreeTimer`. Deleting a
  Timer frees its address and `new` may hand it out again, so an old TimerId
  `<<address, id>>` can name a live Timer.
- `timers_set` and `active_set` are the two indexes.
- `canceling` and `calling` are `m_canceling_timers` and
  `m_is_calling_expired_timers`.
- `tfd` is the time the timerfd is armed for; `create_timer_fd` makes it
  disarmed (`CreateTimerFd`).

`NewTimer` is the Timer constructor (the next sequence number and the
expiry), and `Restart` is `Timer::restart`, used by `reset` for a repeating
timer.

A callback may do nothing, `remove` a TimerId inline (the loop thread runs
`cancel_in_reactor` at once) or add a timer inline. `CallbackCancels` says
which TimerIds a callback removes:
- `"self"`: its own, the pattern the spec's tests use;
- `"any"`: any TimerId handed out.

The histories are:
- `cancelled`: ids whose `cancel_in_reactor` ran;
- `killed`: ids deleted by it;
- `late_fires`: ids whose callback ran after their cancel.

### `TaskDeque.tla`: the worker pool

Actors:
- producers calling `push_task_back`/`push_task_front`;
- worker threads in `worker_loop`/`take_one`;
- the owner calling `stop`.

Each step is one critical section or one unlocked statement. Threads waiting
on a condition variable have pc `"wait"`:
- workers wait on `m_cond_not_empty`;
- producers wait on `m_cond_not_full`.

`Wait` is `Condition::wait`, `WakeOne` is `pthread_cond_signal` and `WakeAll` is the broadcast. A woken
thread re-tests its `while` condition in its next step. The deque starts
holding the constructor's empty Tasks. `m_max_queue_size`, which the
constructor never initialises, takes any value of `MaxSizes`. `Terminated`
lets the finished program stutter, so deadlock checking stays on.

### `Connector.tla`: Connector and TcpClient

One client on its loop, with a user thread. Variables:
- `state`, `conn_on` and `delay` are the Connector's `m_state`,
  `m_is_connected` and `m_retry_delay_ms`;
- `client_on` is TcpClient's `m_is_connected`, true from the constructor
  (`ClientInit`, with no connection);
- `chan` is `m_channel`: none, registered for writing, or removed with its
  `reset_channel` queued;
- `q` holds the loop's queued tasks for this client, `batch` the ones the
  current `do_queueing_tasks` swapped out, and `timers` the pending retry
  timers (they all run `start_in_reactor`, so a count is enough);
- `conn` is `connection_`. A connection made during an event step is `new`
  until the batch that follows, since its Channel was not in that poll;
- `cst`, `close_cb` and `fin` are the connection's `m_conn_state`, its close
  callback (`TcpClient::remove_conn`, or `detail::remove_conn` once the
  destructor has set it) and its shut write side;
- `destroyed` and `dconn`: `~TcpClient` has run, and read `connection_` as
  set. `uaf` and `bad_dtor` record a call into the freed TcpClient, and a
  `~Connector` that met `m_channel` set or left a task bound to its raw
  `this` queued;
- `fds` counts the sockets `connect()` created that are neither closed nor
  handed to a TcpConnection: `connect` adds one, `Retry` and a fatal errno
  close it, and `handle_write`'s success branch passes it to
  `new_conn_callback` or closes it.

Actions:
- loop thread: `do_queueing_tasks`, the tasks `start_task`,
  `stop_in_reactor`, `reset_channel`, `force_close_task`, `shutdown_task`,
  `setcb_task` and `dtor_task`, the events `retry_timer`, `handle_write`
  (with `NewConnCallback`), `handle_error` and `peer_close`. `handle_write`
  branches on `getSocketError` (`SoErrors`: 0 or an errno) and on
  `isSelfConnect` (`IsSelfConnect`, over the `LocalAddrs` the kernel may
  bind, one of them the server's own port). It retries on an error or a
  self-connect, and otherwise connects. A close, by the
  peer or by `force_close_in_reactor`, is `HandleClose`, which calls the
  close callback (`ClientRemoveConn` is `TcpClient::remove_conn`);
- `restart`, which `remove_conn` calls: it is a separate step only so that
  the user thread can run between the test of `m_is_connected` and it;
- user thread: `client_stop` and `connector_stop` (the two halves of
  `TcpClient::stop`), `client_connect` after a stop, `client_disconnect`,
  and `~TcpClient`. The destructor runs on the loop thread when the user
  posts the deletion (`client_destroy`, then `dtor_task`), or on the user
  thread, where reading `connection_` under the mutex (`client_destroy`)
  and acting on it (`dtor_act`) are two steps. `DtorThreads` says which
  are allowed. With a connection it rewires the close callback, inline or
  through a queued `setcb_task`, and calls `force_close` (`DtorConn`);
  without one it calls `Connector::stop` (`DtorNoConn`). Dropping
  `connector_` is `ConnectorReleased`. `force_close` is called only when
  `connection_.unique()`; the variable `dunique` holds what the destructor
  read. Between loop tasks nothing else holds the connection, so on the
  loop thread it is true. On the user thread the loop may be inside a
  handler of the connection (`Channel::handle_event`'s tie guard holds a
  reference), so `client_destroy` reads either value.

`connect`'s errno classes are a choice among in progress, retry and fatal.
Failures stop after `MaxAttempts` connects, after which the server accepts;
this keeps the state space finite. `retry`, `connecting` and `connect` are
operators over the values the caller passes, because `restart` changes the
delay and flag before calling `start_in_reactor` in the same step.

Timing is abstracted in one place. A retry timer (at least
`kInitRetryDelayMs`) does not fire while a `reset_channel` queued by the
loop is pending, since that runs in the loop's next iteration. An iteration
that stalls for half a second could break this.

### `Buffer.tla` and `ByteQueue.tla`: the byte buffer

`ByteQueue` is what a Buffer promises: a sequence of readable bytes (the
variable `content`) and the last call with its argument (`call`). Each
abstract step is the effect of the call named in `call`: append at the back,
prepend at the front, retrieve from the front, unwrite from the back, or
nothing (`shrink`).

`Buffer` is the implementation: the vector `buf` and the indexes `ridx` and
`widx`. Each action is one public call, with its argument drawn from small
sets and its asserts as guards:
- `append` stands for the append and `append_int*_net` family;
- `retrieve` stands for `retrieve`, `retrieve_until`, `retrieve_int*`,
  `retrieve_all` and `readout_as_string`; all of them end in `Retrieve`;
- `readout` is the `readout_int*_host` family: `peek_int*_host` asserts
  that `sizeof` bytes are readable (`IntWidths`), then `Retrieve`;
- `unwrite`, `prepend`, `shrink` and `read_all_from` are one action each.

`ensure_writable_len`, `make_space` and `append` are operators over a Buffer
value `B(buf, r, w)`, so `read_all_from` and `shrink` can apply them to a
second Buffer, as the code does. `find_CRLF` and `find_EOL` are `RECURSIVE`
scans, compared in `SearchesAgree` with references built from
`IndexFirstSubSeq` and `SelectInSeq` of the community SequencesExt. The
refinement maps `content` to `SubSeq(buf, ridx + 1, widx)` and checks
`ByteQueue`'s specification as a property.

### `Pollers.tla` and `PollerSpec.tla`: Channel registration and the two backends

`PollerSpec` is the contract of `Poller.h` as the Reactor relies on it:
- each channel has an interest set; `registered` is the set of mapped channels;
- `update_channel` registers a channel;
- `remove_channel` forgets a channel that watches nothing;
- `poll` hands back only registered channels that watch some event.

`Pollers` applies every Channel call to both backends at once. Each backend
has its own copy of `m_idx` (`pidx`, `eidx`).
- Channel state: `life` (unborn, live, removed, closed), `fd`, `events`
  (`m_concerned_events`) and `in_reactor`.
- PollPoller: `pollfds`, a sequence of `[fd, events]` in which an ignored
  entry's fd is the integer -fd-1, and `pmap`.
- EPollPoller: `emap`, and `kernel`, the epoll interest list from fd to the
  `data.ptr` registered, which `EPollCtl` (`EPollPoller::update`, one
  `epoll_ctl` call) changes.
- `construct` takes an fd that no unclosed channel holds.
- `change_interest(c, op)` is one of the five interest calls with
  `update_self_in_reactor`, running `PollUpdate` and `EPollUpdate`
  (`ReactorUpdateChannel`, `Reactor::update_channel`). Owners
  always start with `wang_to_read` or `want_to_write`.
- `remove_self_from_reactor` runs `PollRemove` (the swap-remove) and
  `EPollRemove` (`ReactorRemoveChannel`, `Reactor::remove_channel`).
- `destroy` is the owner's destruction. Its Socket closes the fd, which also
  drops the fd from the epoll set.
- `poll_poll` and `epoll_poll` choose any subset of what the kernel may report:
  - PollPoller: pollfds with fd >= 0;
  - EPollPoller: every member of the epoll set, since EPOLLHUP and EPOLLERR
    are reported whatever the registered events.

The refinements map `interest` to `events`, `registered` to the channels of
the backend's map (`has_channel`), and `ready` to the backend's last poll.

### `AsyncLogging.tla`: the double-buffered logger

Buffers are the numbers `1..MaxBuffers`, and 0 is a null `BufferPtr`.
`content[b]` is the sequence of lines in buffer `b` and `fill[b]` its
`length()`. A line is `<<writer, i>>` and has a length of 1 to `Cap - 1`
bytes, because a LogStream line is shorter than a buffer. `free` holds the
buffers no pointer holds; `new Buffer` takes one and a destroyed buffer
returns to it.
- `append(w)` is `AsyncLogging::append` under the mutex. A line goes into
  the current buffer if `avail() > len` (`Roomy`, `Avail`), through
  `FixedBuffer::append` (`FixedAppend`), which makes the same test. Otherwise the current
  buffer is archived to `used`, and the reserve, or a new buffer, becomes
  current and takes the line.
- The backend thread is a program counter `bpc`:
  - `backend_begin`: the assert, the latch and the two spare buffers;
  - `backend_check`: the `while (m_is_running)` test with the asserts of
    the loop body, or the exit;
  - `backend_lock_wait` and `backend_lock_swap`: the lock, and the timed
    wait when nothing is archived;
  - `backend_wake`: the wait ends, by notify or timeout, then `Swap`;
  - `backend_write`: the drop of buffers after the first two (`Kept`,
    `Extra`), the write, the refill of the spare buffers from the back
    (`Refill`, with `reset_cur`) and the deletion of the rest. A failed
    assert, or a null pointer the code would dereference, sets `bad` and
    stops the thread (`crashed`).
- The owner: `start` (set the flag, start the thread), `start_return`
  (the latch wait), `stop` (clear the flag; `before_stop` records the lines
  appended so far) and `join`.
- `written` is the file as a sequence of lines and `dropped` the lines of
  erased buffers. `notify` is not modelled, because the wait is timed:
  `backend_wake` is always enabled.

`output` is the backend's LogFile, from `LogFile.tla`. That module
writes each LogFile call as a function from the old object to the new one,
because the backend alone owns it:
- `NewLogFile`: the constructor's `roll_file`;
- `AppendUnlocked`: the write, then a roll past `m_rollsize`, or, every
  `m_check_every_n_appends` appends, a roll into a new day or a flush;
- `RollFile`: opens a new file only in a later second than the last roll.
A file is its opening second, which is the time part of its name, and its
`written_bytes()`. `backend_begin` and `backend_write` read `::time(NULL)`
as any second from the last one read up to `MaxTime`. Only the backend reads
the clock, so this covers every timing of the clock's ticks against the
backend. `backend_write` appends the "Dropped log messages" line, when
there is one, and then each kept buffer, all within the second it read.

No code in the repository uses AsyncLogging, and `kNumBuffers` is declared
but never defined, so the class would not link as it stands. The model
follows the code as written.

### `Server.tla`: TcpServer, Acceptor and ReactorThreadPool

Reactor 0 is the acceptor reactor and 1..`pool_size` are the workers.
`pool_size` is chosen in `Init` from `PoolSizes`, because
`set_reactor_pool_size` is called before `start`. `queue[r]` is reactor
`r`'s `m_pending_tasks`, in FIFO order. A task is a `connect_established`,
a `connect_destroyed` or a `remove_connection_in_reactor` for a connection.
`run_asap_in_reactor` runs a task inline when it is called on the reactor's
own thread, and queues it otherwise; each action follows that rule. A
connection is numbered by `g_conn_counter` + 1, which is the number in its
name. Its TcpConnection is reduced to `m_conn_state`, plus "destroyed" once
`connect_destroyed` has removed its channel. The socket I/O is the
TcpConnection module's.
- `start`: `TcpServer::start` on the acceptor thread. It starts the pool,
  then runs `Acceptor::listen` inline (`Listen`).
- `handle_conn_arrival`: `Acceptor::handle_conn_arrival` while the listen
  socket is readable. `AcceptErrno` is what `accept4` returns: an fd, or
  EMFILE once `Fds` (the reserved fd and every connection not yet destroyed)
  reaches `FdLimit`. `socket_ops::accept` aborts itself outside
  `ExpectedAcceptErrors` (`SocketOpsAcceptAborts`) and returns -1 inside
  it. `Socket::accept` then calls LOG_FATAL on every -1
  (`SocketAcceptAborts`). LOG_FATAL calls `abort()` in
  `LogLine::~LogLine` (`LogFatal`), which sets `aborted`, and no action is
  enabled after it.
- `RunsInline` is `run_asap_in_reactor`'s test: a task runs inline on its
  own reactor's thread and is queued on any other reactor.
- `accept_conn`: the fd branch, followed by `new_conn_callback`:
  - `get_next_reactor` (`NextReactor`, `AdvanceIdx`);
  - the name and the map entry;
  - `connect_established` on the chosen reactor, inline when that is the
    acceptor reactor itself.
- `accept_emfile`: the reserved-fd branch for EMFILE. It is modelled as
  written, but it is unreachable behind the abort in `Socket::accept`.
- `run_task(r)`: one task of `do_queueing_tasks`.
- `peer_close(c)`: `handle_close` on the connection's reactor, whose close
  callback is `remove_conn` (`RemoveConn`).
- `destroy`: `~TcpServer`, once the acceptor loop has returned. Tasks queued
  on it afterwards never run. Every connection still in the map gets
  `connect_destroyed`. `uaf` records a close callback that runs after this
  point.
- `client_connect` is the environment: a peer completes its handshake into
  the listen queue.
- `bad` records a failed assert:
  - `connect_established` outside kConnecting;
  - `connect_destroyed` on a channel that is not registered;
  - `assert(n == 1)` in `remove_connection_in_reactor`.

## Runs

| Run | Config | Expect | What it shows |
|---|---|---|---|
| reactor_pass | `MCReactor.cfg` | pass | No task is left pending while the loop blocks with its wakeup unread (`NoLostWakeup`). Every task whose submitter finished `queue_in_reactor` runs unless the loop exits, without help from `poll`'s timeout and without the owner being forced to quit (`AnnouncedTaskRuns`). |
| tcp_http | `MCTcpConnection.cfg` | pass | HttpServer with a client that waits for each response (HTTP/1.1 without pipelining), while a user thread calls `stop_read` and `start_read`. The socket carries a prefix of the accepted byte stream, file bytes included, however much of a chunk the socket takes. The FIN follows the last byte. Every file transfer ends. |
| tcp_user_thread | `MCTcpConnectionUser.cfg` | pass | With `send`, `shutdown`, `force_close`, `shutdown_and_force_close_after` and `force_close_with_delay` (their timers included) also called from a foreign thread (the behaviours of tcp_http included, since the user thread need not act), a closed connection is still always erased from the map, destroyed and unregistered. |
| tcp_force_close_race | `MCTcpConnectionForceClose.cfg` | violation | `CloseOnce`: `force_close` from another thread can store kDisconnecting after `handle_close`, so `handle_close` runs twice. |
| timer_pass | `MCTimerQueue.cfg` | pass | With foreign add/remove, self-cancelling and timer-adding callbacks, and reused addresses: the two indexes agree (`IndexesAgree`). A cancelled timer is never re-armed (`CancelledNeverRearmed`). A stale TimerId deletes nothing (`KilledOnlyCancelled`). Every due timer is eventually called (`DueTimerFires`), because the timerfd is always armed for the earliest expiration. |
| taskdeque_pass | `MCTaskDeque.cfg` | pass | Two producers and two workers, with the owner stopping the pool after its producers return. No push overfills the deque (`PushWithinBound`), even when a third thread takes the slot a pop freed. Every blocked push returns (`PushReturns`). `stop`'s joins return (`JoinReturns`). |
| connector_pass | `MCConnector.cfg` | pass | A retrying client whose user stops it, connects again, disconnects and destroys it, on the loop thread or its own. A connection the destructor finds and holds alone (`unique()`) is always closed, even though the peer need not close it (`DestroyClosesConnection`). Every socket `connect()` creates is closed or handed over exactly once, on each of the seven paths that abandon or complete a connect, so the Connector holds one open socket exactly while kConnecting (`SocketOwned`). It is stated up to a failure of `start_in_reactor`'s or `connecting`'s assert, which the next list shows are reachable. The capped retry delay stays within `kMaxRetryDelayMs` (`TypeOK`). Every connect in progress ends, up to a failure of `connecting`'s `assert(!m_channel)` (`ConnectAttemptEnds`). |
| buffer_pass | `MCBuffer.cfg` | pass | Every sequence of Buffer calls within the bounds: `find_CRLF` and `find_EOL` agree with reference searches over the content (`SearchesAgree`). Every call changes the readable bytes exactly as `ByteQueue` says (`ImplementsByteQueue`), through moves, growth, `shrink` and reads that spill into extrabuf. |
| pollers_pass | `MCPollers.cfg` | pass | Three channels on two fd numbers, registered, changed, removed and destroyed in every order, with fds reused. PollPoller's swap-remove keeps one pollfd per mapped channel, and each channel's index names its own entry, ignored exactly when it watches nothing (`PollIndexAgrees`). PollPoller implements the Poller contract `PollerSpec` (`PollImplementsPollerSpec`). The epoll set only ever points at live channels of EPollPoller's map (`NoStaleEvent`). |
| asynclogging_pass | `MCAsyncLogging.cfg` | pass | Two writers race the backend, with buffers that hold one or two lines, so full buffers pile up and excess ones are dropped. Every accepted line is exactly once in a held buffer, the file or a dropped buffer (`NoLineLostOrDuplicated`). Each writer's lines reach the file in append order (`WrittenInAppendOrder`). While the logger runs, its buffers always empty again into the file unless `stop` begins (`AppendedLineFlushed`). |
| server_pass | `MCServer.cfg` | pass | Four peers, no workers or two, and fds for all of them. The asserts of accept, removal and destruction hold through the destructor (`AssertsHold`). A closed connection is always destroyed while the server lives (`ClosedConnDestroyed`). |
| http_pass | `MCHttpSession.cfg` | pass | A client that waits for each response sends keep-alive, closing, HTTP/1.0 and malformed requests, whose bytes reach the server in reads split anywhere. The i-th response answers the i-th request (`ResponsesFollowRequests`): a good request never gets a 400, a malformed one gets a 400. Once every byte has been read, every request has its answer unless the connection was shut down (`AnsweredWhenIdle`). The empty-line check of `default_on_request` is what keeps a request split across reads (the worry of its "ONGOING BUG" comment) from being parsed half. |

Some results have no run of their own, because the project is limited to
twelve runs. Each is reproduced by the cfg named, or by the cfg with the one
property swapped in:
- `MCTcpConnectionSend.cfg`, `ShutdownAfterDrain`: a foreign `send` that
  passed its kConnected check before HttpServer's `shutdown` appends bytes
  after the FIN. `send_bytes_in_reactor` refuses only kDisconnected, so the
  bytes can never be sent.
- `MCTimerQueueCancelLost.cfg`, `CancelledNeverRearmed`: a callback removes
  a TimerId whose `add_timer_in_reactor` is still queued. The cancel finds
  nothing to erase and is lost, and the timer fires.
- `MCTcpConnectionPipeOrder.cfg`, `ByteStreamOrder`: with pipelined
  requests, the second `enable_zero_copy` replaces the first file before it
  is sent (`enable_zero_copy` does not check for a transfer in progress).
- `MCReactorJoin.cfg`, `JoinReturns` of Reactor: a ReactorThread destroyed
  right after `start_reactor` can hang in `join`, because `loop()` clears
  `m_going_to_quit` on entry (the line carries a FIXME).
- `MCReactorDrain.cfg`, `QuitDrainsQueue`: tasks queued and woken before
  `mark_quit` are dropped when the loop exits.
- `MCConnector.cfg` with `DestroyClosesConnection` stated without its
  `dunique` conjunct: `~TcpClient` on the user thread reads `unique()` as
  false while the loop runs a handler of the connection, skips
  `force_close`, and the connection stays open for as long as the peer
  keeps it.
- `MCConnector.cfg` with `UserOps = {"stop"}` and `PROPERTY
  NoConnectAfterStop`: the connection closes, `remove_conn` reads
  TcpClient's `m_is_connected` as true, the user's `stop` clears both flags,
  and `restart` sets the Connector's flag back. The client reconnects after
  `stop` returned.
- `MCConnectorReconnect.cfg` with `INVARIANT StartPrecondition`: a retry
  timer left by `stop` (its FIXME "remove timer"), or a reconnect's start
  while still connected, runs `start_in_reactor` outside kDisconnected.
  Built without asserts, this also leaks a socket. With the `bad_start`
  exception taken out of `SocketOwned`, `MCConnector.cfg` fails it in eight
  steps. The stale timer's `connect()` fails with a retryable errno, and
  `retry` closes the new socket and sets kDisconnected. The socket of the
  connect still in progress stays open. Its Channel stays registered for
  writing, and since both pollers are level-triggered, every poll then
  calls a `handle_write` that does nothing outside kConnecting.
- `shutdown` from another thread can leave a destroyed connection in
  kDisconnecting. This is the same check-then-store race as
  tcp_force_close_race: with `shutdown` in `UserOps`, TLC finds
  `DestroyedDisconnected` violated, and `~TcpConnection`'s assert would fail.
- `MCTcpConnectionRead.cfg`, `DestroyedDisconnected` (and `CloseOnce` in
  its place): `start_read_in_reactor` and `stop_read_in_reactor` test
  nothing but `m_is_reading`. A `start_read` queued before
  `connect_destroyed` runs after it and re-registers the destroyed Channel
  (`~Channel`'s `assert(!m_is_in_reactor)` would fail), and its next
  hang-up runs `handle_close` again. This is why tcp_http, which has the
  read operations, no longer lists `CloseOnce`; tcp_force_close_race checks
  it.
- `MCServerEMFILE.cfg`, `BacklogDrains`: out of fds, the server aborts
  rather than draining the listen queue. The cfg sets `FdLimit = 3`, and
  the third peer to arrive while two connections are open makes `accept4`
  fail with EMFILE. `socket_ops::accept` counts EMFILE as expected and
  returns -1. But `Socket::accept` (`Socket.cc:63`) calls LOG_FATAL on any
  -1, so the process aborts before `Acceptor::handle_conn_arrival` reaches
  its reserved-fd branch. With `SocketAcceptAborts` replaced by
  `SocketAcceptReturns` (return -1 without the LOG_FATAL), the same cfg
  passes, because the reserved-fd branch then drains the queue.
- TaskDeque with `StopAnyTime = TRUE`: a producer that finds the deque full
  while or after `stop` runs blocks forever. `stop` wakes only
  `m_cond_not_empty`, and `push_task` never tests `m_is_running`.
  TLC finds `PushReturns` violated.

- `MCTcpConnectionReadWrite.cfg`, `ByteStreamOrder`: in kReadWrite mode,
  which the HttpServer test can select from its command line, the socket
  takes one byte of a two-byte chunk. `send_one_chunk_rw` has read both
  bytes, so the fd's position is past them, while `m_offset` counts one.
  The next chunk reads from the fd's position, and the wire goes on with
  byte 3: byte 2 is never sent. After this the read is at end of file
  while `m_offset` is short of the size. Each later chunk reads 0 bytes and
  writes 0, so the transfer never ends either.
- `MCConnectorReconnect.cfg`, `OneChannel`: `connect`, `stop` and
  `connect` from the user thread run the second `start_in_reactor` before
  the `reset_channel` that the stop queued. `connecting` finds the old
  Channel (`assert(!m_channel)`), and the queued `reset_channel` then
  destroys the new one, so the attempt can stay kConnecting with no
  Channel. `TcpClient::connect` does not check the state (its FIXME).
- `MCConnectorDtorLoop.cfg`, `ConnectorDestroyedClean`: the user posts the
  deletion of the TcpClient while its connect is in progress. The connect
  completes and queues `reset_channel` behind the deletion. In the same batch
  `~TcpClient` finds the connection and drops the Connector. `~Connector`'s
  `assert(!m_channel)` fails, and `reset_channel` then runs on freed memory.
- `MCConnectorDtorUser.cfg`, `NoCallIntoDeadClient`: `~TcpClient` on the
  user thread reads `connection_` as null while a connect is in progress.
  The connect completes before `connector_->stop()`. The new connection is
  neither closed nor rewired, so when the peer closes it,
  `TcpClient::remove_conn` runs on the freed client.
- `MCHttpSessionPipeline.cfg`, `AnsweredWhenIdle`: a client pipelines two
  requests, and both arrive in one read. `parse_request` stops at kGotAll
  after the first. `default_on_request` answers it and returns, and the
  second request waits in the input buffer until more bytes arrive. A
  client that waits for the second answer waits for ever.
  `ResponsesFollowRequests` still holds with pipelining.
- `MCTcpConnectionPipeStall.cfg`, `FileTransferEnds`: a response buffered
  during a file transfer stalls `handle_socket_writable`. In kSendingFile it
  neither writes the buffer nor sends a chunk while the buffer is non-empty,
  so the loop spins on POLLOUT and the file never completes.
- `MCAsyncLogging.cfg` with `INVARIANT StopWritesAll`: `start`, two
  `append`s, then `stop` before the backend's first swap. The backend sees
  `m_is_running` false and leaves the loop, and the final `output.flush()`
  flushes only the LogFile. The lines in the current and used buffers never
  reach the file. Nothing in the repository promises otherwise, and nothing
  uses the class.
- `MCPollersEPoll.cfg`, `EPollImplementsPollerSpec`: `wang_to_read`, then
  `end_all` (EPOLL_CTL_DEL, kDeleted), then `end_reading`. The kDeleted
  branch issues EPOLL_CTL_ADD with no events. `poll` then hands back a
  channel that watches nothing, because epoll always reports hang-ups and
  errors. In TcpConnection this is `handle_close` followed by
  `stop_read_in_reactor`. The hang-up then runs `handle_close` a second
  time, and its assert on the state fails. Nothing in the repository calls
  `stop_read`, so this is kept as a result.
- `MCServerDestroyRace.cfg`, `NoCallIntoDestroyedServer`:
  1. a connection is established on a worker;
  2. the acceptor loop returns and `~TcpServer` queues its
     `connect_destroyed`;
  3. the peer's close is handled on the worker first.

  `handle_close` then calls `remove_conn`, which is bound to the raw
  TcpServer pointer (marked "FIXME: unsafe"), on a destroyed server.

Two more TimerQueue observations have no run of their own:
- With callbacks that remove any TimerId, a callback that removes a later
  timer of its own batch does not stop that timer's callback, so
  `NoFireAfterCancel` fails. The spec only promises that the reschedule is
  suppressed, so this is left as an open question.
- Timers that expire together are called in address order (`Entry` is
  `pair<Timestamp, Timer*>`). The spec says the global id breaks ties. This is
  plain to a unit test and needs no model.

Some properties hold under their run's cfg but are not among its
properties. Each is closer to a single statement of the code than the
properties kept:
- Reactor's `TaskFifo`;
- TcpConnection's `DestroyedDisconnected` and `OutputDrains`;
- Buffer's `IndexOrder`;
- AsyncLogging's `BackendAssertsHold`;
- TimerQueue's `NoFireAfterCancel`, whose mutant `CancelledNeverRearmed`
  also catches.

tcp_http does not list `CloseLeadsToDestroy`. tcp_user_thread checks it
over a superset of tcp_http's behaviours.

Each property of a passing run has a mutant in `PROJECT.json`: a plausible
bug in the mapped code, which TLC catches with that property.

## Bounds

- **Reactor**: two submitters and four tasks. That is enough for two foreign
  submissions and a chain of tasks queued by tasks in one batch, and for
  every interleaving of a submitter's push and its eventfd write with the
  loop's poll.
- **TcpConnection**:
  - three requests, so a keep-alive connection serves html and file
    responses one after another, and a pipelined second request meets the
    first file;
  - a two-unit header, so a write can stop inside it;
  - a three-byte file and two-byte chunks (`ChunkSize`). The file takes a
    full chunk and then a short one, and a socket that takes one byte
    leaves a partial chunk;
  - kZeroCopy, the default mode, in every run except the kReadWrite
    result;
  - `MaxTrial` of 2 stands for kMaxTrial = 100; only reaching the limit
    matters;
  - tcp_user_thread serves two requests (`MCMaxRequestsUser`): with five
    user operations, three requests take TLC past five minutes, and two
    already let every user call meet a response in progress, a file
    transfer and the close.

- **TimerQueue**:
  - two addresses and two timers, so a freed address is reused while an
    old TimerId for it is still held;
  - delays 0 and 2, so a later timer can arm the timerfd before an earlier
    one is added;
  - intervals 0 and 1 (one-shot and repeating);
  - clock ticks 1..3.

- **TaskDeque**:
  - two workers, so `stop` has more than one waiter to wake;
  - two producers of two tasks each, so one can take the slot a pop freed
    for the other;
  - two empty Tasks at the start, standing for ten;
  - bounds 0 (unbounded), 1 and 2.

- **Buffer**: `kCheapPrepend` 2, `kInitialSize` 2 and a 2-byte extrabuf
  stand for 8, 1024 and 65536. Up to 4 readable bytes and 2 bytes per call.
  This reaches both branches of `make_space`, prepends below
  `kCheapPrepend`, and reads that fill the writable bytes and spill into
  extrabuf. The bytes are CR and LF, plus the zero of `resize`, so every
  pattern the two searches tell apart occurs.
- **Connector**: delays 1 and 4 stand for 500 and 30000 ms, so the delay
  doubles twice and then hits the cap. Up to three failed attempts, so
  there are two retries in a row, then a restart after the connection
  closes. The user calls each of `stop`, `connect`, `disconnect` and the
  destructor at most once, so a destructor meets a connect in progress, an
  open connection, a disconnected one and a stopped client.

- **Pollers**: three channels and two fd numbers. A channel can be destroyed
  and its fd taken by a new channel while a third is still registered. The
  swap-remove then meets every position: the last entry, a middle entry, and
  an ignored last entry. The state space is finite, with no bound needed.

- **AsyncLogging**: two writers of two lines each, and `Cap = 3`, so a
  buffer holds two 1-byte lines or one 2-byte line. Four lines then fill up
  to four buffers before the backend swaps, so `buffers_to_write` can hold
  three and one is dropped. Seven buffers: TLC finds `free` never empty when
  a buffer is needed (checked with an auxiliary invariant), so the bound
  never blocks `append`. The LogFile rolls past 2 bytes and checks the day
  every 2 appends, and a day is 2 seconds. The clock reads seconds 1 and 2,
  so the size roll, the day roll and a roll refused in the same second all
  occur. The flush branch of the day check needs a later second in the same
  day, hence a third second, which makes the liveness check take longer than
  five minutes; it only sets `m_last_flush`, and the backend flushes after
  every write anyway. `MaxTime = 3` passes too, in about seven minutes.
- **HttpSession**: three requests, of four kinds: HTTP/1.1 with a plain
  header, HTTP/1.1 with `Connection: close`, HTTP/1.0 without headers, and
  a malformed request line. A keep-alive connection answers two requests
  and meets a third. A request is 5 or 8 tokens, and it is split at every
  token boundary, CR and LF apart included.
- **Server**: four peers and `FdLimit = 5`, so every peer gets an fd. Fd
  exhaustion aborts the process, so it has its own cfg, `MCServerEMFILE.cfg`
  (listed under the results above). Pool sizes 0 and 2:
  - 0 runs every task inline on the acceptor reactor;
  - 2 makes the round-robin wrap and splits each connection's tasks across
    two threads.

## Fairness

The loop threads are weakly fair:
- Reactor: its `LoopNext` as a whole, except `poll_timeout`
  (`LoopWithoutTimeout`), so liveness never rests on `kPollTimeMs` hiding
  a lost wakeup;
- TcpConnection: its task execution, its read and EOF handlers, its write
  handler and its timers (`timer_fire`: a timer due is run by the next
  `poll`), each separately.

These are threads the OS keeps scheduling. The write handler's fairness
stands for a level-triggered POLLOUT that recurs while the peer keeps
reading. The owner of a ReactorThread is fair in the steps that finish a call it
began (`start_reactor`'s returns, `mark_quit_wakeup`, `join`), but is
never required to call `mark_quit`; each submitter is fair in
`queue_wakeup`, the second half of `queue_in_reactor`. The user thread's
second step is fair for the same reason. Peers and
submitters are not required to act. In TimerQueue the loop thread
(`LoopNext`) and the clock are weakly fair, because the timerfd's readability
wakes `poll` once its time has come. In TaskDeque every thread is weakly fair
in the steps it can take. A waiting thread is not enabled until it is
notified, so fairness never wakes a thread the code leaves asleep.
In Connector the loop's tasks, timers and the writable event of a registered
Channel are weakly fair. A non-blocking connect completes or fails, so the
Channel becomes writable. The peer need not close the connection, and the
user need not call anything, except to finish a `stop` or a destructor it
began. The connection's `force_close_in_reactor`, `shutdown_in_reactor` and
`set_close_callback` are loop tasks and are fair with them.

Pollers checks safety only and assumes no fairness.

In AsyncLogging the backend thread is weakly fair as a whole. Its wait is
timed, so it always moves on. The owner is fair in `start_return` and
`join`, which are waits inside calls it has made. Writers and `stop` are
not required. `CHECK_DEADLOCK FALSE` because the logger really stops:
after `join` the backend has exited and the writers have sent their
lines.

In HttpSession the loop's readable handler is weakly fair. The peer is not
required to send. The checked properties are invariants. `AnsweredWhenIdle`
states progress at the point where the handler has nothing left to read,
so it needs no fairness.

In Server each reactor's task execution is weakly fair while the server
lives (`alive`). After `~TcpServer` the pool's ReactorThreads `mark_quit`
and join their loops, so nothing is promised of a worker then, and
`ClosedConnDestroyed` allows `~alive` instead. The acceptor's `handle_conn_arrival` is
weakly fair unless the process aborted: the listen socket is
level-triggered and stays readable while the queue is not empty. Peers, `start` and the
destructor are not required. `CHECK_DEADLOCK FALSE`, because every peer
may have come and gone, leaving the loops idle.

## Not modelled (yet)

- `Channel::handle_event` (dispatch order and the tie guard). The owners'
  models take the callback as given. TcpConnection keeps its registration as
  the flags `is_reading`, `is_writing` and `in_poller` rather than composing
  with Pollers.
- Registering a channel again after `remove_self_from_reactor`. No owner does
  it, and PollPoller would then reuse the stale index it leaves behind.
- The blocking deques, which nothing in the repository uses.
- In Server:
  - other threads opening fds between the close and the reopen of the
    reserved fd (which would lose it), since the abort in `Socket::accept`
    makes that branch unreachable;
  - the pool's worker threads being joined after `~TcpServer`;
  - `g_conn_counter` wrapping after 2^31 connections.
- ZeroCopier's static read buffer in kReadWrite mode, which every worker
  thread shares. That race needs two connections on two workers.
  mmap's page arithmetic and its munmap of the wrong length are also not
  modelled; they only leak mappings.
- Formatting (HttpResponse, LogStream, Timezone, InetAddress) and the
  socket wrappers whose results no handler branches on (bind, listen,
  read, write, socket options). These are data and system calls, not
  control. The wrappers a handler does branch on are modelled by their
  outcomes: `Socket::accept` in Server, and `getSocketError` and
  `isSelfConnect` in Connector.
- Accept errors other than EMFILE (a peer resetting a queued connection,
  a signal). `Socket::accept` aborts on them exactly as on EMFILE.
- The clock of `Condition::wait_for_seconds`. It builds its deadline from
  `CLOCK_MONOTONIC_RAW`, but the condition variable is created with the
  default `CLOCK_REALTIME`. The deadline is therefore long past, and the
  wait times out at once, so the AsyncLogging backend never sleeps. The
  model's timed wait may already end at any moment, so this costs CPU and
  changes no checked result.
- The high-water-mark callback, which
  no server in the repository sets.
- Timezone. The only zone the repository builds is LogLine's fixed
  `g_log_timezone(8*3600, "CST")`, with one local time and no transitions,
  so `find_local_time` always takes `localtimes.front()`. The zone-file
  constructor is never called. It would matter: `read_timezone_file`
  returns true even when the file cannot be opened, and
  `find_local_time` would then read `front()` of an empty vector.
- The rest of the logging front end (LogLine's prefix, LogStream and
  FixedBuffer formatting, the log level). Only LOG_FATAL's abort changes
  control; it is `LogFatal` in Server. Mutex.h's holder bookkeeping and
  `assert_locked`: each model takes a mutex-protected block as one step.
  ProcessInfo and CurrentThread's caches only read `/proc` and thread
  ids.

## Plan

1. **Reactor + ReactorThread**: done.
2. **TcpConnection with TcpServer and HttpServer**: done for the lifecycle,
   the send pipeline, `start/stop_read` and the delayed close variants.
3. **TimerQueue**: done for add/cancel across threads, cancels from
   callbacks, the timerfd rearm and stale TimerIds. Still to add: a
   refinement to an abstract timer set.
4. **Poller and Channel**: done for registration, both backends' index
   bookkeeping and their refinement of `PollerSpec`. Still to add: dispatch
   order.
5. **Buffer**: done, with a refinement to `ByteQueue`.
6. **Connector/TcpClient**: done, `disconnect`, the destructor and the
   ownership of each connect's socket included. **TaskDeque**: done; still to
   add: a pool started with zero threads.
7. **AsyncLogging**: done. Still to add: the blocking deques.
8. **TcpServer, Acceptor, ReactorThreadPool**: done.
9. **HttpServer and HttpContext**: done for the message callback, the
   parser's line loop and the response's close decision. Still to add: a
   fix for pipelined requests (parse again while the buffer holds a
   complete request) checked against `AnsweredWhenIdle`.

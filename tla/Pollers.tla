------------------------------- MODULE Pollers -------------------------------
(***************************************************************************)
(* Channel registration with the two Poller backends (src/flute/net/      *)
(* Channel.*, Poller.cc, poller/PollPoller.cc, poller/EPollPoller.cc).    *)
(* Each Channel call is applied to both backends at once, so one behaviour *)
(* shows what PollPoller and EPollPoller each make of the same calls; the  *)
(* channel's m_idx is kept once per backend (pidx, eidx).  A channel is    *)
(* constructed on a free fd, has its interest changed, is removed, and is  *)
(* destroyed with its owner, which closes the fd so a later channel may    *)
(* get the same number.  The asserts of the code are guards.               *)
(***************************************************************************)
EXTENDS Integers, Sequences, FiniteSets

CONSTANTS
  Channels,   \* Channel objects
  Fds,        \* fd numbers, >= 0
  NoChannel   \* end() of a channel map, or an fd not in the epoll set

Events == {"read", "write"}
NoFd == -1
kNew == -1
kAdded == 1
kDeleted == 2

VARIABLES
  life,        \* "unborn", "live", "removed" (by remove_self_from_reactor), "closed"
  fd,          \* m_fd
  events,      \* m_concerned_events
  in_reactor,  \* m_is_in_reactor
  pidx,        \* m_idx under PollPoller: an index of pollfds_, or -1
  pollfds,     \* pollfds_: <<[fd, events]>>, fd = -fd-1 while ignored
  pmap,        \* PollPoller's m_channel_map
  pready,      \* the channels PollPoller::poll handed back
  eidx,        \* m_idx under EPollPoller: kNew, kAdded or kDeleted
  emap,        \* EPollPoller's m_channel_map
  kernel,      \* the epoll interest list: fd -> data.ptr
  eready       \* the channels EPollPoller::poll handed back

vars == <<life, fd, events, in_reactor, pidx, pollfds, pmap, pready,
          eidx, emap, kernel, eready>>

(* The interest calls of Channel.h and their effect on m_concerned_events. *)
Ops == {"wang_to_read", "end_reading", "want_to_write", "end_writing", "end_all"}
NewEvents(op, ev) ==
  CASE op = "wang_to_read"  -> ev \cup {"read"}
    [] op = "end_reading"   -> ev \ {"read"}
    [] op = "want_to_write" -> ev \cup {"write"}
    [] op = "end_writing"   -> ev \ {"write"}
    [] op = "end_all"       -> {}

-----------------------------------------------------------------------------
(* PollPoller.                                                              *)

\* Mutant: a pollfd is never ignored when its channel watches nothing.
PollUpdateNoIgnore(c, ev) ==
  IF pidx[c] < 0
    THEN /\ pmap[fd[c]] = NoChannel
         /\ pollfds' = Append(pollfds, [fd |-> fd[c], events |-> ev])
         /\ pidx' = [pidx EXCEPT ![c] = Len(pollfds)]
         /\ pmap' = [pmap EXCEPT ![fd[c]] = c]
    ELSE /\ pmap[fd[c]] = c
         /\ pollfds' = [pollfds EXCEPT ![pidx[c] + 1] = [fd |-> fd[c], events |-> ev]]
         /\ UNCHANGED <<pidx, pmap>>

(* update_channel: a new channel (index < 0) is appended; an existing one  *)
(* has its pollfd rewritten, with fd -fd-1 when it watches nothing.        *)
PollUpdate(c, ev) ==
  IF pidx[c] < 0
    THEN /\ pmap[fd[c]] = NoChannel
         /\ pollfds' = Append(pollfds, [fd |-> fd[c], events |-> ev])
         /\ pidx' = [pidx EXCEPT ![c] = Len(pollfds)]
         /\ pmap' = [pmap EXCEPT ![fd[c]] = c]
    ELSE /\ pmap[fd[c]] = c
         /\ pollfds' = [pollfds EXCEPT ![pidx[c] + 1] =
                          [fd |-> IF ev = {} THEN -fd[c] - 1 ELSE fd[c],
                           events |-> ev]]
         /\ UNCHANGED <<pidx, pmap>>

\* Mutant: the moved channel keeps its old index.
PollRemoveNoReindex(c) ==
  LET i == pidx[c] + 1
      last == Len(pollfds)
  IN  /\ pollfds[i].fd = -fd[c] - 1 /\ pollfds[i].events = events[c]
      /\ pmap' = [pmap EXCEPT ![fd[c]] = NoChannel]
      /\ pollfds' = IF i = last THEN SubSeq(pollfds, 1, last - 1)
                    ELSE [SubSeq(pollfds, 1, last - 1) EXCEPT ![i] = pollfds[last]]
      /\ UNCHANGED pidx

(* remove_channel: erase from the map, then swap the pollfd with the last  *)
(* one and pop it, giving the channel that owned the last pollfd its new   *)
(* index (its fd decoded from -fd-1 if ignored).  The removed channel's   *)
(* own index is left as it was.                                             *)
PollRemove(c) ==
  LET i == pidx[c] + 1
      last == Len(pollfds)
      endfd == pollfds[last].fd
      endch == pmap[IF endfd < 0 THEN -endfd - 1 ELSE endfd]
  IN  /\ pollfds[i].fd = -fd[c] - 1 /\ pollfds[i].events = events[c]
      /\ pmap' = [pmap EXCEPT ![fd[c]] = NoChannel]
      /\ IF i = last
           THEN /\ pollfds' = SubSeq(pollfds, 1, last - 1)
                /\ UNCHANGED pidx
           ELSE /\ pollfds' = [SubSeq(pollfds, 1, last - 1) EXCEPT ![i] = pollfds[last]]
                /\ pidx' = [pidx EXCEPT ![endch] = pidx[c]]

-----------------------------------------------------------------------------
(* EPollPoller.                                                             *)

\* Mutant: the event is registered with data.fd instead of data.ptr.
EPollUpdateDataFd(c, ev) ==
  IF eidx[c] \in {kNew, kDeleted}
    THEN /\ emap[fd[c]] = IF eidx[c] = kNew THEN NoChannel ELSE c
         /\ emap' = [emap EXCEPT ![fd[c]] = c]
         /\ eidx' = [eidx EXCEPT ![c] = kAdded]
         /\ kernel' = [kernel EXCEPT ![fd[c]] = fd[c]]
    ELSE /\ emap[fd[c]] = c
         /\ UNCHANGED emap
         /\ IF ev = {}
              THEN /\ kernel' = [kernel EXCEPT ![fd[c]] = NoChannel]
                   /\ eidx' = [eidx EXCEPT ![c] = kDeleted]
              ELSE UNCHANGED <<kernel, eidx>>

(* update(operation, channel): epoll_ctl on the channel's fd with         *)
(* data.ptr = the channel; ADD and MOD leave it in the epoll set, DEL      *)
(* drops it.  The failure branches (logged for DEL, LOG_SYSFATAL for the  *)
(* others) are left out: ADD is issued only for a free fd and MOD and DEL *)
(* only for a member, as long as the set agrees with the map, which       *)
(* NoStaleEvent checks.                                                    *)
EPollCtl(op, c) ==
  kernel' = [kernel EXCEPT ![fd[c]] = IF op = "DEL" THEN NoChannel ELSE c]

(* update_channel: kNew or kDeleted -> EPOLL_CTL_ADD and kAdded, whatever  *)
(* the events; kAdded -> EPOLL_CTL_DEL and kDeleted when the channel       *)
(* watches nothing, else EPOLL_CTL_MOD.                                     *)
EPollUpdate(c, ev) ==
  IF eidx[c] \in {kNew, kDeleted}
    THEN /\ emap[fd[c]] = IF eidx[c] = kNew THEN NoChannel ELSE c
         /\ emap' = [emap EXCEPT ![fd[c]] = c]
         /\ eidx' = [eidx EXCEPT ![c] = kAdded]
         /\ EPollCtl("ADD", c)
    ELSE /\ emap[fd[c]] = c
         /\ UNCHANGED emap
         /\ IF ev = {}
              THEN /\ EPollCtl("DEL", c)
                   /\ eidx' = [eidx EXCEPT ![c] = kDeleted]
              ELSE /\ EPollCtl("MOD", c)
                   /\ UNCHANGED eidx

\* Mutant: remove_channel never issues EPOLL_CTL_DEL.
EPollRemoveNoDel(c) ==
  /\ eidx[c] \in {kAdded, kDeleted}
  /\ emap' = [emap EXCEPT ![fd[c]] = NoChannel]
  /\ UNCHANGED kernel
  /\ eidx' = [eidx EXCEPT ![c] = kNew]

(* remove_channel: erase from the map, EPOLL_CTL_DEL if kAdded, kNew.      *)
EPollRemove(c) ==
  /\ eidx[c] \in {kAdded, kDeleted}
  /\ emap' = [emap EXCEPT ![fd[c]] = NoChannel]
  /\ IF eidx[c] = kAdded THEN EPollCtl("DEL", c) ELSE UNCHANGED kernel
  /\ eidx' = [eidx EXCEPT ![c] = kNew]

-----------------------------------------------------------------------------
(* Reactor::update_channel and Reactor::remove_channel, on the loop       *)
(* thread, hand the channel to the reactor's poller; here to both          *)
(* backends.  remove_channel's assert on the active channels is about      *)
(* handle_event, which this module does not run.                           *)
ReactorUpdateChannel(c, ev) == PollUpdate(c, ev) /\ EPollUpdate(c, ev)
ReactorRemoveChannel(c) == PollRemove(c) /\ EPollRemove(c)

-----------------------------------------------------------------------------
(* The Channel calls.                                                       *)

(* Channel(reactor, fd): a channel on an fd no constructed, unclosed       *)
(* channel holds.                                                           *)
construct(c, f) ==
  /\ life[c] = "unborn"
  /\ \A d \in Channels : life[d] \in {"live", "removed"} => fd[d] # f
  /\ life' = [life EXCEPT ![c] = "live"]
  /\ fd' = [fd EXCEPT ![c] = f]
  /\ UNCHANGED <<events, in_reactor, pidx, pollfds, pmap, pready,
                 eidx, emap, kernel, eready>>

(* wang_to_read, end_reading, want_to_write, end_writing, end_all: change *)
(* m_concerned_events, then update_self_in_reactor sets m_is_in_reactor   *)
(* and Reactor::update_channel passes the channel to the poller.  Every   *)
(* owner first registers a channel with wang_to_read or want_to_write.    *)
change_interest(c, op) ==
  LET ev == NewEvents(op, events[c]) IN
  /\ life[c] = "live"
  /\ in_reactor[c] \/ op \in {"wang_to_read", "want_to_write"}
  /\ events' = [events EXCEPT ![c] = ev]
  /\ in_reactor' = [in_reactor EXCEPT ![c] = TRUE]
  /\ ReactorUpdateChannel(c, ev)
  /\ UNCHANGED <<life, fd, pready, eready>>

(* remove_self_from_reactor: asserts is_none_event, clears m_is_in_reactor *)
(* and has Reactor::remove_channel pass the channel to the poller.  No     *)
(* owner touches the channel again.                                        *)
remove_self_from_reactor(c) ==
  /\ life[c] = "live" /\ in_reactor[c]
  /\ events[c] = {}
  /\ pmap[fd[c]] = c /\ emap[fd[c]] = c
  /\ in_reactor' = [in_reactor EXCEPT ![c] = FALSE]
  /\ life' = [life EXCEPT ![c] = "removed"]
  /\ ReactorRemoveChannel(c)
  /\ UNCHANGED <<fd, events, pready, eready>>

(* ~Channel with its owner (asserting it is out of the reactor), and the   *)
(* owner's Socket closing the fd, which takes the fd out of an epoll set.  *)
destroy(c) ==
  /\ life[c] = "removed" /\ ~in_reactor[c]
  /\ life' = [life EXCEPT ![c] = "closed"]
  /\ kernel' = [kernel EXCEPT ![fd[c]] = NoChannel]
  /\ UNCHANGED <<fd, events, in_reactor, pidx, pollfds, pmap, pready,
                 eidx, emap, eready>>

(* PollPoller::poll and register_active_channels: the pollfds with fd >= 0 *)
(* that got revents, looked up in the channel map (none on a timeout).     *)
poll_poll ==
  /\ \E I \in SUBSET {i \in 1..Len(pollfds) : pollfds[i].fd >= 0} :
       /\ \A i \in I : pmap[pollfds[i].fd] # NoChannel
       /\ pready' = {pmap[pollfds[i].fd] : i \in I}
  /\ UNCHANGED <<life, fd, events, in_reactor, pidx, pollfds, pmap,
                 eidx, emap, kernel, eready>>

(* EPollPoller::poll and register_active_channels: the data.ptr of the fds *)
(* of the epoll set that are ready.  The set reports EPOLLHUP and EPOLLERR *)
(* whatever events were registered, so any member may be ready.            *)
epoll_poll ==
  /\ \E F \in SUBSET {f \in Fds : kernel[f] # NoChannel} :
       eready' = {kernel[f] : f \in F}
  /\ UNCHANGED <<life, fd, events, in_reactor, pidx, pollfds, pmap, pready,
                 eidx, emap, kernel>>

Init ==
  /\ life = [c \in Channels |-> "unborn"]
  /\ fd = [c \in Channels |-> NoFd]
  /\ events = [c \in Channels |-> {}]
  /\ in_reactor = [c \in Channels |-> FALSE]
  /\ pidx = [c \in Channels |-> -1]
  /\ pollfds = <<>>
  /\ pmap = [f \in Fds |-> NoChannel]
  /\ pready = {}
  /\ eidx = [c \in Channels |-> kNew]
  /\ emap = [f \in Fds |-> NoChannel]
  /\ kernel = [f \in Fds |-> NoChannel]
  /\ eready = {}

Next ==
  \/ \E c \in Channels, f \in Fds : construct(c, f)
  \/ \E c \in Channels, op \in Ops : change_interest(c, op)
  \/ \E c \in Channels : remove_self_from_reactor(c) \/ destroy(c)
  \/ poll_poll
  \/ epoll_poll

Spec == Init /\ [][Next]_vars

-----------------------------------------------------------------------------
(* Properties.                                                              *)

TypeOK ==
  /\ life \in [Channels -> {"unborn", "live", "removed", "closed"}]
  /\ fd \in [Channels -> Fds \cup {NoFd}]
  /\ events \in [Channels -> SUBSET Events]
  /\ in_reactor \in [Channels -> BOOLEAN]
  /\ pidx \in [Channels -> Int]
  /\ pollfds \in Seq([fd : Int, events : SUBSET Events])
  /\ pmap \in [Fds -> Channels \cup {NoChannel}]
  /\ pready \subseteq Channels /\ eready \subseteq Channels
  /\ eidx \in [Channels -> {kNew, kAdded, kDeleted}]
  /\ emap \in [Fds -> Channels \cup {NoChannel}]
  /\ kernel \in [Fds -> Channels \cup {NoChannel}]

(* PollPoller's bookkeeping survives any order of registrations, interest  *)
(* changes and swap-removes, with fds reused: pollfds_ has one entry per   *)
(* mapped channel, and each mapped channel's m_idx names the entry of its  *)
(* own fd, ignored (-fd-1) exactly when the channel watches nothing.       *)
PollIndexAgrees ==
  /\ Len(pollfds) = Cardinality({f \in Fds : pmap[f] # NoChannel})
  /\ \A f \in Fds : pmap[f] # NoChannel =>
       LET c == pmap[f] IN
       /\ fd[c] = f
       /\ pidx[c] \in 0..Len(pollfds) - 1
       /\ pollfds[pidx[c] + 1] =
            [fd |-> IF events[c] = {} THEN -f - 1 ELSE f, events |-> events[c]]

(* EPollPoller can never hand back a channel that is not in its channel   *)
(* map (the assert of register_active_channels; under NDEBUG, a pointer to *)
(* a channel its owner may already have freed): every entry of the epoll  *)
(* set, whose data.ptr poll() returns, is a live channel of the map on its *)
(* own fd, however removals, fd reuse and re-registration interleave.      *)
NoStaleEvent ==
  \A f \in Fds : kernel[f] # NoChannel =>
    LET c == kernel[f] IN life[c] = "live" /\ fd[c] = f /\ emap[f] = c

(* Each backend implements the Poller contract of PollerSpec: channels in *)
(* its map are the registered ones, and poll() hands back only registered  *)
(* channels that watch some event.                                          *)
RegisteredIn(map) == {c \in Channels : life[c] # "unborn" /\ map[fd[c]] = c}
PS == INSTANCE PollerSpec WITH interest <- events,
        registered <- RegisteredIn(pmap), ready <- pready
ES == INSTANCE PollerSpec WITH interest <- events,
        registered <- RegisteredIn(emap), ready <- eready

PollImplementsPollerSpec == PS!Spec
EPollImplementsPollerSpec == ES!Spec

=============================================================================

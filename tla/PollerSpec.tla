------------------------------ MODULE PollerSpec ------------------------------
(***************************************************************************)
(* What a Poller promises its Reactor (src/flute/net/Poller.h): a channel *)
(* is registered by update_channel and forgotten by remove_channel, which *)
(* is only called once the channel watches no event; poll() hands back     *)
(* ready channels, and only registered channels that watch some event.    *)
(***************************************************************************)
CONSTANTS Channels

Events == {"read", "write"}

VARIABLES
  interest,    \* the channel's concerned events, as the poller last saw them
  registered,  \* the channels of the poller's channel map
  ready        \* the channels handed back by the last poll()

Watched == {c \in registered : interest[c] # {}}

Init ==
  /\ interest = [c \in Channels |-> {}]
  /\ registered = {}
  /\ ready = {}

UpdateChannel(c) ==
  /\ interest' \in {[interest EXCEPT ![c] = ev] : ev \in SUBSET Events}
  /\ registered' = registered \cup {c}
  /\ UNCHANGED ready

RemoveChannel(c) ==
  /\ c \in registered /\ interest[c] = {}
  /\ registered' = registered \ {c}
  /\ UNCHANGED <<interest, ready>>

Poll ==
  /\ ready' \in SUBSET Watched
  /\ UNCHANGED <<interest, registered>>

Next == \/ \E c \in Channels : UpdateChannel(c) \/ RemoveChannel(c)
        \/ Poll

Spec == Init /\ [][Next]_<<interest, registered, ready>>
=============================================================================

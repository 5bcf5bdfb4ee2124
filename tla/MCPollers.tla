------------------------------ MODULE MCPollers ------------------------------
(* Three channels over two fd numbers, so that a closed channel's fd is    *)
(* reused by a later one while another channel is still registered.       *)
EXTENDS Pollers

CONSTANTS c1, c2, c3
MCChannels == {c1, c2, c3}
MCFds == {0, 1}
=============================================================================

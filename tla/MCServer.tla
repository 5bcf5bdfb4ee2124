------------------------------ MODULE MCServer ------------------------------
(* Three peers, a pool of 0 or 2 workers chosen at start-up, and an fd      *)
(* limit that lets two connections be open at once besides the reserve.    *)
EXTENDS Server

MCPoolSizes == {0, 2}
=============================================================================

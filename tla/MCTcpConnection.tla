--------------------------- MODULE MCTcpConnection ---------------------------
(* Small instances of TcpConnection for TLC.                               *)
EXTENDS TcpConnection

\* Three requests: a second pipelined request meets the first one's file,
\* and a keep-alive connection serves responses of every kind in turn.
MCMaxRequests == 3
\* Two requests when a user thread makes five calls: each call still meets a
\* connection with a response, a file or a close in progress.
MCMaxRequestsUser == 2
\* A two-byte file and chunks of two bytes: a file fits one chunk, and a
\* socket that takes one byte of it leaves the rest for the next writable
\* event.
MCFileUnits == 3
MCChunkSize == 2
\* Two failures abort the copier, as kMaxTrial = 100 failures do.
MCMaxTrial == 2
\* Only the loop thread calls into the connection (HttpServer alone).
MCNoUserOps == {}
\* A user thread calls every operation from outside the loop.
MCAllUserOps == AllUserOps
\* A user thread calls every operation but start_read and stop_read.
MCCloseUserOps == AllUserOps \ {"start_read", "stop_read"}
\* A user thread turns reading off and on (flow control).
MCReadOps == {"start_read", "stop_read"}
\* A user thread calls one operation from outside the loop.
MCSendOp == {"send"}
MCShutdownOp == {"shutdown"}
MCForceCloseOp == {"force_close"}
=============================================================================

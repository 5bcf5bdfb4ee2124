------------------------------ MODULE ZeroCopier ------------------------------
(***************************************************************************)
(* ZeroCopier::send_one_chunk (src/flute/common/ZeroCopier.cc) and its    *)
(* three copy modes, as functions of the copier.  A file is bytes 1..size; *)
(* a copier is                                                             *)
(*   req    the response it belongs to (0: no copier),                     *)
(*   off    m_offset, the bytes the copier counts as sent,                 *)
(*   pos    the file position of m_source_fd, which only ::read moves      *)
(*          (sendfile is given &m_offset and mmap an explicit offset),     *)
(*   total  m_total_bytes,                                                 *)
(*   fails  m_failure_counter.                                             *)
(* The socket is writable (it accepts `room` > 0 bytes) unless its write   *)
(* side is shut, when every send fails.  A chunk's result is the new       *)
(* copier and the file bytes put on the socket, in order.                  *)
(***************************************************************************)
EXTENDS Integers, Sequences

CONSTANTS
  ChunkSize,  \* ZeroCopier::g_chunk_size
  CopyMode,   \* ZeroCopier::g_copy_mode
  MaxTrial    \* ZeroCopier::kMaxTrial

CopyModes == {"kZeroCopy", "kMMap", "kReadWrite"}

ASSUME ChunkSize \in Nat \ {0} /\ CopyMode \in CopyModes /\ MaxTrial \in Nat \ {0}

NoCopier == [req |-> 0, off |-> 0, pos |-> 0, total |-> 0, fails |-> 0]

(* The constructor opens the file at position 0 and stats its size.       *)
NewCopier(r, size) == [req |-> r, off |-> 0, pos |-> 0, total |-> size, fails |-> 0]

Lesser(a, b) == IF a < b THEN a ELSE b

(* remaining_bytes() and the chunk send_one_chunk asks for.               *)
Remaining(z) == z.total - z.off
BytesToSend(z) == Lesser(ChunkSize, Remaining(z))

(* Bytes first+1 .. first+n of the file.                                   *)
Bytes(first, n) == [i \in 1..n |-> first + i]

\* Mutant: m_offset advances by the whole chunk, whatever the socket took.
SendFromOffsetWholeChunk(z, writable, room) ==
  LET n == Lesser(room, BytesToSend(z))
  IN IF writable
       THEN [ret |-> n, z |-> [z EXCEPT !.off = @ + BytesToSend(z)],
             bytes |-> Bytes(z.off, n)]
       ELSE [ret |-> -1, z |-> z, bytes |-> <<>>]

(* send_one_chunk_zerocopy and send_one_chunk_mmap: sendfile, or send of   *)
(* the mapped pages, from m_offset, which advances by what the socket      *)
(* took; -1 on a shut socket.                                              *)
SendFromOffset(z, writable, room) ==
  LET n == Lesser(room, BytesToSend(z))
  IN IF writable
       THEN [ret |-> n, z |-> [z EXCEPT !.off = @ + n], bytes |-> Bytes(z.off, n)]
       ELSE [ret |-> -1, z |-> z, bytes |-> <<>>]

(* send_one_chunk_rw: ::read up to the chunk from the fd's own position   *)
(* into the static buffer, then write what was read; m_offset advances by  *)
(* what write took, the fd position by what read returned.  At end of file *)
(* read returns 0 and write(fd, buf, 0) returns 0.                         *)
SendReadWrite(z, writable, room) ==
  LET nread == Lesser(BytesToSend(z), z.total - z.pos)
      nsent == Lesser(room, nread)
      z1 == [z EXCEPT !.pos = @ + nread]
  IN IF writable
       THEN [ret |-> nsent, z |-> [z1 EXCEPT !.off = @ + nsent],
             bytes |-> Bytes(z.pos, nsent)]
       ELSE [ret |-> -1, z |-> z1, bytes |-> <<>>]

(* The copy mode's send of one chunk.                                      *)
SendByMode(z, writable, room) ==
  IF CopyMode = "kReadWrite" THEN SendReadWrite(z, writable, room)
                             ELSE SendFromOffset(z, writable, room)

(* ZeroCopier::mark_abort: "lie to the caller that it has finished".       *)
MarkAbort(z) == [z EXCEPT !.off = 0, !.total = 0]

(* ZeroCopier::send_one_chunk: nothing left is a no-op; a failed send      *)
(* counts, and kMaxTrial failures in a row abort the copier; any other     *)
(* result, 0 included, resets the counter.  The copier is valid and        *)
(* started (enable_zero_copy sets the target fd and calls start).          *)
SendOneChunk(z, writable, room) ==
  IF Remaining(z) <= 0 THEN [z |-> z, bytes |-> <<>>]
  ELSE LET r == SendByMode(z, writable, room)
       IN  IF r.ret < 0
             THEN IF r.z.fails + 1 >= MaxTrial
                    THEN [z |-> MarkAbort([r.z EXCEPT !.fails = @ + 1]), bytes |-> <<>>]
                    ELSE [z |-> [r.z EXCEPT !.fails = @ + 1], bytes |-> <<>>]
             ELSE [z |-> [r.z EXCEPT !.fails = 0], bytes |-> r.bytes]

=============================================================================

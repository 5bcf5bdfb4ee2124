-------------------------------- MODULE Buffer --------------------------------
(***************************************************************************)
(* Buffer (src/flute/net/Buffer.h, Buffer.cc): a vector of bytes with a    *)
(* read index and a write index,                                           *)
(*   prependable [0, m_read_idx) | content [m_read_idx, m_write_idx) |     *)
(*   writable [m_write_idx, size).                                         *)
(* Each action is one public call with its arguments drawn from small      *)
(* sets; the asserts of the code are the guards (the callers' duty).  The *)
(* vector is `buf`, 1-based, so byte i of the C++ vector is buf[i+1].      *)
(* Bytes are CR and LF (what the searches tell apart), plus the zero that *)
(* vector::resize fills in.                                                *)
(***************************************************************************)
EXTENDS Integers, Sequences, SequencesExt

CONSTANTS
  CheapPrepend,  \* kCheapPrepend
  InitialSize,   \* kInitialSize
  ExtraSize,     \* sizeof(extrabuf) in read_all_from
  MaxContent,    \* bound on the readable bytes
  MaxLen,        \* bound on the bytes of one call
  CR, LF, Zero

Chars == {CR, LF}
Bytes == Chars \cup {Zero}

VARIABLES
  buf,   \* m_buffer
  ridx,  \* m_read_idx
  widx,  \* m_write_idx
  call   \* the last call and its argument (for the refinement)

vars == <<buf, ridx, widx, call>>

ContentLen(r, w) == w - r             \* content_bytes_len
WritableLen(b, w) == Len(b) - w       \* writable_bytes_len

(* The readable bytes.                                                      *)
Content == SubSeq(buf, ridx + 1, widx)

(* vector::resize to n bytes, zero-filled.                                  *)
Resize(b, n) == [i \in 1..n |-> IF i <= Len(b) THEN b[i] ELSE Zero]

(* std::copy(d, d + len(d), begin() + at).                                  *)
CopyTo(b, at, d) ==
  [i \in 1..Len(b) |-> IF at < i /\ i <= at + Len(d) THEN d[i - at] ELSE b[i]]

(* A Buffer as a value: the vector and its two indexes.                     *)
B(b, r, w) == [buf |-> b, r |-> r, w |-> w]

\* Mutant: the move copies from one byte before the content.
MakeSpaceCopyOffByOne(s, len) ==
  IF WritableLen(s.buf, s.w) + s.r < len + CheapPrepend
    THEN B(Resize(s.buf, s.w + len), s.r, s.w)
    ELSE B(CopyTo(s.buf, CheapPrepend, SubSeq(s.buf, s.r, s.w - 1)),
           CheapPrepend, CheapPrepend + ContentLen(s.r, s.w))

(* make_space: grow the vector to m_write_idx + len when the free bytes at *)
(* both ends, less kCheapPrepend, are too few; else move the content back  *)
(* to kCheapPrepend.                                                        *)
MakeSpace(s, len) ==
  IF WritableLen(s.buf, s.w) + s.r < len + CheapPrepend
    THEN B(Resize(s.buf, s.w + len), s.r, s.w)
    ELSE B(CopyTo(s.buf, CheapPrepend, SubSeq(s.buf, s.r + 1, s.w)),
           CheapPrepend, CheapPrepend + ContentLen(s.r, s.w))

(* ensure_writable_len.                                                     *)
EnsureWritable(s, len) ==
  IF WritableLen(s.buf, s.w) < len THEN MakeSpace(s, len) ELSE s

(* append(data, len): ensure_writable_len, copy, mark_written.              *)
AppendTo(s, d) ==
  LET e == EnsureWritable(s, Len(d))
  IN  B(CopyTo(e.buf, e.w, d), e.r, e.w + Len(d))

Now == B(buf, ridx, widx)

SetTo(s) == buf' = s.buf /\ ridx' = s.r /\ widx' = s.w

(* Data of one call: 1..MaxLen bytes, keeping the content within bound.     *)
Data(max) == {d \in SeqOf(Chars, max) : d # <<>>}
Room == MaxContent - ContentLen(ridx, widx)

-----------------------------------------------------------------------------
(* The calls.                                                               *)

append ==
  \E d \in Data(MaxLen) :
    /\ Len(d) <= Room
    /\ SetTo(AppendTo(Now, d))
    /\ call' = [op |-> "append", data |-> d]

(* retrieve(len): advance the read index, or retrieve_all when everything *)
(* is read, which puts both indexes back to kCheapPrepend.                  *)
Retrieve(len) ==
  /\ len <= ContentLen(ridx, widx)
  /\ IF len < ContentLen(ridx, widx)
       THEN /\ ridx' = ridx + len
            /\ UNCHANGED <<buf, widx>>
       ELSE /\ ridx' = CheapPrepend /\ widx' = CheapPrepend
            /\ UNCHANGED buf
  /\ call' = [op |-> "retrieve", len |-> len]

(* retrieve, retrieve_until, retrieve_intN and readout_as_string: the     *)
(* caller names how many bytes go.                                          *)
retrieve == \E len \in 0..MaxLen : Retrieve(len)

(* readout_int64/32/16/8_host: peek_intN_host asserts that sizeof(intN)    *)
(* bytes are readable and copies them out in host order (the value goes to *)
(* the caller), then retrieve_intN retrieves them.                          *)
IntWidths == {8, 4, 2, 1}
readout == \E n \in IntWidths : Retrieve(n)

\* Mutant: unwrite without its assert (a build with NDEBUG).
UnwriteUnchecked ==
  \E len \in 1..MaxLen :
    /\ widx' = widx - len
    /\ UNCHANGED <<buf, ridx>>
    /\ call' = [op |-> "unwrite", len |-> len]

unwrite ==
  \E len \in 1..MaxLen :
    /\ len <= ContentLen(ridx, widx)
    /\ widx' = widx - len
    /\ UNCHANGED <<buf, ridx>>
    /\ call' = [op |-> "unwrite", len |-> len]

(* prepend: into the prependable bytes, moving the read index back.         *)
prepend ==
  \E d \in Data(MaxLen) :
    /\ Len(d) <= ridx /\ Len(d) <= Room
    /\ ridx' = ridx - Len(d)
    /\ buf' = CopyTo(buf, ridx - Len(d), d)
    /\ UNCHANGED widx
    /\ call' = [op |-> "prepend", data |-> d]

(* shrink(reserve): a fresh Buffer made room for the content and reserve, *)
(* the content appended, then swapped in.                                   *)
shrink ==
  \E reserve \in 0..1 :
    LET fresh == B([i \in 1..CheapPrepend + InitialSize |-> Zero],
                   CheapPrepend, CheapPrepend)
        other == EnsureWritable(fresh, ContentLen(ridx, widx) + reserve)
    IN  /\ SetTo(AppendTo(other, Content))
        /\ call' = [op |-> "shrink"]

\* Mutant: the bytes beyond the writable space are not taken from extrabuf.
ReadAllFromNoSplit ==
  LET writable == WritableLen(buf, widx)
      iovmax == writable + (IF writable < ExtraSize THEN ExtraSize ELSE 0)
  IN  \E d \in Data(iovmax) :
        /\ Len(d) <= Room
        /\ buf' = CopyTo(buf, widx, d)
        /\ widx' = widx + Len(d)
        /\ UNCHANGED ridx
        /\ call' = [op |-> "append", data |-> d]

(* read_all_from: readv into the writable bytes and, when they are fewer   *)
(* than sizeof(extrabuf), into extrabuf too; bytes that landed in extrabuf *)
(* are appended after setting m_write_idx to the vector's size.  The peer  *)
(* sends any bytes; a failed or empty read changes nothing.                 *)
read_all_from ==
  LET writable == WritableLen(buf, widx)
      iovmax == writable + (IF writable < ExtraSize THEN ExtraSize ELSE 0)
  IN  \E d \in Data(iovmax) :
        /\ Len(d) <= Room
        /\ IF Len(d) <= writable
             THEN /\ buf' = CopyTo(buf, widx, d)
                  /\ widx' = widx + Len(d)
                  /\ UNCHANGED ridx
             ELSE SetTo(AppendTo(B(CopyTo(buf, widx, SubSeq(d, 1, writable)),
                                   ridx, Len(buf)),
                                 SubSeq(d, writable + 1, Len(d))))
        /\ call' = [op |-> "append", data |-> d]

-----------------------------------------------------------------------------
(* Searches over the content.                                               *)

\* Mutant: the search for "\r\n" runs one byte past the content.
FindCRLFPastEnd(b, r, w) ==
  LET RECURSIVE Scan(_)
      Scan(i) == IF i + 1 > w THEN -1
                 ELSE IF b[i + 1] = CR /\ i + 2 <= Len(b) /\ b[i + 2] = LF
                        THEN i ELSE Scan(i + 1)
  IN  Scan(r)

(* find_CRLF: std::search for "\r\n" in [peek_base, write_base); the       *)
(* position of the CR in the vector, or -1 for NULL.                        *)
FindCRLF(b, r, w) ==
  LET RECURSIVE Scan(_)
      Scan(i) == IF i + 2 > w THEN -1
                 ELSE IF b[i + 1] = CR /\ b[i + 2] = LF THEN i ELSE Scan(i + 1)
  IN  Scan(r)

(* find_EOL: memchr for '\n' over the content; -1 for NULL.                 *)
FindEOL(b, r, w) ==
  LET RECURSIVE Scan(_)
      Scan(i) == IF i >= w THEN -1
                 ELSE IF b[i + 1] = LF THEN i ELSE Scan(i + 1)
  IN  Scan(r)

-----------------------------------------------------------------------------
(* Buffer(kInitialSize).                                                    *)
Init ==
  /\ buf = [i \in 1..CheapPrepend + InitialSize |-> Zero]
  /\ ridx = CheapPrepend /\ widx = CheapPrepend
  /\ call = [op |-> "none"]

Next ==
  \/ append \/ retrieve \/ readout \/ unwrite \/ prepend \/ shrink
  \/ read_all_from

Spec == Init /\ [][Next]_vars

-----------------------------------------------------------------------------
(* Properties.                                                              *)

BQ == INSTANCE ByteQueue WITH content <- Content

TypeOK ==
  /\ buf \in Seq(Bytes)
  /\ ridx \in Nat /\ widx \in Nat
  /\ call \in BQ!Calls

(* The class invariant of Buffer.h: 0 <= reader_idx <= writerIndex <= size *)
(* after any sequence of calls, including reads that spill into extrabuf   *)
(* and prepends that take the read index below kCheapPrepend.              *)
IndexOrder == ridx <= widx /\ widx <= Len(buf)

(* find_CRLF and find_EOL answer as the reference searches over the        *)
(* content do: the first "\r\n" and the first '\n', or none.               *)
CRLFAt(c) ==
  IF <<CR, LF>> \in SubSeqs(c) THEN IndexFirstSubSeq(<<CR, LF>>, c) ELSE 0
SearchesAgree ==
  /\ FindCRLF(buf, ridx, widx) = IF CRLFAt(Content) = 0 THEN -1
                                 ELSE ridx + CRLFAt(Content) - 1
  /\ FindEOL(buf, ridx, widx) =
       LET k == SelectInSeq(Content, LAMBDA x : x = LF)
       IN  IF k = 0 THEN -1 ELSE ridx + k - 1

(* Buffer implements ByteQueue: under the mapping content = the bytes      *)
(* between the two indexes, every call changes the readable bytes exactly *)
(* as its contract says, however make_space, shrink and the extrabuf path  *)
(* move them in the vector.                                                 *)
ImplementsByteQueue == BQ!Spec
=============================================================================

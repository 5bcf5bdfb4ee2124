------------------------------ MODULE ByteQueue ------------------------------
(***************************************************************************)
(* What a Buffer (src/flute/net/Buffer.h) promises its user: a sequence of *)
(* readable bytes, extended at the back by append and read_all_from,       *)
(* consumed at the front by retrieve, extended at the front by prepend and *)
(* shortened at the back by unwrite; shrink and the space management       *)
(* behind them leave it as it is.  `call` is the last call and its         *)
(* argument, so each step is checked against the operation that made it.   *)
(***************************************************************************)
EXTENDS Naturals, Sequences

CONSTANT Chars

VARIABLES content, call

Calls ==
  [op : {"none", "shrink"}] \cup [op : {"append", "prepend"}, data : Seq(Chars)]
    \cup [op : {"retrieve", "unwrite"}, len : Nat]

Init == content = <<>> /\ call = [op |-> "none"]

AppendBytes == call'.op = "append" /\ content' = content \o call'.data

PrependBytes == call'.op = "prepend" /\ content' = call'.data \o content

RetrieveBytes ==
  /\ call'.op = "retrieve" /\ call'.len <= Len(content)
  /\ content' = SubSeq(content, call'.len + 1, Len(content))

UnwriteBytes ==
  /\ call'.op = "unwrite" /\ call'.len <= Len(content)
  /\ content' = SubSeq(content, 1, Len(content) - call'.len)

KeepBytes == call'.op = "shrink" /\ content' = content

Next == call' \in Calls /\ (AppendBytes \/ PrependBytes \/ RetrieveBytes \/ UnwriteBytes
                        \/ KeepBytes)

Spec == Init /\ [][Next]_<<content, call>>
=============================================================================

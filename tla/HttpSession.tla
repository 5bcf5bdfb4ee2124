----------------------------- MODULE HttpSession -----------------------------
(***************************************************************************)
(* HttpServer's message callback on one connection: the bytes of a peer's  *)
(* requests arrive in reads split anywhere, TcpConnection's readable       *)
(* handler appends each read to m_input_buffer and calls                   *)
(* HttpServer::default_on_request, which runs HttpContext::parse_request   *)
(* (src/flute/net/http/HttpContext.cc) only when the buffer ends with an   *)
(* empty line, answers a bad request with 400 and shutdown, and a complete *)
(* one with on_good_request and HttpContext::reset.                        *)
(*                                                                         *)
(* Bytes are tokens: CR, LF, and one token for the content of a line: a    *)
(* request line ("R11", "R10": valid HTTP/1.1 or 1.0; "Rx": one that       *)
(* process_request_line rejects) or a header line with its colon ("H", or *)
(* "Hclose" and "Hkeep" for the Connection header).  No content token     *)
(* holds CR or LF, so find_CRLF finds the same line ends as on the bytes.  *)
(***************************************************************************)
EXTENDS Naturals, Sequences, SequencesExt

CONSTANTS
  MaxRequests,  \* requests the peer sends
  Kinds,        \* the requests it may send: [line, hdr] records
  Pipelining    \* may it send a request before the previous one is answered?

CR == "CR"
LF == "LF"
LineTokens == {"R11", "R10", "Rx"}
HeaderTokens == {"H", "Hclose", "Hkeep"}
NoHeader == "none"

ASSUME /\ MaxRequests \in Nat \ {0}
       /\ Kinds \subseteq [line : LineTokens, hdr : HeaderTokens \cup {NoHeader}]
       /\ Pipelining \in BOOLEAN

(* The bytes of a request: request line, at most one header, empty line.  *)
Encode(k) ==
  <<k.line, CR, LF>>
  \o (IF k.hdr = NoHeader THEN <<>> ELSE <<k.hdr, CR, LF>>)
  \o <<CR, LF>>

VARIABLES
  reqs,     \* the requests the peer has begun to send, in order
  pending,  \* the bytes of the last one it has not sent yet
  sock,     \* bytes in the socket not yet read
  buf,      \* TcpConnection::m_input_buffer
  pstate,   \* HttpContext::m_state
  preq,     \* HttpContext::m_request: version and Connection header parsed
  conn,     \* m_conn_state: "Connected", or "Disconnecting" after shutdown()
  resps     \* responses send_buffer accepted, in order

vars == <<reqs, pending, sock, buf, pstate, preq, conn, resps>>

ParseStates == {"kExpectRequestLine", "kExpectHeaders", "kExpectBody", "kGotAll"}
(* HttpRequest(): no version, no headers.                                   *)
EmptyRequest == [version |-> "unknown", conn_hdr |-> ""]
Responses == {"200", "404", "400"}

-----------------------------------------------------------------------------
(* Buffer::find_CRLF: the index of the first CR followed by LF, 0 if none. *)
FindCRLF(b) ==
  SelectInSeq([i \in 1..Len(b) - 1 |-> <<b[i], b[i + 1]>>],
              LAMBDA p : p = <<CR, LF>>)

(* Buffer::retrieve_until(crlf + 2).                                       *)
RetrieveLine(b, i) == SubSeq(b, i + 2, Len(b))

(* process_request_line: method, path, then exactly "HTTP/1." and a        *)
(* version digit of 1 or 0; anything else fails.                           *)
ProcessRequestLine(content) ==
  CASE content = <<"R11">> -> "kHttp11"
    [] content = <<"R10">> -> "kHttp10"
    [] OTHER               -> "fail"

(* HttpRequest::add_header keeps the header; only Connection matters.      *)
AddHeader(r, tok) ==
  CASE tok = "Hclose" -> [r EXCEPT !.conn_hdr = "close"]
    [] tok = "Hkeep"  -> [r EXCEPT !.conn_hdr = "Keep-Alive"]
    [] OTHER          -> r

\* Mutant: a header line ends the loop (has_more = false after add_header).
RECURSIVE ParseLoopOneHeader(_)
ParseLoopOneHeader(c) ==
  LET i == FindCRLF(c.buf)
  IN CASE c.state = "kGotAll" -> [c EXCEPT !.ok = FALSE]
       [] i = 0 -> c
       [] c.state = "kExpectRequestLine" ->
            LET v == ProcessRequestLine(SubSeq(c.buf, 1, i - 1))
            IN IF v = "fail" THEN [c EXCEPT !.ok = FALSE]
               ELSE ParseLoopOneHeader([c EXCEPT !.ok = TRUE, !.req.version = v,
                                          !.buf = RetrieveLine(c.buf, i),
                                          !.state = "kExpectHeaders"])
       [] c.state = "kExpectHeaders" /\ i > 1 ->
            [c EXCEPT !.req = AddHeader(c.req, c.buf[1]),
                      !.buf = RetrieveLine(c.buf, i)]
       [] OTHER ->
            [c EXCEPT !.state = "kGotAll", !.buf = RetrieveLine(c.buf, i)]

(* The while (has_more) loop of parse_request over c = [state, req, buf,  *)
(* ok].  A request line is processed and consumed; a failure stops with    *)
(* ok false and the line left in the buffer.  A line with a colon is a     *)
(* header; the empty line ends the request with kGotAll.  No CRLF left     *)
(* stops the loop.  kGotAll returns false.  (kExpectBody is never set.)    *)
RECURSIVE ParseLoop(_)
ParseLoop(c) ==
  LET i == FindCRLF(c.buf)
  IN CASE c.state = "kGotAll" -> [c EXCEPT !.ok = FALSE]
       [] i = 0 -> c
       [] c.state = "kExpectRequestLine" ->
            LET v == ProcessRequestLine(SubSeq(c.buf, 1, i - 1))
            IN IF v = "fail" THEN [c EXCEPT !.ok = FALSE]
               ELSE ParseLoop([c EXCEPT !.ok = TRUE, !.req.version = v,
                                        !.buf = RetrieveLine(c.buf, i),
                                        !.state = "kExpectHeaders"])
       [] c.state = "kExpectHeaders" /\ i > 1 ->
            ParseLoop([c EXCEPT !.req = AddHeader(c.req, c.buf[1]),
                                !.buf = RetrieveLine(c.buf, i)])
       [] OTHER ->
            [c EXCEPT !.state = "kGotAll", !.buf = RetrieveLine(c.buf, i)]

(* parse_request: ok starts false, so it is true only if this call        *)
(* processed a request line.                                               *)
ParseRequest(b) ==
  ParseLoop([state |-> pstate, req |-> preq, buf |-> b, ok |-> FALSE])

\* Mutant: the completeness check looks at the last two bytes only.
EndsWithBlankLineTwoBytes(b) == IsSuffix(<<CR, LF>>, b)

(* peek_last_as_string(4) != "\r\n\r\n": the request is incomplete.       *)
EndsWithBlankLine(b) == IsSuffix(<<CR, LF, CR, LF>>, b)

\* Mutant: shutdown() stores kDisconnected, as force_close's handle_close would.
ShutdownDisconnects(c) == IF c = "Connected" THEN "Disconnected" ELSE c

(* TcpConnection::send_buffer appends only when kConnected; shutdown()    *)
(* moves kConnected to kDisconnecting (its shutdown_in_reactor is          *)
(* TcpConnection's).                                                       *)
SendBuffer(rs, c, r) == IF c = "Connected" THEN Append(rs, r) ELSE rs
Shutdown(c) == IF c = "Connected" THEN "Disconnecting" ELSE c

(* The response callback of the HttpServer test (generate_response): a   *)
(* page that exists is 200, any other path 404 with set_close_conn(true).  *)
ResponseCallback(notFound) ==
  [code |-> IF notFound THEN "404" ELSE "200", close |-> notFound]

(* detail::dummy_404_callback, m_response_callback of an HttpServer that  *)
(* was never given one: 404 Not Found with set_close_conn(true).           *)
Dummy404Callback == [code |-> "404", close |-> TRUE]

(* What m_response_callback may make of a request.                         *)
CallbackResponses == {Dummy404Callback} \cup {ResponseCallback(nf) : nf \in BOOLEAN}

(* on_good_request: HttpResponse(close) with close on "Connection: close", *)
(* or HTTP/1.0 without Keep-Alive; the callback may set close as well;     *)
(* send_buffer, then shutdown if the response will_close.                  *)
OnGoodRequest(rs, c, r, resp) ==
  LET close == r.conn_hdr = "close"
               \/ (r.version = "kHttp10" /\ r.conn_hdr # "Keep-Alive")
  IN [resps |-> SendBuffer(rs, c, resp.code),
      conn |-> IF close \/ resp.close THEN Shutdown(c) ELSE c]

-----------------------------------------------------------------------------
(* HttpContext::reset: back to kExpectRequestLine with a fresh request.   *)
Reset == [state |-> "kExpectRequestLine", req |-> EmptyRequest]

(* on_connection gives a connected connection a new HttpContext, whose     *)
(* state is kExpectRequestLine.                                            *)
Init ==
  /\ reqs = <<>> /\ pending = <<>> /\ sock = <<>> /\ buf = <<>>
  /\ pstate = "kExpectRequestLine" /\ preq = EmptyRequest
  /\ conn = "Connected" /\ resps = <<>>

(* The peer begins a request: a pipelining client at any time, another    *)
(* one once every earlier request is answered.                             *)
peer_begin ==
  /\ pending = <<>> /\ Len(reqs) < MaxRequests
  /\ Pipelining \/ Len(resps) = Len(reqs)
  /\ \E k \in Kinds : /\ reqs' = Append(reqs, k)
                      /\ pending' = Encode(k)
  /\ UNCHANGED <<sock, buf, pstate, preq, conn, resps>>

(* The peer writes the next n bytes of its request.                        *)
peer_send ==
  /\ pending # <<>>
  /\ \E n \in 1..Len(pending) :
       /\ sock' = sock \o SubSeq(pending, 1, n)
       /\ pending' = SubSeq(pending, n + 1, Len(pending))
  /\ UNCHANGED <<reqs, buf, pstate, preq, conn, resps>>

(* handle_socket_readable: read_all_from takes every byte in the socket   *)
(* into m_input_buffer, and default_on_request runs: nothing unless the    *)
(* buffer ends with an empty line; a false parse_request sends the 400     *)
(* response and shuts down; then a kGotAll context goes to on_good_request *)
(* and HttpContext::reset.                                                 *)
handle_read ==
  /\ sock # <<>>
  /\ sock' = <<>>
  /\ LET b == buf \o sock
         p == ParseRequest(b)
         rs1 == IF p.ok THEN resps ELSE SendBuffer(resps, conn, "400")
         c1 == IF p.ok THEN conn ELSE Shutdown(conn)
     IN IF ~EndsWithBlankLine(b)
          THEN /\ buf' = b
               /\ UNCHANGED <<pstate, preq, conn, resps>>
          ELSE /\ buf' = p.buf
               /\ IF p.state = "kGotAll"
                    THEN /\ \E resp \in CallbackResponses :
                              LET g == OnGoodRequest(rs1, c1, p.req, resp)
                              IN /\ resps' = g.resps
                                 /\ conn' = g.conn
                         /\ pstate' = Reset.state
                         /\ preq' = Reset.req
                    ELSE /\ resps' = rs1 /\ conn' = c1
                         /\ pstate' = p.state /\ preq' = p.req
  /\ UNCHANGED <<reqs, pending>>

Next == peer_begin \/ peer_send \/ handle_read

(* The loop thread runs the readable handler of a socket with bytes; the  *)
(* peer is not obliged to send.                                            *)
Spec == Init /\ [][Next]_vars /\ WF_vars(handle_read)

-----------------------------------------------------------------------------
(* Properties.                                                             *)

TypeOK ==
  /\ reqs \in Seq(Kinds) /\ Len(reqs) <= MaxRequests
  /\ pending \in Seq(LineTokens \cup HeaderTokens \cup {CR, LF})
  /\ sock \in Seq(LineTokens \cup HeaderTokens \cup {CR, LF})
  /\ buf \in Seq(LineTokens \cup HeaderTokens \cup {CR, LF})
  /\ pstate \in ParseStates
  /\ preq \in [version : {"unknown", "kHttp11", "kHttp10"},
               conn_hdr : {"", "close", "Keep-Alive"}]
  /\ conn \in {"Connected", "Disconnecting"}
  /\ resps \in Seq(Responses)

(* The response a request deserves: 400 for a request line that fails,    *)
(* else what the response callback chooses.                                *)
Deserves(k) == IF k.line = "Rx" THEN {"400"} ELSE {"200", "404"}

(* The i-th response sent answers the i-th request, however its bytes     *)
(* were split across reads: the empty-line check of default_on_request     *)
(* keeps parse_request from starting on a partial request, where its ok,   *)
(* false on entry, would send a 400 and a 200 for one good request.        *)
ResponsesFollowRequests ==
  /\ Len(resps) <= Len(reqs)
  /\ \A i \in 1..Len(resps) : resps[i] \in Deserves(reqs[i])

(* A peer that has sent every byte of its requests, once the loop has   *)
(* read them all, has an answer to each, unless the connection was shut    *)
(* down (by a 400, a close or a 404).  The "ONGOING BUG" comment of        *)
(* default_on_request asks what happens to a request split across reads;   *)
(* a request left in m_input_buffer with nothing more to read would wait   *)
(* for ever.                                                               *)
AnsweredWhenIdle ==
  (pending = <<>> /\ sock = <<>>)
    => (Len(resps) = Len(reqs) \/ conn = "Disconnecting")

=============================================================================

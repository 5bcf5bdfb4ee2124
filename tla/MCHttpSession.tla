---------------------------- MODULE MCHttpSession ----------------------------
(* Small instances of HttpSession for TLC.                                 *)
EXTENDS HttpSession

\* Three requests: a keep-alive connection answers two and meets a third.
MCMaxRequests == 3
\* A keep-alive HTTP/1.1 request with a header, one asking to close, an
\* HTTP/1.0 request without a header (which closes), and a request line
\* that process_request_line rejects.
MCKinds == {[line |-> "R11", hdr |-> "H"], [line |-> "R11", hdr |-> "Hclose"],
            [line |-> "R10", hdr |-> NoHeader], [line |-> "Rx", hdr |-> NoHeader]}
=============================================================================

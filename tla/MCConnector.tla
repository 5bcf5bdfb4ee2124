----------------------------- MODULE MCConnector -----------------------------
(* Connector and TcpClient with delays 1 and 4 standing for                *)
(* kInitRetryDelayMs (500) and kMaxRetryDelayMs (30000): the delay reaches *)
(* the cap after two doublings, so both the doubling and the cap happen.   *)
EXTENDS Connector

MCInitDelay == 1
MCMaxDelay == 4
MCMaxAttempts == 4
=============================================================================

--------------------------- MODULE MCAsyncLogging ---------------------------
EXTENDS AsyncLogging

CONSTANTS w1, w2

MCWriters == {w1, w2}
=============================================================================

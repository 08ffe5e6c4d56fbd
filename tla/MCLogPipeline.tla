--------------------------- MODULE MCLogPipeline ---------------------------
(* Two handlers, a channel and a batch of two entries: the channel overflows *)
(* while a flush is in progress, and two handlers race on p.dropped.         *)
EXTENDS LogPipeline

CONSTANTS h1, h2

MCSenders == {h1, h2}
=============================================================================

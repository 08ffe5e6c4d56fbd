------------------------ MODULE MCGracefulShutdown ------------------------
(* Two handlers, so that one query can be in progress while another logs.  *)
EXTENDS GracefulShutdown

CONSTANTS h1, h2

MCSenders == {h1, h2}
=============================================================================

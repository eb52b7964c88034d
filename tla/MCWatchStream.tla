--------------------------- MODULE MCWatchStream ---------------------------
(* WatchStream needs no definition besides its bound.                        *)
EXTENDS WatchStream
=============================================================================

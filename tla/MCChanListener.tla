--------------------------- MODULE MCChanListener ---------------------------
(***************************************************************************)
(* TLC instance of ChanListener: three dials, and the two goroutines that  *)
(* may both close one listener.                                            *)
(***************************************************************************)
EXTENDS ChanListener

CONSTANTS d1, d2, d3, c1, c2

MCDialers == {d1, d2, d3}
MCClosers == {c1, c2}
=============================================================================

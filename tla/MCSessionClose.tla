--------------------------- MODULE MCSessionClose ---------------------------
(* TLC instance of SessionClose: two kinds of events before session.close, *)
(* enough for an edit to change a kind and for lines to be removed from    *)
(* the middle of a chain.                                                  *)
EXTENDS SessionClose
=============================================================================

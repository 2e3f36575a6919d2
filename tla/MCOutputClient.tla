--------------------------- MODULE MCOutputClient ---------------------------
(* Three goroutines against a limit of two permits.                         *)
EXTENDS OutputClient

CONSTANTS e1, e2, e3

MCEvents == {e1, e2, e3}
=============================================================================

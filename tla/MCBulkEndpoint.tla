--------------------------- MODULE MCBulkEndpoint ---------------------------
(***************************************************************************)
(* Instance of BulkEndpoint for TLC: two threads of the application.       *)
(***************************************************************************)
EXTENDS BulkEndpoint

CONSTANTS t1, t2

TwoCallers == {t1, t2}
=============================================================================

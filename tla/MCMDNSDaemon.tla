------------------------------ MODULE MCMDNSDaemon ------------------------------
(***************************************************************************)
(* Small sets of records for MDNSDaemon.                                   *)
(***************************************************************************)
EXTENDS MDNSDaemon

CONSTANTS s1, e1, e2

OneSubtype == {s1}
TwoExtras  == {e1, e2}
Twins      == {"ADV", "PTR"}
================================================================================

----------------------------- MODULE MCMDNSService -----------------------------
(***************************************************************************)
(* Small sets of records for MDNSService.                                  *)
(***************************************************************************)
EXTENDS MDNSService

CONSTANTS s1, s2, e1, e2

Subtypes == {s1, s2}
Extras2  == {e1, e2}
Twins    == {"ADV", "PTR", s1}
================================================================================

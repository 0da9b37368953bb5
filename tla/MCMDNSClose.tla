----------------------------- MODULE MCMDNSClose -----------------------------
(***************************************************************************)
(* Small sets of records for MDNSClose.                                    *)
(***************************************************************************)
EXTENDS MDNSClose, TLC

CONSTANTS r1, r2, r3

Records       == {r1, r2, r3}
NoDependence  == [r \in Records |-> NoRecord]
NoAdditional  == [r \in Records |-> {}]

\* Two clients register the same record, a third another one
TwoData       == (r1 :> 1) @@ (r2 :> 1) @@ (r3 :> 2)

\* The first is shared and the other advisory
SharedTwins   == (r1 :> "Shared") @@ (r2 :> "Shared") @@ (r3 :> "Advisory")
===============================================================================

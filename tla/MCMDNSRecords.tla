---------------------------- MODULE MCMDNSRecords ----------------------------
(***************************************************************************)
(* Small sets of records for MDNSRecords.                                  *)
(***************************************************************************)
EXTENDS MDNSRecords, TLC

CONSTANTS r1, r2, r3

Records         == {r1, r2, r3}
NoDependence    == [r \in Records |-> NoRecord]
NoAdditional    == [r \in Records |-> {}]

\* Two clients register the same record, a third another one
TwoData         == (r1 :> 1) @@ (r2 :> 1) @@ (r3 :> 2)

\* The record of the first two is the SRV record of a service, the third its
\* PTR record, which many hosts may have
ServiceKind     == (r1 :> "Unique") @@ (r2 :> "Unique") @@ (r3 :> "Shared")
===============================================================================

----------------------------- MODULE MCFlowTable -----------------------------
(***************************************************************************)
(* FlowTable on small tables.  Three flows and two slots make the table    *)
(* overflow; hashes 0, 0 and 1 make flows collide and probe sequences wrap *)
(* around the end of the table.                                            *)
(***************************************************************************)
EXTENDS FlowTable, TLC

CONSTANTS k1, k2, k3

Keys3 == {k1, k2, k3}
HashWrap == k1 :> 1 @@ k2 :> 1 @@ k3 :> 0

\* Flows k1 and k2 have the same hash, so nothing tells them apart.
SameHash == Permutations({k1, k2})
=============================================================================

-------------------------------- MODULE KeySet --------------------------------
(***************************************************************************)
(* What the wave scheduler expects of its FlowSet: a set of flow keys that *)
(* begin empties, and insert, which answers whether the key is new.        *)
(***************************************************************************)
CONSTANTS Keys, NoKey

VARIABLES members,   \* the keys inserted since the last begin
          asked,     \* the key of the last insert, NoKey after begin
          inserted   \* its answer

vars == <<members, asked, inserted>>

Init == members = {} /\ asked = NoKey /\ inserted = FALSE

Begin == members' = {} /\ asked' = NoKey /\ inserted' = FALSE

Insert(key) == /\ asked' = key
               /\ inserted' = (key \notin members)
               /\ members' = members \cup {key}

Next == Begin \/ \E key \in Keys : Insert(key)

Spec == Init /\ [][Next]_vars
=============================================================================

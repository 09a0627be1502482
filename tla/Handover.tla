------------------------------ MODULE Handover ------------------------------
(***************************************************************************)
(* What every stage of the importer promises.  Items arrive in a source    *)
(* directory; the stage derives from each item the outcomes Yield[item]    *)
(* and deletes the item.  It may do so at any time, in any order and more  *)
(* than once, but it deletes an item only when all its outcomes are kept,  *)
(* and it never gives up an outcome.                                       *)
(***************************************************************************)
EXTENDS TLAPS

CONSTANTS
    Item,   \* what arrives
    Yield   \* the outcomes of each item

VARIABLES
    arrived,  \* the items that ever arrived
    source,   \* the items that are still in the source directory
    kept      \* the outcomes that are on record

vars == <<arrived, source, kept>>

Init == arrived = {} /\ source = {} /\ kept = {}

Arrive(i) ==
    /\ arrived' = arrived \cup {i}
    /\ source' = source \cup {i}
    /\ UNCHANGED kept

Keep ==
    /\ kept \subseteq kept'
    /\ UNCHANGED <<arrived, source>>

Discard(gone) ==
    /\ \A i \in gone : Yield[i] \subseteq kept
    /\ source' = source \ gone
    /\ UNCHANGED <<arrived, kept>>

Next == Keep \/ (\E i \in Item : Arrive(i)) \/ (\E gone \in SUBSET Item : Discard(gone))

Spec == Init /\ [][Next]_vars

\* An item that arrived is still there or has all its outcomes on record.
Safe == \A i \in arrived : i \in source \/ Yield[i] \subseteq kept

\* Whoever deletes an item only after its outcomes are kept, and never gives up an outcome,
\* never loses an item that arrived.
THEOREM HandoverSafe == Spec => []Safe
<1>1. Init => Safe
  BY DEF Init, Safe
<1>2. Safe /\ [Next]_vars => Safe'
  BY DEF Safe, Next, vars, Keep, Arrive, Discard
<1> QED
  BY <1>1, <1>2, PTL DEF Spec
=============================================================================

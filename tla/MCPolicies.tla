------------------------------ MODULE MCPolicies ------------------------------
(* Small instances of PoliciesAtWork. *)
EXTENDS PoliciesAtWork

CONSTANTS k1, n1, read, write

\* A content that is no JSON can be edited into a valid one and back.
EditedSpecs ==
    [k \in Keys |-> {[name |-> n1, content |-> c] : c \in Contents \cup {NotJson}}]

=============================================================================

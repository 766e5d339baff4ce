---------------------------- MODULE MCAdapterCache ----------------------------
(***************************************************************************)
(* Instances of AdapterCache for TLC.                                      *)
(***************************************************************************)
EXTENDS AdapterCache, TLC

CONSTANTS c1, c2, p1, p2, e1, e2, crm, desktop, mcp

\* Callers of one process and editors are alike.
Alike == Permutations({p1, p2}) \cup Permutations({e1, e2})

AllDesktop == [p \in Callers |-> desktop]
OneEach == (p1 :> desktop) @@ (p2 :> mcp)
===============================================================================

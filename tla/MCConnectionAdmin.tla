-------------------------- MODULE MCConnectionAdmin --------------------------
(***************************************************************************)
(* Instances of ConnectionAdmin for TLC.                                   *)
(***************************************************************************)
EXTENDS ConnectionAdmin

CONSTANTS a, b, v, w, x, desktop, mcp

Every == {"add", "update", "delete", "move_to", "set_mark", "duplicate",
          "repair_foreign_ref", "import_bundle"}

\* The calls of the desktop application alone, and of it beside an MCP server,
\* which registers connections without a credential, marks them and moves them.
\* EditCalls mints no slot but the one of a repair.
DesktopCalls == (desktop :> Every)
EditCalls == (desktop :> {"update", "delete", "set_mark", "repair_foreign_ref",
                          "import_bundle"})
TwoCalls == (desktop :> {"add", "delete"}) @@ (mcp :> {"add", "move_to"})
SameCalls == (desktop :> {"add", "update", "delete"}) @@ (mcp :> {"add", "set_mark"})

ServedKinds == (desktop :> {"served"})
TwoKinds == (desktop :> {"keyed"}) @@ (mcp :> {"local"})

\* Bundles this program could have exported from a healthy store: every entry
\* points at slots of its own and the secrets are all there.
served(id, alias, refs) ==
    [id |-> id, kind |-> "served", alias |-> alias, mark |-> NoMark, refs |-> refs]

NoBundles == {}

\* The bundle carries the same secret for each of some slots.
carrying_value(refs, value) == [r \in Refs |-> IF r \in refs THEN value ELSE NoSecret]
carrying(refs) == carrying_value(refs, w)

\* Two connections, the second with a tunnel, the first listed twice.
three == [entries |-> <<served(a, NoAlias, minted(a, {"kind"})),
                        served(b, NoAlias, minted(b, {"kind", "ssh_password"})),
                        served(a, NoAlias, minted(a, {"kind"}))>>,
          secrets |-> carrying(minted(a, {"kind"}) \cup minted(b, {"kind", "ssh_password"}))]

OwnBundles == {three}

\* Bundles of a store whose file somebody edited by hand, so that a names the
\* slot of b, which has no tunnel.
EditedBundles ==
    {[entries |-> <<[served(b, NoAlias, minted(b, {"kind"})) EXCEPT !.kind = "keyed"]>>,
      secrets |-> carrying_value(minted(b, {"kind"}), value)] : value \in Values} \cup
    {[entries |-> <<served(a, NoAlias, minted(b, {"kind"}))>>,
      secrets |-> carrying_value(minted(b, {"kind"}), value)] : value \in Values}

\* No value is special where the bundles treat them alike.
Alike == Permutations({v, w})
===============================================================================

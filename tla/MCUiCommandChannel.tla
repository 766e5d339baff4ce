-------------------------- MODULE MCUiCommandChannel --------------------------
(***************************************************************************)
(* Instances of UiCommandChannel for TLC.                                  *)
(***************************************************************************)
EXTENDS UiCommandChannel, TLC

CONSTANTS c1, c2, c3, w1, w2

\* One agent, one call at a time; a single call; two agents at once.
OneByOne == (c1 :> {}) @@ (c2 :> {c1}) @@ (c3 :> {c1, c2})
AtOnce == (c1 :> {}) @@ (c2 :> {})
===============================================================================

---------------------------- MODULE MCPrefixStore ----------------------------
(***************************************************************************)
(* A TLC instance of PrefixStore: a conversation and two that extend it,   *)
(* looked up whole, extended and not at all.                               *)
(***************************************************************************)
EXTENDS PrefixStore

MCKeys    == {<<1>>, <<1, 2>>, <<1, 2, 3>>, <<1, 3>>}
MCQueries == {<<1>>, <<1, 2, 3>>, <<1, 2, 1>>, <<1, 3>>, <<2>>}
=============================================================================

--------------------------- MODULE MCStagedReads ---------------------------
(***************************************************************************)
(* A TLC instance of StagedReads.  Prompts of unlike length make the       *)
(* number of tokens a step reads grow from one to three; request 2 is      *)
(* greedy and asks for top_p all the same, and 4 is a prefix hit with      *)
(* nothing to emit at first.                                               *)
(***************************************************************************)
EXTENDS StagedReads

MCPromptLen    == <<3, 1, 2, 2>>
MCMaxNewTokens == <<1, 3, 2, 2>>
MCSharedLen    == <<None, None, None, 1>>
MCCohorts      == {<<1, 2, 3>>, <<3, 2>>, <<4>>}
=============================================================================

---------------------------- MODULE MCScheduler -----------------------------
(***************************************************************************)
(* TLC instance of Scheduler: requests 1..4 with prompts of 2, 6, 3 and 2  *)
(* tokens (2 and 6 never share a cohort at a spread of 3/2), the fourth    *)
(* exclusive; the context budget refuses a fifth, over-long one.           *)
(***************************************************************************)
EXTENDS Scheduler

MCPromptLen    == <<2, 6, 3, 2, 9>>
MCMaxNewTokens == <<1, 1, 2, 1, 1>>
=============================================================================

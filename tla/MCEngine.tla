------------------------------ MODULE MCEngine ------------------------------
(***************************************************************************)
(* TLC instances of Engine.  Request 1 has the longer prompt, so that it   *)
(* is forced through its tail while 2 emits, and more output than its      *)
(* mailbox holds; request 3 is an exclusive prefix hit.                    *)
(***************************************************************************)
EXTENDS Engine

MCPromptLen    == <<3, 2, 2>>
MCMaxNewTokens == <<4, 1, 1>>
MCSharedLen    == <<None, None, 1>>

\* Two requests, for the closing and liveness runs.
MCPromptLen2    == <<3, 2>>
MCMaxNewTokens2 == <<4, 1>>
MCMaxNewTokensFull == <<2, 1>>   \* as many tokens as the mailbox holds
MCMaxNewTokensOne  == <<1, 1>>   \* every output fits its mailbox
MCSharedLen2    == <<None, None>>
MCSharedLenFull == <<None, 2>>     \* a stored sequence equal to the prompt
=============================================================================

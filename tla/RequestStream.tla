---------------------------- MODULE RequestStream ----------------------------
(***************************************************************************)
(* What the engine promises the reader of one request, after README.md:46  *)
(* and engine/request.py:46-48, 131-135: its tokens in order, then exactly *)
(* one terminal event, which is the last and says why and after how many   *)
(* tokens the request ended.  Tokens are thrown away only between the      *)
(* decision and the terminal, and only if there were enough of them to     *)
(* fill the mailbox.                                                       *)
(*                                                                         *)
(* There is no engine here: no rows, no cohorts, no thread, and nothing    *)
(* says who ends a request or when.                                        *)
(***************************************************************************)
EXTENDS Integers, Sequences

CONSTANTS
    Requests, None, Reasons,
    MaxNewTokens,    \* request -> max_new_tokens
    MailboxCap       \* events a mailbox holds

VARIABLES
    produced,    \* request -> tokens sampled for it
    reason,      \* request -> its finish reason, or None
    unread,      \* request -> events in its mailbox
    read         \* request -> events its reader has taken

vars == <<produced, reason, unread, read>>

Token(n) == [kind |-> "token", position |-> n, reason |-> None]
Terminal(why, n) == [kind |-> "terminal", position |-> n, reason |-> why]
IsTerminal(e) == e.kind = "terminal"

Sent(r)  == read[r] \o unread[r]
Ended(r) == \E i \in 1 .. Len(Sent(r)) : IsTerminal(Sent(r)[i])
Full(r)  == Len(unread[r]) >= MailboxCap

Init ==
    /\ produced = [r \in Requests |-> 0]
    /\ reason = [r \in Requests |-> None]
    /\ unread = [r \in Requests |-> <<>>]
    /\ read = [r \in Requests |-> <<>>]

\* The reason stands: a request that overflowed may still be given another one.
Decided(r) == reason[r] \notin {None, "backpressure"}

\* The first token comes whatever the budget.
WithinBudget(r) == produced[r] = 0 \/ produced[r] < MaxNewTokens[r]

Produce(r) ==
    /\ reason[r] = None /\ WithinBudget(r) /\ ~Full(r)
    /\ produced' = [produced EXCEPT ![r] = @ + 1]
    /\ unread' = [unread EXCEPT ![r] = Append(@, Token(produced[r]))]
    /\ UNCHANGED <<reason, read>>

\* The reader is too far behind: the token is lost and there will be no other.
Overflow(r) ==
    /\ reason[r] = None /\ WithinBudget(r) /\ Full(r)
    /\ produced' = [produced EXCEPT ![r] = @ + 1]
    /\ reason' = [reason EXCEPT ![r] = "backpressure"]
    /\ UNCHANGED <<unread, read>>

\* A request is ended once; back pressure alone may give way to another reason.
Decide(r, why) ==
    /\ ~Decided(r) /\ ~Ended(r)
    /\ why = "length" => produced[r] >= MaxNewTokens[r]
    /\ reason' = [reason EXCEPT ![r] = why]
    /\ UNCHANGED <<produced, unread, read>>

Discard(r) ==
    /\ Decided(r) /\ ~Ended(r) /\ produced[r] >= MailboxCap /\ unread[r] # <<>>
    /\ unread' = [unread EXCEPT ![r] = Tail(@)]
    /\ UNCHANGED <<produced, reason, read>>

End(r) ==
    /\ Decided(r) /\ ~Ended(r) /\ ~Full(r)
    /\ unread' = [unread EXCEPT ![r] = Append(@, Terminal(reason[r], produced[r]))]
    /\ UNCHANGED <<produced, reason, read>>

Read(r) ==
    /\ unread[r] # <<>>
    /\ ~ \E i \in 1 .. Len(read[r]) : IsTerminal(read[r][i])
    /\ read' = [read EXCEPT ![r] = Append(@, Head(unread[r]))]
    /\ unread' = [unread EXCEPT ![r] = Tail(@)]
    /\ UNCHANGED <<produced, reason>>

Next ==
    \E r \in Requests :
        \/ Produce(r) \/ Overflow(r) \/ Discard(r) \/ End(r) \/ Read(r)
        \/ \E why \in Reasons \ {"backpressure"} : Decide(r, why)

Spec == Init /\ [][Next]_vars

-----------------------------------------------------------------------------
\* README.md:46: a terminal event is the last of its stream and counts the
\* tokens produced; the tokens before it ascend, whatever was discarded.
Orderly ==
    \A r \in Requests : \A i \in 1 .. Len(Sent(r)) :
        LET e == Sent(r)[i]
        IN  IF IsTerminal(e)
            THEN i = Len(Sent(r)) /\ e = Terminal(reason[r], produced[r])
            ELSE /\ e.position < produced[r]
                 /\ \A j \in 1 .. i - 1 : Sent(r)[j].position < e.position
=============================================================================

-------------------------- MODULE ReferenceBackend --------------------------
(***************************************************************************)
(* backend/reference.py: the lock-step cohort the reference model runs.    *)
(* All rows share one cursor into a padded token buffer; the prefill bulk- *)
(* consumes the shortest prompt, and every decode step consumes one column *)
(* of every row, prompt tokens first and predictions after.                *)
(*                                                                         *)
(* Abstracted: token values, the model, sampling, and the pinned staging.  *)
(* A buffer row is the set of its columns that hold a token.  A row's      *)
(* `meta` is the length of its prefix-cache hit, or None.                  *)
(***************************************************************************)
EXTENDS Integers, Sequences

CONSTANTS
    Requests, None,
    PromptLen,      \* request -> len(prompt_tokens)
    MaxNewTokens,   \* request -> max_new_tokens
    SharedLen       \* request -> meta.shared_len of its prefix hit, or None

VARIABLES
    reqIds,   \* _req_ids: the requests of the batch, by row
    cursor,   \* _cur_pos: columns consumed so far
    total,    \* width of _tokens, 0 while there is no buffer
    filled,   \* row -> the columns of _tokens that hold a token
    staged    \* the step's skeleton: one [req, emits] per row

backendVars == <<reqIds, cursor, total, filled, staged>>

BackendTypeOK ==
    /\ reqIds \in Seq(Requests)
    /\ cursor \in Nat /\ total \in Nat
    /\ filled \in Seq(SUBSET Nat) /\ Len(filled) = Len(reqIds)
    /\ staged \in Seq([req : Requests, emits : BOOLEAN])

Reset ==
    /\ reqIds' = <<>> /\ cursor' = 0 /\ total' = 0 /\ filled' = <<>>
    /\ UNCHANGED staged

BackendInit ==
    /\ reqIds = <<>> /\ cursor = 0 /\ total = 0 /\ filled = <<>> /\ staged = <<>>

Largest(S)  == CHOOSE x \in S : \A y \in S : y <= x
Smallest(S) == CHOOSE x \in S : \A y \in S : x <= y

Hits(rows) == {i \in 1 .. Len(rows) : SharedLen[rows[i]] # None}

ShortestPrompt(rows) == Smallest({PromptLen[rows[i]] : i \in 1 .. Len(rows)})

\* Mutated form: the longer prompts' forced steps are not counted.
WindowShort(rows) ==
    LET need(r) == IF MaxNewTokens[r] = 0 THEN 1 ELSE MaxNewTokens[r]
    IN  Largest({need(rows[i]) : i \in 1 .. Len(rows)})

\* Columns needed after the bulk prefill: the forced tail of the prompt, then
\* the completion.
Window(rows) ==
    LET need(r) == PromptLen[r] - ShortestPrompt(rows)
                     + (IF MaxNewTokens[r] = 0 THEN 1 ELSE MaxNewTokens[r])
    IN  Largest({need(rows[i]) : i \in 1 .. Len(rows)})

PromptColumns(rows) == [i \in 1 .. Len(rows) |-> 0 .. PromptLen[rows[i]] - 1]

\* Mutated form: the prediction after the last prompt token is not taken.
EmitsLate(r, position) == position > PromptLen[r]

\* _collect and _stake: a row whose prompt is consumed emits, and its token
\* goes into the buffer when there is a column for it.
Emits(r, position) == position >= PromptLen[r]

Collect(rows, columns, width, position) ==
    /\ filled' = [i \in 1 .. Len(rows) |->
                    IF Emits(rows[i], position) /\ position < width
                    THEN columns[i] \cup {position} ELSE columns[i]]
    /\ staged' = [i \in 1 .. Len(rows) |->
                    [req |-> rows[i], emits |-> Emits(rows[i], position)]]

\* _unstake: the finish reasons a row's result can carry; only a sampled token
\* can be EOS.
Reported(emits) == IF emits THEN {None, "stop"} ELSE {None}

\* Bulk prefill of fresh rows from position 0.
PrefillBulk(rows) ==
    /\ Hits(rows) = {}
    /\ reqIds' = rows
    /\ cursor' = ShortestPrompt(rows)
    /\ total' = ShortestPrompt(rows) + Window(rows)
    /\ Collect(rows, PromptColumns(rows), total', cursor')

\* Restore of one prefix hit: a suffix of several tokens is one chunk, a
\* shorter one is left to the decode steps and emits nothing yet.
PrefillFromSnapshot(rows) ==
    /\ Len(rows) = 1 /\ Hits(rows) = {1}
    /\ LET r == rows[1]
       IN  /\ reqIds' = rows
           /\ total' = PromptLen[r] + MaxNewTokens[r] + 1
           /\ IF PromptLen[r] - SharedLen[r] > 1
              THEN /\ cursor' = PromptLen[r]
                   /\ Collect(rows, PromptColumns(rows), total', cursor')
              ELSE /\ cursor' = SharedLen[r]
                   /\ filled' = PromptColumns(rows)
                   /\ staged' = <<[req |-> r, emits |-> FALSE]>>

Prefill(rows) == PrefillBulk(rows) \/ PrefillFromSnapshot(rows)

\* Prefix hits in a shared batch are refused.
PrefillRefused(rows) == Hits(rows) # {} /\ Len(rows) > 1

CohortChanged(rows) == rows # reqIds
Exhausted == cursor >= total

Decode(rows) ==
    /\ ~CohortChanged(rows) /\ ~Exhausted
    /\ cursor' = cursor + 1
    /\ Collect(rows, filled, total, cursor')
    /\ UNCHANGED <<reqIds, total>>

DecodeRefused(rows) == CohortChanged(rows) \/ Exhausted
=============================================================================

---------------------------- MODULE StepContract ----------------------------
(***************************************************************************)
(* What a backend promises its engine, after backend/reference.py:98-123   *)
(* and 303-306: enqueue runs a step, and each emitting row gets the token  *)
(* the per-row sampler would have drawn; resolve, whenever it is called,   *)
(* answers with exactly that step's results.                               *)
(*                                                                         *)
(* A token is the number of the draw it came from, 0 for an argmax, and    *)
(* whether the row's distribution was cut at its top_p.                    *)
(***************************************************************************)
EXTENDS Integers, Sequences, FiniteSets

CONSTANTS
    None,
    Cohorts,      \* the row lists a prefill may admit
    Stochastic,   \* requests with temperature > 0
    Nucleus,      \* requests with top_p < 1
    MaxSteps

VARIABLES
    issued,    \* steps enqueued
    draws,     \* rows of random numbers taken from the global generator
    pending,   \* [step, results] of the steps not resolved
    answer     \* what the last resolve returned, or None

vars == <<issued, draws, pending, answer>>

Init == issued = 0 /\ draws = 0 /\ pending = {} /\ answer = None

\* The per-row sampler, rows in order: a greedy row takes its argmax and draws
\* nothing, a stochastic one takes the next draw.
Drawing(rows, emitting) == {i \in emitting : rows[i] \in Stochastic}

PerRow(rows, emitting, i) ==
    IF i \notin Drawing(rows, emitting) THEN [draw |-> 0, cut |-> FALSE]
    ELSE [draw |-> draws + Cardinality({j \in Drawing(rows, emitting) : j <= i}),
          cut  |-> rows[i] \in Nucleus]

Results(rows, emitting) ==
    [i \in 1 .. Len(rows) |->
        [req   |-> rows[i],
         token |-> IF i \in emitting THEN PerRow(rows, emitting, i) ELSE None]]

Enqueue ==
    /\ issued < MaxSteps
    /\ \E rows \in Cohorts : \E emitting \in SUBSET (1 .. Len(rows)) :
        /\ pending' = pending \cup {[step |-> issued + 1, results |-> Results(rows, emitting)]}
        /\ draws' = draws + Cardinality(Drawing(rows, emitting))
    /\ issued' = issued + 1
    /\ UNCHANGED answer

Resolve ==
    /\ \E p \in pending : answer' = p /\ pending' = pending \ {p}
    /\ UNCHANGED <<issued, draws>>

Next == Enqueue \/ Resolve

Spec == Init /\ [][Next]_vars
=============================================================================

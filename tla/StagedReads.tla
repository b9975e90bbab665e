---------------------------- MODULE StagedReads ----------------------------
(***************************************************************************)
(* backend/reference.py, the split step: enqueue samples the emitting rows *)
(* in one batch and starts copying the tokens into one of two pinned       *)
(* buffers; the device does the copies later, in the order of its stream;  *)
(* resolve waits for the step's event and reads the buffer.                *)
(*                                                                         *)
(* Extends ReferenceBackend, whose prefill and decode say which rows emit. *)
(* A buffer is known by the step that allocated it.  The caller may hold   *)
(* one step's read while it issues the next (reference.py:88-89), as the   *)
(* engine once did; it may be slow, and shutdown may come in between.      *)
(*                                                                         *)
(* Abstracted: logits and the arithmetic on them; models that sample for   *)
(* themselves; a token is what StepContract says.                          *)
(***************************************************************************)
EXTENDS ReferenceBackend, Positions

CONSTANTS Cohorts, Stochastic, Nucleus, MaxSteps

ASSUME StagedAssumption ==
    /\ PromptLen \in [Requests -> Nat] /\ MaxNewTokens \in [Requests -> Nat]
    /\ SharedLen \in [Requests -> Nat \cup {None}] /\ None \notin Nat
    /\ Cohorts \subseteq Seq(Requests) \ {<<>>}
    /\ Stochastic \subseteq Requests /\ Nucleus \subseteq Requests
    /\ MaxSteps \in Nat

VARIABLES
    cuda,      \* the model computes on a CUDA device
    issued,    \* steps enqueued
    draws,     \* rows of random numbers taken from the global generator
    stream,    \* copies the device has still to do
    pins,      \* _pin: slot -> buffer, or None
    pinSlot,   \* _pin_slot
    memory,    \* buffer -> its cells
    handles,   \* what enqueue returned and nobody resolved yet
    answer     \* what the last resolve returned, or None

pinVars == <<stream, pins, pinSlot, memory>>
vars == <<backendVars, cuda, issued, draws, pinVars, handles, answer>>

NoPins == [s \in {0, 1} |-> None]
Steps == 1 .. MaxSteps

\* Every handle and every copy fits the buffer it names.
TypeOK ==
    /\ BackendTypeOK
    /\ issued \in 0 .. MaxSteps /\ draws \in Nat /\ pinSlot \in {0, 1}
    /\ pins \in [{0, 1} -> Steps \cup {None}]
    /\ \A h \in handles :
        h.step <= issued /\ (h.buffer = None \/ h.count <= Len(memory[h.buffer]))
    /\ \A i \in 1 .. Len(stream) : Len(stream[i].tokens) <= Len(memory[stream[i].buffer])

Init ==
    /\ BackendInit
    /\ cuda \in BOOLEAN /\ issued = 0 /\ draws = 0
    /\ stream = <<>> /\ pins = NoPins /\ pinSlot = 0 /\ memory = [b \in Steps |-> <<>>]
    /\ handles = {} /\ answer = None

-----------------------------------------------------------------------------
\* _sample_batch.

\* Where x is in s.
PlaceIn(s, x) == CHOOSE k \in 1 .. Len(s) : s[k] = x

\* The rows that emit, as indices into the cohort.
EmitList(skeleton) == InOrder({i \in 1 .. Len(skeleton) : skeleton[i].emits})

Params(emit, rows) == [k \in 1 .. Len(emit) |-> rows[emit[k]]]

StochasticRows(params) == InOrder({k \in 1 .. Len(params) : params[k] \in Stochastic})

\* One draw for each stochastic row, scattered back among the argmaxes; top-p
\* runs over all stochastic rows when any emitting row asks for it.
SampleBatch(params) ==
    LET stoch == StochasticRows(params)
        needsTopP == \E k \in 1 .. Len(params) : params[k] \in Nucleus
        sampled == [j \in 1 .. Len(stoch) |->
                      [draw |-> draws + j, cut |-> needsTopP /\ params[stoch[j]] \in Nucleus]]
    IN  [k \in 1 .. Len(params) |->
            IF params[k] \in Stochastic THEN sampled[PlaceIn(stoch, k)]
                                        ELSE [draw |-> 0, cut |-> FALSE]]

-----------------------------------------------------------------------------
\* _stake.

\* Mutated form: an allocated buffer is taken whatever its size.
Missing(pin, count) == pin = None

TooSmall(pin, count) == pin = None \/ Len(memory[pin]) < count

\* Mutated form: the slot stays.
SameSlot == pinSlot

OtherSlot == 1 - pinSlot

Skeleton(emit, rows) ==
    [i \in 1 .. Len(rows) |->
        [req |-> rows[i],
         at  |-> IF \E k \in 1 .. Len(emit) : emit[k] = i THEN PlaceIn(emit, i) ELSE None]]

\* The buffer a step's tokens go to: its own tensor where the model is not on a
\* CUDA device, or a pinned one, replaced when there is none or a smaller one.
BufferFor(step, count) ==
    IF ~cuda \/ TooSmall(pins[pinSlot], count) THEN step ELSE pins[pinSlot]

\* The copy into a pinned buffer is for the device to do later.
CopyToPin(step, buffer, tokens) ==
    /\ pins' = [pins EXCEPT ![pinSlot] = buffer]
    /\ memory' = IF buffer = step
                 THEN [memory EXCEPT ![step] = [k \in 1 .. Len(tokens) |-> None]]
                 ELSE memory
    /\ stream' = Append(stream, [step |-> step, buffer |-> buffer, tokens |-> tokens])
    /\ pinSlot' = OtherSlot

KeepTensor(step, tokens) ==
    /\ memory' = [memory EXCEPT ![step] = tokens]
    /\ UNCHANGED <<stream, pins, pinSlot>>

\* The rest of a step whose rows and emissions are in rows and skeleton.
SampleAndStake(rows, skeleton) ==
    LET emit == EmitList(skeleton)
        params == Params(emit, rows)
        tokens == SampleBatch(params)
        step == issued + 1
        buffer == IF emit = <<>> THEN None ELSE BufferFor(step, Len(tokens))
    IN  /\ issued' = step
        /\ draws' = draws + Len(StochasticRows(params))
        /\ IF emit = <<>> THEN UNCHANGED pinVars
           ELSE IF cuda THEN CopyToPin(step, buffer, tokens) ELSE KeepTensor(step, tokens)
        /\ handles' = handles \cup {[step |-> step, skeleton |-> Skeleton(emit, rows),
                                     buffer |-> buffer, count |-> Len(tokens)]}
        /\ UNCHANGED <<cuda, answer>>

-----------------------------------------------------------------------------
\* The caller, shutdown and the device.

\* At most the previous step's read is in flight.
MayIssue == issued < MaxSteps /\ \A h \in handles : h.step = issued

EnqueuePrefill(rows) ==
    /\ MayIssue /\ Prefill(rows)
    /\ SampleAndStake(rows, staged')

EnqueueDecode ==
    /\ MayIssue /\ Decode(reqIds) /\ reqIds # <<>>
    /\ SampleAndStake(reqIds, staged')

\* The device does the next copy and its event fires.
DeviceCopies ==
    /\ stream # <<>>
    /\ LET copy == Head(stream)
       IN  memory' = [memory EXCEPT ![copy.buffer] =
                        [k \in 1 .. Len(@) |-> IF k <= Len(copy.tokens)
                                               THEN copy.tokens[k] ELSE @[k]]]
    /\ stream' = Tail(stream)
    /\ UNCHANGED <<backendVars, cuda, issued, draws, pins, pinSlot, handles, answer>>

InFlight(h) == {i \in 1 .. Len(stream) : stream[i].step = h.step}

\* _unstake: the results of the tokens that h's step read.
ResultsFrom(h, tokens) ==
    [i \in 1 .. Len(h.skeleton) |->
        [req   |-> h.skeleton[i].req,
         token |-> IF h.skeleton[i].at = None THEN None ELSE tokens[h.skeleton[i].at]]]

Cells(h) == IF h.buffer = None THEN <<>> ELSE SubSeq(memory[h.buffer], 1, h.count)

Resolve(h) ==
    /\ InFlight(h) = {}
    /\ answer' = [step |-> h.step, results |-> ResultsFrom(h, Cells(h))]
    /\ handles' = handles \ {h}
    /\ UNCHANGED <<backendVars, cuda, issued, draws, pinVars>>

Shutdown ==
    /\ reqIds # <<>> /\ Reset
    /\ pins' = NoPins /\ pinSlot' = 0
    /\ UNCHANGED <<cuda, issued, draws, stream, memory, handles, answer>>

Next ==
    \/ \E rows \in Cohorts : EnqueuePrefill(rows)
    \/ EnqueueDecode
    \/ DeviceCopies
    \/ \E h \in handles : Resolve(h)
    \/ Shutdown

Spec == Init /\ [][Next]_vars

-----------------------------------------------------------------------------
\* Properties.

\* What a handle will give: the copy while it is in flight, then the buffer.
Promised(h) ==
    ResultsFrom(h, IF InFlight(h) = {} THEN Cells(h)
                   ELSE stream[CHOOSE i \in InFlight(h) : TRUE].tokens)

Contract == INSTANCE StepContract WITH
    pending <- {[step |-> h.step, results |-> Promised(h)] : h \in handles}

\* reference.py:88-89, 120-121, 264-267, 329-332, 357-359: each row of each step
\* gets the per-row sampler's token, with its own parameters and draw, greedy
\* rows draw nothing, and a handle gives its own step's tokens although the
\* next step, a bigger buffer or shutdown came before it was resolved.
ImplementsContract == Contract!Spec
=============================================================================

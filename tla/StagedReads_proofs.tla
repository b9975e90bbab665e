-------------------------- MODULE StagedReads_proofs --------------------------
(***************************************************************************)
(* Proofs about StagedReads, for every set of cohorts, every choice of     *)
(* stochastic and top_p rows, on a CUDA device or not: the split step      *)
(* implements StepContract.                                                *)
(***************************************************************************)
EXTENDS StagedReads, Positions_proofs

Tokens == [draw : Nat, cut : BOOLEAN]
StepRows == [req : Requests, emits : BOOLEAN]

-----------------------------------------------------------------------------
\* _sample_batch against the per-row sampler.

\* The contract counts as this module does.
LEMMA SameCount == \A S : Contract!Cardinality(S) = Cardinality(S)
BY DEF Contract!Cardinality, Cardinality

\* The rows of a step that emit.
Emitting(sk) == {i \in 1 .. Len(sk) : sk[i].emits}

\* The emitting rows, as the list the batch is made of.
LEMMA EmitListFacts ==
  ASSUME NEW sk \in Seq(StepRows)
  PROVE  LET emit == EmitList(sk)
         IN  /\ Emitting(sk) \in SUBSET Int /\ IsFiniteSet(Emitting(sk))
             /\ Len(sk) \in Nat /\ Len(emit) \in Nat
             /\ emit = InOrder(Emitting(sk)) /\ Len(emit) = Cardinality(Emitting(sk))
             /\ \A k \in 1 .. Len(emit) : emit[k] \in Emitting(sk)
             /\ \A j, k \in 1 .. Len(emit) : emit[j] = emit[k] => j = k
             /\ \A i \in Emitting(sk) : /\ PlaceIn(emit, i) \in 1 .. Len(emit)
                                        /\ emit[PlaceIn(emit, i)] = i
<1>1. Len(sk) \in Nat
  OBVIOUS
<1>2. Emitting(sk) \in SUBSET Int /\ IsFiniteSet(Emitting(sk))
  <2>1. IsFiniteSet(1 .. Len(sk)) /\ Emitting(sk) \in SUBSET (1 .. Len(sk))
    BY <1>1, FS_Interval DEF Emitting
  <2>2. QED
    BY <1>1, <2>1, FS_Subset
<1>3. EmitList(sk) = InOrder(Emitting(sk))
  BY DEF EmitList, Emitting
<1>4. /\ Len(EmitList(sk)) = Cardinality(Emitting(sk)) /\ Cardinality(Emitting(sk)) \in Nat
      /\ \A k \in 1 .. Len(EmitList(sk)) : EmitList(sk)[k] \in Emitting(sk)
      /\ \A j, k \in 1 .. Len(EmitList(sk)) : EmitList(sk)[j] = EmitList(sk)[k] => j = k
      /\ \A i \in Emitting(sk) : \E k \in 1 .. Len(EmitList(sk)) : EmitList(sk)[k] = i
  <2> DEFINE E == Emitting(sk)
  <2>1. Cardinality(E) \in Nat
    BY <1>2, FS_CardinalityType
  <2> HIDE DEF E
  <2>2. /\ Len(InOrder(E)) = Cardinality(E)
        /\ \A k \in 1 .. Len(InOrder(E)) : InOrder(E)[k] \in E
        /\ \A j, k \in 1 .. Len(InOrder(E)) : InOrder(E)[j] = InOrder(E)[k] => j = k
        /\ \A i \in E : \E k \in 1 .. Len(InOrder(E)) : InOrder(E)[k] = i
    <3>1. E \in SUBSET Int /\ IsFiniteSet(E)
      BY <1>2 DEF E
    <3>2. /\ Len(InOrder(E)) = Cardinality(E)
          /\ \A k \in 1 .. Len(InOrder(E)) : InOrder(E)[k] \in E
          /\ \A j, k \in 1 .. Len(InOrder(E)) : InOrder(E)[j] = InOrder(E)[k] => j = k
      BY <3>1, InOrderFacts
    <3>3. ASSUME NEW i \in E PROVE \E k \in 1 .. Len(InOrder(E)) : InOrder(E)[k] = i
      <4>1. /\ Cardinality({f \in E : f <= i}) \in 1 .. Len(InOrder(E))
            /\ InOrder(E)[Cardinality({f \in E : f <= i})] = i
        BY <3>1, InOrderFacts
      <4>2. QED
        BY <4>1
    <3>4. QED
      BY <3>2, <3>3
  <2>3. QED
    BY <1>3, <2>1, <2>2 DEF E
<1>5. QED
  BY <1>1, <1>2, <1>3, <1>4 DEF PlaceIn

\* Each emitting row finds in the batch the token the per-row sampler draws for
\* it, and the batch takes as many draws.
LEMMA SamplesPerRow ==
  ASSUME NEW rows \in Seq(Requests), NEW sk \in Seq(StepRows), Len(sk) = Len(rows), draws \in Nat,
         StagedAssumption
  PROVE  LET emit == EmitList(sk)
             params == Params(emit, rows)
             tokens == SampleBatch(params)
         IN  /\ tokens \in Seq(Tokens) /\ Len(tokens) = Len(emit)
             /\ Len(StochasticRows(params)) = Cardinality(Contract!Drawing(rows, Emitting(sk)))
             /\ Len(StochasticRows(params)) \in Nat
             /\ \A i \in Emitting(sk) :
                  tokens[PlaceIn(emit, i)] = Contract!PerRow(rows, Emitting(sk), i)
<1> DEFINE E == Emitting(sk)
           emit == EmitList(sk)
           params == Params(emit, rows)
           stochastic == {k \in 1 .. Len(emit) : params[k] \in Stochastic}
           stoch == StochasticRows(params)
           tokens == SampleBatch(params)
<1>1. /\ E \in SUBSET Int /\ IsFiniteSet(E) /\ Len(sk) \in Nat /\ Len(emit) \in Nat
      /\ emit = InOrder(E)
      /\ \A k \in 1 .. Len(emit) : emit[k] \in E
      /\ \A j, k \in 1 .. Len(emit) : emit[j] = emit[k] => j = k
      /\ \A i \in E : PlaceIn(emit, i) \in 1 .. Len(emit) /\ emit[PlaceIn(emit, i)] = i
  BY EmitListFacts
<1>2. E \subseteq 1 .. Len(rows)
  BY DEF Emitting
<1> HIDE DEF E, emit
<1>3. /\ Len(params) = Len(emit)
      /\ \A k \in 1 .. Len(emit) : params[k] = rows[emit[k]] /\ params[k] \in Requests
  <2>1. \A k \in 1 .. Len(emit) : rows[emit[k]] \in Requests
    <3>1. \A i \in 1 .. Len(rows) : rows[i] \in Requests
      OBVIOUS
    <3>2. QED
      BY <1>1, <1>2, <3>1
  <2>2. params = [k \in 1 .. Len(emit) |-> rows[emit[k]]]
    BY DEF Params
  <2> HIDE DEF params
  <2>3. QED
    BY <1>1, <2>1, <2>2
<1>4. stochastic \in SUBSET Int /\ IsFiniteSet(stochastic) /\ stoch = InOrder(stochastic)
  <2>1. IsFiniteSet(1 .. Len(emit)) /\ stochastic \in SUBSET (1 .. Len(emit))
    BY <1>1, FS_Interval
  <2>2. stoch = InOrder(stochastic)
    BY <1>3 DEF StochasticRows
  <2>3. QED
    BY <1>1, <2>1, <2>2, FS_Subset
<1>5. {emit[k] : k \in stochastic} = Contract!Drawing(rows, E)
  <2>1. ASSUME NEW i \in Contract!Drawing(rows, E) PROVE \E k \in stochastic : emit[k] = i
    <3>1. i \in E /\ rows[i] \in Stochastic
      BY <2>1 DEF Contract!Drawing
    <3>2. PICK k \in 1 .. Len(emit) : emit[k] = i
      BY <1>1, <3>1
    <3>3. params[k] = rows[i]
      BY <1>3, <3>2
    <3>4. k \in stochastic
      BY <3>1, <3>3
    <3>5. QED
      BY <3>2, <3>4
  <2>2. ASSUME NEW k \in stochastic PROVE emit[k] \in Contract!Drawing(rows, E)
    BY <1>1, <1>3 DEF Contract!Drawing
  <2>3. QED
    BY <2>1, <2>2
<1>6. /\ Cardinality(Contract!Drawing(rows, E)) = Cardinality(stochastic)
      /\ \A k \in stochastic :
           Cardinality({e \in Contract!Drawing(rows, E) : e <= emit[k]})
             = Cardinality({f \in stochastic : f <= k})
  <2>1. stochastic \in SUBSET (1 .. Len(InOrder(E)))
    BY <1>1
  <2>2. emit = InOrder(E)
    BY <1>1
  <2> HIDE DEF stochastic
  <2>3. /\ Cardinality({InOrder(E)[f] : f \in stochastic}) = Cardinality(stochastic)
        /\ \A k \in stochastic :
             Cardinality({e \in {InOrder(E)[f] : f \in stochastic} : e <= InOrder(E)[k]})
               = Cardinality({f \in stochastic : f <= k})
    BY <1>1, <2>1, CountThrough
  <2>4. {InOrder(E)[f] : f \in stochastic} = Contract!Drawing(rows, E)
    BY <1>5, <2>2
  <2>5. QED
    BY <2>2, <2>3, <2>4
<1>7. /\ Len(stoch) = Cardinality(stochastic) /\ Cardinality(stochastic) \in Nat
      /\ \A j, k \in 1 .. Len(stoch) : stoch[j] = stoch[k] => j = k
      /\ \A k \in stochastic : /\ Cardinality({f \in stochastic : f <= k}) \in 1 .. Len(stoch)
                               /\ stoch[Cardinality({f \in stochastic : f <= k})] = k
  <2> HIDE DEF stoch, stochastic
  <2>1. Cardinality(stochastic) \in Nat
    BY <1>4, FS_CardinalityType
  <2>2. QED
    BY <1>4, <2>1, InOrderFacts
<1>8. \A k \in stochastic : /\ PlaceIn(stoch, k) = Cardinality({f \in stochastic : f <= k})
                            /\ PlaceIn(stoch, k) \in 1 .. Len(stoch) /\ stoch[PlaceIn(stoch, k)] = k
  <2> HIDE DEF stoch, stochastic
  <2>1. QED
    BY <1>7 DEF PlaceIn
<1> DEFINE drawn(k) == IF params[k] \in Stochastic
                       THEN [draw |-> draws + PlaceIn(stoch, k), cut |-> params[k] \in Nucleus]
                       ELSE [draw |-> 0, cut |-> FALSE]
<1>9. tokens = [k \in 1 .. Len(emit) |-> drawn(k)]
  <2> DEFINE needsTopP == \E k \in 1 .. Len(params) : params[k] \in Nucleus
             sampled == [j \in 1 .. Len(stoch) |->
                          [draw |-> draws + j, cut |-> needsTopP /\ params[stoch[j]] \in Nucleus]]
  <2>1. tokens = [k \in 1 .. Len(params) |->
                    IF params[k] \in Stochastic THEN sampled[PlaceIn(stoch, k)]
                                                ELSE [draw |-> 0, cut |-> FALSE]]
    BY DEF SampleBatch
  <2>2. ASSUME NEW k \in 1 .. Len(emit), params[k] \in Stochastic
        PROVE  sampled[PlaceIn(stoch, k)]
                 = [draw |-> draws + PlaceIn(stoch, k), cut |-> params[k] \in Nucleus]
    <3>1. k \in stochastic
      BY <2>2
    <3>2. PlaceIn(stoch, k) \in 1 .. Len(stoch) /\ stoch[PlaceIn(stoch, k)] = k
      BY <1>8, <3>1
    <3>3. params[k] \in Nucleus => needsTopP
      BY <1>3
    <3> HIDE DEF needsTopP, stoch, params
    <3>4. QED
      BY <3>2, <3>3
  <2> HIDE DEF sampled, tokens, params, stoch
  <2>3. QED
    BY <1>3, <2>1, <2>2
<1>10. \A k \in 1 .. Len(emit) : drawn(k) \in Tokens
  <2>1. \A k \in 1 .. Len(emit) : params[k] \in Stochastic => PlaceIn(stoch, k) \in Nat
    <3>1. \A k \in stochastic : PlaceIn(stoch, k) \in Nat
      <4> DEFINE place(k) == PlaceIn(stoch, k)
      <4>1. Len(stoch) \in Nat /\ \A k \in stochastic : place(k) \in 1 .. Len(stoch)
        BY <1>7, <1>8
      <4> HIDE DEF stochastic, stoch, place
      <4>2. \A k \in stochastic : place(k) \in Nat
        BY <4>1
      <4>3. QED
        BY <4>2 DEF place
    <3>2. QED
      BY <3>1
  <2> HIDE DEF params, stoch
  <2>2. QED
    BY <2>1 DEF Tokens
<1>11. tokens \in Seq(Tokens) /\ Len(tokens) = Len(emit)
  <2> HIDE DEF drawn, tokens
  <2>1. QED
    BY <1>1, <1>9, <1>10
<1>12. ASSUME NEW i \in E PROVE tokens[PlaceIn(emit, i)] = Contract!PerRow(rows, E, i)
  <2>1. PICK k \in 1 .. Len(emit) : k = PlaceIn(emit, i) /\ emit[k] = i /\ params[k] = rows[i]
    BY <1>1, <1>3
  <2>2. tokens[k] = drawn(k)
    <3> HIDE DEF drawn, tokens
    <3>1. QED
      BY <1>9
  <2>3. CASE rows[i] \in Stochastic
    <3>1. k \in stochastic
      BY <2>1, <2>3
    <3>2. PlaceIn(stoch, k) = Cardinality({e \in Contract!Drawing(rows, E) : e <= i})
      <4>1. {e \in Contract!Drawing(rows, E) : e <= emit[k]}
              = {e \in Contract!Drawing(rows, E) : e <= i}
        BY <2>1
      <4>2. PlaceIn(stoch, k) = Cardinality({f \in stochastic : f <= k})
        BY <1>8, <3>1
      <4> HIDE DEF stochastic, stoch
      <4>3. QED
        BY <1>6, <3>1, <4>1, <4>2
    <3>3. i \in Contract!Drawing(rows, E)
      BY <2>3 DEF Contract!Drawing
    <3>4. tokens[k] = [draw |-> draws + PlaceIn(stoch, k), cut |-> rows[i] \in Nucleus]
      <4> HIDE DEF stoch, params, tokens
      <4>1. QED
        BY <2>1, <2>2, <2>3
    <3> HIDE DEF stoch, params, tokens
    <3>5. QED
      BY <2>1, <3>2, <3>3, <3>4, SameCount DEF Contract!PerRow
  <2>4. CASE rows[i] \notin Stochastic
    <3>1. i \notin Contract!Drawing(rows, E)
      BY <2>4 DEF Contract!Drawing
    <3>2. ~(params[k] \in Stochastic)
      BY <2>1, <2>4
    <3>3. tokens[k] = [draw |-> 0, cut |-> FALSE]
      <4> HIDE DEF stoch, params, tokens
      <4>1. QED
        BY <2>2, <3>2
    <3> HIDE DEF stoch, params, tokens
    <3>4. QED
      BY <2>1, <3>1, <3>3 DEF Contract!PerRow
  <2>5. QED
    BY <2>3, <2>4
<1>13. QED
  <2> HIDE DEF params, tokens, stoch
  <2>1. QED
    BY <1>6, <1>7, <1>11, <1>12 DEF E, emit, params, tokens, stoch

-----------------------------------------------------------------------------
\* The results of a step.

\* What a handle of the step will say, once its tokens are read, is what the
\* contract promises for the step.
LEMMA ResultsAsPromised ==
  ASSUME NEW rows \in Seq(Requests), NEW sk \in Seq(StepRows), Len(sk) = Len(rows), draws \in Nat,
         StagedAssumption, NEW h,
         h.skeleton = Skeleton(EmitList(sk), rows)
  PROVE  ResultsFrom(h, SampleBatch(Params(EmitList(sk), rows)))
           = Contract!Results(rows, Emitting(sk))
<1> DEFINE emit == EmitList(sk)
           tokens == SampleBatch(Params(emit, rows))
<1>1. Len(rows) \in Nat /\ Len(h.skeleton) = Len(rows)
  <2>1. Len(rows) \in Nat
    OBVIOUS
  <2>2. QED
    BY <2>1 DEF Skeleton
<1>2. ASSUME NEW i \in 1 .. Len(rows)
      PROVE  [req   |-> h.skeleton[i].req,
              token |-> IF h.skeleton[i].at = None THEN None ELSE tokens[h.skeleton[i].at]]
               = [req   |-> rows[i],
                  token |-> IF i \in Emitting(sk)
                            THEN Contract!PerRow(rows, Emitting(sk), i) ELSE None]
  <2>1. /\ h.skeleton[i].req = rows[i]
        /\ h.skeleton[i].at = IF \E k \in 1 .. Len(emit) : emit[k] = i THEN PlaceIn(emit, i) ELSE None
    <3> HIDE DEF emit
    <3>1. QED
      BY DEF Skeleton, emit
  <2>2. (\E k \in 1 .. Len(emit) : emit[k] = i) <=> i \in Emitting(sk)
    <3>1. /\ \A k \in 1 .. Len(emit) : emit[k] \in Emitting(sk)
          /\ \A e \in Emitting(sk) : PlaceIn(emit, e) \in 1 .. Len(emit) /\ emit[PlaceIn(emit, e)] = e
      BY EmitListFacts
    <3> HIDE DEF emit
    <3>2. QED
      BY <3>1
  <2>3. CASE i \in Emitting(sk)
    <3>1. PlaceIn(emit, i) \in 1 .. Len(emit) /\ Len(emit) \in Nat
      BY <2>3, EmitListFacts
    <3>2. PlaceIn(emit, i) # None
      <4> DEFINE place == PlaceIn(emit, i)
      <4> HIDE DEF emit, place
      <4>1. place \in Nat
        BY <3>1 DEF place
      <4>2. QED
        BY <4>1 DEF StagedAssumption, place
    <3>3. tokens[PlaceIn(emit, i)] = Contract!PerRow(rows, Emitting(sk), i)
      BY <2>3, SamplesPerRow
    <3> HIDE DEF emit, tokens
    <3>4. QED
      BY <2>1, <2>2, <2>3, <3>2, <3>3
  <2>4. CASE i \notin Emitting(sk)
    <3> HIDE DEF emit, tokens
    <3>1. QED
      BY <2>1, <2>2, <2>4
  <2>5. QED
    BY <2>3, <2>4
<1>3. QED
  <2> HIDE DEF tokens
  <2>1. QED
    BY <1>1, <1>2 DEF ResultsFrom, Contract!Results, tokens

-----------------------------------------------------------------------------
\* The invariant.

Copies == [step : Steps, buffer : Steps, tokens : Seq(Tokens)]
Handles == [step : Steps, skeleton : Seq([req : Requests, at : Nat \cup {None}]),
            buffer : Steps \cup {None}, count : Nat]

Shapes ==
    /\ reqIds \in Cohorts \cup {<<>>}
    /\ cuda \in BOOLEAN /\ issued \in 0 .. MaxSteps /\ draws \in Nat /\ pinSlot \in {0, 1}
    /\ pins \in [{0, 1} -> Steps \cup {None}]
    /\ stream \in Seq(Copies) /\ handles \subseteq Handles
    /\ memory \in [Steps -> Seq(Tokens \cup {None})]

\* Only the last two steps are outstanding, and their buffers are old enough and
\* large enough.
Recent ==
    \A h \in handles :
        /\ h.step \in {issued - 1, issued}
        /\ IF h.buffer = None THEN h.count = 0
                              ELSE h.buffer <= h.step /\ h.count <= Len(memory[h.buffer])

\* Two outstanding steps never share a buffer.
Apart ==
    \A h, g \in handles :
        h.step = g.step \/ (h.buffer = g.buffer /\ h.buffer # None) => h = g

\* The buffer the next step would reuse is not one the last step still waits for.
PinsFree ==
    /\ \A s \in {0, 1} : pins[s] # None => pins[s] <= issued
    /\ pins[0] = pins[1] => pins[0] = None
    /\ \A h \in handles : h.step = issued /\ h.buffer # None => h.buffer # pins[pinSlot]

\* The copies the device has still to do are one for an outstanding step at most.
Underway ==
    /\ \A i \in 1 .. Len(stream) :
         \E h \in handles : /\ h.step = stream[i].step /\ h.buffer = stream[i].buffer
                            /\ h.buffer # None /\ h.count = Len(stream[i].tokens)
    /\ \A i, j \in 1 .. Len(stream) : stream[i].step = stream[j].step => i = j

StagedInv == Shapes /\ Recent /\ Apart /\ PinsFree /\ Underway

LEMMA StagedInvInit == Init => StagedInv
<1> SUFFICES ASSUME Init PROVE StagedInv
  OBVIOUS
<1>1. Shapes
  <2>1. /\ reqIds = <<>> /\ cuda \in BOOLEAN /\ issued = 0 /\ draws = 0 /\ pinSlot = 0
        /\ pins = NoPins /\ stream = <<>> /\ handles = {} /\ memory = [b \in Steps |-> <<>>]
    BY DEF Init, BackendInit
  <2>2. 0 \in 0 .. MaxSteps
    BY StagedAssumption DEF StagedAssumption
  <2>3. QED
    BY <2>1, <2>2 DEF Shapes, NoPins
<1>2. Recent /\ Apart /\ Underway
  BY DEF Init, Recent, Apart, Underway
<1>3. PinsFree
  BY DEF Init, PinsFree, NoPins
<1>4. QED
  BY <1>1, <1>2, <1>3 DEF StagedInv

-----------------------------------------------------------------------------
\* The device.

\* A copy is done before any other for the same buffer is asked for, so it gives
\* its handle what the handle was to read, and nobody else anything.
LEMMA CopyKeepsPromises ==
  ASSUME StagedInv, DeviceCopies
  PROVE  StagedInv' /\ \A h \in handles : Promised(h)' = Promised(h)
<1> DEFINE copy == Head(stream)
<1>1. /\ stream # <<>> /\ stream' = Tail(stream)
      /\ memory' = [memory EXCEPT ![copy.buffer] =
                      [k \in 1 .. Len(@) |-> IF k <= Len(copy.tokens) THEN copy.tokens[k] ELSE @[k]]]
      /\ UNCHANGED <<reqIds, cuda, issued, draws, pins, pinSlot, handles>>
  BY DEF DeviceCopies, backendVars
<1>2. /\ stream \in Seq(Copies) /\ Len(stream) \in Nat \ {0} /\ copy = stream[1] /\ copy \in Copies
      /\ Tail(stream) \in Seq(Copies) /\ Len(Tail(stream)) = Len(stream) - 1
      /\ \A i \in 1 .. Len(stream) - 1 : Tail(stream)[i] = stream[i + 1]
  BY <1>1 DEF StagedInv, Shapes
<1>3. copy.buffer \in Steps /\ copy.tokens \in Seq(Tokens) /\ Len(copy.tokens) \in Nat
  BY <1>2 DEF Copies
<1> DEFINE old == memory[copy.buffer]
           new == [k \in 1 .. Len(old) |-> IF k <= Len(copy.tokens) THEN copy.tokens[k] ELSE old[k]]
<1>4. /\ old \in Seq(Tokens \cup {None}) /\ new \in Seq(Tokens \cup {None}) /\ Len(new) = Len(old)
      /\ Len(old) \in Nat
  <2>1. old \in Seq(Tokens \cup {None}) /\ Len(old) \in Nat
    BY <1>3 DEF StagedInv, Shapes
  <2> DEFINE cell(k) == IF k <= Len(copy.tokens) THEN copy.tokens[k] ELSE old[k]
  <2>2. \A k \in 1 .. Len(old) : cell(k) \in Tokens \cup {None}
    BY <1>3, <2>1
  <2>3. new = [k \in 1 .. Len(old) |-> cell(k)]
    OBVIOUS
  <2> HIDE DEF old, new, cell
  <2>4. QED
    BY <2>1, <2>2, <2>3
<1>5. /\ memory' = [memory EXCEPT ![copy.buffer] = new]
      /\ memory \in [Steps -> Seq(Tokens \cup {None})]
  BY <1>1 DEF StagedInv, Shapes
<1> HIDE DEF new
<1>6. /\ \A b \in Steps : Len(memory'[b]) = Len(memory[b])
      /\ \A b \in Steps : b # copy.buffer => memory'[b] = memory[b]
      /\ memory'[copy.buffer] = new /\ memory' \in [Steps -> Seq(Tokens \cup {None})]
  BY <1>3, <1>4, <1>5
<1>7. PICK mine \in handles : /\ mine.step = copy.step /\ mine.buffer = copy.buffer
                              /\ mine.buffer # None /\ mine.count = Len(copy.tokens)
  BY <1>2 DEF StagedInv, Underway
<1>8. StagedInv'
  <2>1. Shapes'
    BY <1>1, <1>2, <1>6 DEF StagedInv, Shapes
  <2>2. Recent' /\ Apart' /\ PinsFree'
    <3>1. \A h \in handles : h.buffer \in Steps \cup {None}
      BY DEF StagedInv, Shapes, Handles
    <3>2. Recent'
      BY <1>1, <1>6, <3>1 DEF StagedInv, Recent
    <3>3. QED
      BY <1>1, <3>2 DEF StagedInv, Apart, PinsFree
  <2>3. Underway'
    <3>1. \A i \in 1 .. Len(stream') : i + 1 \in 1 .. Len(stream) /\ stream'[i] = stream[i + 1]
      BY <1>1, <1>2
    <3>2. ASSUME NEW i \in 1 .. Len(stream'), NEW j \in 1 .. Len(stream'),
                 stream'[i].step = stream'[j].step
          PROVE  i = j
      <4>1. i + 1 = j + 1
        <5>1. /\ i + 1 \in 1 .. Len(stream) /\ j + 1 \in 1 .. Len(stream)
              /\ stream[i + 1].step = stream[j + 1].step
          BY <3>1, <3>2
        <5>2. \A k, l \in 1 .. Len(stream) : stream[k].step = stream[l].step => k = l
          BY DEF StagedInv, Underway
        <5>3. QED
          BY <5>1, <5>2
      <4>2. QED
        BY <1>1, <1>2, <4>1
    <3>3. QED
      BY <1>1, <3>1, <3>2 DEF StagedInv, Underway
  <2>4. QED
    BY <2>1, <2>2, <2>3 DEF StagedInv
<1>9. ASSUME NEW h \in handles PROVE Promised(h)' = Promised(h)
  <2>1. /\ h \in Handles /\ h.count \in Nat
        /\ \A i, j \in InFlight(h) : i = j
    BY DEF StagedInv, Shapes, Handles, InFlight, Underway
  <2>2. \A i : i \in InFlight(h)' <=> i \in 1 .. Len(stream) - 1 /\ i + 1 \in InFlight(h)
    BY <1>1, <1>2 DEF InFlight
  <2>3. CASE h = mine
    <3>1. InFlight(h) = {1}
      BY <1>2, <1>7, <2>1, <2>3 DEF InFlight
    <3>2. InFlight(h)' = {}
      BY <1>2, <2>2, <3>1
    <3>3. SubSeq(new, 1, h.count) = copy.tokens
      <4>1. h.count = Len(copy.tokens) /\ h.count <= Len(new) /\ h.buffer \in Steps
        BY <1>3, <1>4, <1>7, <2>3 DEF StagedInv, Recent
      <4>2. \A k \in 1 .. Len(copy.tokens) : new[k] = copy.tokens[k]
        BY <1>3, <1>4, <4>1 DEF new
      <4>3. /\ SubSeq(new, 1, h.count) \in Seq(Tokens \cup {None})
            /\ Len(SubSeq(new, 1, h.count)) = h.count
            /\ \A k \in 1 .. h.count : SubSeq(new, 1, h.count)[k] = new[k]
        <5> HIDE DEF copy, old
        <5>1. \A k \in 1 .. h.count : new[k] \in Tokens \cup {None}
          BY <1>4, <2>1, <4>1
        <5>2. QED
          BY <2>1, <5>1, SubSeqProperties
      <4>4. copy.tokens \in Seq(Tokens \cup {None})
        BY <1>3
      <4> HIDE DEF copy, old
      <4>5. QED
        BY <4>1, <4>2, <4>3, <4>4, SeqEqual
    <3>4. Cells(h)' = copy.tokens
      BY <1>6, <1>7, <2>3, <3>3 DEF Cells
    <3>5. stream[CHOOSE i \in InFlight(h) : TRUE].tokens = copy.tokens
      BY <1>2, <3>1
    <3>6. QED
      BY <3>1, <3>2, <3>4, <3>5 DEF Promised, ResultsFrom
  <2>4. CASE h # mine
    <3>1. h.step # copy.step /\ (h.buffer # None => h.buffer # copy.buffer)
      BY <1>7, <2>4 DEF StagedInv, Apart
    <3>2. Cells(h)' = Cells(h)
      <4>1. h.buffer \in Steps \cup {None}
        BY <2>1 DEF Handles
      <4>2. QED
        BY <1>6, <3>1, <4>1 DEF Cells
    <3>3. 1 \notin InFlight(h)
      BY <1>2, <3>1 DEF InFlight
    <3>4. CASE InFlight(h) = {}
      <4>1. InFlight(h)' = {}
        BY <2>2, <3>4
      <4>2. QED
        BY <3>2, <3>4, <4>1 DEF Promised, ResultsFrom
    <3>5. CASE InFlight(h) # {}
      <4>1. PICK c \in InFlight(h) : TRUE
        BY <3>5
      <4>2. InFlight(h) = {c} /\ c \in 2 .. Len(stream)
        <5>1. c \in 1 .. Len(stream) /\ c # 1
          BY <3>3, <4>1 DEF InFlight
        <5>2. c \in 2 .. Len(stream)
          BY <1>2, <5>1
        <5>3. InFlight(h) = {c}
          BY <2>1, <4>1
        <5>4. QED
          BY <5>2, <5>3
      <4>3. InFlight(h)' = {c - 1}
        BY <1>2, <2>2, <4>2
      <4>4. stream'[c - 1] = stream[c]
        BY <1>1, <1>2, <4>2
      <4>5. QED
        BY <4>2, <4>3, <4>4 DEF Promised, ResultsFrom
    <3>6. QED
      BY <3>4, <3>5
  <2>5. QED
    BY <2>3, <2>4
<1>10. QED
  BY <1>8, <1>9

-----------------------------------------------------------------------------
\* enqueue.

\* What the results still to be asked for are, as the contract sees them.
Owed == {[step |-> h.step, results |-> Promised(h)] : h \in handles}

\* The bookkeeping of a staged step.
Staging(new, tokens) ==
    /\ issued' = issued + 1 /\ handles' = handles \cup {new}
    /\ new.step = issued + 1 /\ new.count = Len(tokens) /\ new \in Handles
    /\ UNCHANGED <<cuda, answer>>
    /\ \/ new.buffer = None /\ tokens = <<>> /\ UNCHANGED pinVars
       \/ /\ cuda /\ new.buffer = BufferFor(issued + 1, Len(tokens))
          /\ CopyToPin(issued + 1, new.buffer, tokens)
       \/ ~cuda /\ new.buffer = issued + 1 /\ KeepTensor(issued + 1, tokens)

\* The step's buffer is one that no outstanding step waits for: the tokens it
\* will read are its own, and theirs are left alone.
LEMMA StagingKeepsPromises ==
  ASSUME StagedInv, MayIssue, reqIds' \in Cohorts, draws' \in Nat,
         NEW tokens \in Seq(Tokens), NEW new, Staging(new, tokens)
  PROVE  /\ StagedInv'
         /\ \A h \in handles : Promised(h)' = Promised(h)
         /\ Promised(new)' = ResultsFrom(new, tokens)
<1> DEFINE step == issued + 1
<1>1. /\ step \in Steps /\ issued \in Nat /\ issued' = step /\ handles' = handles \cup {new}
      /\ new.step = step /\ new.count = Len(tokens) /\ new \in Handles /\ Len(tokens) \in Nat
      /\ None \notin Steps /\ UNCHANGED <<cuda, answer>>
  BY StagedAssumption DEF Staging, StagedInv, Shapes, MayIssue, StagedAssumption, Steps
<1>2. /\ pins \in [{0, 1} -> Steps \cup {None}] /\ stream \in Seq(Copies) /\ pinSlot \in {0, 1}
      /\ memory \in [Steps -> Seq(Tokens \cup {None})] /\ handles \subseteq Handles
      /\ cuda \in BOOLEAN
  BY DEF StagedInv, Shapes
<1>3. /\ \A h \in handles : h.step = issued /\ h.step # step /\ h.buffer # step
      /\ \A h \in handles : h.buffer # None => h.buffer # pins[pinSlot] /\ h.buffer \in Steps
      /\ \A s \in {0, 1} : pins[s] # step
  <2>1. ASSUME NEW h \in handles
        PROVE  /\ h.step = issued /\ h.step # step /\ h.buffer # step
               /\ h.buffer # None => h.buffer # pins[pinSlot] /\ h.buffer \in Steps
    <3>1. h.step = issued /\ h.buffer \in Steps \cup {None}
      BY <1>2 DEF MayIssue, Handles
    <3>2. h.buffer # None => h.buffer <= issued
      BY <3>1 DEF StagedInv, Recent
    <3>3. QED
      BY <1>1, <3>1, <3>2 DEF StagedInv, PinsFree
  <2>2. ASSUME NEW s \in {0, 1} PROVE pins[s] # step
    BY <1>1, <1>2 DEF StagedInv, PinsFree
  <2>3. QED
    BY <2>1, <2>2
<1>4. \A i \in 1 .. Len(stream) : stream[i].step # step
  BY <1>3 DEF StagedInv, Underway
<1> DEFINE reused == new.buffer = pins[pinSlot] /\ new.buffer # None
<1>5. /\ stream' \in Seq(Copies) /\ memory' \in [Steps -> Seq(Tokens \cup {None})]
      /\ pins' \in [{0, 1} -> Steps \cup {None}] /\ pinSlot' \in {0, 1}
      /\ new.buffer \in {None, step} \/ reused
      /\ \A b \in Steps \ {step} : memory'[b] = memory[b]
      /\ new.buffer = None => tokens = <<>>
      /\ new.buffer # None => Len(tokens) <= Len(memory'[new.buffer])
      /\ \/ /\ stream' = stream /\ pins' = pins /\ pinSlot' = pinSlot
            /\ new.buffer = None \/ (new.buffer = step /\ memory'[step] = tokens)
         \/ /\ new.buffer # None /\ pinSlot' = 1 - pinSlot
            /\ pins' = [pins EXCEPT ![pinSlot] = new.buffer]
            /\ stream' = Append(stream, [step |-> step, buffer |-> new.buffer, tokens |-> tokens])
  <2>1. CASE new.buffer = None /\ tokens = <<>> /\ UNCHANGED pinVars
    <3>1. UNCHANGED <<stream, pins, pinSlot, memory>>
      BY <2>1 DEF pinVars
    <3> HIDE DEF reused
    <3>2. QED
      BY <1>2, <2>1, <3>1
  <2>2. CASE ~cuda /\ new.buffer = step /\ KeepTensor(step, tokens)
    BY <1>1, <1>2, <2>2 DEF KeepTensor
  <2>3. CASE cuda /\ new.buffer = BufferFor(step, Len(tokens)) /\ CopyToPin(step, new.buffer, tokens)
    <3>1. /\ new.buffer \in Steps
          /\ \/ new.buffer = step
             \/ reused /\ Len(memory[new.buffer]) >= Len(tokens) /\ new.buffer # step
      <4>1. pins[pinSlot] \in Steps \cup {None} /\ pins[pinSlot] # step
        BY <1>2, <1>3
      <4>2. pins[pinSlot] # None => Len(memory[pins[pinSlot]]) \in Nat
        BY <1>2, <4>1
      <4>3. CASE TooSmall(pins[pinSlot], Len(tokens))
        BY <1>1, <2>3, <4>3 DEF BufferFor
      <4>4. CASE ~TooSmall(pins[pinSlot], Len(tokens))
        <5>1. new.buffer = pins[pinSlot]
          BY <2>3, <4>4 DEF BufferFor
        <5>2. pins[pinSlot] # None /\ ~(Len(memory[pins[pinSlot]]) < Len(tokens))
          BY <4>4 DEF TooSmall
        <5>3. QED
          BY <1>1, <4>1, <4>2, <5>1, <5>2
      <4>5. QED
        BY <4>3, <4>4
    <3>2. /\ pins' = [pins EXCEPT ![pinSlot] = new.buffer] /\ pinSlot' = 1 - pinSlot
          /\ stream' = Append(stream, [step |-> step, buffer |-> new.buffer, tokens |-> tokens])
      BY <2>3 DEF CopyToPin, OtherSlot
    <3>3. [step |-> step, buffer |-> new.buffer, tokens |-> tokens] \in Copies
      BY <1>1, <3>1 DEF Copies
    <3>4. pinSlot' \in {0, 1} /\ stream' \in Seq(Copies) /\ pins' \in [{0, 1} -> Steps \cup {None}]
      BY <1>2, <3>1, <3>2, <3>3
    <3> DEFINE empty == [k \in 1 .. Len(tokens) |-> None]
    <3>5. empty \in Seq(Tokens \cup {None}) /\ Len(empty) = Len(tokens)
      BY <1>1
    <3>6. memory' = IF new.buffer = step THEN [memory EXCEPT ![step] = empty] ELSE memory
      BY <2>3 DEF CopyToPin
    <3> HIDE DEF empty
    <3>7. /\ memory' \in [Steps -> Seq(Tokens \cup {None})]
          /\ \A b \in Steps \ {step} : memory'[b] = memory[b]
          /\ Len(tokens) <= Len(memory'[new.buffer])
      BY <1>1, <1>2, <3>1, <3>5, <3>6
    <3>8. QED
      BY <1>1, <3>1, <3>2, <3>4, <3>7
  <2>4. QED
    BY <2>1, <2>2, <2>3 DEF Staging
<1>6. StagedInv'
  <2>1. Shapes'
    BY <1>1, <1>2, <1>5 DEF Shapes, Steps
  <2>2. Recent'
    <3>1. ASSUME NEW h \in handles
          PROVE  /\ h.step \in {issued' - 1, issued'}
                 /\ IF h.buffer = None THEN h.count = 0
                    ELSE h.buffer <= h.step /\ h.count <= Len(memory'[h.buffer])
      <4>1. h.step = issued /\ h.step \in {issued' - 1, issued'}
        BY <1>1, <1>3
      <4>2. h.buffer # None => memory'[h.buffer] = memory[h.buffer]
        BY <1>3, <1>5
      <4>3. QED
        BY <4>1, <4>2 DEF StagedInv, Recent
    <3>2. /\ new.step \in {issued' - 1, issued'}
          /\ IF new.buffer = None THEN new.count = 0
             ELSE new.buffer <= new.step /\ new.count <= Len(memory'[new.buffer])
      <4>1. reused => new.buffer <= step
        <5>1. pins[pinSlot] # None => pins[pinSlot] <= issued /\ pins[pinSlot] \in Nat
          BY <1>2 DEF StagedInv, PinsFree, Steps
        <5>2. QED
          BY <1>1, <5>1
      <4>2. new.buffer # None => new.buffer <= step
        BY <1>1, <1>5, <4>1
      <4>3. QED
        BY <1>1, <1>5, <4>2
    <3>3. QED
      BY <1>1, <3>1, <3>2 DEF Recent
  <2>3. Apart'
    <3>1. \A h \in handles : h.step # new.step /\ (h.buffer # None => h.buffer # new.buffer)
      BY <1>1, <1>3, <1>5
    <3>2. QED
      BY <1>1, <3>1 DEF StagedInv, Apart
  <2>4. PinsFree'
    <3>1. \A s \in {0, 1} : pins'[s] # None => pins'[s] <= issued'
      <4>1. \A s \in {0, 1} : pins[s] # None => pins[s] <= issued' /\ pins[s] \in Nat
        BY <1>1, <1>2 DEF StagedInv, PinsFree, Steps
      <4>2. \A s \in {0, 1} : pins'[s] = pins[s] \/ pins'[s] = new.buffer
        BY <1>2, <1>5
      <4>3. new.buffer # None => new.buffer <= issued'
        BY <1>1, <1>2, <1>5, <4>1
      <4>4. QED
        BY <4>1, <4>2, <4>3
    <3>2. pins'[0] = pins'[1] => pins'[0] = None
      BY <1>1, <1>2, <1>3, <1>5 DEF StagedInv, PinsFree
    <3>3. \A h \in handles' : h.step = issued' /\ h.buffer # None => h.buffer # pins'[pinSlot']
      <4>1. SUFFICES ASSUME new.buffer # None PROVE new.buffer # pins'[pinSlot']
        BY <1>1, <1>3
      <4>2. CASE pins' = pins /\ pinSlot' = pinSlot /\ new.buffer = step
        BY <1>2, <1>3, <4>2
      <4>3. CASE pinSlot' = 1 - pinSlot /\ pins' = [pins EXCEPT ![pinSlot] = new.buffer]
        <5>1. pins'[pinSlot'] = pins[1 - pinSlot] /\ 1 - pinSlot \in {0, 1}
          BY <1>2, <4>3
        <5>2. pins[pinSlot] # None => pins[pinSlot] # pins[1 - pinSlot]
          BY <1>2 DEF StagedInv, PinsFree
        <5>3. QED
          BY <1>3, <1>5, <4>1, <5>1, <5>2
      <4>4. QED
        BY <1>5, <4>1, <4>2, <4>3
    <3>4. QED
      BY <3>1, <3>2, <3>3 DEF PinsFree
  <2>5. Underway'
    <3>1. CASE stream' = stream
      BY <1>1, <3>1 DEF StagedInv, Underway
    <3>2. CASE new.buffer # None
               /\ stream' = Append(stream, [step |-> step, buffer |-> new.buffer, tokens |-> tokens])
      <4> DEFINE copy == [step |-> step, buffer |-> new.buffer, tokens |-> tokens]
      <4>1. /\ Len(stream') = Len(stream) + 1 /\ Len(stream) \in Nat
            /\ \A i \in 1 .. Len(stream) : stream'[i] = stream[i]
            /\ stream'[Len(stream) + 1] = copy
        BY <1>2, <3>2
      <4>2. \A i \in 1 .. Len(stream') :
              \E h \in handles' : /\ h.step = stream'[i].step /\ h.buffer = stream'[i].buffer
                                  /\ h.buffer # None /\ h.count = Len(stream'[i].tokens)
        <5>1. ASSUME NEW i \in 1 .. Len(stream)
              PROVE  \E h \in handles' : /\ h.step = stream'[i].step /\ h.buffer = stream'[i].buffer
                                         /\ h.buffer # None /\ h.count = Len(stream'[i].tokens)
          BY <1>1, <4>1 DEF StagedInv, Underway
        <5>2. /\ new.step = copy.step /\ new.buffer = copy.buffer /\ new.count = Len(copy.tokens)
              /\ new \in handles'
          BY <1>1
        <5> HIDE DEF copy
        <5>3. QED
          BY <3>2, <4>1, <5>1, <5>2
      <4>3. \A i, j \in 1 .. Len(stream') : stream'[i].step = stream'[j].step => i = j
        <5>1. \A i, j \in 1 .. Len(stream) : stream[i].step = stream[j].step => i = j
          BY DEF StagedInv, Underway
        <5>2. copy.step = step
          OBVIOUS
        <5> HIDE DEF copy, step
        <5>3. QED
          BY <1>4, <4>1, <5>1, <5>2
      <4>4. QED
        BY <4>2, <4>3 DEF Underway
    <3>3. QED
      BY <1>5, <3>1, <3>2
  <2>6. QED
    BY <2>1, <2>2, <2>3, <2>4, <2>5 DEF StagedInv
<1>7. ASSUME NEW h \in handles PROVE Promised(h)' = Promised(h)
  <2>1. /\ InFlight(h)' = InFlight(h)
        /\ \A i \in InFlight(h) : stream'[i] = stream[i]
    <3>1. h.step # step
      BY <1>3
    <3>2. CASE stream' = stream
      BY <3>2 DEF InFlight
    <3>3. CASE stream' = Append(stream, [step |-> step, buffer |-> new.buffer, tokens |-> tokens])
      <4>1. /\ Len(stream') = Len(stream) + 1 /\ Len(stream) \in Nat
            /\ \A i \in 1 .. Len(stream) : stream'[i] = stream[i]
            /\ stream'[Len(stream) + 1].step = step
        BY <1>2, <3>3
      <4> HIDE DEF step
      <4>2. QED
        BY <3>1, <4>1 DEF InFlight
    <3>4. QED
      BY <1>5, <3>2, <3>3
  <2>2. Cells(h)' = Cells(h)
    BY <1>3, <1>5 DEF Cells
  <2>3. CASE InFlight(h) = {}
    BY <2>1, <2>2, <2>3 DEF Promised, ResultsFrom
  <2>4. CASE InFlight(h) # {}
    <3>1. (CHOOSE i \in InFlight(h) : TRUE) \in InFlight(h)
      BY <2>4
    <3>2. QED
      BY <2>1, <2>4, <3>1 DEF Promised, ResultsFrom
  <2>5. QED
    BY <2>3, <2>4
<1>8. Promised(new)' = ResultsFrom(new, tokens)
  <2>1. CASE stream' = stream
    <3>1. InFlight(new)' = {}
      BY <1>1, <1>4, <2>1 DEF InFlight
    <3>2. Cells(new)' = tokens
      <4>1. CASE new.buffer = None
        BY <1>5, <4>1 DEF Cells
      <4>2. CASE new.buffer = step /\ memory'[step] = tokens
        <5>1. SubSeq(tokens, 1, Len(tokens)) = tokens
          BY SubSeqFull
        <5>2. new.buffer # None
          BY <1>1, <4>2
        <5>3. QED
          BY <1>1, <4>2, <5>1, <5>2 DEF Cells
      <4>3. QED
        BY <1>2, <1>5, <2>1, <4>1, <4>2
    <3>3. QED
      BY <3>1, <3>2 DEF Promised, ResultsFrom
  <2>2. CASE stream' = Append(stream, [step |-> step, buffer |-> new.buffer, tokens |-> tokens])
    <3>1. /\ Len(stream') = Len(stream) + 1 /\ Len(stream) \in Nat
          /\ \A i \in 1 .. Len(stream) : stream'[i] = stream[i]
          /\ stream'[Len(stream) + 1].step = step /\ stream'[Len(stream) + 1].tokens = tokens
      BY <1>2, <2>2
    <3>2. InFlight(new)' = {Len(stream) + 1}
      BY <1>1, <1>4, <3>1 DEF InFlight
    <3>3. QED
      BY <3>1, <3>2 DEF Promised, ResultsFrom
  <2>3. QED
    BY <1>5, <2>1, <2>2
<1>9. QED
  BY <1>6, <1>7, <1>8

-----------------------------------------------------------------------------
\* The backend's part of a step.

\* A nonempty list of integers has a largest and a smallest value.
LEMMA Extremes ==
  ASSUME NEW n \in Nat \ {0}, NEW v \in [1 .. n -> Int]
  PROVE  LET S == {v[i] : i \in 1 .. n}
         IN  Largest(S) \in S /\ Smallest(S) \in S /\ \A y \in S : Smallest(S) <= y
<1> DEFINE S == {v[i] : i \in 1 .. n}
<1>1. v \in Surjection(1 .. n, S) /\ v[1] \in S
  BY DEF Surjection
<1>2. IsFiniteSet(S) /\ S \in SUBSET Int /\ S # {}
  <2>1. IsFiniteSet(1 .. n)
    BY FS_Interval
  <2>2. IsFiniteSet(S)
    BY <1>1, <2>1, FS_Surjection
  <2>3. QED
    BY <1>1, <2>2
<1> HIDE DEF S
<1>3. (\E x \in S : \A y \in S : x <= y) /\ (\E x \in S : \A y \in S : y <= x)
  BY <1>2, FirstAndLast
<1>4. Largest(S) \in S
  BY <1>3 DEF Largest
<1>5. Smallest(S) \in S /\ \A y \in S : Smallest(S) <= y
  BY <1>3 DEF Smallest
<1>6. QED
  BY <1>4, <1>5 DEF S

\* The columns a bulk prefill consumes, and those behind them, are numbers.
LEMMA WindowIsNat ==
  ASSUME NEW rows \in Seq(Requests), rows # <<>>
  PROVE  ShortestPrompt(rows) \in Nat /\ Window(rows) \in Nat
<1> DEFINE n == Len(rows)
           lens == [i \in 1 .. n |-> PromptLen[rows[i]]]
           short == ShortestPrompt(rows)
           need(r) == PromptLen[r] - short + (IF MaxNewTokens[r] = 0 THEN 1 ELSE MaxNewTokens[r])
           needs == [i \in 1 .. n |-> need(rows[i])]
<1>1. n \in Nat \ {0} /\ \A i \in 1 .. n : rows[i] \in Requests
  OBVIOUS
<1>2. \A i \in 1 .. n : PromptLen[rows[i]] \in Nat /\ MaxNewTokens[rows[i]] \in Nat
  BY <1>1, StagedAssumption DEF StagedAssumption
<1>3. short \in Nat /\ \A i \in 1 .. n : short <= PromptLen[rows[i]]
  <2>1. lens \in [1 .. n -> Int]
    BY <1>2
  <2>2. {lens[i] : i \in 1 .. n} = {PromptLen[rows[i]] : i \in 1 .. n}
    OBVIOUS
  <2>3. short = Smallest({lens[i] : i \in 1 .. n})
    BY <2>2 DEF ShortestPrompt
  <2> HIDE DEF n, short
  <2>4. short \in {lens[i] : i \in 1 .. n} /\ \A y \in {lens[i] : i \in 1 .. n} : short <= y
    BY <1>1, <2>1, <2>3, Extremes
  <2>5. QED
    BY <1>2, <2>4
<1>4. Window(rows) \in {needs[i] : i \in 1 .. n}
  <2>1. \A i \in 1 .. n : need(rows[i]) \in Int
    BY <1>2, <1>3
  <2>2. {needs[i] : i \in 1 .. n} = {need(rows[i]) : i \in 1 .. n}
    OBVIOUS
  <2>3. Window(rows) = Largest({needs[i] : i \in 1 .. n})
    BY <2>2 DEF Window
  <2> HIDE DEF n, short, need
  <2>4. needs \in [1 .. n -> Int]
    BY <2>1
  <2> HIDE DEF needs
  <2>5. QED
    BY <1>1, <2>3, <2>4, Extremes
<1>5. \A i \in 1 .. n : needs[i] \in Nat
  <2> HIDE DEF short
  <2>1. QED
    BY <1>2, <1>3
<1>6. QED
  BY <1>3, <1>4, <1>5

\* A step's skeleton has one entry per row.
LEMMA Collected ==
  ASSUME NEW rows \in Seq(Requests), NEW columns \in Seq(SUBSET Nat), Len(columns) = Len(rows),
         NEW width \in Nat, NEW position \in Nat, Collect(rows, columns, width, position)
  PROVE  /\ filled' \in Seq(SUBSET Nat) /\ Len(filled') = Len(rows)
         /\ staged' \in Seq(StepRows) /\ Len(staged') = Len(rows)
<1> DEFINE n == Len(rows)
           column(i) == IF position >= PromptLen[rows[i]] /\ position < width
                        THEN columns[i] \cup {position} ELSE columns[i]
           result(i) == [req |-> rows[i], emits |-> position >= PromptLen[rows[i]]]
<1>1. n \in Nat /\ \A i \in 1 .. n : rows[i] \in Requests /\ columns[i] \in SUBSET Nat
  OBVIOUS
<1>2. filled' = [i \in 1 .. n |-> column(i)] /\ staged' = [i \in 1 .. n |-> result(i)]
  BY DEF Collect, Emits
<1>3. \A i \in 1 .. n : column(i) \in SUBSET Nat /\ result(i) \in StepRows
  BY <1>1 DEF StepRows
<1> HIDE DEF n, column, result
<1>4. filled' \in Seq(SUBSET Nat) /\ Len(filled') = n
  BY <1>1, <1>2, <1>3
<1>5. staged' \in Seq(StepRows) /\ Len(staged') = n
  BY <1>1, <1>2, <1>3
<1>6. QED
  BY <1>4, <1>5 DEF n

LEMMA PrefillTypes ==
  ASSUME NEW rows \in Cohorts, Prefill(rows)
  PROVE  BackendTypeOK' /\ reqIds' = rows /\ staged' \in Seq(StepRows) /\ Len(staged') = Len(rows)
<1> DEFINE n == Len(rows)
           columns == PromptColumns(rows)
<1>1. /\ rows \in Seq(Requests) /\ rows # <<>> /\ n \in Nat \ {0}
      /\ \A i \in 1 .. n : rows[i] \in Requests /\ PromptLen[rows[i]] \in Nat
                           /\ MaxNewTokens[rows[i]] \in Nat
  <2>1. rows \in Seq(Requests) /\ rows # <<>>
    BY StagedAssumption DEF StagedAssumption
  <2>2. QED
    BY <2>1, StagedAssumption DEF StagedAssumption
<1>2. columns \in Seq(SUBSET Nat) /\ Len(columns) = n
  <2>1. \A i \in 1 .. n : 0 .. PromptLen[rows[i]] - 1 \in SUBSET Nat
    BY <1>1
  <2>2. columns = [i \in 1 .. n |-> 0 .. PromptLen[rows[i]] - 1]
    BY DEF PromptColumns
  <2> HIDE DEF columns, n
  <2>3. QED
    BY <1>1, <2>1, <2>2
<1>3. CASE PrefillBulk(rows)
  <2> DEFINE short == ShortestPrompt(rows)
             width == short + Window(rows)
  <2>1. /\ reqIds' = rows /\ cursor' = short /\ total' = width
        /\ Collect(rows, columns, width, short)
    BY <1>3 DEF PrefillBulk
  <2>2. short \in Nat /\ width \in Nat
    BY <1>1, WindowIsNat
  <2> HIDE DEF short, width, columns
  <2>3. QED
    BY <1>1, <1>2, <2>1, <2>2, Collected DEF BackendTypeOK, StepRows
<1>4. CASE PrefillFromSnapshot(rows)
  <2> DEFINE r == rows[1]
             width == PromptLen[r] + MaxNewTokens[r] + 1
  <2>1. /\ n = 1 /\ SharedLen[r] # None /\ r \in Requests
        /\ reqIds' = rows /\ total' = width
    BY <1>1, <1>4 DEF PrefillFromSnapshot, Hits
  <2>2. PromptLen[r] \in Nat /\ MaxNewTokens[r] \in Nat /\ SharedLen[r] \in Nat /\ width \in Nat
    BY <2>1, StagedAssumption DEF StagedAssumption
  <2>3. CASE PromptLen[r] - SharedLen[r] > 1
    <3>1. cursor' = PromptLen[r] /\ Collect(rows, columns, width, PromptLen[r])
      BY <1>4, <2>3 DEF PrefillFromSnapshot
    <3> HIDE DEF width, columns
    <3>2. QED
      BY <1>1, <1>2, <2>1, <2>2, <3>1, Collected DEF BackendTypeOK, StepRows
  <2>4. CASE ~(PromptLen[r] - SharedLen[r] > 1)
    <3>1. /\ cursor' = SharedLen[r] /\ filled' = columns
          /\ staged' = <<[req |-> r, emits |-> FALSE]>>
      BY <1>4, <2>4 DEF PrefillFromSnapshot
    <3>2. staged' \in Seq(StepRows) /\ Len(staged') = n
      BY <2>1, <3>1 DEF StepRows
    <3> HIDE DEF width, columns
    <3>3. QED
      BY <1>1, <1>2, <2>1, <2>2, <3>1, <3>2 DEF BackendTypeOK, StepRows
  <2>5. QED
    BY <2>3, <2>4
<1>5. QED
  BY <1>3, <1>4 DEF Prefill

LEMMA DecodeTypes ==
  ASSUME BackendTypeOK, Decode(reqIds)
  PROVE  /\ BackendTypeOK' /\ reqIds' = reqIds
         /\ staged' \in Seq(StepRows) /\ Len(staged') = Len(reqIds)
<1>1. /\ cursor' = cursor + 1 /\ UNCHANGED <<reqIds, total>>
      /\ Collect(reqIds, filled, total, cursor + 1)
  BY DEF Decode
<1>2. /\ reqIds \in Seq(Requests) /\ cursor + 1 \in Nat /\ total \in Nat
      /\ filled \in Seq(SUBSET Nat) /\ Len(filled) = Len(reqIds)
  BY DEF BackendTypeOK
<1>3. QED
  BY <1>1, <1>2, Collected DEF BackendTypeOK, StepRows

-----------------------------------------------------------------------------
\* A step is the contract's.

LEMMA StakeStep ==
  ASSUME StagedInv, MayIssue, NEW rows \in Cohorts, reqIds' \in Cohorts,
         NEW sk \in Seq(StepRows), Len(sk) = Len(rows), SampleAndStake(rows, sk)
  PROVE  StagedInv' /\ Contract!Enqueue
<1> DEFINE emit == EmitList(sk)
           params == Params(emit, rows)
           tokens == SampleBatch(params)
           step == issued + 1
           buffer == IF emit = <<>> THEN None ELSE BufferFor(step, Len(tokens))
           new == [step |-> step, skeleton |-> Skeleton(emit, rows),
                   buffer |-> buffer, count |-> Len(tokens)]
<1>1. /\ rows \in Seq(Requests) /\ draws \in Nat /\ issued \in Nat /\ issued < MaxSteps
      /\ step \in Steps
  BY StagedAssumption DEF StagedAssumption, StagedInv, Shapes, MayIssue, Steps
<1>2. /\ tokens \in Seq(Tokens) /\ Len(tokens) = Len(emit) /\ Len(emit) \in Nat
      /\ Len(StochasticRows(params)) = Contract!Cardinality(Contract!Drawing(rows, Emitting(sk)))
      /\ Len(StochasticRows(params)) \in Nat
  BY <1>1, StagedAssumption, SamplesPerRow, EmitListFacts, SameCount
<1>3. /\ issued' = step /\ draws' = draws + Len(StochasticRows(params))
      /\ handles' = handles \cup {new} /\ UNCHANGED <<cuda, answer>>
      /\ IF emit = <<>> THEN UNCHANGED pinVars
         ELSE IF cuda THEN CopyToPin(step, buffer, tokens) ELSE KeepTensor(step, tokens)
  BY DEF SampleAndStake
<1>4. Skeleton(emit, rows) \in Seq([req : Requests, at : Nat \cup {None}])
  <2> DEFINE entry(i) == [req |-> rows[i],
                          at  |-> IF \E k \in 1 .. Len(emit) : emit[k] = i
                                  THEN PlaceIn(emit, i) ELSE None]
  <2>1. ASSUME NEW i \in 1 .. Len(rows) PROVE entry(i) \in [req : Requests, at : Nat \cup {None}]
    <3>1. ASSUME NEW k \in 1 .. Len(emit), emit[k] = i PROVE PlaceIn(emit, i) \in Nat
      <4>1. PlaceIn(emit, i) \in 1 .. Len(emit)
        BY <3>1 DEF PlaceIn
      <4> DEFINE place == PlaceIn(emit, i)
      <4> HIDE DEF place, emit
      <4>2. place \in Nat
        BY <1>2, <4>1 DEF place
      <4>3. QED
        BY <4>2 DEF place
    <3>2. rows[i] \in Requests
      BY <1>1
    <3> HIDE DEF emit
    <3>3. QED
      BY <3>1, <3>2
  <2>2. Skeleton(emit, rows) = [i \in 1 .. Len(rows) |-> entry(i)] /\ Len(rows) \in Nat
    BY <1>1 DEF Skeleton
  <2> HIDE DEF entry, emit
  <2>3. QED
    BY <2>1, <2>2
<1>5. buffer \in Steps \cup {None}
  BY <1>1 DEF BufferFor, StagedInv, Shapes
<1>6. Staging(new, tokens)
  <2>1. new \in Handles
    BY <1>1, <1>2, <1>4, <1>5 DEF Handles
  <2>2. /\ new.step = step /\ new.count = Len(tokens) /\ new.buffer = buffer
        /\ handles' = handles \cup {new}
    BY <1>3
  <2> HIDE DEF new
  <2>3. CASE emit = <<>>
    <3>1. tokens = <<>>
      BY <1>2, <2>3
    <3>2. QED
      BY <1>3, <2>1, <2>2, <2>3, <3>1 DEF Staging
  <2>4. CASE emit # <<>> /\ cuda
    <3> HIDE DEF tokens, emit
    <3>1. QED
      BY <1>3, <2>1, <2>2, <2>4 DEF Staging
  <2>5. CASE emit # <<>> /\ ~cuda
    <3>1. buffer = step
      BY <2>5 DEF BufferFor
    <3> HIDE DEF tokens, emit, buffer
    <3>2. QED
      BY <1>3, <2>1, <2>2, <2>5, <3>1 DEF Staging
  <2>6. QED
    BY <2>3, <2>4, <2>5
<1>7. draws' \in Nat
  BY <1>1, <1>2, <1>3
<1>8. new.skeleton = Skeleton(emit, rows) /\ new.step = step /\ handles' = handles \cup {new}
  BY <1>3
<1>9. ResultsFrom(new, tokens) = Contract!Results(rows, Emitting(sk))
  <2> HIDE DEF new
  <2>1. QED
    BY <1>1, <1>8, StagedAssumption, ResultsAsPromised
<1>10. PICK h, t : h = new /\ t = tokens
  OBVIOUS
<1>11. /\ t \in Seq(Tokens) /\ Staging(h, t) /\ h.step = step /\ handles' = handles \cup {h}
       /\ ResultsFrom(h, t) = Contract!Results(rows, Emitting(sk))
  <2> HIDE DEF new, tokens
  <2>1. QED
    BY <1>2, <1>6, <1>8, <1>9, <1>10
<1> HIDE DEF emit, params, tokens, buffer, new
<1>12. /\ StagedInv' /\ \A g \in handles : Promised(g)' = Promised(g)
       /\ Promised(h)' = ResultsFrom(h, t)
  BY <1>7, <1>11, StagingKeepsPromises
<1>13. Owed' = Owed \cup {[step |-> step, results |-> Contract!Results(rows, Emitting(sk))]}
  <2>1. Owed' = {[step |-> g.step, results |-> Promised(g)'] : g \in handles'}
    BY DEF Owed
  <2>2. [step |-> h.step, results |-> Promised(h)']
          = [step |-> step, results |-> Contract!Results(rows, Emitting(sk))]
    BY <1>11, <1>12
  <2>3. \A g \in handles : [step |-> g.step, results |-> Promised(g)']
                             = [step |-> g.step, results |-> Promised(g)]
    BY <1>12
  <2>4. QED
    BY <1>11, <2>1, <2>2, <2>3 DEF Owed
<1>14. Emitting(sk) \in SUBSET (1 .. Len(rows))
  BY DEF Emitting
<1>15. QED
  BY <1>1, <1>2, <1>3, <1>12, <1>13, <1>14 DEF Contract!Enqueue, Owed

\* A resolved handle gives what it promised, and the others still promise the same.
LEMMA ResolveStep ==
  ASSUME StagedInv, NEW h \in handles, Resolve(h)
  PROVE  StagedInv' /\ Contract!Resolve
<1>1. /\ InFlight(h) = {} /\ handles' = handles \ {h}
      /\ answer' = [step |-> h.step, results |-> ResultsFrom(h, Cells(h))]
      /\ UNCHANGED <<reqIds, cuda, issued, draws, stream, pins, pinSlot, memory>>
  BY DEF Resolve, backendVars, pinVars
<1>2. \A g : Promised(g)' = Promised(g)
  BY <1>1 DEF Promised, ResultsFrom, InFlight, Cells
<1> DEFINE p(g) == [step |-> g.step, results |-> Promised(g)]
<1>3. answer' = p(h) /\ p(h) \in Owed
  BY <1>1 DEF Promised, Owed
<1>4. Owed' = Owed \ {p(h)}
  <2>1. Owed' = {p(g) : g \in handles \ {h}}
    BY <1>1, <1>2 DEF Owed
  <2>2. \A g \in handles \ {h} : p(g) # p(h)
    BY DEF StagedInv, Apart
  <2> HIDE DEF p
  <2>3. Owed = {p(g) : g \in handles}
    BY DEF Owed, p
  <2>4. QED
    BY <2>1, <2>2, <2>3
<1>5. StagedInv'
  <2>1. Shapes' /\ Recent' /\ Apart' /\ PinsFree'
    BY <1>1 DEF StagedInv, Shapes, Recent, Apart, PinsFree
  <2>2. \A i \in 1 .. Len(stream) : stream[i].step # h.step
    BY <1>1 DEF InFlight
  <2>3. Underway'
    BY <1>1, <2>2 DEF StagedInv, Underway
  <2>4. QED
    BY <2>1, <2>3 DEF StagedInv
<1>6. QED
  BY <1>1, <1>3, <1>4, <1>5 DEF Contract!Resolve, Owed

\* shutdown forgets the buffers and breaks no promise.
LEMMA ShutdownStep ==
  ASSUME StagedInv, Shutdown
  PROVE  StagedInv' /\ \A h \in handles : Promised(h)' = Promised(h)
<1>1. /\ UNCHANGED <<cuda, issued, draws, stream, memory, handles, answer>>
      /\ pins' = NoPins /\ pinSlot' = 0 /\ reqIds' = <<>>
  BY DEF Shutdown, Reset
<1>2. Shapes' /\ Recent' /\ Apart' /\ Underway'
  BY <1>1 DEF StagedInv, Shapes, Recent, Apart, Underway, NoPins
<1>3. PinsFree'
  BY <1>1 DEF PinsFree, NoPins
<1>4. QED
  BY <1>1, <1>2, <1>3 DEF StagedInv, Promised, ResultsFrom, InFlight, Cells

Inv == BackendTypeOK /\ StagedInv

LEMMA InvInit == Init => Inv
<1>1. Init => BackendTypeOK
  BY DEF Init, BackendInit, BackendTypeOK
<1>2. QED
  BY <1>1, StagedInvInit DEF Inv

\* Every step is one of the contract's, or none that the caller could notice.
LEMMA InvNext == Inv /\ [Next]_vars => Inv' /\ [Contract!Next]_(Contract!vars)
<1> SUFFICES ASSUME Inv, [Next]_vars PROVE Inv' /\ [Contract!Next]_(Contract!vars)
  OBVIOUS
<1>1. ASSUME UNCHANGED <<handles, issued, draws, answer>>,
             \A h \in handles : Promised(h)' = Promised(h)
      PROVE  UNCHANGED Contract!vars
  <2>1. Owed' = Owed
    BY <1>1 DEF Owed
  <2>2. QED
    BY <1>1, <2>1 DEF Contract!vars, Owed
<1>2. ASSUME NEW rows \in Cohorts, EnqueuePrefill(rows)
      PROVE  Inv' /\ [Contract!Next]_(Contract!vars)
  <2>1. MayIssue /\ Prefill(rows) /\ SampleAndStake(rows, staged')
    BY <1>2 DEF EnqueuePrefill
  <2>2. /\ BackendTypeOK' /\ reqIds' = rows /\ staged' \in Seq(StepRows)
        /\ Len(staged') = Len(rows)
    BY <2>1, PrefillTypes
  <2>3. StagedInv' /\ Contract!Enqueue
    BY <2>1, <2>2, StakeStep DEF Inv
  <2>4. QED
    BY <2>2, <2>3 DEF Inv, Contract!Next
<1>3. CASE EnqueueDecode
  <2>1. MayIssue /\ Decode(reqIds) /\ reqIds # <<>> /\ SampleAndStake(reqIds, staged')
    BY <1>3 DEF EnqueueDecode
  <2>2. /\ BackendTypeOK' /\ reqIds' = reqIds /\ staged' \in Seq(StepRows)
        /\ Len(staged') = Len(reqIds)
    BY <2>1, DecodeTypes DEF Inv
  <2>3. reqIds \in Cohorts
    BY <2>1 DEF Inv, StagedInv, Shapes
  <2>4. StagedInv' /\ Contract!Enqueue
    BY <2>1, <2>2, <2>3, StakeStep DEF Inv
  <2>5. QED
    BY <2>2, <2>4 DEF Inv, Contract!Next
<1>4. CASE DeviceCopies
  <2>1. UNCHANGED <<backendVars, handles, issued, draws, answer>>
    BY <1>4 DEF DeviceCopies
  <2>2. BackendTypeOK'
    BY <2>1 DEF Inv, BackendTypeOK, backendVars
  <2>3. QED
    BY <1>1, <1>4, <2>1, <2>2, CopyKeepsPromises DEF Inv
<1>5. ASSUME NEW h \in handles, Resolve(h)
      PROVE  Inv' /\ [Contract!Next]_(Contract!vars)
  <2>1. BackendTypeOK'
    BY <1>5 DEF Resolve, Inv, BackendTypeOK, backendVars
  <2>2. QED
    BY <1>5, <2>1, ResolveStep DEF Inv, Contract!Next
<1>6. CASE Shutdown
  <2>1. UNCHANGED <<handles, issued, draws, answer>>
    BY <1>6 DEF Shutdown
  <2>2. BackendTypeOK'
    <3>1. reqIds' = <<>> /\ cursor' = 0 /\ total' = 0 /\ filled' = <<>> /\ staged' = staged
      BY <1>6 DEF Shutdown, Reset
    <3>2. QED
      BY <3>1 DEF Inv, BackendTypeOK
  <2>3. QED
    BY <1>1, <1>6, <2>1, <2>2, ShutdownStep DEF Inv
<1>7. CASE UNCHANGED vars
  <2>1. /\ UNCHANGED <<reqIds, cursor, total, filled, staged, cuda, issued, draws, stream, pins,
                       pinSlot, memory, handles, answer>>
    BY <1>7 DEF vars, backendVars, pinVars
  <2>2. Inv'
    BY <2>1 DEF Inv, BackendTypeOK, StagedInv, Shapes, Recent, Apart, PinsFree, Underway
  <2>3. \A h \in handles : Promised(h)' = Promised(h)
    BY <2>1 DEF Promised, ResultsFrom, InFlight, Cells
  <2>4. QED
    BY <1>1, <2>1, <2>2, <2>3
<1>8. QED
  BY <1>2, <1>3, <1>4, <1>5, <1>6, <1>7 DEF Next

LEMMA Invariant == Spec => []Inv
<1>1. Inv /\ [Next]_vars => Inv'
  BY InvNext
<1>2. QED
  BY <1>1, InvInit, PTL DEF Spec

\* Every handle and every copy still to be done fits the buffer it names,
\* whatever sizes the batches grow to and wherever shutdown falls.
THEOREM StagedTypeCorrect == Spec => []TypeOK
<1>1. Inv => TypeOK
  <2> SUFFICES ASSUME Inv PROVE TypeOK
    OBVIOUS
  <2>1. /\ issued \in 0 .. MaxSteps /\ issued \in Nat /\ draws \in Nat /\ pinSlot \in {0, 1}
        /\ pins \in [{0, 1} -> Steps \cup {None}] /\ handles \subseteq Handles
    BY StagedAssumption DEF Inv, StagedInv, Shapes, StagedAssumption
  <2>2. \A h \in handles :
          h.step <= issued /\ (h.buffer = None \/ h.count <= Len(memory[h.buffer]))
    BY <2>1 DEF Inv, StagedInv, Recent
  <2>3. \A i \in 1 .. Len(stream) : Len(stream[i].tokens) <= Len(memory[stream[i].buffer])
    BY <2>2 DEF Inv, StagedInv, Underway
  <2>4. QED
    BY <2>1, <2>2, <2>3 DEF Inv, TypeOK
<1>2. QED
  BY <1>1, Invariant, PTL

\* The split step keeps the backend's promise: each row of each step gets the
\* per-row sampler's token, and a handle gives its own step's tokens although the
\* device is slow and the next step, a larger buffer or shutdown comes first.
THEOREM ContractIsKept == Spec => ImplementsContract
<1>1. Init => Contract!Init
  <2> SUFFICES ASSUME Init PROVE Contract!Init
    OBVIOUS
  <2>1. issued = 0 /\ draws = 0 /\ answer = None /\ handles = {}
    BY DEF Init
  <2>2. QED
    BY <2>1 DEF Contract!Init
<1>2. Inv /\ [Next]_vars => [Contract!Next]_(Contract!vars)
  BY InvNext
<1>3. QED
  BY <1>1, <1>2, Invariant, PTL DEF Spec, ImplementsContract, Contract!Spec
=============================================================================

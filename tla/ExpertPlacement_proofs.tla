----------------------- MODULE ExpertPlacement_proofs -----------------------
(***************************************************************************)
(* Proofs about ExpertPlacement: whatever file the ranks are given and     *)
(* however their loaders interleave, the exchange preserves the model's    *)
(* function, the collectives agree, and nobody gets through alone.         *)
(***************************************************************************)
EXTENDS ExpertPlacement, Positions_proofs

-----------------------------------------------------------------------------
\* Slots and permutations of them.

\* The slots are finitely many integers, and each has a rank that owns it.
LEMMA SlotFacts ==
  /\ IsFiniteSet(Slots)
  /\ Slots \subseteq Int
  /\ \A slot \in Slots : Owner(slot) \in Ranks
<1>1. World * NLocal \in Int
  BY PlacementAssumption
<1>2. IsFiniteSet(Slots) /\ Slots \subseteq Int
  BY <1>1, FS_Interval DEF Slots
<1>3. ASSUME NEW slot \in Slots PROVE Owner(slot) \in Ranks
  <2>1. slot \in Int /\ 0 <= slot /\ slot < World * NLocal
    BY <1>1 DEF Slots
  <2>2. slot \div NLocal \in Int /\ 0 <= slot \div NLocal
    BY <2>1, PlacementAssumption
  <2>3. NLocal * (slot \div NLocal) <= slot
    BY <2>1, PlacementAssumption
  <2>4. slot \div NLocal < World
    BY <2>1, <2>2, <2>3, PlacementAssumption
  <2>5. QED
    BY <2>2, <2>4, PlacementAssumption DEF Owner, Ranks
<1>4. QED
  BY <1>2, <1>3

\* What the validity test of apply() establishes: distinct slots name distinct
\* experts, and OldToNew is the inverse.
LEMMA PermutationFacts ==
  ASSUME NEW row, IsPermutation(row)
  PROVE  /\ \A slot \in Slots : row[slot] \in Slots
         /\ \A a, b \in Slots : row[a] = row[b] => a = b
         /\ \A slot \in Slots : OldToNew(row)[row[slot]] = slot
<1> DEFINE f == [slot \in Slots |-> row[slot]]
<1>1. \A slot \in Slots : row[slot] \in Slots
  BY DEF IsPermutation
<1>2. f \in Surjection(Slots, Slots)
  BY DEF IsPermutation, Surjection
<1>3. f \in Injection(Slots, Slots)
  BY <1>2, SlotFacts, FS_SurjSameCardinalityImpliesInj
<1>4. \A a, b \in Slots : row[a] = row[b] => a = b
  BY <1>3 DEF Injection, IsInjective
<1>5. ASSUME NEW slot \in Slots PROVE OldToNew(row)[row[slot]] = slot
  <2>1. OldToNew(row)[row[slot]] = CHOOSE other \in Slots : row[other] = row[slot]
    BY <1>1 DEF OldToNew
  <2>2. QED
    BY <2>1, <1>4
<1>6. QED
  BY <1>1, <1>4, <1>5

\* Distinct experts: a set of slots names as many.
LEMMA NamedCount ==
  ASSUME NEW row, IsPermutation(row), NEW S \in SUBSET Slots
  PROVE  Cardinality({row[slot] : slot \in S}) = Cardinality(S)
<1> DEFINE T == {row[slot] : slot \in S}
           f == [slot \in S |-> row[slot]]
<1>1. f \in Bijection(S, T)
  BY PermutationFacts DEF Bijection, Injection, IsInjective, Surjection
<1>2. IsFiniteSet(S)
  BY SlotFacts, FS_Subset
<1>3. ExistsBijection(S, T)
  BY <1>1 DEF ExistsBijection
<1>4. QED
  BY <1>2, <1>3, FS_Bijection

\* A set of slots is finite, so that rank and Nth undo each other.
LEMMA PlaceOfSlot ==
  ASSUME NEW S \in SUBSET Slots
  PROVE  /\ \A e \in S : Nth(S, Cardinality({f \in S : f <= e})) = e
         /\ \A e \in S : Cardinality({f \in S : f <= e}) \in 1 .. Cardinality(S)
         /\ \A k \in 1 .. Cardinality(S) : \E e \in S : Cardinality({f \in S : f <= e}) = k
<1>1. S \in SUBSET Int /\ IsFiniteSet(S)
  BY SlotFacts, FS_Subset
<1>2. \A e \in S : Nth(S, Cardinality({f \in S : f <= e})) = e
  BY <1>1, NthOfRank
<1>3. QED
  BY <1>1, <1>2, RankOnto

-----------------------------------------------------------------------------
\* One layer's exchange.

\* The experts of rank s that rank r wants, in pack order.
Sent(row, s, r) == {e \in Local(s) : Dest(row, e) = r}

\* What s sends to r is what r's slots name among the experts of s.
LEMMA SentIsNamed ==
  ASSUME NEW row, IsPermutation(row), NEW r \in Ranks, NEW s \in Ranks
  PROVE  /\ Sent(row, s, r) = {row[slot] : slot \in SlotsFrom(row, r, s)}
         /\ Cardinality(Sent(row, s, r)) = Cardinality(SlotsFrom(row, r, s))
<1>1. ASSUME NEW slot \in SlotsFrom(row, r, s) PROVE row[slot] \in Sent(row, s, r)
  BY PermutationFacts DEF SlotsFrom, Sent, Local, Dest
<1>2. ASSUME NEW e \in Sent(row, s, r)
      PROVE  \E slot \in SlotsFrom(row, r, s) : e = row[slot]
  <2>1. PICK slot \in Slots : row[slot] = e
    BY DEF Sent, Local, IsPermutation
  <2>2. Owner(slot) = r
    BY <2>1, PermutationFacts DEF Sent, Dest
  <2>3. slot \in SlotsFrom(row, r, s)
    BY <2>1, <2>2 DEF SlotsFrom, Local, Sent
  <2>4. QED
    BY <2>1, <2>3
<1>3. Sent(row, s, r) = {row[slot] : slot \in SlotsFrom(row, r, s)}
  BY <1>1, <1>2
<1>4. SlotsFrom(row, r, s) \in SUBSET Slots
  BY DEF SlotsFrom, Local
<1>5. QED
  BY <1>3, <1>4, NamedCount

\* The offset at which the code reads the expert for a slot: its place among the
\* slots of its rank that take from the same source.
Offset(row, slot) ==
    Cardinality({other \in SlotsFrom(row, Owner(slot), Owner(row[slot])) : other <= slot})

\* Both sides walk in ascending order, so when the row ascends within a rank the
\* sender's place of an expert is the receiver's offset.
LEMMA PackMeetsUnpack ==
  ASSUME NEW row, IsPermutation(row), Ascending(row), NEW slot \in Slots
  PROVE  Packed(row, Identity, Owner(row[slot]), Owner(slot))[Offset(row, slot)] = row[slot]
<1> DEFINE r == Owner(slot)
           s == Owner(row[slot])
           wanted == SlotsFrom(row, r, s)
           sent == Sent(row, s, r)
           upto == {other \in wanted : other <= slot}
           below == {e \in sent : e <= row[slot]}
<1>1. r \in Ranks /\ s \in Ranks /\ row[slot] \in Slots
  BY SlotFacts, PermutationFacts
<1>2. slot \in wanted /\ wanted \in SUBSET Slots /\ upto \in SUBSET wanted /\ slot \in upto
  BY SlotFacts DEF SlotsFrom, Local
<1>3. sent = {row[other] : other \in wanted} /\ Cardinality(sent) = Cardinality(wanted)
  BY <1>1, SentIsNamed
<1>4. row[slot] \in sent /\ sent \in SUBSET Slots
  BY <1>2, <1>3, PermutationFacts
<1>5. \A other \in wanted : other <= slot <=> row[other] <= row[slot]
  <2>1. SUFFICES ASSUME NEW other \in wanted PROVE other <= slot <=> row[other] <= row[slot]
    OBVIOUS
  <2>2. other \in Slots /\ Owner(other) = Owner(slot)
    BY <1>2 DEF SlotsFrom, Local
  <2>3. other \in Int /\ slot \in Int /\ row[other] \in Int /\ row[slot] \in Int
    BY <2>2, SlotFacts, PermutationFacts
  <2>4. /\ other < slot => row[other] < row[slot]
        /\ slot < other => row[slot] < row[other]
    BY <2>2 DEF Ascending
  <2>5. QED
    BY <2>3, <2>4
<1>6. below = {row[other] : other \in upto}
  BY <1>3, <1>5
<1>7. Cardinality(below) = Cardinality(upto)
  BY <1>2, <1>6, NamedCount
<1>8. Nth(sent, Cardinality(upto)) = row[slot]
  BY <1>4, <1>7, PlaceOfSlot
<1>9. Cardinality(upto) \in 1 .. Cardinality(sent)
  BY <1>2, <1>3, PlaceOfSlot
<1>10. Packed(row, Identity, s, r)[Cardinality(upto)] = Identity[Nth(sent, Cardinality(upto))]
  BY <1>9 DEF Packed, Sent
<1>11. QED
  BY <1>1, <1>8, <1>10 DEF Identity, Offset

\* The expert that an exchange leaves in a slot.
Moved(row, slot) == Packed(row, Identity, Owner(row[slot]), Owner(slot))[Offset(row, slot)]

\* An offset is a place in the sender's buffer, whatever the row's order.
LEMMA OffsetInBuffer ==
  ASSUME NEW row, IsPermutation(row), NEW slot \in Slots
  PROVE  LET sent == Sent(row, Owner(row[slot]), Owner(slot))
         IN  /\ Offset(row, slot) \in 1 .. Cardinality(sent)
             /\ Moved(row, slot) = Identity[Nth(sent, Offset(row, slot))]
<1> DEFINE r == Owner(slot)
           s == Owner(row[slot])
           wanted == SlotsFrom(row, r, s)
<1>1. r \in Ranks /\ s \in Ranks
  BY SlotFacts, PermutationFacts
<1>2. slot \in wanted /\ wanted \in SUBSET Slots
  BY DEF SlotsFrom, Local
<1>3. Offset(row, slot) \in 1 .. Cardinality(wanted)
  BY <1>2, PlaceOfSlot DEF Offset
<1>4. Cardinality(Sent(row, s, r)) = Cardinality(wanted)
  BY <1>1, SentIsNamed
<1>5. QED
  BY <1>3, <1>4 DEF Moved, Packed, Sent

\* An exchange keeps every expert: what each pair of ranks sends and unpacks are
\* the same experts, if not in the order the row names them.
LEMMA ExchangeKeepsAll ==
  ASSUME NEW row, IsPermutation(row)
  PROVE  {Moved(row, slot) : slot \in Slots} = Slots
<1>1. ASSUME NEW slot \in Slots PROVE Moved(row, slot) \in Slots
  <2> DEFINE sent == Sent(row, Owner(row[slot]), Owner(slot))
  <2>1. sent \in SUBSET Slots
    BY DEF Sent, Local
  <2>2. Offset(row, slot) \in 1 .. Cardinality(sent) /\ Moved(row, slot) = Identity[Nth(sent, Offset(row, slot))]
    BY OffsetInBuffer
  <2>3. PICK e \in sent : Cardinality({f \in sent : f <= e}) = Offset(row, slot)
    BY <2>1, <2>2, PlaceOfSlot
  <2>4. Nth(sent, Offset(row, slot)) = e
    BY <2>1, <2>3, PlaceOfSlot
  <2>5. QED
    BY <2>1, <2>2, <2>4 DEF Identity
<1>2. ASSUME NEW e \in Slots PROVE \E slot \in Slots : Moved(row, slot) = e
  <2> DEFINE s == Owner(e)
             r == Dest(row, e)
             sent == Sent(row, s, r)
             wanted == SlotsFrom(row, r, s)
             k == Cardinality({f \in sent : f <= e})
  <2>1. e \in sent /\ sent \in SUBSET Slots /\ wanted \in SUBSET Slots
    BY DEF Sent, Local, SlotsFrom
  <2>2. PICK home \in Slots : row[home] = e
    BY DEF IsPermutation
  <2>3. r \in Ranks /\ s \in Ranks
    BY <2>2, SlotFacts, PermutationFacts DEF Dest
  <2>4. k \in 1 .. Cardinality(sent) /\ Cardinality(sent) = Cardinality(wanted)
    BY <2>1, <2>3, PlaceOfSlot, SentIsNamed
  <2>5. PICK slot \in wanted : Cardinality({f \in wanted : f <= slot}) = k
    <3>1. \A j \in 1 .. Cardinality(wanted) :
            \E slot \in wanted : Cardinality({f \in wanted : f <= slot}) = j
      BY <2>1, PlaceOfSlot
    <3>2. QED
      BY <2>4, <3>1
  <2>6. slot \in Slots /\ Owner(slot) = r /\ Owner(row[slot]) = s
    BY <2>5 DEF SlotsFrom, Local
  <2>7. Offset(row, slot) = k
    BY <2>5, <2>6 DEF Offset
  <2>8. Nth(sent, k) = e
    BY <2>1, PlaceOfSlot
  <2>9. Moved(row, slot) = Identity[Nth(sent, k)]
    BY <2>6, <2>7, OffsetInBuffer
  <2>10. QED
    BY <2>6, <2>8, <2>9 DEF Identity
<1>3. QED
  BY <1>1, <1>2

-----------------------------------------------------------------------------
\* The inductive invariant.

\* Between permuting a layer's gate and finishing its exchange.
Exchanging == {"exchange", "unpack", "gather"}

\* Rank r has been through the all_to_all of layer l, and has taken its experts.
Crossed(r, l) ==
    l \in MoELayers /\ (l < layer[r] \/ (l = layer[r] /\ pc[r] \in {"unpack", "gather"}))
Unpacked(r, l) == Crossed(r, l) /\ ~(l = layer[r] /\ pc[r] = "unpack")

Shapes ==
    /\ pc \in [Ranks -> Points] /\ layer \in [Ranks -> 0 .. NLayers]
    /\ gates \in [Ranks -> [Layers -> [Slots -> Slots]]]
    /\ held = [l \in Layers |-> [slot \in Slots |-> held[l][slot]]]
    /\ buffers = [r \in Ranks |-> buffers[r]]

\* Which layer a rank can be at, from where its loader is.
AtLayer(r) ==
    /\ pc[r] \in Exchanging => layer[r] \in MoELayers
    /\ pc[r] \in {"start", "skipped"} => layer[r] = 0
    /\ pc[r] = "done" => layer[r] = NLayers
    /\ pc[r] = "rejected" => layer[r] = 0 \/ layer[r] \in MoELayers

\* Rows are looked at before they are used.
Checked(r) ==
    \A l \in MoELayers :
        l < layer[r] \/ (l = layer[r] /\ pc[r] \in Exchanging) => Accepted(l)

\* No rank is past an exchange that another has not been in.
InStep == \A r, s \in Ranks : \A l \in Layers : Crossed(r, l) => Crossed(s, l)

GatePermuted(r) ==
    \A l \in Layers : \A slot \in Slots :
        gates[r][l][slot] =
            IF Crossed(r, l) \/ (l = layer[r] /\ pc[r] = "exchange") THEN Row(l)[slot]
            ELSE slot

\* Before its owner has unpacked the layer a slot holds its own expert, and
\* afterwards the one at its offset in what its source sent.
HeldMoved ==
    \A l \in Layers : \A slot \in Slots :
        /\ ~Unpacked(Owner(slot), l) => held[l][slot] = slot
        /\ Unpacked(Owner(slot), l) => held[l][slot] = Moved(Row(l), slot)

BufferPacked(r) ==
    \A s \in Ranks :
        /\ pc[r] = "exchange" => buffers[r][s] = Packed(Row(layer[r]), Identity, r, s)
        /\ pc[r] = "unpack" => buffers[r][s] = Packed(Row(layer[r]), Identity, s, r)

Undeployed == file = None => \A r \in Ranks : pc[r] = "start"

RankInv(r) == AtLayer(r) /\ Checked(r) /\ GatePermuted(r) /\ BufferPacked(r)

Inv == Shapes /\ Undeployed /\ InStep /\ HeldMoved /\ \A r \in Ranks : RankInv(r)

\* Layers are natural numbers, those with experts among them.
LEMMA LayerFacts == Layers \subseteq Nat /\ MoELayers \subseteq Layers /\ NLayers \in Nat
  BY ApplyAssumption DEF Layers

LEMMA InvInit == Init => Inv
<1> SUFFICES ASSUME Init PROVE Inv
  OBVIOUS
<1>1. Shapes
  BY LayerFacts DEF Init, Shapes, Points, Loaded, Identity, Layers
<1>2. \A r \in Ranks : \A l \in Layers : ~Crossed(r, l)
  BY LayerFacts DEF Init, Crossed
<1>3. HeldMoved
  BY <1>2, SlotFacts DEF Init, HeldMoved, Unpacked, Loaded, Identity
<1>4. ASSUME NEW r \in Ranks PROVE RankInv(r)
  <2>1. AtLayer(r) /\ Checked(r) /\ BufferPacked(r)
    BY LayerFacts DEF Init, AtLayer, Checked, BufferPacked, Exchanging
  <2>2. GatePermuted(r)
    BY <1>2 DEF Init, GatePermuted, Loaded, Identity
  <2>3. QED
    BY <2>1, <2>2 DEF RankInv
<1>5. QED
  BY <1>1, <1>2, <1>3, <1>4 DEF Inv, Undeployed, InStep, Init

\* The planner and the deployment come before the ranks start.
LEMMA InvPlan ==
  ASSUME Inv, UNCHANGED rankVars, UNCHANGED file \/ file = None
  PROVE  Inv'
<1>1. CASE UNCHANGED file
  BY <1>1 DEF rankVars, Inv, Shapes, Undeployed, InStep, HeldMoved, RankInv, AtLayer, Checked,
              GatePermuted, BufferPacked, Crossed, Unpacked, Accepted, Row
<1>2. CASE file = None
  <2>1. \A r \in Ranks : pc[r] = "start" /\ layer[r] = 0
    BY <1>2 DEF Inv, Undeployed, RankInv, AtLayer
  <2>2. \A r \in Ranks : \A l \in Layers : ~Crossed(r, l) /\ ~Crossed(r, l)'
    <3>1. pc' = pc /\ layer' = layer
      BY DEF rankVars
    <3>2. \A r \in Ranks : \A l \in Layers : ~(l < layer[r]) /\ pc[r] \notin {"unpack", "gather"}
      BY <2>1, LayerFacts
    <3> QED  BY <3>1, <3>2 DEF Crossed
  <2>3. HeldMoved'
    BY <2>2, SlotFacts DEF Inv, HeldMoved, Unpacked, rankVars
  <2>4. ASSUME NEW r \in Ranks PROVE RankInv(r)'
    <3>1. AtLayer(r)' /\ Checked(r)' /\ BufferPacked(r)'
      BY <2>1, LayerFacts DEF rankVars, AtLayer, Checked, BufferPacked, Exchanging
    <3>2. GatePermuted(r)'
      BY <2>1, <2>2 DEF Inv, RankInv, GatePermuted, rankVars
    <3>3. QED
      BY <3>1, <3>2 DEF RankInv
  <2>5. QED
    BY <2>1, <2>2, <2>3, <2>4 DEF Inv, Shapes, Undeployed, InStep, rankVars
<1>3. QED
  BY <1>1, <1>2

-----------------------------------------------------------------------------
\* The steps of the ranks.

\* A rank moves on without having touched a gate or an expert.
LEMMA InvQuiet ==
  ASSUME Inv, NEW r \in Ranks, UNCHANGED <<file, gates, held, buffers>>, file # None,
         NEW p \in Points \ Exchanging, pc[r] \notin Exchanging,
         pc' = [pc EXCEPT ![r] = p],
         \/ UNCHANGED layer
         \/ layer' = [layer EXCEPT ![r] = @ + 1] /\ layer[r] \in Layers \ MoELayers,
         AtLayer(r)'
  PROVE  Inv'
<1>0. Shapes /\ Undeployed /\ InStep /\ HeldMoved /\ \A q \in Ranks : RankInv(q)
  BY DEF Inv
<1>1. /\ \A q \in Ranks : layer[q] \in Nat /\ layer'[q] \in Nat
      /\ \A q \in Ranks \ {r} : pc'[q] = pc[q] /\ layer'[q] = layer[q]
      /\ pc'[r] = p
      /\ \/ layer'[r] = layer[r]
         \/ layer'[r] = layer[r] + 1 /\ layer[r] \notin MoELayers
  <2>1. \A q \in Ranks : layer[q] \in Nat
    BY <1>0, LayerFacts DEF Shapes
  <2>2. CASE UNCHANGED layer
    <3>1. \A q \in Ranks : layer'[q] = layer[q]
      BY <2>2
    <3>2. QED
      BY <1>0, <2>1, <3>1 DEF Shapes
  <2>3. CASE layer' = [layer EXCEPT ![r] = @ + 1] /\ layer[r] \in Layers \ MoELayers
    BY <1>0, <2>1, <2>3 DEF Shapes
  <2>4. QED
    BY <2>2, <2>3
<1>2. Shapes'
  <2>1. layer' \in [Ranks -> 0 .. NLayers]
    <3>1. layer \in [Ranks -> 0 .. NLayers]
      BY <1>0 DEF Shapes
    <3>2. CASE UNCHANGED layer
      BY <3>1, <3>2
    <3>3. CASE layer' = [layer EXCEPT ![r] = @ + 1] /\ layer[r] \in Layers \ MoELayers
      <4>1. layer[r] + 1 \in 0 .. NLayers
        BY <3>3, LayerFacts DEF Layers
      <4>2. QED
        BY <3>1, <3>3, <4>1
    <3>4. QED
      BY <3>2, <3>3
  <2>2. QED
    BY <1>0, <2>1 DEF Shapes
<1>3. \A q \in Ranks : \A l \in Layers :
        (Crossed(q, l)' <=> Crossed(q, l)) /\ (Unpacked(q, l)' <=> Unpacked(q, l))
  BY <1>1, LayerFacts DEF Crossed, Unpacked, Exchanging
<1>4. InStep'
  BY <1>0, <1>3 DEF InStep
<1>5. HeldMoved'
  BY <1>0, <1>3, SlotFacts DEF HeldMoved, Row
<1>6. ASSUME NEW q \in Ranks PROVE RankInv(q)'
  <2>1. AtLayer(q)'
    BY <1>0, <1>1, LayerFacts DEF RankInv, AtLayer
  <2>2. Checked(q)'
    BY <1>0, <1>1, LayerFacts DEF RankInv, Checked, Accepted, Row, Exchanging
  <2>3. GatePermuted(q)'
    <3>1. pc[q] = "exchange" <=> pc'[q] = "exchange"
      BY <1>1 DEF Exchanging
    <3>2. pc[q] = "exchange" => layer'[q] = layer[q]
      BY <1>1 DEF Exchanging
    <3>3. QED
      BY <1>0, <1>3, <3>1, <3>2 DEF RankInv, GatePermuted, Row
  <2>4. BufferPacked(q)'
    BY <1>0, <1>1, LayerFacts DEF RankInv, BufferPacked, Row, Exchanging
  <2>5. QED
    BY <2>1, <2>2, <2>3, <2>4 DEF RankInv
<1>7. QED
  BY <1>2, <1>4, <1>5, <1>6 DEF Inv, Undeployed

LEMMA InvBegin == ASSUME Inv, NEW r \in Ranks, Begin(r) PROVE Inv'
<1>1. pc'[r] \in {"skipped", "rejected", "layer"} /\ layer'[r] = 0
  BY DEF Begin, Inv, Shapes, RankInv, AtLayer
<1>2. AtLayer(r)'
  BY <1>1 DEF AtLayer, Exchanging
<1>3. PICK p \in Points \ Exchanging : pc' = [pc EXCEPT ![r] = p]
  BY DEF Begin, Points, Exchanging
<1>4. QED
  BY <1>2, <1>3, InvQuiet DEF Begin, Exchanging

\* The loader has work left, so a deployment has happened.
LEMMA Deployed == ASSUME Inv, NEW r \in Ranks, pc[r] # "start" PROVE file # None
  BY DEF Inv, Undeployed

LEMMA InvSkipLayer == ASSUME Inv, NEW r \in Ranks, SkipLayer(r) PROVE Inv'
<1>1. layer[r] \in Layers \ MoELayers
  BY LayerFacts DEF SkipLayer, Skips, Inv, Shapes, Layers
<1>2. pc' = [pc EXCEPT ![r] = "layer"] /\ "layer" \in Points \ Exchanging
  BY DEF SkipLayer, Inv, Shapes, Points, Exchanging
<1>3. AtLayer(r)'
  BY <1>2 DEF AtLayer, Exchanging, SkipLayer, Inv, Shapes
<1>4. QED
  BY <1>1, <1>2, <1>3, InvQuiet, Deployed DEF SkipLayer, Exchanging

LEMMA InvReject == ASSUME Inv, NEW r \in Ranks, Reject(r) PROVE Inv'
<1>1. pc' = [pc EXCEPT ![r] = "rejected"] /\ "rejected" \in Points \ Exchanging
  BY DEF Reject, Points, Exchanging
<1>2. AtLayer(r)'
  BY <1>1 DEF AtLayer, Exchanging, Reject, Skips, Inv, Shapes
<1>3. QED
  BY <1>1, <1>2, InvQuiet, Deployed DEF Reject, Exchanging

LEMMA InvReturn == ASSUME Inv, NEW r \in Ranks, Return(r) PROVE Inv'
<1>1. pc' = [pc EXCEPT ![r] = "done"] /\ "done" \in Points \ Exchanging
  BY DEF Return, Points, Exchanging
<1>2. AtLayer(r)'
  BY <1>1 DEF AtLayer, Exchanging, Return, Inv, Shapes
<1>3. QED
  BY <1>1, <1>2, InvQuiet, Deployed DEF Return, Exchanging

\* Nobody has crossed the layer a rank is about to exchange: its experts are all
\* where they were loaded.
LEMMA StillLoaded ==
  ASSUME Inv, NEW r \in Ranks, pc[r] \in {"layer", "exchange"}, layer[r] \in MoELayers
  PROVE  held[layer[r]] = Identity
<1>1. layer[r] \in Layers /\ layer[r] \in Nat
  BY LayerFacts
<1>2. ~Crossed(r, layer[r])
  BY <1>1 DEF Crossed
<1>3. \A s \in Ranks : ~Crossed(s, layer[r])
  BY <1>1, <1>2 DEF Inv, InStep
<1>4. \A slot \in Slots : held[layer[r]][slot] = slot
  BY <1>1, <1>3, SlotFacts DEF Inv, HeldMoved, Unpacked
<1>5. held[layer[r]] = [slot \in Slots |-> held[layer[r]][slot]]
  BY <1>1 DEF Inv, Shapes
<1>6. QED
  BY <1>4, <1>5 DEF Identity

LEMMA InvSend == ASSUME Inv, NEW r \in Ranks, Send(r) PROVE Inv'
<1> DEFINE l == layer[r]
<1>0. Shapes /\ Undeployed /\ InStep /\ HeldMoved /\ \A q \in Ranks : RankInv(q)
  BY DEF Inv
<1>1. l \in MoELayers /\ l \in Layers /\ Accepted(l)
  BY <1>0, LayerFacts DEF Send, Skips, Refuses, Shapes, Layers
<1>2. /\ pc[r] = "layer" /\ pc'[r] = "exchange"
      /\ \A q \in Ranks \ {r} : pc'[q] = pc[q] /\ buffers'[q] = buffers[q] /\ gates'[q] = gates[q]
      /\ UNCHANGED <<layer, file, held>>
  BY <1>0 DEF Send, Shapes
<1>3. \A q \in Ranks : \A k \in Layers :
        (Crossed(q, k)' <=> Crossed(q, k)) /\ (Unpacked(q, k)' <=> Unpacked(q, k))
  BY <1>2 DEF Crossed, Unpacked
<1>4. /\ gates'[r][l] = [slot \in Slots |-> gates[r][l][Row(l)[slot]]]
      /\ \A k \in Layers \ {l} : gates'[r][k] = gates[r][k]
  BY <1>0, <1>1 DEF Send, Shapes
<1>5. \A slot \in Slots : Row(l)[slot] \in Slots
  BY <1>1, PermutationFacts DEF Accepted
<1>6. \A slot \in Slots : gates[r][l][slot] = slot
  <2>1. l \in Nat
    BY <1>1, LayerFacts
  <2> HIDE DEF l
  <2>2. ~Crossed(r, l)
    BY <1>2, <2>1 DEF Crossed, l
  <2>3. QED
    BY <1>0, <1>1, <1>2, <2>2 DEF RankInv, GatePermuted, l
<1>7. Shapes'
  <2>1. pc' \in [Ranks -> Points]
    BY <1>0 DEF Send, Shapes, Points
  <2>2. gates'[r] \in [Layers -> [Slots -> Slots]]
    BY <1>0, <1>1, <1>5 DEF Send, Shapes
  <2>3. gates' \in [Ranks -> [Layers -> [Slots -> Slots]]]
    BY <1>0, <2>2 DEF Send, Shapes
  <2>4. buffers' = [q \in Ranks |-> buffers'[q]]
    BY <1>0 DEF Send, Shapes
  <2>5. QED
    BY <1>0, <1>2, <2>1, <2>3, <2>4 DEF Shapes
<1>8. InStep'
  BY <1>0, <1>3 DEF InStep
<1>9. HeldMoved'
  BY <1>0, <1>2, <1>3, SlotFacts DEF HeldMoved, Row
<1>10. ASSUME NEW q \in Ranks PROVE RankInv(q)'
  <2>1. AtLayer(q)'
    BY <1>0, <1>1, <1>2 DEF RankInv, AtLayer, Exchanging
  <2>2. Checked(q)'
    BY <1>0, <1>1, <1>2 DEF RankInv, Checked, Accepted, Row, Exchanging
  <2>3. GatePermuted(q)'
    <3>1. CASE q = r
      <4>1. SUFFICES ASSUME NEW k \in Layers, NEW slot \in Slots
                     PROVE  gates'[r][k][slot] =
                              IF Crossed(r, k) \/ k = l THEN Row(k)[slot] ELSE slot
        BY <3>1, <1>2, <1>3 DEF GatePermuted, Row
      <4>2. CASE k = l
        BY <4>2, <1>4, <1>5, <1>6
      <4>3. CASE k # l
        BY <1>0, <4>3, <1>2, <1>4 DEF RankInv, GatePermuted
      <4>4. QED
        BY <4>2, <4>3
    <3>2. CASE q # r
      BY <1>0, <3>2, <1>2, <1>3 DEF RankInv, GatePermuted, Row
    <3>3. QED
      BY <3>1, <3>2
  <2>4. BufferPacked(q)'
    <3>1. CASE q = r
      <4>1. held[l] = Identity
        BY <1>1, <1>2, StillLoaded
      <4>2. buffers'[r] = [d \in Ranks |-> Packed(Row(l), Identity, r, d)]
        BY <1>0, <4>1 DEF Send, Shapes
      <4>3. QED
        BY <3>1, <4>2, <1>2 DEF BufferPacked, Row, Packed, Dest
    <3>2. CASE q # r
      BY <1>0, <3>2, <1>2 DEF RankInv, BufferPacked, Row
    <3>3. QED
      BY <3>1, <3>2
  <2>5. QED
    BY <2>1, <2>2, <2>3, <2>4 DEF RankInv
<1>11. QED
  BY <1>0, <1>2, <1>7, <1>8, <1>9, <1>10 DEF Inv, Undeployed

\* Ranks that are all in the collective are at the same layer: the one behind
\* would not have crossed what the other has.
LEMMA SameLayer ==
  ASSUME Inv, \A r \in Ranks : pc[r] = "exchange", NEW r \in Ranks, NEW s \in Ranks
  PROVE  layer[r] = layer[s]
<1>1. \A q \in Ranks : layer[q] \in Nat /\ layer[q] \in MoELayers /\ layer[q] \in Layers
  BY LayerFacts DEF Inv, RankInv, AtLayer, Exchanging
<1>2. \A p, q \in Ranks : ~(layer[p] < layer[q])
  <2>1. SUFFICES ASSUME NEW p \in Ranks, NEW q \in Ranks, layer[p] < layer[q] PROVE FALSE
    OBVIOUS
  <2>2. Crossed(q, layer[p])
    BY <1>1, <2>1 DEF Crossed
  <2>3. Crossed(p, layer[p])
    BY <1>1, <2>2 DEF Inv, InStep
  <2>4. QED
    BY <1>1, <2>3 DEF Crossed
<1>3. QED
  BY <1>1, <1>2

LEMMA InvAllToAll == ASSUME Inv, AllToAll PROVE Inv'
<1>0. Shapes /\ Undeployed /\ InStep /\ HeldMoved /\ \A q \in Ranks : RankInv(q)
  BY DEF Inv
<1>1. /\ \A q \in Ranks : pc[q] = "exchange" /\ pc'[q] = "unpack"
      /\ UNCHANGED <<file, layer, gates, held>>
      /\ buffers' = [r \in Ranks |-> [s \in Ranks |-> buffers[s][r]]]
  BY DEF AllToAll
<1>2. \A q \in Ranks : layer[q] \in Nat /\ layer[q] \in MoELayers
  BY <1>0, <1>1, LayerFacts DEF RankInv, AtLayer, Exchanging
<1>3. \A p, q \in Ranks : layer[p] = layer[q]
  BY <1>1, SameLayer
<1>4. \A q \in Ranks : \A l \in Layers :
        /\ Crossed(q, l)' <=> Crossed(q, l) \/ l = layer[q]
        /\ Unpacked(q, l)' <=> Unpacked(q, l)
  <2>1. SUFFICES ASSUME NEW q \in Ranks, NEW l \in Layers
                 PROVE  /\ Crossed(q, l)' <=> Crossed(q, l) \/ l = layer[q]
                        /\ Unpacked(q, l)' <=> Unpacked(q, l)
    OBVIOUS
  <2>2. Crossed(q, l) <=> l \in MoELayers /\ l < layer[q]
    BY <1>1 DEF Crossed
  <2>3. Crossed(q, l)' <=> l \in MoELayers /\ (l < layer[q] \/ l = layer[q])
    BY <1>1 DEF Crossed
  <2>4. l \in Nat /\ layer[q] \in Nat
    BY <1>2, LayerFacts
  <2>5. QED
    BY <1>1, <1>2, <2>2, <2>3, <2>4 DEF Unpacked
<1>5. Shapes'
  <2>1. pc' \in [Ranks -> Points]
    BY DEF AllToAll, Points
  <2>2. QED
    BY <1>0, <1>1, <2>1 DEF Shapes
<1>6. InStep'
  BY <1>0, <1>3, <1>4 DEF InStep
<1>7. HeldMoved'
  BY <1>0, <1>1, <1>4, SlotFacts DEF HeldMoved, Row
<1>8. ASSUME NEW q \in Ranks PROVE RankInv(q)'
  <2>1. AtLayer(q)'
    BY <1>1, <1>2 DEF AtLayer
  <2>2. Checked(q)'
    BY <1>0, <1>1 DEF RankInv, Checked, Accepted, Row, Exchanging
  <2>3. GatePermuted(q)'
    BY <1>0, <1>1, <1>4 DEF RankInv, GatePermuted, Row
  <2>4. BufferPacked(q)'
    <3>1. ASSUME NEW s \in Ranks
          PROVE  buffers'[q][s] = Packed(Row(layer[q]), Identity, s, q)
      BY <1>0, <1>1, <1>3 DEF RankInv, BufferPacked
    <3>2. pc'[q] = "unpack" /\ Row(layer[q])' = Row(layer[q])
      BY <1>1 DEF Row
    <3>3. QED
      BY <3>1, <3>2 DEF BufferPacked
  <2>5. QED
    BY <2>1, <2>2, <2>3, <2>4 DEF RankInv
<1>9. Undeployed'
  BY <1>0, <1>1 DEF Undeployed
<1>10. QED
  BY <1>5, <1>6, <1>7, <1>8, <1>9 DEF Inv

LEMMA InvUnpack == ASSUME Inv, NEW r \in Ranks, Unpack(r) PROVE Inv'
<1> DEFINE l == layer[r]
<1>0. Shapes /\ Undeployed /\ InStep /\ HeldMoved /\ \A q \in Ranks : RankInv(q)
  BY DEF Inv
<1>1. pc[r] = "unpack" /\ l \in MoELayers /\ l \in Layers /\ l \in Nat /\ Accepted(l)
  BY <1>0, LayerFacts DEF Unpack, RankInv, AtLayer, Checked, Exchanging
<1>2. /\ \A q \in Ranks \ {r} : /\ pc'[q] = pc[q] /\ layer'[q] = layer[q]
                                /\ buffers'[q] = buffers[q]
      /\ UNCHANGED <<file, gates>>
      /\ \/ pc'[r] = "gather" /\ layer'[r] = l
         \/ pc'[r] = "layer" /\ layer'[r] = l + 1
  BY <1>0 DEF Unpack, Shapes
<1>3. /\ \A k \in Layers \ {l} : held'[k] = held[k]
      /\ \A slot \in Slots :
           held'[l][slot] = IF Owner(slot) = r THEN Taken(Row(l), r, slot) ELSE held[l][slot]
  BY <1>0, <1>1 DEF Unpack, Shapes
<1>4. Shapes'
  <2>1. pc' \in [Ranks -> Points] /\ buffers' = [q \in Ranks |-> buffers'[q]]
    BY <1>0 DEF Unpack, Shapes, Points
  <2>2. layer' \in [Ranks -> 0 .. NLayers]
    <3>1. l + 1 \in 0 .. NLayers /\ layer \in [Ranks -> 0 .. NLayers]
      BY <1>0, <1>1, LayerFacts DEF Layers, Shapes
    <3>2. QED
      BY <3>1 DEF Unpack
  <2>3. held' = [k \in Layers |-> [slot \in Slots |-> held'[k][slot]]]
    BY <1>0, <1>1 DEF Unpack, Shapes
  <2>4. QED
    BY <1>0, <1>2, <2>1, <2>2, <2>3 DEF Shapes
<1>5. \A q \in Ranks : \A k \in Layers :
        /\ Crossed(q, k)' <=> Crossed(q, k)
        /\ Unpacked(q, k)' <=> Unpacked(q, k) \/ (q = r /\ k = l)
  <2>1. ASSUME NEW k \in Layers
        PROVE  /\ Crossed(r, k)' <=> Crossed(r, k)
               /\ Unpacked(r, k)' <=> Unpacked(r, k) \/ k = l
    <3>1. k \in Nat
      BY LayerFacts
    <3>2. Crossed(r, k)' <=> Crossed(r, k)
      BY <1>1, <1>2, <3>1 DEF Crossed
    <3>3. Unpacked(r, k)' <=> Crossed(r, k)
      BY <1>2, <3>2 DEF Unpacked
    <3>4. Crossed(r, k) <=> Unpacked(r, k) \/ k = l
      BY <1>1, <3>1 DEF Crossed, Unpacked
    <3>5. QED
      BY <3>2, <3>3, <3>4
  <2>2. ASSUME NEW q \in Ranks \ {r}, NEW k \in Layers
        PROVE  (Crossed(q, k)' <=> Crossed(q, k)) /\ (Unpacked(q, k)' <=> Unpacked(q, k))
    BY <1>2 DEF Crossed, Unpacked
  <2>3. QED
    BY <2>1, <2>2
<1>6. InStep'
  BY <1>0, <1>5 DEF InStep
<1>7. ASSUME NEW slot \in Slots, Owner(slot) = r
      PROVE  Taken(Row(l), r, slot) = Moved(Row(l), slot)
  <2>1. IsPermutation(Row(l))
    BY <1>1 DEF Accepted
  <2>2. Owner(Row(l)[slot]) \in Ranks
    BY <2>1, PermutationFacts, SlotFacts
  <2>3. buffers[r][Owner(Row(l)[slot])] = Packed(Row(l), Identity, Owner(Row(l)[slot]), r)
    BY <1>0, <1>1, <2>2 DEF RankInv, BufferPacked
  <2>4. Taken(Row(l), r, slot) = buffers[r][Owner(Row(l)[slot])][Offset(Row(l), slot)]
    BY <1>7 DEF Taken, Offset
  <2>5. QED
    BY <1>7, <2>3, <2>4 DEF Moved
<1>8. HeldMoved'
  <2>1. ASSUME NEW k \in Layers, NEW slot \in Slots
        PROVE  /\ ~Unpacked(Owner(slot), k)' => held'[k][slot] = slot
               /\ Unpacked(Owner(slot), k)' => held'[k][slot] = Moved(Row(k), slot)
    <3>1. CASE k = l /\ Owner(slot) = r
      BY <3>1, <1>3, <1>5, <1>7, SlotFacts
    <3>2. CASE ~(k = l /\ Owner(slot) = r)
      BY <3>2, <1>0, <1>3, <1>5, SlotFacts DEF HeldMoved
    <3>3. QED
      BY <3>1, <3>2
  <2>2. QED
    BY <1>2, <2>1 DEF HeldMoved, Row
<1>9. ASSUME NEW q \in Ranks PROVE RankInv(q)'
  <2>1. AtLayer(q)'
    BY <1>0, <1>1, <1>2 DEF RankInv, AtLayer, Exchanging
  <2>2. Checked(q)'
    <3>1. CASE q = r
      <4>1. \A k \in MoELayers : k \in Nat /\ (k < l + 1 => k < l \/ k = l)
        BY <1>1, LayerFacts
      <4>2. QED
        BY <3>1, <4>1, <1>0, <1>1, <1>2 DEF RankInv, Checked, Accepted, Row, Exchanging
    <3>2. CASE q # r
      BY <3>2, <1>0, <1>2 DEF RankInv, Checked, Accepted, Row
    <3>3. QED
      BY <3>1, <3>2
  <2>3. GatePermuted(q)'
    BY <1>0, <1>1, <1>2, <1>5 DEF RankInv, GatePermuted, Row
  <2>4. BufferPacked(q)'
    BY <1>0, <1>2 DEF RankInv, BufferPacked, Row
  <2>5. QED
    BY <2>1, <2>2, <2>3, <2>4 DEF RankInv
<1>10. Undeployed'
  BY <1>1, <1>2, Deployed DEF Undeployed
<1>11. QED
  BY <1>4, <1>6, <1>8, <1>9, <1>10 DEF Inv

LEMMA InvGather == ASSUME Inv, Gather PROVE Inv'
<1>0. Shapes /\ Undeployed /\ InStep /\ HeldMoved /\ \A q \in Ranks : RankInv(q)
  BY DEF Inv
<1>1. /\ \A q \in Ranks : pc[q] = "gather" /\ pc'[q] = "layer" /\ layer'[q] = layer[q] + 1
      /\ UNCHANGED <<file, gates, held, buffers>>
  BY DEF Gather
<1>2. \A q \in Ranks : layer[q] \in Nat /\ layer[q] \in MoELayers
  BY <1>0, <1>1, LayerFacts DEF RankInv, AtLayer, Exchanging
<1>3. \A q \in Ranks : \A l \in Layers :
        (Crossed(q, l)' <=> Crossed(q, l)) /\ (Unpacked(q, l)' <=> Unpacked(q, l))
  <2>1. SUFFICES ASSUME NEW q \in Ranks, NEW l \in Layers
                 PROVE  (Crossed(q, l)' <=> Crossed(q, l)) /\ (Unpacked(q, l)' <=> Unpacked(q, l))
    OBVIOUS
  <2>2. l \in Nat /\ layer[q] \in Nat
    BY <1>2, LayerFacts
  <2>3. l < layer[q] + 1 <=> l < layer[q] \/ l = layer[q]
    BY <2>2
  <2>4. QED
    BY <1>1, <2>2, <2>3 DEF Crossed, Unpacked
<1>4. Shapes'
  <2>1. pc' \in [Ranks -> Points]
    BY DEF Gather, Points
  <2>2. layer' \in [Ranks -> 0 .. NLayers]
    <3>1. \A q \in Ranks : layer[q] + 1 \in 0 .. NLayers
      BY <1>2, LayerFacts DEF Layers
    <3>2. QED
      BY <3>1 DEF Gather
  <2>3. QED
    BY <1>0, <1>1, <2>1, <2>2 DEF Shapes
<1>5. InStep'
  BY <1>0, <1>3 DEF InStep
<1>6. HeldMoved'
  BY <1>0, <1>1, <1>3, SlotFacts DEF HeldMoved, Row
<1>7. ASSUME NEW q \in Ranks PROVE RankInv(q)'
  <2>1. AtLayer(q)' /\ BufferPacked(q)'
    BY <1>1 DEF AtLayer, BufferPacked, Exchanging
  <2>2. Checked(q)'
    <3>1. \A k \in MoELayers : k \in Nat /\ (k < layer[q] + 1 => k < layer[q] \/ k = layer[q])
      BY <1>2, LayerFacts
    <3>2. QED
      BY <3>1, <1>0, <1>1 DEF RankInv, Checked, Accepted, Row, Exchanging
  <2>3. GatePermuted(q)'
    BY <1>0, <1>1, <1>3 DEF RankInv, GatePermuted, Row
  <2>4. QED
    BY <2>1, <2>2, <2>3 DEF RankInv
<1>8. Undeployed'
  BY <1>0, <1>1 DEF Undeployed
<1>9. QED
  BY <1>4, <1>5, <1>6, <1>7, <1>8 DEF Inv

LEMMA InvNext == Inv /\ [Next]_vars => Inv'
<1> SUFFICES ASSUME Inv, [Next]_vars PROVE Inv'
  OBVIOUS
<1>1. CASE Deal \/ PlanLayer \/ Deploy
  BY <1>1, InvPlan DEF Deal, PlanLayer, Deploy
<1>2. ASSUME NEW r \in Ranks, RankStep(r) PROVE Inv'
  BY <1>2, InvBegin, InvSkipLayer, InvReject, InvSend, InvUnpack, InvReturn DEF RankStep
<1>3. CASE AllToAll
  BY <1>3, InvAllToAll
<1>4. CASE Gather
  BY <1>4, InvGather
<1>5. CASE UNCHANGED vars
  BY <1>5, InvPlan DEF vars
<1>6. QED
  BY <1>1, <1>2, <1>3, <1>4, <1>5 DEF Next

LEMMA Invariant == Spec => []Inv
<1>1. Init => Inv
  BY InvInit
<1>2. Inv /\ [Next]_vars => Inv'
  BY InvNext
<1>3. QED
  BY <1>1, <1>2, PTL DEF Spec

-----------------------------------------------------------------------------
\* Results.

\* expert_placement.py:9-12, for every number of ranks, experts and layers, every
\* file whose rows ascend within a rank (the planner's do), valid in all its layers
\* or not, and every mixture of settings: between two exchanges each gate's rows
\* score the experts that the slots hold.
THEOREM FunctionIsPreserved == Spec => []FunctionPreserved
<1>1. Inv => FunctionPreserved
  <2>1. SUFFICES ASSUME Inv, Resting, FileAscending, NEW l \in Layers, NEW r \in Ranks
                 PROVE  gates[r][l] = held[l]
    BY DEF FunctionPreserved, Whole
  <2>2. \A s \in Ranks : pc[s] \notin {"exchange", "unpack", "gather"}
    BY <2>1 DEF Resting
  <2>3. ASSUME NEW slot \in Slots PROVE gates[r][l][slot] = held[l][slot]
    <3>1. Owner(slot) \in Ranks
      BY SlotFacts
    <3>2. Crossed(r, l) <=> Crossed(Owner(slot), l)
      BY <2>1, <3>1 DEF Inv, InStep
    <3>3. Unpacked(Owner(slot), l) <=> Crossed(Owner(slot), l)
      BY <2>2, <3>1 DEF Unpacked
    <3>4. gates[r][l][slot] = IF Crossed(r, l) THEN Row(l)[slot] ELSE slot
      BY <2>1, <2>2 DEF Inv, RankInv, GatePermuted
    <3>5. /\ ~Unpacked(Owner(slot), l) => held[l][slot] = slot
          /\ Unpacked(Owner(slot), l) => held[l][slot] = Moved(Row(l), slot)
      BY <2>1 DEF Inv, HeldMoved
    <3>6. ASSUME Crossed(r, l) PROVE Moved(Row(l), slot) = Row(l)[slot]
      <4>1. file # None
        <5>1. l \in Nat /\ (layer[r] = 0 => ~(l < layer[r]))
          BY <2>1, LayerFacts
        <5>2. pc[r] # "start"
          BY <2>1, <2>2, <3>6, <5>1 DEF Inv, RankInv, AtLayer, Crossed
        <5>3. QED
          BY <2>1, <5>2, Deployed
      <4>2. l \in MoELayers /\ Accepted(l)
        BY <2>1, <2>2, <3>6 DEF Inv, RankInv, Checked, Crossed
      <4>3. Ascending(Row(l)) /\ IsPermutation(Row(l))
        BY <2>1, <4>1, <4>2 DEF FileAscending, Accepted
      <4>4. QED
        BY <4>3, PackMeetsUnpack DEF Moved
    <3>7. QED
      BY <3>2, <3>3, <3>4, <3>5, <3>6
  <2>4. gates[r][l] \in [Slots -> Slots] /\ held[l] = [slot \in Slots |-> held[l][slot]]
    BY <2>1 DEF Inv, Shapes
  <2>5. QED
    BY <2>3, <2>4
<1>2. QED
  BY <1>1, Invariant, PTL

\* expert_placement.py:285-318, for every file that passes its checks, ascending
\* or not: between two exchanges each layer has every expert, in one slot.
THEOREM ExpertsAreKept == Spec => []NoExpertLost
<1>1. Inv => NoExpertLost
  <2>1. SUFFICES ASSUME Inv, Resting, NEW l \in Layers
                 PROVE  {held[l][slot] : slot \in Slots} = Slots
    BY DEF NoExpertLost
  <2>2. \A r \in Ranks : pc[r] \notin {"exchange", "unpack", "gather"}
    BY <2>1 DEF Resting
  <2>3. \A r, s \in Ranks : Unpacked(r, l) => Unpacked(s, l)
    BY <2>1, <2>2 DEF Inv, InStep, Unpacked
  <2>4. CASE \A r \in Ranks : ~Unpacked(r, l)
    <3>1. \A slot \in Slots : held[l][slot] = slot
      BY <2>1, <2>4, SlotFacts DEF Inv, HeldMoved
    <3>2. QED
      BY <3>1
  <2>5. ASSUME NEW r \in Ranks, Unpacked(r, l)
        PROVE  {held[l][slot] : slot \in Slots} = Slots
    <3>1. \A slot \in Slots : held[l][slot] = Moved(Row(l), slot)
      BY <2>1, <2>3, <2>5, SlotFacts DEF Inv, HeldMoved
    <3>2. IsPermutation(Row(l))
      BY <2>1, <2>2, <2>5 DEF Inv, RankInv, Checked, Unpacked, Crossed, Accepted
    <3>3. QED
      BY <3>1, <3>2, ExchangeKeepsAll
  <2>6. QED
    BY <2>4, <2>5
<1>2. QED
  BY <1>1, Invariant, PTL

\* expert_placement.py:154-156: ranks in a collective are at the same layer, and
\* each is sent as many experts as it has slots for, whatever file was accepted.
THEOREM ExchangesAgree == Spec => []ExchangeAgrees
<1>1. Inv => ExchangeAgrees
  <2>1. SUFFICES ASSUME Inv, \A r \in Ranks : pc[r] = "exchange",
                        NEW r \in Ranks, NEW s \in Ranks
                 PROVE  /\ layer[r] = layer[s]
                        /\ Len(buffers[s][r]) = Cardinality(SlotsFrom(Row(layer[r]), r, s))
    BY DEF ExchangeAgrees
  <2> DEFINE row == Row(layer[r])
  <2>2. layer[r] = layer[s]
    BY <2>1, SameLayer
  <2>3. IsPermutation(row)
    BY <2>1 DEF Inv, RankInv, Checked, AtLayer, Accepted, Exchanging
  <2>4. buffers[s][r] = Packed(row, Identity, s, r)
    BY <2>1, <2>2 DEF Inv, RankInv, BufferPacked
  <2>5. Cardinality(Sent(row, s, r)) = Cardinality(SlotsFrom(row, r, s))
    BY <2>3, SentIsNamed
  <2>6. Cardinality(Sent(row, s, r)) \in Nat
    BY SlotFacts, FS_Subset, FS_CardinalityType DEF Sent, Local
  <2>7. Len(Packed(row, Identity, s, r)) = Cardinality(Sent(row, s, r))
    BY <2>6 DEF Packed, Sent
  <2>8. QED
    BY <2>2, <2>4, <2>5, <2>7
<1>2. QED
  BY <1>1, Invariant, PTL

\* README.md:72, expert_placement.py:26-28: in a model with experts a rank whose
\* apply() returned proves that every rank went in and accepted the file.
THEOREM NobodyAlone == ASSUME MoELayers # {} PROVE Spec => []AllOrNone
<1>1. Inv => AllOrNone
  <2>1. SUFFICES ASSUME Inv, NEW r \in Ranks, NEW s \in Ranks, pc[r] = "done",
                        pc[s] \in {"skipped", "rejected"}
                 PROVE  FALSE
    BY DEF AllOrNone
  <2>2. layer[s] \in Nat /\ layer[r] = NLayers
    BY <2>1, LayerFacts DEF Inv, Shapes, RankInv, AtLayer
  <2>3. PICK l \in MoELayers : l >= layer[s]
    <3>1. layer[s] = 0 \/ layer[s] \in MoELayers
      BY <2>1 DEF Inv, RankInv, AtLayer
    <3>2. \A l \in MoELayers : l \in Nat
      BY LayerFacts
    <3>3. QED
      BY <2>2, <3>1, <3>2
  <2>4. l \in Nat /\ l \in Layers /\ l < NLayers
    BY LayerFacts DEF Layers
  <2>5. Crossed(r, l)
    BY <2>2, <2>4 DEF Crossed
  <2>6. Crossed(s, l)
    BY <2>1, <2>4, <2>5 DEF Inv, InStep
  <2>7. QED
    BY <2>1, <2>2, <2>3, <2>4, <2>6 DEF Crossed
<1>2. QED
  BY <1>1, Invariant, PTL

-----------------------------------------------------------------------------
\* What the audits say.

\* The exchange of layer l leaves in the slots of r the experts the row names.
Settled(r, l) == \A slot \in Local(r) : Moved(Row(l), slot) = Row(l)[slot]

\* A layer is audited once every rank is past it, and the verdict of a rank is
\* about its own slots.
AuditOf(r, l) ==
    audits[r][l] # "none" =>
        /\ l \in MoELayers /\ \A s \in Ranks : l < layer[s]
        /\ audits[r][l] = "ok" <=> Settled(r, l)

AuditInv ==
    /\ audits \in [Ranks -> [Layers -> {"none", "ok", "bad"}]]
    /\ \A r \in Ranks : \A l \in Layers : AuditOf(r, l)

\* A rank that has unpacked a layer: its gate is permuted as the row says, its
\* slots hold what the exchange moved there.
LEMMA UnpackedLayer ==
  ASSUME Inv, NEW r \in Ranks, NEW l \in Layers, Unpacked(r, l)
  PROVE  /\ gates[r][l] = [slot \in Slots |-> Row(l)[slot]]
         /\ \A slot \in Local(r) : held[l][slot] = Moved(Row(l), slot)
<1>1. Crossed(r, l) /\ gates[r][l] \in [Slots -> Slots]
  BY DEF Unpacked, Inv, Shapes
<1>2. \A slot \in Slots : gates[r][l][slot] = Row(l)[slot]
  BY <1>1 DEF Inv, RankInv, GatePermuted
<1>3. \A slot \in Local(r) : held[l][slot] = Moved(Row(l), slot)
  BY DEF Inv, HeldMoved, Local
<1>4. QED
  BY <1>1, <1>2, <1>3

\* What a rank copies of a layer nobody has touched.
OwnCopies(r) == [gate |-> Identity, experts |-> [e \in Local(r) |-> e]]

\* From its Send to the audit a rank's copies are of the layer as it was loaded.
CopiesInv ==
    /\ copies = [r \in Ranks |-> copies[r]]
    /\ \A r \in Ranks :
         /\ copies[r] = None \/ copies[r] = OwnCopies(r)
         /\ pc[r] \in Exchanging /\ Audit => copies[r] = OwnCopies(r)
         /\ pc[r] = "gather" => Audit

\* The copies are taken before the gate is permuted and before anybody can have
\* exchanged the layer.
LEMMA CopiesAreOwn ==
  ASSUME Inv, NEW r \in Ranks, Send(r)
  PROVE  CopiesOf(r, layer[r]) = OwnCopies(r)
<1>1. pc[r] = "layer" /\ layer[r] \in MoELayers /\ layer[r] \in Layers /\ layer[r] \in Nat
  BY LayerFacts DEF Send, Skips, Inv, Shapes
<1>2. held[layer[r]] = Identity
  BY <1>1, StillLoaded
<1>3. gates[r][layer[r]] = Identity
  <2>1. ~Crossed(r, layer[r])
    BY <1>1 DEF Crossed
  <2>2. \A slot \in Slots : gates[r][layer[r]][slot] = slot
    BY <1>1, <2>1 DEF Inv, RankInv, GatePermuted
  <2>3. gates[r][layer[r]] \in [Slots -> Slots]
    BY <1>1 DEF Inv, Shapes
  <2> QED  BY <2>2, <2>3 DEF Identity
<1>4. [e \in Local(r) |-> held[layer[r]][e]] = [e \in Local(r) |-> e]
  BY <1>2 DEF Identity, Local
<1> QED  BY <1>3, <1>4 DEF CopiesOf, OwnCopies

LEMMA CopiesInvNext == Inv /\ CopiesInv /\ [Next]_vars => CopiesInv'
<1> SUFFICES ASSUME Inv, CopiesInv, [Next]_vars PROVE CopiesInv'
  OBVIOUS
<1>0. \A q \in Ranks : OwnCopies(q)' = OwnCopies(q)
  BY DEF OwnCopies
<1>1. ASSUME NEW r \in Ranks, Send(r) PROVE CopiesInv'
  <2>1. /\ pc' = [pc EXCEPT ![r] = "exchange"]
        /\ copies' = IF Audit THEN [copies EXCEPT ![r] = OwnCopies(r)] ELSE copies
    BY <1>1, CopiesAreOwn DEF Send
  <2>2. /\ pc'[r] = "exchange" /\ \A q \in Ranks \ {r} : pc'[q] = pc[q]
        /\ copies' = [q \in Ranks |-> copies'[q]]
        /\ copies'[r] = IF Audit THEN OwnCopies(r) ELSE copies[r]
        /\ \A q \in Ranks \ {r} : copies'[q] = copies[q]
    BY <2>1 DEF Inv, Shapes, CopiesInv
  <2> QED  BY <2>2, <1>0 DEF CopiesInv
<1>2. ASSUME NEW r \in Ranks, Unpack(r) PROVE CopiesInv'
  <2>1. /\ pc[r] = "unpack" /\ copies' = copies
        /\ pc' = [pc EXCEPT ![r] = IF Audit THEN "gather" ELSE "layer"]
    BY <1>2 DEF Unpack
  <2>2. /\ pc'[r] = IF Audit THEN "gather" ELSE "layer"
        /\ \A q \in Ranks \ {r} : pc'[q] = pc[q]
    BY <2>1 DEF Inv, Shapes
  <2> QED  BY <2>1, <2>2, <1>0 DEF CopiesInv, Exchanging
<1>3. ASSUME NEW r \in Ranks, Begin(r) \/ SkipLayer(r) \/ Reject(r) \/ Return(r)
      PROVE  CopiesInv'
  <2>1. copies' = copies
    BY <1>3 DEF Begin, SkipLayer, Reject, Return
  <2>2. \/ UNCHANGED pc
        \/ \E p \in {"skipped", "rejected", "layer", "done"} : pc' = [pc EXCEPT ![r] = p]
    BY <1>3 DEF Begin, SkipLayer, Reject, Return
  <2>3. \A q \in Ranks : pc'[q] \in Exchanging => pc'[q] = pc[q]
    BY <2>2 DEF Inv, Shapes, Exchanging
  <2> QED  BY <2>1, <2>3, <1>0 DEF CopiesInv, Exchanging
<1>4. CASE AllToAll
  BY <1>0, <1>4 DEF AllToAll, CopiesInv, Exchanging
<1>5. CASE Gather
  BY <1>0, <1>5 DEF Gather, CopiesInv, Exchanging
<1>6. CASE Deal \/ PlanLayer \/ Deploy \/ UNCHANGED vars
  BY <1>0, <1>6 DEF Deal, PlanLayer, Deploy, vars, rankVars, CopiesInv
<1> QED  BY <1>1, <1>2, <1>3, <1>4, <1>5, <1>6 DEF Next, RankStep

\* What each rank publishes in the audit is the experts as they were loaded.
LEMMA PublishedIsOwn ==
  ASSUME CopiesInv, \A r \in Ranks : pc[r] = "gather", NEW e \in Slots
  PROVE  Published(e) = e
<1>1. Owner(e) \in Ranks /\ e \in Local(Owner(e))
  BY SlotFacts DEF Local
<1>2. copies[Owner(e)] = OwnCopies(Owner(e))
  BY <1>1 DEF CopiesInv, Exchanging
<1> QED  BY <1>1, <1>2 DEF Published, OwnCopies

\* The audit looks at tensors, and sees whether the exchange did what the row says.
LEMMA VerdictMeans ==
  ASSUME Inv, CopiesInv, \A s \in Ranks : pc[s] = "gather",
         NEW r \in Ranks, NEW l \in Layers, Unpacked(r, l)
  PROVE  Verdict(r, l) <=> Settled(r, l)
<1>1. IsPermutation(Row(l))
  BY DEF Inv, RankInv, Checked, Unpacked, Crossed, Accepted, Exchanging
<1>2. \A slot \in Slots : Row(l)[slot] \in Slots /\ Published(Row(l)[slot]) = Row(l)[slot]
  BY <1>1, PermutationFacts, PublishedIsOwn
<1>3. gates[r][l] = [slot \in Slots |-> copies[r].gate[Row(l)[slot]]]
  <2>1. copies[r].gate = Identity
    BY DEF CopiesInv, OwnCopies, Exchanging
  <2>2. \A slot \in Slots : copies[r].gate[Row(l)[slot]] = Row(l)[slot]
    BY <1>2, <2>1 DEF Identity
  <2> QED  BY <2>2, UnpackedLayer
<1>4. \A slot \in Local(r) : held[l][slot] = Moved(Row(l), slot) /\ slot \in Slots
  BY UnpackedLayer DEF Local
<1>5. QED
  BY <1>2, <1>3, <1>4 DEF Verdict, Settled

\* No step takes a rank back, and the file of a rank at work stays.
LEMMA LayersAdvance ==
  ASSUME Inv, [Next]_vars
  PROVE  /\ \A s \in Ranks : layer'[s] \in Nat /\ layer[s] \in Nat /\ layer[s] <= layer'[s]
         /\ \A s \in Ranks : 0 < layer[s] => UNCHANGED file
<1>1. Shapes /\ Shapes' /\ \A s \in Ranks : layer[s] \in Nat /\ layer'[s] \in Nat
  BY InvNext, LayerFacts DEF Inv, Shapes
<1>2. ASSUME NEW s \in Ranks PROVE layer'[s] = layer[s] \/ layer'[s] = layer[s] + 1
  <2>1. ASSUME NEW r \in Ranks, RankStep(r)
        PROVE  layer' = layer \/ layer' = [layer EXCEPT ![r] = @ + 1]
    BY <2>1 DEF RankStep, Begin, SkipLayer, Reject, Send, Unpack, Return
  <2>2. CASE Deal \/ PlanLayer \/ Deploy \/ AllToAll \/ UNCHANGED vars
    BY <2>2 DEF Deal, PlanLayer, Deploy, AllToAll, vars, rankVars
  <2>3. CASE Gather
    BY <2>3 DEF Gather
  <2>4. ASSUME NEW r \in Ranks, RankStep(r)
        PROVE  layer'[s] = layer[s] \/ layer'[s] = layer[s] + 1
    BY <1>1, <2>1, <2>4 DEF Shapes
  <2>5. QED
    BY <2>2, <2>3, <2>4 DEF Next
<1>3. ASSUME NEW s \in Ranks, 0 < layer[s] PROVE UNCHANGED file
  <2>1. file # None
    BY <1>1, <1>3, Deployed DEF Inv, RankInv, AtLayer
  <2>2. QED
    BY <2>1 DEF Next, Deal, DealNext, PlanLayer, Deploy, AllToAll, Gather, RankStep, Begin, SkipLayer,
                Reject, Send, Unpack, Return, vars
<1>4. QED
  BY <1>1, <1>2, <1>3

\* A verdict, once given, stays true of what it is about.
LEMMA AuditStays ==
  ASSUME Inv, [Next]_vars, NEW r \in Ranks, NEW l \in Layers, AuditOf(r, l),
         audits'[r][l] = audits[r][l]
  PROVE  AuditOf(r, l)'
<1>1. SUFFICES ASSUME audits[r][l] # "none"
               PROVE  /\ \A s \in Ranks : l < layer'[s]
                      /\ Settled(r, l)' <=> Settled(r, l)
  BY DEF AuditOf
<1>2. l \in Nat /\ \A s \in Ranks : l < layer[s]
  BY <1>1, LayerFacts DEF AuditOf
<1>3. \A s \in Ranks : l < layer'[s] /\ 0 < layer[s]
  BY <1>2, LayersAdvance
<1>4. UNCHANGED file
  BY <1>3, LayersAdvance
<1>5. Settled(r, l)' <=> Settled(r, l)
  BY <1>4 DEF Settled, Row
<1>6. QED
  BY <1>3, <1>5

\* In the collective of the audit all ranks are at the layer they exchanged last.
LEMMA GatherTogether ==
  ASSUME Inv, \A r \in Ranks : pc[r] = "gather", NEW r \in Ranks, NEW s \in Ranks
  PROVE  layer[r] = layer[s]
<1>1. \A q \in Ranks : layer[q] \in Nat /\ layer[q] \in MoELayers /\ layer[q] \in Layers
  BY LayerFacts DEF Inv, RankInv, AtLayer, Exchanging
<1>2. \A p, q \in Ranks : ~(layer[p] < layer[q])
  <2>1. SUFFICES ASSUME NEW p \in Ranks, NEW q \in Ranks, layer[p] < layer[q] PROVE FALSE
    OBVIOUS
  <2>2. Crossed(q, layer[q]) /\ ~Crossed(p, layer[q])
    BY <1>1, <2>1 DEF Crossed
  <2>3. QED
    BY <1>1, <2>2 DEF Inv, InStep
<1>3. QED
  BY <1>1, <1>2

LEMMA AuditInvNext == Inv /\ CopiesInv /\ AuditInv /\ [Next]_vars => AuditInv'
<1> SUFFICES ASSUME Inv, CopiesInv, AuditInv, [Next]_vars PROVE AuditInv'
  OBVIOUS
<1>1. CASE UNCHANGED audits
  BY <1>1, AuditStays DEF AuditInv
<1>2. CASE Gather
  <2>1. \A r \in Ranks : /\ pc[r] = "gather" /\ layer'[r] = layer[r] + 1
                         /\ layer[r] \in MoELayers /\ layer[r] \in Layers /\ layer[r] \in Nat
    BY <1>2, LayerFacts DEF Gather, Inv, RankInv, AtLayer, Exchanging
  <2>2. ASSUME NEW r \in Ranks
        PROVE  audits'[r] = [audits[r] EXCEPT ![layer[r]] = IF Verdict(r, layer[r]) THEN "ok"
                                                                                    ELSE "bad"]
    BY <1>2 DEF Gather
  <2>3. audits' \in [Ranks -> [Layers -> {"none", "ok", "bad"}]]
    <3>1. audits' = [r \in Ranks |-> audits'[r]]
      BY <1>2 DEF Gather
    <3>2. ASSUME NEW r \in Ranks PROVE audits'[r] \in [Layers -> {"none", "ok", "bad"}]
      <4>1. audits[r] \in [Layers -> {"none", "ok", "bad"}]
        BY DEF AuditInv
      <4>2. QED
        BY <2>2, <4>1
    <3>3. QED
      BY <3>1, <3>2
  <2>4. ASSUME NEW r \in Ranks, NEW l \in Layers PROVE AuditOf(r, l)'
    <3>1. CASE l # layer[r]
      <4>1. audits[r] \in [Layers -> {"none", "ok", "bad"}] /\ AuditOf(r, l)
        BY DEF AuditInv
      <4>2. audits'[r][l] = audits[r][l]
        BY <2>2, <3>1, <4>1
      <4>3. QED
        BY <4>1, <4>2, AuditStays
    <3>2. CASE l = layer[r]
      <4>1. Unpacked(r, l)
        BY <2>1, <3>2 DEF Unpacked, Crossed
      <4>2. audits'[r][l] = IF Settled(r, l) THEN "ok" ELSE "bad"
        <5>1. audits[r] \in [Layers -> {"none", "ok", "bad"}]
          BY DEF AuditInv
        <5>2. audits'[r][l] = IF Verdict(r, l) THEN "ok" ELSE "bad"
          BY <2>2, <3>2, <5>1
        <5>3. QED
          BY <2>1, <4>1, <5>2, VerdictMeans
      <4>3. \A s \in Ranks : l < layer'[s]
        BY <2>1, <3>2, GatherTogether
      <4>4. Settled(r, l)' <=> Settled(r, l)
        BY <1>2 DEF Gather, Settled, Row
      <4>5. QED
        BY <2>1, <3>2, <4>2, <4>3, <4>4 DEF AuditOf
    <3>3. QED
      BY <3>1, <3>2
  <2>5. QED
    BY <2>3, <2>4 DEF AuditInv
<1>3. QED
  BY <1>1, <1>2 DEF Next, Deal, PlanLayer, Deploy, AllToAll, RankStep, Begin, SkipLayer, Reject,
                    Send, Unpack, Return, vars, rankVars

\* expert_placement.py:320-323, for every file that passes its checks, ascending or
\* not: the audits of all ranks of a layer pass exactly when on every rank each row of
\* the gate scores the expert that its slot holds, then and ever after.
THEOREM AuditIsRight == Spec => []AuditMeansWhole
<1>1. Init => AuditInv /\ CopiesInv
  BY DEF Init, AuditInv, AuditOf, CopiesInv, Exchanging
<1>2. Inv /\ AuditInv => AuditMeansWhole
  <2>1. SUFFICES ASSUME Inv, AuditInv, NEW l \in Layers, \A r \in Ranks : audits[r][l] # "none"
                 PROVE  (\A r \in Ranks : audits[r][l] = "ok") <=> Whole(l)
    BY DEF AuditMeansWhole
  <2>2. \A r \in Ranks : audits[r][l] = "ok" <=> Settled(r, l)
    BY <2>1 DEF AuditInv, AuditOf
  <2>3. \A r \in Ranks : Unpacked(r, l)
    <3>1. l \in Nat /\ \A r \in Ranks : layer[r] \in Nat
      BY <2>1, LayerFacts DEF Inv, Shapes
    <3>2. QED
      BY <2>1, <3>1 DEF AuditInv, AuditOf, Unpacked, Crossed
  <2>4. \A r \in Ranks : gates[r][l] = [slot \in Slots |-> Row(l)[slot]]
    BY <2>1, <2>3, UnpackedLayer
  <2>5. \A slot \in Slots : held[l][slot] = Moved(Row(l), slot)
    BY <2>1, <2>3, UnpackedLayer, SlotFacts DEF Local
  <2>6. held[l] = [slot \in Slots |-> Moved(Row(l), slot)]
    <3>1. held[l] = [slot \in Slots |-> held[l][slot]]
      BY <2>1 DEF Inv, Shapes
    <3>2. QED
      BY <2>5, <3>1
  <2>7. Whole(l) <=> \A r \in Ranks : \A slot \in Slots : Moved(Row(l), slot) = Row(l)[slot]
    <3>1. ASSUME NEW r \in Ranks
          PROVE  gates[r][l] = held[l] <=> \A slot \in Slots : Moved(Row(l), slot) = Row(l)[slot]
      <4> HIDE DEF Moved
      <4>1. gates[r][l] = [slot \in Slots |-> Row(l)[slot]]
        BY <2>4
      <4>2. QED
        BY <2>6, <4>1
    <3>2. QED
      BY <3>1 DEF Whole
  <2>8. (\A r \in Ranks : Settled(r, l))
           <=> \A slot \in Slots : Moved(Row(l), slot) = Row(l)[slot]
    BY SlotFacts DEF Settled, Local
  <2>9. 0 \in Ranks
    BY PlacementAssumption DEF Ranks
  <2>10. QED
    BY <2>2, <2>7, <2>8, <2>9
<1>3. Inv /\ CopiesInv /\ AuditInv /\ [Next]_vars => CopiesInv' /\ AuditInv'
  BY AuditInvNext, CopiesInvNext
<1>4. QED
  BY <1>1, <1>2, <1>3, Invariant, PTL DEF Spec

-----------------------------------------------------------------------------
\* The planner: how the experts of a layer are dealt.

\* Experts given to ranks, at most NLocal to each: there are no more than slots,
\* and as many as slots exactly when every rank has its full number.
LEMMA Counted ==
  ASSUME NEW D, IsFiniteSet(D), NEW owner, \A e \in D : owner[e] \in Ranks,
         \A r \in Ranks : Cardinality({e \in D : owner[e] = r}) <= NLocal
  PROVE  /\ Cardinality(D) <= World * NLocal
         /\ Cardinality(D) = World * NLocal
              <=> \A r \in Ranks : Cardinality({e \in D : owner[e] = r}) = NLocal
<1> DEFINE Of(r) == {e \in D : owner[e] = r}
           Below(n) == {e \in D : owner[e] < n}
           Full(n) == \A r \in 0 .. n - 1 : Cardinality(Of(r)) = NLocal
           Within(n) == /\ Cardinality(Below(n)) <= n * NLocal
                        /\ Cardinality(Below(n)) = n * NLocal <=> Full(n)
           Good == {n \in 0 .. World : Within(n)}
<1>1. World \in Nat /\ NLocal \in Nat /\ Ranks = 0 .. World - 1
  BY PlacementAssumption DEF Ranks
<1>2. \A S \in SUBSET D : IsFiniteSet(S) /\ Cardinality(S) \in Nat
  BY FS_Subset, FS_CardinalityType
<1>3. 0 \in Good
  <2>1. Below(0) = {}
    BY <1>1
  <2>2. Cardinality(Below(0)) = 0
    BY <2>1, FS_EmptySet
  <2>3. 0 * NLocal = 0 /\ 0 .. 0 - 1 = {}
    BY <1>1
  <2>4. QED
    BY <1>1, <2>2, <2>3
<1>4. ASSUME NEW n \in Good, n < World PROVE n + 1 \in Good
  <2>1. n \in Ranks /\ n \in Nat /\ n + 1 \in 0 .. World /\ Within(n)
    BY <1>1, <1>4
  <2>2. Below(n + 1) = Below(n) \cup Of(n) /\ Below(n) \cap Of(n) = {}
    <3>1. \A e \in D : owner[e] \in Int /\ (owner[e] < n + 1 <=> owner[e] < n \/ owner[e] = n)
      BY <1>1, <2>1
    <3>2. \A e \in D : ~(owner[e] < n /\ owner[e] = n)
      BY <2>1
    <3>3. QED
      BY <3>1, <3>2
  <2>3. Below(n) \in SUBSET D /\ Of(n) \in SUBSET D
    OBVIOUS
  <2> HIDE DEF Below, Of
  <2>4. Cardinality(Below(n + 1)) = Cardinality(Below(n)) + Cardinality(Of(n))
    <3>1. Cardinality(Below(n) \cup Of(n))
            = Cardinality(Below(n)) + Cardinality(Of(n)) - Cardinality(Below(n) \cap Of(n))
      BY <1>2, <2>3, FS_Union
    <3>2. Cardinality(Below(n) \cap Of(n)) = 0
      BY <2>2, FS_EmptySet
    <3>3. QED
      BY <1>2, <2>2, <2>3, <3>1, <3>2
  <2>5. Cardinality(Of(n)) <= NLocal
    BY <2>1 DEF Of
  <2>6. Full(n + 1) <=> Full(n) /\ Cardinality(Of(n)) = NLocal
    <3>1. (n + 1) - 1 = n /\ 0 .. n = (0 .. n - 1) \cup {n}
      BY <2>1
    <3>2. QED
      BY <3>1
  <2>7. (n + 1) * NLocal = n * NLocal + NLocal /\ n * NLocal \in Nat
    BY <1>1, <2>1
  <2> HIDE DEF Full
  <2>8. Within(n + 1)
    <3>1. PICK a : a = n * NLocal
      OBVIOUS
    <3>2. Cardinality(Below(n)) \in Nat /\ Cardinality(Of(n)) \in Nat
      BY <1>2, <2>3
    <3>3. Cardinality(Below(n)) <= a /\ (Cardinality(Below(n)) = a <=> Full(n)) /\ a \in Nat
      BY <2>1, <2>7, <3>1
    <3>4. Cardinality(Below(n)) + Cardinality(Of(n)) = a + NLocal
            <=> Cardinality(Below(n)) = a /\ Cardinality(Of(n)) = NLocal
      BY <1>1, <2>5, <3>2, <3>3
    <3>5. Cardinality(Below(n)) + Cardinality(Of(n)) <= a + NLocal
      BY <1>1, <2>5, <3>2, <3>3
    <3>6. QED
      BY <2>4, <2>6, <2>7, <3>1, <3>3, <3>4, <3>5
  <2> HIDE DEF Within
  <2>9. QED
    BY <2>1, <2>8
<1>5. World \in Good
  <2> HIDE DEF Good
  <2>1. Good \in SUBSET (0 .. World)
    BY DEF Good
  <2>2. QED
    BY <1>1, <1>3, <1>4, <2>1, UpTo
<1>6. Below(World) = D
  BY <1>1
<1>7. Full(World) <=> \A r \in Ranks : Cardinality(Of(r)) = NLocal
  BY <1>1
<1> HIDE DEF Below, Full, Of
<1>8. QED
  BY <1>5, <1>6, <1>7 DEF Of

LEMMA SlotCount == Cardinality(Slots) = World * NLocal /\ World * NLocal \in Nat /\ Slots # {}
<1>1. World * NLocal \in Nat /\ World * NLocal > 0
  BY PlacementAssumption
<1>2. PICK n \in Nat : n = World * NLocal
  BY <1>1
<1>3. Cardinality(0 .. n - 1) = n
  <2>1. 0 \in Int /\ n - 1 \in Int /\ ~(0 > n - 1) /\ n - 1 - 0 + 1 = n
    BY <1>1, <1>2
  <2>2. QED
    BY <2>1, FS_Interval
<1>4. 0 \in 0 .. n - 1
  BY <1>1, <1>2
<1>5. QED
  BY <1>1, <1>2, <1>3, <1>4 DEF Slots

\* The deal so far: nobody has more experts than slots.
DealTypeOK ==
    /\ loads \in [Slots -> Nat] /\ assign \in [DOMAIN assign -> Ranks]
    /\ DOMAIN assign \subseteq Slots
    /\ \A r \in Ranks : Count(r) <= NLocal

\* A dealt expert belongs to one rank, whose load it adds to.
LEMMA DealFacts ==
  ASSUME DealTypeOK
  PROVE  /\ IsFiniteSet(DOMAIN assign)
         /\ \A r \in Ranks : /\ IsFiniteSet(Dealt(r)) /\ Dealt(r) \in SUBSET Slots
                             /\ Count(r) \in Nat /\ Bin(r) \in Nat
<1>1. IsFiniteSet(DOMAIN assign)
  BY SlotFacts, FS_Subset DEF DealTypeOK
<1>2. ASSUME NEW r \in Ranks
      PROVE  /\ IsFiniteSet(Dealt(r)) /\ Dealt(r) \in SUBSET Slots
             /\ Count(r) \in Nat /\ Bin(r) \in Nat
  <2>1. Dealt(r) \in SUBSET DOMAIN assign /\ Dealt(r) \in SUBSET Slots
    BY DEF Dealt, DealTypeOK
  <2>2. IsFiniteSet(Dealt(r)) /\ Count(r) \in Nat
    BY <1>1, <2>1, FS_Subset, FS_CardinalityType DEF Count
  <2>3. \A e \in Dealt(r) : loads[e] \in Nat
    BY <2>1 DEF DealTypeOK
  <2>4. QED
    BY <2>1, <2>2, <2>3, SumIsNat DEF Bin, LoadOf
<1>3. QED
  BY <1>1, <1>2

\* While experts remain, a rank has room (the candidates of greedy_placement are
\* never empty), and the one that is chosen is no heavier than the others.
LEMMA ChosenRank ==
  ASSUME DealTypeOK, Remaining # {}
  PROVE  /\ LeastLoaded \in Ranks /\ Count(LeastLoaded) < NLocal
         /\ \A q \in Ranks : Count(q) < NLocal => Bin(LeastLoaded) <= Bin(q)
<1>1. \A r \in Ranks : Count(r) \in Nat /\ Bin(r) \in Nat
  BY DealFacts
<1>2. Candidates # {}
  <2>1. SUFFICES ASSUME \A r \in Ranks : Count(r) = NLocal PROVE FALSE
    <3>1. \A r \in Ranks : Count(r) <= NLocal /\ Count(r) \in Nat
      BY <1>1 DEF DealTypeOK
    <3>2. QED
      BY <3>1, PlacementAssumption DEF Candidates
  <2>2. PICK D, owner : D = DOMAIN assign /\ owner = assign
    OBVIOUS
  <2>3. \A r \in Ranks : Cardinality({e \in D : owner[e] = r}) = NLocal
    BY <2>1, <2>2 DEF Count, Dealt
  <2>4. \A r \in Ranks : Cardinality({e \in D : owner[e] = r}) <= NLocal
    BY <2>3, PlacementAssumption
  <2>5. IsFiniteSet(D) /\ \A e \in D : owner[e] \in Ranks
    BY <2>2, DealFacts DEF DealTypeOK
  <2>6. Cardinality(D) = World * NLocal
    BY <2>3, <2>4, <2>5, Counted
  <2>7. D = Slots
    <3>1. D \in SUBSET Slots
      BY <2>2 DEF DealTypeOK
    <3>2. QED
      BY <2>6, <3>1, SlotCount, SlotFacts, FS_Subset
  <2>8. QED
    BY <2>2, <2>7 DEF Remaining
<1>3. \E r \in Candidates : \A q \in Candidates : Before(r, q)
  <2>1. IsFiniteSet(Candidates) /\ Candidates \in SUBSET Ranks
    <3>1. IsFiniteSet(Ranks)
      BY PlacementAssumption, FS_Interval DEF Ranks
    <3>2. Candidates \in SUBSET Ranks
      BY DEF Candidates
    <3>3. QED
      BY <3>1, <3>2, FS_Subset
  <2>2. PICK bins : bins = [r \in Candidates |-> Bin(r)]
    OBVIOUS
  <2>3. PICK low \in Candidates : \A q \in Candidates : Bin(low) <= Bin(q)
    <3>1. bins \in [Candidates -> Int]
      BY <1>1, <2>1, <2>2
    <3>2. \E x \in Candidates : \A y \in Candidates : bins[x] <= bins[y]
      BY <1>2, <2>1, <3>1, LeastAndGreatest
    <3>3. QED
      BY <2>2, <3>2
  <2> DEFINE b == Bin(low)
             Light == {r \in Candidates : Bin(r) = b}
  <2>4. IsFiniteSet(Light) /\ Light \in SUBSET Ranks /\ Light # {}
    BY <2>1, <2>3, FS_Subset
  <2>5. PICK counts : counts = [r \in Light |-> Count(r)]
    OBVIOUS
  <2>6. PICK few \in Light : \A q \in Light : Count(few) <= Count(q)
    <3> HIDE DEF Light
    <3>1. counts \in [Light -> Int]
      BY <1>1, <2>4, <2>5
    <3>2. \E x \in Light : \A y \in Light : counts[x] <= counts[y]
      BY <2>4, <3>1, LeastAndGreatest
    <3>3. QED
      BY <2>5, <3>2
  <2> DEFINE n == Count(few)
  <2> DEFINE Few == {r \in Light : Count(r) = n}
  <2>7. IsFiniteSet(Few) /\ Few \in SUBSET Int /\ Few # {}
    <3>1. IsFiniteSet(Few)
      BY <2>4, FS_Subset
    <3>2. Few \in SUBSET Int
      BY <2>4, PlacementAssumption DEF Ranks
    <3>3. QED
      BY <2>6, <3>1, <3>2
  <2>8. PICK r \in Few : \A q \in Few : r <= q
    BY <2>7, FirstAndLast
  <2>9. r \in Candidates /\ Bin(r) = b /\ Count(r) = n
    BY <2>8
  <2>10. ASSUME NEW q \in Candidates PROVE Before(r, q)
    <3>1. Bin(q) \in Int /\ Bin(r) \in Int /\ Count(q) \in Int /\ Count(r) \in Int
      BY <1>1, <2>1, <2>9
    <3>2. Bin(r) <= Bin(q)
      BY <2>3, <2>9, <2>10
    <3>3. CASE Bin(r) = Bin(q)
      <4>1. q \in Light
        BY <2>9, <2>10, <3>3
      <4>2. Count(r) <= Count(q)
        BY <2>6, <2>9, <4>1
      <4>3. Count(r) = Count(q) => r <= q
        BY <2>8, <2>9, <4>1
      <4>4. QED
        BY <3>1, <3>3, <4>2, <4>3 DEF Before
    <3>4. QED
      BY <3>1, <3>2, <3>3 DEF Before
  <2>11. QED
    BY <2>9, <2>10
<1>4. PICK s : s = LeastLoaded /\ s \in Candidates /\ \A q \in Candidates : Before(s, q)
  BY <1>3 DEF LeastLoaded
<1>5. ASSUME NEW q \in Ranks, Count(q) < NLocal PROVE Bin(s) <= Bin(q)
  <2>1. q \in Candidates /\ s \in Ranks
    BY <1>4, <1>5 DEF Candidates
  <2>2. Before(s, q) /\ Bin(s) \in Int /\ Bin(q) \in Int
    BY <1>1, <1>4, <2>1
  <2>3. QED
    BY <2>2 DEF Before
<1>6. QED
  BY <1>4, <1>5 DEF Candidates

\* One turn of the loop: the heaviest expert that remains goes to the chosen rank.
LEMMA DealTurn ==
  ASSUME DealTypeOK, NEW e \in Heaviest, NEW s, s = LeastLoaded, UNCHANGED loads,
         assign' = [f \in DOMAIN assign \cup {e} |-> IF f = e THEN s ELSE assign[f]]
  PROVE  /\ DealTypeOK' /\ Remaining' = Remaining \ {e}
         /\ \A r \in Ranks : Count(r)' = IF r = s THEN Count(r) + 1 ELSE Count(r)
         /\ \A r \in Ranks : Bin(r)' = IF r = s THEN Bin(r) + loads[e] ELSE Bin(r)
<1>1. e \in Remaining /\ e \in Slots /\ e \notin DOMAIN assign /\ loads[e] \in Nat
  BY DEF Heaviest, Remaining, DealTypeOK
<1>2. s \in Ranks /\ Count(s) < NLocal
  BY <1>1, ChosenRank
<1>3. DOMAIN assign' = DOMAIN assign \cup {e}
  OBVIOUS
<1>4. Remaining' = Remaining \ {e}
  BY <1>3 DEF Remaining
<1>5. \A r \in Ranks : Dealt(r)' = IF r = s THEN Dealt(r) \cup {e} ELSE Dealt(r)
  BY <1>1 DEF Dealt
<1>6. \A r \in Ranks : IsFiniteSet(Dealt(r)) /\ e \notin Dealt(r) /\ Count(r) \in Nat
  BY <1>1, DealFacts DEF Dealt
<1>7. \A r \in Ranks : Count(r)' = IF r = s THEN Count(r) + 1 ELSE Count(r)
  BY <1>5, <1>6, FS_AddElement DEF Count
<1>8. ASSUME NEW r \in Ranks PROVE Bin(r)' = IF r = s THEN Bin(r) + loads[e] ELSE Bin(r)
  <2>1. Bin(r)' = SumFunctionOnSet(loads, Dealt(r)')
    BY DEF Bin, LoadOf
  <2>2. CASE r # s
    BY <1>5, <2>1, <2>2 DEF Bin, LoadOf
  <2>3. CASE r = s
    <3>1. PICK S : S = Dealt(r) \cup {e}
      OBVIOUS
    <3>2. IsFiniteSet(S) /\ e \in S /\ S \ {e} = Dealt(r)
      BY <1>6, <3>1, FS_AddElement
    <3>3. \A x \in S : loads[x] \in Int
      BY <1>1, <3>1 DEF Dealt, DealTypeOK
    <3>4. SumFunctionOnSet(loads, S) = loads[e] + SumFunctionOnSet(loads, S \ {e})
      BY <3>2, <3>3, SumTake
    <3>5. Bin(r)' = loads[e] + Bin(r)
      BY <1>5, <2>1, <2>3, <3>1, <3>2, <3>4 DEF Bin, LoadOf
    <3>6. Bin(r) \in Nat
      BY DealFacts
    <3>7. QED
      BY <1>1, <2>3, <3>5, <3>6
  <2>4. QED
    BY <2>2, <2>3
<1>9. DealTypeOK'
  <2>1. assign' \in [DOMAIN assign' -> Ranks]
    BY <1>2 DEF DealTypeOK
  <2>2. \A r \in Ranks : Count(r)' <= NLocal
    BY <1>2, <1>6, <1>7, PlacementAssumption DEF DealTypeOK
  <2>3. QED
    BY <1>1, <1>3, <2>1, <2>2 DEF DealTypeOK
<1>10. QED
  BY <1>4, <1>7, <1>8, <1>9

\* Why the spread stays within one expert although the cap can close the lighter
\* rank first: while q has as many experts as r or more, their gap is that much
\* smaller than one expert as q has more of them, each at least as heavy as any
\* that is still to come.
Ahead(r, q) ==
    /\ \E x \in Slots : Bin(r) - Bin(q) <= loads[x]
    /\ Count(q) >= Count(r) =>
         \A f \in Remaining : \E x \in Slots :
             Bin(r) - Bin(q) + (Count(q) - Count(r)) * loads[f] <= loads[x]

LEMMA Times ==
  ASSUME NEW k \in Nat, NEW x \in Nat, NEW y \in Nat, y <= x
  PROVE  /\ k * y <= k * x /\ k * x \in Nat /\ k * y \in Nat
         /\ (k + 1) * x = k * x + x /\ (k + 1) * y = k * y + y
  OBVIOUS

LEMMA AheadDeal ==
  ASSUME DealTypeOK, DealNext, \A p, q \in Ranks : Ahead(p, q)
  PROVE  \A r, q \in Ranks : Ahead(r, q)'
<1>1. PICK e \in Heaviest :
        assign' = [f \in DOMAIN assign \cup {e} |-> IF f = e THEN LeastLoaded ELSE assign[f]]
  BY DEF DealNext
<1>2. PICK s : s = LeastLoaded
  OBVIOUS
<1>3. /\ Remaining' = Remaining \ {e}
      /\ \A r \in Ranks : Count(r)' = IF r = s THEN Count(r) + 1 ELSE Count(r)
      /\ \A r \in Ranks : Bin(r)' = IF r = s THEN Bin(r) + loads[e] ELSE Bin(r)
  BY <1>1, <1>2, DealTurn DEF DealNext
<1>4. /\ e \in Remaining /\ e \in Slots /\ UNCHANGED loads
      /\ \A f \in Remaining : f \in Slots /\ loads[f] \in Nat /\ loads[f] <= loads[e]
  BY DEF Heaviest, Remaining, DealTypeOK, DealNext
<1>5. /\ s \in Ranks /\ Count(s) < NLocal
      /\ \A q \in Ranks : Count(q) < NLocal => Bin(s) <= Bin(q)
  BY <1>2, <1>4, ChosenRank
<1>6. \A r \in Ranks : Count(r) \in Nat /\ Bin(r) \in Nat
  BY DealFacts
<1>7. \A x \in Slots : loads[x] \in Nat
  BY DEF DealTypeOK
<1>8. SUFFICES ASSUME NEW r \in Ranks, NEW q \in Ranks PROVE Ahead(r, q)'
  OBVIOUS
<1>9. PICK x1 \in Slots : Bin(r) - Bin(q) <= loads[x1]
  BY DEF Ahead
<1>10. PICK x2 \in Slots :
         Count(q) >= Count(r) =>
             Bin(r) - Bin(q) + (Count(q) - Count(r)) * loads[e] <= loads[x2]
  BY <1>4 DEF Ahead
<1>11. PICK b \in Nat, c \in Nat, m \in Nat, n \in Nat :
         b = Bin(r) /\ c = Bin(q) /\ m = Count(r) /\ n = Count(q)
  BY <1>6
<1>12. /\ b - c <= loads[x1]
       /\ n >= m => b - c + (n - m) * loads[e] <= loads[x2]
  BY <1>9, <1>10, <1>11
<1>13. CASE r = s /\ q = s
  <2>1. Bin(r)' = Bin(q)' /\ Bin(r)' \in Nat /\ Count(r)' = Count(q)' /\ Count(r)' \in Nat
    BY <1>3, <1>4, <1>6, <1>7, <1>13
  <2>2. \A f \in Remaining' : loads'[f] \in Nat
    BY <1>3, <1>4
  <2>3. Bin(r)' - Bin(q)' = 0 /\ \A f \in Remaining' : (Count(q)' - Count(r)') * loads'[f] = 0
    BY <2>1, <2>2
  <2>4. QED
    BY <1>4, <1>7, <2>3 DEF Ahead
<1>14. CASE r = s /\ q # s
  <2>1. Bin(r)' = b + loads[e] /\ Bin(q)' = c /\ Count(r)' = m + 1 /\ Count(q)' = n
    BY <1>3, <1>11, <1>14
  <2>2. \E x \in Slots : b + loads[e] - c <= loads[x]
    <3>1. CASE n >= m + 1
      <4>1. n - m - 1 \in Nat /\ (n - m - 1) + 1 = n - m
        BY <1>11, <3>1
      <4>2. (n - m) * loads[e] = (n - m - 1) * loads[e] + loads[e] /\ (n - m - 1) * loads[e] \in Nat
        BY <1>4, <1>7, <4>1, Times
      <4>3. PICK a \in Nat : a = (n - m - 1) * loads[e]
        BY <4>2
      <4>4. b + loads[e] - c <= loads[x2]
        BY <1>4, <1>7, <1>11, <1>12, <3>1, <4>2, <4>3
      <4>5. QED
        BY <4>4
    <3>2. CASE n <= m
      <4>1. b <= c
        BY <1>5, <1>11, <1>14, <3>2, PlacementAssumption
      <4>2. b + loads[e] - c <= loads[e]
        BY <1>4, <1>11, <4>1
      <4>3. QED
        BY <1>4, <4>2
    <3>3. QED
      BY <1>11, <3>1, <3>2
  <2>3. ASSUME n >= m + 1, NEW f \in Remaining
        PROVE  \E x \in Slots : b + loads[e] - c + (n - (m + 1)) * loads[f] <= loads[x]
    <3>1. n - m - 1 \in Nat /\ (n - m - 1) + 1 = n - m /\ n - (m + 1) = n - m - 1
      BY <1>11, <2>3
    <3>2. /\ (n - m) * loads[e] = (n - m - 1) * loads[e] + loads[e]
          /\ (n - m - 1) * loads[e] \in Nat /\ (n - m - 1) * loads[f] \in Nat
          /\ (n - m - 1) * loads[f] <= (n - m - 1) * loads[e]
      BY <1>4, <1>7, <3>1, Times
    <3>3. PICK a \in Nat, d \in Nat : a = (n - m - 1) * loads[e] /\ d = (n - m - 1) * loads[f]
      BY <3>2
    <3>4. b + loads[e] - c + d <= loads[x2]
      <4>1. b - c + (a + loads[e]) <= loads[x2] /\ d <= a
        BY <1>11, <1>12, <2>3, <3>2, <3>3
      <4>2. QED
        BY <1>4, <1>7, <1>11, <4>1
    <3>5. QED
      BY <3>1, <3>3, <3>4
  <2>4. \E x \in Slots : Bin(r)' - Bin(q)' <= loads'[x]
    BY <1>4, <2>1, <2>2
  <2>5. ASSUME Count(q)' >= Count(r)', NEW f \in Remaining'
        PROVE  \E x \in Slots :
                 Bin(r)' - Bin(q)' + (Count(q)' - Count(r)') * loads'[f] <= loads'[x]
    BY <1>3, <1>4, <2>1, <2>3, <2>5
  <2>6. QED
    BY <2>4, <2>5 DEF Ahead
<1>15. CASE r # s /\ q = s
  <2>1. Bin(r)' = b /\ Bin(q)' = c + loads[e] /\ Count(r)' = m /\ Count(q)' = n + 1
    BY <1>3, <1>11, <1>15
  <2>2. b - (c + loads[e]) <= loads[x1]
    BY <1>4, <1>7, <1>11, <1>12
  <2>3. ASSUME n + 1 >= m, NEW f \in Remaining
        PROVE  \E x \in Slots : b - (c + loads[e]) + (n + 1 - m) * loads[f] <= loads[x]
    <3>1. CASE n >= m
      <4>1. n - m \in Nat /\ n + 1 - m = (n - m) + 1
        BY <1>11, <3>1
      <4>2. /\ (n - m + 1) * loads[f] = (n - m) * loads[f] + loads[f]
            /\ (n - m) * loads[e] \in Nat /\ (n - m) * loads[f] \in Nat
            /\ (n - m) * loads[f] <= (n - m) * loads[e]
        BY <1>4, <1>7, <4>1, Times
      <4>3. PICK a \in Nat, d \in Nat : a = (n - m) * loads[e] /\ d = (n - m) * loads[f]
        BY <4>2
      <4>4. b - (c + loads[e]) + (d + loads[f]) <= loads[x2]
        <5>1. b - c + a <= loads[x2] /\ d <= a /\ loads[f] <= loads[e]
          BY <1>4, <1>11, <1>12, <3>1, <4>2, <4>3
        <5>2. QED
          BY <1>4, <1>7, <1>11, <5>1
      <4>5. QED
        BY <4>1, <4>2, <4>3, <4>4
    <3>2. CASE n + 1 = m
      <4>1. n + 1 - m = 0 /\ 0 * loads[f] = 0
        BY <1>4, <1>11, <3>2
      <4>2. b - (c + loads[e]) + (n + 1 - m) * loads[f] <= loads[x1]
        BY <1>4, <1>7, <1>11, <2>2, <4>1
      <4>3. QED
        BY <4>2
    <3>3. QED
      BY <1>11, <2>3, <3>1, <3>2
  <2>4. \E x \in Slots : Bin(r)' - Bin(q)' <= loads'[x]
    BY <1>4, <2>1, <2>2
  <2>5. ASSUME Count(q)' >= Count(r)', NEW f \in Remaining'
        PROVE  \E x \in Slots :
                 Bin(r)' - Bin(q)' + (Count(q)' - Count(r)') * loads'[f] <= loads'[x]
    BY <1>3, <1>4, <2>1, <2>3, <2>5
  <2>6. QED
    BY <2>4, <2>5 DEF Ahead
<1>16. CASE r # s /\ q # s
  <2>1. Bin(r)' = Bin(r) /\ Bin(q)' = Bin(q) /\ Count(r)' = Count(r) /\ Count(q)' = Count(q)
    BY <1>3, <1>16
  <2>2. Ahead(r, q)
    OBVIOUS
  <2>3. QED
    BY <1>3, <1>4, <2>1, <2>2 DEF Ahead
<1>17. QED
  BY <1>13, <1>14, <1>15, <1>16

\* Between two layers nothing is dealt.
LEMMA NothingDealt ==
  ASSUME loads \in [Slots -> Nat], assign = <<>>
  PROVE  DealTypeOK /\ \A r, q \in Ranks : Ahead(r, q)
<1>1. DOMAIN assign = {}
  OBVIOUS
<1>2. \A r \in Ranks : Dealt(r) = {}
  BY <1>1 DEF Dealt
<1>3. SumFunctionOnSet(loads, {}) = 0
  BY SumTurn, FS_EmptySet
<1>4. \A r \in Ranks : Count(r) = 0 /\ Bin(r) = 0
  BY <1>2, <1>3, FS_EmptySet DEF Count, Bin, LoadOf
<1>5. DealTypeOK
  BY <1>1, <1>4, PlacementAssumption DEF DealTypeOK
<1>6. ASSUME NEW r \in Ranks, NEW q \in Ranks PROVE Ahead(r, q)
  <2>1. PICK x \in Slots : loads[x] \in Nat
    BY SlotCount
  <2>2. \A f \in Remaining : loads[f] \in Nat
    BY DEF Remaining
  <2>3. Bin(r) - Bin(q) = 0 /\ \A f \in Remaining : (Count(q) - Count(r)) * loads[f] = 0
    BY <1>4, <2>2
  <2>4. QED
    BY <2>1, <2>3 DEF Ahead
<1>7. QED
  BY <1>5, <1>6

\* With as many experts as slots at every rank, every slot is named one expert.
LEMMA NewToOldIsTotal ==
  ASSUME NEW owner, ~Uneven(owner)
  PROVE  NewToOld(owner) \in [Slots -> Slots]
<1>1. SUFFICES ASSUME NEW slot \in Slots
               PROVE  Nth({e \in Slots : owner[e] = Owner(slot)}, (slot % NLocal) + 1) \in Slots
  BY DEF NewToOld
<1>2. PICK S \in SUBSET Slots : S = {e \in Slots : owner[e] = Owner(slot)}
  OBVIOUS
<1>3. Cardinality(S) = NLocal
  BY <1>2, SlotFacts DEF Uneven
<1>4. PICK k : k = (slot % NLocal) + 1
  OBVIOUS
<1>5. k \in 1 .. Cardinality(S)
  BY <1>3, <1>4, SlotFacts, PlacementAssumption
<1>6. PICK e \in S : Cardinality({f \in S : f <= e}) = k
  BY <1>5, PlaceOfSlot
<1>7. Nth(S, k) = e
  BY <1>6, PlaceOfSlot
<1>8. QED
  BY <1>2, <1>4, <1>6, <1>7

PlanInv ==
    /\ DealTypeOK
    /\ plan \in Seq([Slots -> Slots]) /\ Len(plan) <= NLayers
    /\ \A r, q \in Ranks : Ahead(r, q)

LEMMA PlanInvInit == Init => PlanInv
<1> SUFFICES ASSUME Init PROVE PlanInv
  OBVIOUS
<1>1. 0 \in Layers /\ Loads[0] \subseteq [Slots -> Nat]
  BY ApplyAssumption DEF Layers
<1>2. plan \in Seq([Slots -> Slots]) /\ Len(plan) <= NLayers
  BY ApplyAssumption DEF Init
<1>3. QED
  BY <1>1, <1>2, NothingDealt DEF Init, PlanInv

LEMMA PlanInvNext == PlanInv /\ [Next]_vars => PlanInv'
<1> SUFFICES ASSUME PlanInv, [Next]_vars PROVE PlanInv'
  OBVIOUS
<1>1. CASE UNCHANGED planVars
  <2>1. UNCHANGED <<loads, assign, plan>>
    BY <1>1 DEF planVars
  <2>2. \A r : Dealt(r)' = Dealt(r)
    BY <2>1 DEF Dealt
  <2>3. Remaining' = Remaining /\ \A r : Count(r)' = Count(r) /\ Bin(r)' = Bin(r)
    BY <2>1, <2>2 DEF Remaining, Count, Bin, LoadOf
  <2>4. DealTypeOK'
    BY <2>1, <2>3 DEF PlanInv, DealTypeOK
  <2>5. ASSUME NEW r \in Ranks, NEW q \in Ranks PROVE Ahead(r, q)'
    BY <2>1, <2>3 DEF PlanInv, Ahead
  <2>6. QED
    BY <2>1, <2>4, <2>5 DEF PlanInv
<1>2. CASE Deal
  <2>1. PICK e \in Heaviest :
          assign' = [f \in DOMAIN assign \cup {e} |-> IF f = e THEN LeastLoaded ELSE assign[f]]
    BY <1>2 DEF Deal, DealNext
  <2>2. PICK s : s = LeastLoaded
    OBVIOUS
  <2>3. DealTypeOK'
    BY <1>2, <2>1, <2>2, DealTurn DEF PlanInv, Deal, DealNext
  <2>4. \A r, q \in Ranks : Ahead(r, q)'
    BY <1>2, AheadDeal DEF PlanInv, Deal
  <2>5. UNCHANGED plan
    BY <1>2 DEF Deal
  <2>6. QED
    BY <2>3, <2>4, <2>5 DEF PlanInv
<1>3. CASE PlanLayer
  <2>1. NewToOld(assign) \in [Slots -> Slots]
    BY <1>3, NewToOldIsTotal DEF PlanLayer
  <2>2. /\ plan' \in Seq([Slots -> Slots]) /\ Len(plan') = Len(plan) + 1
        /\ Len(plan') \in Nat /\ Len(plan') <= NLayers
    BY <1>3, <2>1, LayerFacts DEF PlanLayer, PlanInv
  <2>3. loads' \in [Slots -> Nat]
    <3>1. CASE Len(plan') < NLayers
      <4>1. Len(plan') \in Layers
        BY <2>2, <3>1, LayerFacts DEF Layers
      <4>2. QED
        BY <1>3, <3>1, <4>1, ApplyAssumption DEF PlanLayer
    <3>2. CASE ~(Len(plan') < NLayers)
      BY <1>3, <3>2 DEF PlanLayer, NoLoads
    <3>3. QED
      BY <3>1, <3>2
  <2>4. assign' = <<>>
    BY <1>3 DEF PlanLayer
  <2>5. (DealTypeOK /\ \A r, q \in Ranks : Ahead(r, q))'
    <3>1. (loads \in [Slots -> Nat] /\ assign = <<>>)'
      BY <2>3, <2>4
    <3>2. (loads \in [Slots -> Nat] /\ assign = <<>>
             => DealTypeOK /\ \A r, q \in Ranks : Ahead(r, q))'
      BY NothingDealt, PTL
    <3>3. QED
      BY <3>1, <3>2
  <2>6. QED
    BY <2>2, <2>5 DEF PlanInv
<1>4. QED
  BY <1>1, <1>2, <1>3 DEF Next, Deploy, AllToAll, Gather, RankStep, Begin, SkipLayer, Reject,
                          Send, Unpack, Return, vars, planVars

LEMMA Planned == Spec => []PlanInv
  BY PlanInvInit, PlanInvNext, PTL DEF Spec

\* The greatest and the least of a set of integers.
LEMMA Extremes ==
  ASSUME NEW T \in SUBSET Int, NEW m \in T
  PROVE  /\ (\A y \in T : y <= m) => Max(T) = m
         /\ (\A y \in T : m <= y) => Min(T) = m
<1>1. ASSUME \A y \in T : y <= m PROVE Max(T) = m
  <2>1. PICK x : x = Max(T)
    OBVIOUS
  <2>2. \A y \in T : m >= y
    BY <1>1
  <2>3. x \in T /\ \A y \in T : x >= y
    BY <2>1, <2>2 DEF Max
  <2>4. x <= m /\ m <= x
    BY <1>1, <2>3
  <2>5. QED
    BY <2>1, <2>3, <2>4
<1>2. ASSUME \A y \in T : m <= y PROVE Min(T) = m
  <2>1. PICK x : x = Min(T)
    OBVIOUS
  <2>2. x \in T /\ \A y \in T : x <= y
    BY <1>2, <2>1 DEF Min
  <2>3. x <= m /\ m <= x
    BY <1>2, <2>2
  <2>4. QED
    BY <2>1, <2>2, <2>3
<1>3. QED
  BY <1>1, <1>2

\* The fullest and the emptiest bin are some ranks' bins.
LEMMA BinExtremes ==
  ASSUME DealTypeOK
  PROVE  \E high \in Ranks, low \in Ranks :
           /\ Busiest = Bin(high) /\ Idlest = Bin(low)
           /\ \A r \in Ranks : Bin(r) <= Bin(high) /\ Bin(low) <= Bin(r)
<1>1. PICK bins \in [Ranks -> Int] : bins = [r \in Ranks |-> Bin(r)]
  <2>1. \A r \in Ranks : Bin(r) \in Int
    BY DealFacts
  <2> QED  BY <2>1
<1>2. IsFiniteSet(Ranks) /\ 0 \in Ranks
  BY PlacementAssumption, FS_Interval DEF Ranks
<1>3. PICK high \in Ranks, low \in Ranks :
        \A r \in Ranks : bins[r] <= bins[high] /\ bins[low] <= bins[r]
  BY <1>2, LeastAndGreatest
<1>4. PICK T : T = {Bin(r) : r \in Ranks}
  OBVIOUS
<1>5. T \subseteq Int /\ bins[high] \in T /\ bins[low] \in T
      /\ \A y \in T : y <= bins[high] /\ bins[low] <= y
  BY <1>1, <1>3, <1>4
<1>6. Max(T) = bins[high] /\ Min(T) = bins[low]
  BY <1>5, Extremes
<1> QED  BY <1>1, <1>3, <1>4, <1>6 DEF Busiest, Idlest

\* expert_placement.py:56-62, for all loads and any number of ranks: cap and greedy
\* choice together give every rank the same number of experts, and no rank is
\* ahead of another by more than the load of one expert.
THEOREM PlanIsBalanced == Spec => []Balanced
<1>1. PlanInv => Balanced
  <2>1. SUFFICES ASSUME PlanInv, AllDealt
                 PROVE  /\ ~Uneven(assign)
                        /\ Busiest - Idlest <= Max({loads[e] : e \in Slots})
    BY DEF Balanced
  <2>2. DOMAIN assign = Slots
    BY <2>1 DEF AllDealt, Remaining, PlanInv, DealTypeOK
  <2>3. ~Uneven(assign)
    <3>1. PICK owner : owner = assign
      OBVIOUS
    <3>2. \A r \in Ranks : Cardinality({e \in Slots : owner[e] = r}) <= NLocal
      <4>1. SUFFICES ASSUME NEW r \in Ranks
                     PROVE  Cardinality({e \in Slots : owner[e] = r}) <= NLocal
        OBVIOUS
      <4>2. Dealt(r) = {e \in Slots : owner[e] = r}
        BY <2>2, <3>1 DEF Dealt
      <4>3. Cardinality(Dealt(r)) <= NLocal
        BY <2>1 DEF PlanInv, DealTypeOK, Count
      <4>4. QED
        BY <4>2, <4>3
    <3>3. \A e \in Slots : owner[e] \in Ranks
      BY <2>1, <2>2, <3>1 DEF PlanInv, DealTypeOK
    <3>4. \A r \in Ranks : Cardinality({e \in Slots : owner[e] = r}) = NLocal
      <4>1. PICK D : D = Slots
        OBVIOUS
      <4>2. IsFiniteSet(D) /\ Cardinality(D) = World * NLocal
        BY <4>1, SlotFacts, SlotCount
      <4>3. /\ \A e \in D : owner[e] \in Ranks
            /\ \A r \in Ranks : Cardinality({e \in D : owner[e] = r}) <= NLocal
        BY <3>2, <3>3, <4>1
      <4>4. \A r \in Ranks : Cardinality({e \in D : owner[e] = r}) = NLocal
        BY <4>2, <4>3, Counted
      <4>5. QED
        BY <4>1, <4>4
    <3>5. QED
      BY <3>1, <3>4 DEF Uneven
  <2>4. PICK high \in Ranks, low \in Ranks : Busiest = Bin(high) /\ Idlest = Bin(low)
    BY <2>1, BinExtremes DEF PlanInv
  <2>5. PICK x \in Slots : Bin(high) - Bin(low) <= loads[x]
    BY <2>1 DEF PlanInv, Ahead
  <2>6. PICK M \in Int : M = Max({loads[e] : e \in Slots}) /\ loads[x] <= M
    <3>1. PICK v \in [Slots -> Int] : v = loads
      BY <2>1 DEF PlanInv, DealTypeOK
    <3>2. PICK top \in Slots : \A e \in Slots : v[e] <= v[top]
      BY SlotFacts, SlotCount, LeastAndGreatest
    <3>3. PICK T : T = {v[e] : e \in Slots}
      OBVIOUS
    <3>4. v[top] \in T /\ T \subseteq Int /\ \A y \in T : y <= v[top]
      BY <3>2, <3>3
    <3>5. Max(T) = v[top]
      BY <3>4, Extremes
    <3>6. QED
      BY <3>1, <3>2, <3>3, <3>5
  <2>7. Bin(high) \in Nat /\ Bin(low) \in Nat /\ loads[x] \in Nat
    BY <2>1, DealFacts DEF PlanInv, DealTypeOK
  <2>8. QED
    BY <2>3, <2>4, <2>5, <2>6, <2>7
<1>2. QED
  BY <1>1, Planned, PTL

-----------------------------------------------------------------------------
\* Type correctness.

\* Outside an exchange a rank has nothing packed.
Emptied == \A r \in Ranks : pc[r] \notin {"exchange", "unpack"} => buffers[r] = NoBuffers

LEMMA EmptiedNext == Inv /\ Emptied /\ [Next]_vars => Emptied'
<1> SUFFICES ASSUME Inv, Emptied, [Next]_vars, NEW q \in Ranks,
                    pc'[q] \notin {"exchange", "unpack"}
             PROVE  buffers'[q] = NoBuffers
  BY DEF Emptied, NoBuffers
<1>1. pc \in [Ranks -> Points] /\ buffers = [r \in Ranks |-> buffers[r]]
  BY DEF Inv, Shapes
<1>2. ASSUME NEW r \in Ranks, RankStep(r) PROVE buffers'[q] = NoBuffers
  <2>1. CASE Unpack(r) /\ q = r
    BY <1>1, <2>1 DEF Unpack
  <2>2. CASE Unpack(r) /\ q # r
    <3>1. pc'[q] = pc[q] /\ buffers'[q] = buffers[q]
      BY <1>1, <2>2 DEF Unpack
    <3>2. QED
      BY <3>1 DEF Emptied
  <2>3. CASE Send(r)
    <3>1. q # r
      BY <1>1, <2>3 DEF Send
    <3>2. pc'[q] = pc[q] /\ buffers'[q] = buffers[q]
      BY <1>1, <2>3, <3>1 DEF Send
    <3>3. QED
      BY <3>2 DEF Emptied
  <2>4. CASE Begin(r) \/ SkipLayer(r) \/ Reject(r) \/ Return(r)
    <3>1. UNCHANGED buffers /\ pc[r] \in {"start", "layer"} /\ (q # r => pc'[q] = pc[q])
      BY <1>1, <2>4 DEF Begin, SkipLayer, Reject, Return
    <3>2. QED
      BY <3>1 DEF Emptied
  <2>5. QED
    BY <1>2, <2>1, <2>2, <2>3, <2>4 DEF RankStep
<1>3. CASE AllToAll
  BY <1>3 DEF AllToAll
<1>4. CASE Gather
  BY <1>4 DEF Gather, Emptied
<1>5. CASE Deal \/ PlanLayer \/ Deploy \/ UNCHANGED vars
  BY <1>5 DEF Deal, PlanLayer, Deploy, vars, rankVars, Emptied
<1>6. QED
  BY <1>2, <1>3, <1>4, <1>5 DEF Next

\* What a rank packs are experts.
LEMMA PackedType ==
  ASSUME NEW row, NEW r, NEW s
  PROVE  Packed(row, Identity, r, s) \in Seq(Slots)
<1> DEFINE sent == Sent(row, r, s)
<1>1. sent \in SUBSET Slots
  BY DEF Sent, Local
<1>2. PICK n \in Nat : n = Cardinality(sent)
  BY <1>1, SlotFacts, FS_Subset, FS_CardinalityType
<1>3. ASSUME NEW k \in 1 .. n PROVE Identity[Nth(sent, k)] \in Slots
  <2>1. PICK e \in sent : Cardinality({f \in sent : f <= e}) = k
    BY <1>1, <1>2, PlaceOfSlot
  <2>2. Nth(sent, k) = e
    BY <1>1, <2>1, PlaceOfSlot
  <2>3. QED
    BY <1>1, <2>1, <2>2 DEF Identity
<1>4. Packed(row, Identity, r, s) = [k \in 1 .. n |-> Identity[Nth(sent, k)]]
  BY <1>2 DEF Packed, Sent
<1>5. QED
  BY <1>3, <1>4

\* Every variable keeps its type: in particular a slot always holds an expert, the
\* plan has a whole row for each layer planned, and no rank gets more experts than
\* slots while they are dealt.
THEOREM PlacementTypeCorrect == Spec => []TypeOK
<1>1. Init => AuditInv /\ CopiesInv /\ Emptied
  BY DEF Init, AuditInv, AuditOf, CopiesInv, Exchanging, Emptied
<1>2. Inv /\ AuditInv /\ CopiesInv /\ Emptied /\ PlanInv => TypeOK
  <2>1. SUFFICES ASSUME Inv, AuditInv, CopiesInv, Emptied, PlanInv PROVE TypeOK
    OBVIOUS
  <2>2. /\ loads \in [Slots -> Nat] /\ assign \in [DOMAIN assign -> Ranks]
        /\ \A r \in Ranks : Count(r) <= NLocal
        /\ plan \in Seq([Slots -> Slots])
    BY <2>1 DEF PlanInv, DealTypeOK
  <2>3. /\ pc \in [Ranks -> Points] /\ layer \in [Ranks -> 0 .. NLayers]
        /\ gates \in [Ranks -> [Layers -> [Slots -> Slots]]]
        /\ held = [l \in Layers |-> [slot \in Slots |-> held[l][slot]]]
    BY <2>1 DEF Inv, Shapes
  <2>4. ASSUME NEW l \in Layers, NEW slot \in Slots PROVE held[l][slot] \in Slots
    <3>1. CASE ~Unpacked(Owner(slot), l)
      BY <2>1, <3>1 DEF Inv, HeldMoved
    <3>2. CASE Unpacked(Owner(slot), l)
      <4>1. held[l][slot] = Moved(Row(l), slot)
        BY <2>1, <3>2 DEF Inv, HeldMoved
      <4>2. IsPermutation(Row(l))
        BY <2>1, <3>2, SlotFacts
           DEF Inv, RankInv, Checked, Unpacked, Crossed, Accepted, Exchanging
      <4>3. QED
        BY <4>1, <4>2, ExchangeKeepsAll
    <3>3. QED
      BY <3>1, <3>2
  <2>5. held \in [Layers -> [Slots -> Slots]]
    <3>1. \A l \in Layers : [slot \in Slots |-> held[l][slot]] \in [Slots -> Slots]
      BY <2>4
    <3>2. QED
      BY <2>3, <3>1
  <2>6. ASSUME NEW r \in Ranks, NEW s \in Ranks PROVE buffers[r][s] \in Seq(Slots)
    <3>1. CASE pc[r] \in {"exchange", "unpack"}
      <4>1. \/ buffers[r][s] = Packed(Row(layer[r]), Identity, r, s)
            \/ buffers[r][s] = Packed(Row(layer[r]), Identity, s, r)
        BY <2>1, <3>1 DEF Inv, RankInv, BufferPacked
      <4>2. QED
        BY <4>1, PackedType
    <3>2. CASE pc[r] \notin {"exchange", "unpack"}
      <4>1. buffers[r][s] = <<>>
        BY <2>1, <3>2 DEF Emptied, NoBuffers
      <4>2. QED
        BY <4>1
    <3>3. QED
      BY <3>1, <3>2
  <2>7. audits \in [Ranks -> [Layers -> {"none", "ok", "bad"}]]
    BY <2>1 DEF AuditInv
  <2>8. \A r \in Ranks : copies[r] = None \/ copies[r] \in CopiesBy(r)
    <3>1. \A r \in Ranks : OwnCopies(r) \in CopiesBy(r)
      BY DEF OwnCopies, CopiesBy, Identity, Local
    <3> QED  BY <2>1, <3>1 DEF CopiesInv
  <2>9. QED
    BY <2>2, <2>3, <2>5, <2>6, <2>7, <2>8 DEF TypeOK
<1>3. Inv /\ CopiesInv /\ AuditInv /\ [Next]_vars => CopiesInv' /\ AuditInv'
  BY AuditInvNext, CopiesInvNext
<1>4. Inv /\ Emptied /\ [Next]_vars => Emptied'
  BY EmptiedNext
<1>5. QED
  BY <1>1, <1>2, <1>3, <1>4, Invariant, Planned, PTL DEF Spec

-----------------------------------------------------------------------------
\* The planner's own file.

\* A number of slots is whole ranks and a place within the last.
LEMMA DivisionIsUnique ==
  ASSUME NEW q \in Nat, NEW j \in Nat, j < NLocal
  PROVE  (q * NLocal + j) \div NLocal = q /\ (q * NLocal + j) % NLocal = j
<1>1. NLocal \in Nat /\ NLocal > 0
  BY PlacementAssumption
<1>2. q * NLocal \in Nat
  BY <1>1
<1>3. PICK x \in Nat : x = q * NLocal + j
  BY <1>2
<1>4. PICK d \in Nat, m \in Nat : d = x \div NLocal /\ m = x % NLocal
  BY <1>1
<1>5. x = NLocal * d + m /\ m < NLocal
  BY <1>1, <1>4
<1>6. \A a, b \in Nat : a < b => NLocal * a + NLocal <= NLocal * b
  <2>1. SUFFICES ASSUME NEW a \in Nat, NEW b \in Nat, a < b
                 PROVE  NLocal * a + NLocal <= NLocal * b
    OBVIOUS
  <2>2. NLocal * (a + 1) <= NLocal * b
    BY <1>1, <2>1
  <2>3. QED
    BY <1>1, <2>2
<1>7. NLocal * q = q * NLocal /\ NLocal * q \in Nat /\ NLocal * d \in Nat
  BY <1>1
<1>8. d = q
  BY <1>1, <1>3, <1>5, <1>6, <1>7
<1>9. QED
  BY <1>1, <1>3, <1>4, <1>5, <1>7, <1>8

\* new_to_old_from_assign: an even assignment gives a permutation that ascends
\* within each rank, as exchange_plan relies on.
LEMMA NewToOldIsGood ==
  ASSUME NEW owner \in [Slots -> Ranks], ~Uneven(owner)
  PROVE  IsPermutation(NewToOld(owner)) /\ Ascending(NewToOld(owner))
<1> DEFINE row == NewToOld(owner)
           Of(r) == {e \in Slots : owner[e] = r}
           place(slot) == (slot % NLocal) + 1
<1>1. /\ DOMAIN row = Slots
      /\ \A slot \in Slots : row[slot] = Nth(Of(Owner(slot)), place(slot))
  BY DEF NewToOld
<1>2. \A r \in Ranks : Of(r) \in SUBSET Slots /\ Cardinality(Of(r)) = NLocal
  BY DEF Uneven
<1>3. NLocal \in Nat /\ NLocal > 0 /\ Slots \subseteq Int
  BY PlacementAssumption, SlotFacts
<1>4. \A slot \in Slots : row[slot] \in Slots
  BY NewToOldIsTotal
<1>5. ASSUME NEW e \in Slots PROVE \E slot \in Slots : row[slot] = e
  <2>1. PICK r \in Ranks : r = owner[e]
    OBVIOUS
  <2>2. PICK S \in SUBSET Slots : S = Of(r) /\ Cardinality(S) = NLocal /\ e \in S
    BY <1>2, <2>1
  <2>3. PICK k \in 1 .. NLocal : k = Cardinality({f \in S : f <= e})
    <3>1. Cardinality({f \in S : f <= e}) \in 1 .. Cardinality(S)
      BY <2>2, PlaceOfSlot
    <3>2. QED
      BY <2>2, <3>1
  <2>4. Nth(S, k) = e
    BY <2>2, <2>3, PlaceOfSlot
  <2>5. PICK slot : slot = r * NLocal + (k - 1)
    OBVIOUS
  <2>6. r \in Nat /\ k - 1 \in Nat /\ k - 1 < NLocal
    BY <1>3, PlacementAssumption DEF Ranks
  <2>7. Owner(slot) = r /\ place(slot) = k
    <3>1. slot \div NLocal = r /\ slot % NLocal = k - 1
      BY <2>5, <2>6, DivisionIsUnique
    <3>2. QED
      BY <3>1 DEF Owner
  <2>8. slot \in Slots
    <3>1. r * NLocal + NLocal <= World * NLocal
      <4>1. (r + 1) * NLocal <= World * NLocal
        BY <1>3, <2>6, PlacementAssumption DEF Ranks
      <4>2. QED
        BY <1>3, <2>6, <4>1
    <3>2. r * NLocal \in Nat /\ World * NLocal \in Nat
      BY <1>3, <2>6, SlotCount
    <3>3. QED
      BY <1>3, <2>5, <2>6, <3>1, <3>2 DEF Slots
  <2> HIDE DEF row
  <2>9. row[slot] = Nth(S, k)
    BY <1>1, <2>2, <2>7, <2>8
  <2>10. QED
    BY <2>4, <2>8, <2>9
<1>6. IsPermutation(row)
  BY <1>1, <1>4, <1>5 DEF IsPermutation
<1>7. ASSUME NEW slot \in Slots, NEW other \in Slots, Owner(slot) = Owner(other), slot < other
      PROVE  row[slot] < row[other]
  <2>1. PICK r \in Ranks : r = Owner(slot) /\ r = Owner(other)
    BY <1>7, SlotFacts
  <2>2. PICK S \in SUBSET Slots : S = Of(r) /\ Cardinality(S) = NLocal
    BY <1>2
  <2>3. PICK j \in 1 .. NLocal, k \in 1 .. NLocal : j = place(slot) /\ k = place(other)
    <3>1. slot \in Int /\ other \in Int
      BY <1>3
    <3>2. QED
      BY <1>3, <3>1
  <2>4. j < k
    <3>1. /\ slot = NLocal * (slot \div NLocal) + (slot % NLocal)
          /\ other = NLocal * (other \div NLocal) + (other % NLocal)
      BY <1>3
    <3>2. slot \div NLocal = r /\ other \div NLocal = r /\ r \in Int
      BY <2>1, PlacementAssumption DEF Owner, Ranks
    <3>3. PICK a \in Int : a = NLocal * r
      BY <1>3, <3>2
    <3>4. slot = a + (j - 1) /\ other = a + (k - 1)
      BY <1>3, <2>3, <3>1, <3>2, <3>3
    <3>5. QED
      BY <1>3, <1>7, <3>3, <3>4
  <2>5. IsFiniteSet(S) /\ S \in SUBSET Int
    BY SlotFacts, FS_Subset
  <2>6. Len(InOrder(S)) = NLocal
    BY <2>2, <2>5, InOrderFacts
  <2>7. ~(InOrder(S)[k] <= InOrder(S)[j])
    <3>1. k <= j <=> InOrder(S)[k] <= InOrder(S)[j]
      BY <2>5, <2>6, InOrderAscends
    <3>2. QED
      BY <2>4, <3>1
  <2>8. InOrder(S)[j] = Nth(S, j) /\ InOrder(S)[k] = Nth(S, k)
    BY <2>2 DEF InOrder
  <2> HIDE DEF row
  <2>9. row[slot] = Nth(S, j) /\ row[other] = Nth(S, k)
    BY <1>1, <2>1, <2>2, <2>3
  <2>10. row[slot] \in Int /\ row[other] \in Int
    BY <1>3, <1>4
  <2>11. QED
    BY <2>7, <2>8, <2>9, <2>10
<1>8. QED
  BY <1>6, <1>7 DEF Ascending

\* The rows planned so far, and that the plan is whole when it is deployed.
GoodPlan ==
    /\ \A k \in 1 .. Len(plan) : IsPermutation(plan[k]) /\ Ascending(plan[k])
    /\ file # None => Len(plan) = NLayers

LEMMA GoodPlanNext == PlanInv /\ GoodPlan /\ [Next]_vars => GoodPlan'
<1> SUFFICES ASSUME PlanInv, GoodPlan, [Next]_vars PROVE GoodPlan'
  OBVIOUS
<1>1. CASE UNCHANGED plan /\ (UNCHANGED file \/ Len(plan) = NLayers)
  BY <1>1 DEF GoodPlan, IsPermutation, Ascending
<1>2. CASE PlanLayer
  <2>1. PICK owner : owner = assign
    OBVIOUS
  <2>2. owner \in [Slots -> Ranks]
    <3>1. DOMAIN assign = Slots
      BY <1>2 DEF PlanLayer, AllDealt, Remaining, PlanInv, DealTypeOK
    <3>2. QED
      BY <2>1, <3>1 DEF PlanInv, DealTypeOK
  <2>3. PICK row : row = NewToOld(owner)
    OBVIOUS
  <2>4. IsPermutation(row) /\ Ascending(row) /\ row \in [Slots -> Slots]
    BY <1>2, <2>1, <2>2, <2>3, NewToOldIsGood, NewToOldIsTotal DEF PlanLayer
  <2>5. PICK p \in Seq([Slots -> Slots]) : p = plan
    BY DEF PlanInv
  <2>6. plan' = Append(p, row)
    BY <1>2, <2>1, <2>3, <2>5 DEF PlanLayer
  <2>7. /\ Len(Append(p, row)) = Len(p) + 1 /\ Append(p, row)[Len(p) + 1] = row
        /\ \A k \in 1 .. Len(p) : Append(p, row)[k] = p[k]
    BY <2>4
  <2>8. ASSUME NEW k \in 1 .. Len(plan') PROVE IsPermutation(plan'[k]) /\ Ascending(plan'[k])
    <3>1. k \in 1 .. Len(p) \/ k = Len(p) + 1
      BY <2>5, <2>6, <2>7
    <3>2. CASE k = Len(p) + 1
      BY <2>4, <2>6, <2>7, <3>2
    <3>3. CASE k \in 1 .. Len(p)
      <4>1. plan'[k] = plan[k]
        BY <2>5, <2>6, <2>7, <3>3
      <4>2. QED
        BY <2>5, <3>3, <4>1 DEF GoodPlan
    <3>4. QED
      BY <3>1, <3>2, <3>3
  <2>9. UNCHANGED file /\ file = None
    BY <1>2 DEF PlanLayer, GoodPlan, PlanInv
  <2>10. QED
    BY <2>8, <2>9 DEF GoodPlan
<1>3. QED
  BY <1>1, <1>2 DEF Next, Deal, Deploy, AllToAll, Gather, RankStep, Begin, SkipLayer, Reject,
                    Send, Unpack, Return, vars, planVars

\* The file that is deployed is the one that was planned.
OwnFile == file # None /\ file = plan

\* expert_placement.py:9-12, 22-23, end to end: with the planner's own file no
\* rank refuses a layer, between two exchanges gates and experts agree in every
\* layer on every rank, and the slots of a layer done hold the experts it names.
THEOREM OwnFilesWork ==
  Spec => [](OwnFile => /\ \A l \in Layers : Accepted(l) /\ Ascending(Row(l))
                        /\ Resting => \A l \in Layers : Whole(l)
                        /\ SlotHoldsNamed)
<1>1. Init => GoodPlan
  BY DEF Init, GoodPlan
<1>2. PlanInv /\ GoodPlan /\ OwnFile =>
        \A l \in Layers : /\ Accepted(l) /\ Ascending(Row(l))
                          /\ Row(l) = [slot \in Slots |-> Row(l)[slot]]
  <2>1. SUFFICES ASSUME PlanInv, GoodPlan, OwnFile, NEW l \in Layers
                 PROVE  /\ Accepted(l) /\ Ascending(Row(l))
                        /\ Row(l) = [slot \in Slots |-> Row(l)[slot]]
    OBVIOUS
  <2>2. Len(plan) = NLayers /\ file = plan /\ l + 1 \in 1 .. Len(plan) /\ Len(file) > l
    BY <2>1, LayerFacts DEF OwnFile, GoodPlan, Layers
  <2>3. IsPermutation(Row(l)) /\ Ascending(Row(l))
    BY <2>1, <2>2 DEF GoodPlan, Row
  <2>4. Row(l) \in [Slots -> Slots]
    BY <2>1, <2>2 DEF PlanInv, Row
  <2>5. QED
    BY <2>2, <2>3, <2>4 DEF Accepted
<1>3. Inv /\ PlanInv /\ GoodPlan /\ FunctionPreserved /\ OwnFile =>
        /\ \A l \in Layers : Accepted(l) /\ Ascending(Row(l))
        /\ Resting => \A l \in Layers : Whole(l)
        /\ SlotHoldsNamed
  <2>1. SUFFICES ASSUME Inv, PlanInv, GoodPlan, FunctionPreserved, OwnFile
                 PROVE  /\ Resting => \A l \in Layers : Whole(l)
                        /\ SlotHoldsNamed
    BY <1>2
  <2>2. FileAscending
    BY <1>2, <2>1, LayerFacts DEF FileAscending
  <2>3. Resting => \A l \in Layers : Whole(l)
    BY <2>1, <2>2 DEF FunctionPreserved
  <2>4. ASSUME Resting, NEW l \in MoELayers, \A r \in Ranks : layer[r] > l
        PROVE  held[l] = Row(l)
    <3>1. l \in Layers /\ l \in Nat /\ \A r \in Ranks : layer[r] \in Nat
      BY <2>1, LayerFacts DEF Inv, Shapes
    <3>2. \A r \in Ranks : Unpacked(r, l)
      BY <2>4, <3>1 DEF Unpacked, Crossed
    <3>3. IsPermutation(Row(l)) /\ Ascending(Row(l)) /\ Row(l) = [slot \in Slots |-> Row(l)[slot]]
      BY <1>2, <2>1, <3>1 DEF Accepted
    <3>4. ASSUME NEW slot \in Slots PROVE held[l][slot] = Row(l)[slot]
      <4>1. held[l][slot] = Moved(Row(l), slot)
        BY <2>1, <3>1, <3>2, SlotFacts DEF Inv, HeldMoved
      <4>2. Moved(Row(l), slot) = Row(l)[slot]
        BY <3>3, PackMeetsUnpack DEF Moved
      <4>3. QED
        BY <4>1, <4>2
    <3>5. held[l] = [slot \in Slots |-> held[l][slot]]
      BY <2>1, <3>1 DEF Inv, Shapes
    <3>6. QED
      BY <3>3, <3>4, <3>5
  <2>5. QED
    BY <2>3, <2>4 DEF SlotHoldsNamed
<1>4. QED
  BY <1>1, <1>3, GoodPlanNext, Invariant, Planned, FunctionIsPreserved, PTL DEF Spec

-----------------------------------------------------------------------------
\* How far from the best assignment the plan can be.

Share(owner, r) == LoadOf({e \in Slots : owner[e] = r})
TopShare(owner) == Max({Share(owner, r) : r \in Ranks})

\* A rank's share is a natural number, and at least the load of each of its experts.
LEMMA ShareFacts ==
  ASSUME loads \in [Slots -> Nat], NEW owner \in [Slots -> Ranks]
  PROVE  /\ \A r \in Ranks : Share(owner, r) \in Nat
         /\ \A e \in Slots : loads[e] <= Share(owner, owner[e])
<1>1. \A S \in SUBSET Slots : IsFiniteSet(S) /\ \A e \in S : loads[e] \in Nat
  BY SlotFacts, FS_Subset
<1>2. \A S \in SUBSET Slots : LoadOf(S) \in Nat
  BY <1>1, SumIsNat DEF LoadOf
<1>3. ASSUME NEW e \in Slots PROVE loads[e] <= Share(owner, owner[e])
  <2>1. PICK S \in SUBSET Slots : S = {f \in Slots : owner[f] = owner[e]}
    OBVIOUS
  <2>2. e \in S /\ S \ {e} \in SUBSET Slots /\ \A f \in S : loads[f] \in Int
    BY <2>1
  <2>3. LoadOf(S) = loads[e] + LoadOf(S \ {e})
    BY <1>1, <2>1, <2>2, SumTake DEF LoadOf
  <2>4. LoadOf(S) \in Nat /\ LoadOf(S \ {e}) \in Nat /\ loads[e] \in Nat
    BY <1>2, <2>1, <2>2
  <2>5. QED
    BY <2>1, <2>3, <2>4 DEF Share
<1>4. QED
  BY <1>2, <1>3 DEF Share

\* The shares add up to the load of all experts, which lies between what the ranks would
\* carry if all but one had the least share and if all had the greatest.
LEMMA SharesAddUp ==
  ASSUME loads \in [Slots -> Nat], NEW owner \in [Slots -> Ranks], NEW high \in Ranks,
         NEW low \in Nat, NEW top \in Nat,
         \A r \in Ranks : low <= Share(owner, r) /\ Share(owner, r) <= top
  PROVE  /\ (World - 1) * low + Share(owner, high) <= LoadOf(Slots)
         /\ LoadOf(Slots) <= World * top
<1> DEFINE Below(n) == {e \in Slots : owner[e] < n}
           Extra(n) == IF high < n THEN Share(owner, high) - low ELSE 0
           Within(n) == /\ n * low + Extra(n) <= LoadOf(Below(n))
                        /\ LoadOf(Below(n)) <= n * top
           Good == {n \in 0 .. World : Within(n)}
<1>1. World \in Nat \ {0} /\ Ranks = 0 .. World - 1 /\ \A r \in Ranks : Share(owner, r) \in Nat
  BY PlacementAssumption, ShareFacts DEF Ranks
<1>2. \A S \in SUBSET Slots : /\ IsFiniteSet(S) /\ \A e \in S : loads[e] \in Nat
                              /\ LoadOf(S) \in Nat
  <2>1. \A S \in SUBSET Slots : IsFiniteSet(S) /\ \A e \in S : loads[e] \in Nat
    BY SlotFacts, FS_Subset
  <2>2. QED
    BY <2>1, SumIsNat DEF LoadOf
<1>3. 0 \in Good
  <2>1. Below(0) = {}
    BY <1>1
  <2>2. LoadOf({}) = 0
    BY FS_EmptySet, SumTurn DEF LoadOf
  <2>3. 0 * low = 0 /\ 0 * top = 0 /\ Extra(0) = 0
    BY <1>1
  <2>4. LoadOf(Below(0)) = 0
    BY <2>1, <2>2
  <2> HIDE DEF Below, Extra
  <2>5. Within(0)
    BY <2>3, <2>4
  <2> HIDE DEF Within
  <2>6. QED
    BY <1>1, <2>5
<1>4. ASSUME NEW n \in Good, n < World PROVE n + 1 \in Good
  <2>1. n \in Ranks /\ n \in Nat /\ n + 1 \in 0 .. World /\ Within(n)
    BY <1>1, <1>4
  <2>2. PICK S \in SUBSET Slots, T \in SUBSET Slots :
          S = Below(n) /\ T = {e \in Slots : owner[e] = n}
    OBVIOUS
  <2>3. Below(n + 1) = S \cup T /\ S \cap T = {}
    <3>1. \A e \in Slots : owner[e] \in Int /\ (owner[e] < n + 1 <=> owner[e] < n \/ owner[e] = n)
                           /\ ~(owner[e] < n /\ owner[e] = n)
      BY <1>1, <2>1
    <3>2. QED
      BY <2>2, <3>1
  <2>4. LoadOf(S \cup T) = LoadOf(S) + LoadOf(T)
    <3>1. IsFiniteSet(S) /\ IsFiniteSet(T) /\ \A e \in S \cup T : loads[e] \in Int
      BY <1>2, <2>2
    <3>2. QED
      BY <2>3, <3>1, SumUnion DEF LoadOf
  <2>5. LoadOf(T) = Share(owner, n) /\ LoadOf(S) \in Nat
    BY <1>2, <2>2 DEF Share
  <2>6. (n + 1) * low = n * low + low /\ (n + 1) * top = n * top + top
        /\ n * low \in Nat /\ n * top \in Nat
    BY <2>1
  <2>7. /\ high \in Int /\ Share(owner, high) \in Nat /\ Share(owner, n) \in Nat
        /\ low <= Share(owner, n) /\ Share(owner, n) <= top /\ low <= Share(owner, high)
    BY <1>1, <2>1
  <2>8. Extra(n + 1) <= Extra(n) + (Share(owner, n) - low) /\ Extra(n) \in Int /\ Extra(n + 1) \in Int
    <3>1. CASE high < n
      <4>1. Extra(n) = Share(owner, high) - low /\ Extra(n + 1) = Share(owner, high) - low
        BY <2>1, <2>7, <3>1
      <4> HIDE DEF Extra
      <4> QED  BY <2>7, <4>1
    <3>2. CASE high = n
      <4>1. Extra(n) = 0 /\ Extra(n + 1) = Share(owner, n) - low
        BY <2>1, <2>7, <3>2
      <4> HIDE DEF Extra
      <4> QED  BY <2>7, <4>1
    <3>3. CASE high > n
      <4>1. Extra(n) = 0 /\ Extra(n + 1) = 0
        BY <2>1, <2>7, <3>3
      <4> HIDE DEF Extra
      <4> QED  BY <2>7, <4>1
    <3> QED  BY <2>1, <2>7, <3>1, <3>2, <3>3
  <2>9. n * low + Extra(n) <= LoadOf(S) /\ LoadOf(S) <= n * top
    BY <2>1, <2>2
  <2> HIDE DEF Extra, Below
  <2>10. /\ (n + 1) * low + Extra(n + 1) <= LoadOf(S) + LoadOf(T)
         /\ LoadOf(S) + LoadOf(T) <= (n + 1) * top
    <3>1. PICK a, b : a = n * low /\ b = n * top
      OBVIOUS
    <3> QED  BY <2>5, <2>6, <2>7, <2>8, <2>9, <3>1
  <2>11. Within(n + 1)
    BY <2>3, <2>4, <2>10
  <2> QED  BY <2>1, <2>11
<1>5. World \in Good
  <2> HIDE DEF Good
  <2>1. Good \in SUBSET (0 .. World) /\ World \in Nat
    BY <1>1 DEF Good
  <2>2. \A n \in Good : n < World => n + 1 \in Good
    BY <1>4
  <2>3. \A n \in 0 .. World : n \in Good
    BY <1>3, <2>1, <2>2, UpTo
  <2> QED  BY <2>1, <2>3
<1>6. Below(World) = Slots /\ Extra(World) = Share(owner, high) - low
  BY <1>1
<1>7. World * low + (Share(owner, high) - low) <= LoadOf(Slots) /\ LoadOf(Slots) <= World * top
  BY <1>5, <1>6
<1>8. World * low = (World - 1) * low + low /\ (World - 1) * low \in Nat /\ LoadOf(Slots) \in Nat
  BY <1>1, <1>2
<1>9. (World - 1) * low + Share(owner, high) <= LoadOf(Slots)
  <2>1. PICK a : a = (World - 1) * low
    OBVIOUS
  <2> QED  BY <1>1, <1>7, <1>8, <2>1
<1> QED  BY <1>7, <1>9

\* The greatest share is some rank's.
LEMMA TopFacts ==
  ASSUME loads \in [Slots -> Nat], NEW owner \in [Slots -> Ranks]
  PROVE  /\ TopShare(owner) \in Nat
         /\ \A r \in Ranks : Share(owner, r) <= TopShare(owner)
<1>1. PICK v \in [Ranks -> Int] : v = [r \in Ranks |-> Share(owner, r)]
  <2>1. \A r \in Ranks : Share(owner, r) \in Int
    BY ShareFacts
  <2> QED  BY <2>1
<1>2. IsFiniteSet(Ranks) /\ 0 \in Ranks
  BY PlacementAssumption, FS_Interval DEF Ranks
<1>3. PICK high \in Ranks : \A r \in Ranks : v[r] <= v[high]
  BY <1>2, LeastAndGreatest
<1>4. PICK T : T = {Share(owner, r) : r \in Ranks}
  OBVIOUS
<1>5. T \in SUBSET Int /\ v[high] \in T /\ \A y \in T : y <= v[high]
  BY <1>1, <1>3, <1>4
<1>6. Max(T) = v[high]
  BY <1>5, Extremes
<1>7. v[high] = Share(owner, high) /\ Share(owner, high) \in Nat
  BY <1>1, ShareFacts
<1> QED  BY <1>1, <1>3, <1>4, <1>6, <1>7 DEF TopShare

\* Graham's argument, on numbers: h and l are the greatest and the least share of the plan
\* for k + 1 ranks, t and s the greatest share and the total of another assignment.
LEMMA Graham ==
  ASSUME NEW k \in Nat, NEW h \in Nat, NEW l \in Nat, NEW t \in Nat, NEW s \in Nat,
         h - l <= t, k * l + h <= s, s <= (k + 1) * t
  PROVE  (k + 1) * h <= (2 * (k + 1) - 1) * t
<1>1. /\ (k + 1) * h = k * h + h /\ (k + 1) * t = k * t + t
      /\ (2 * (k + 1) - 1) * t = k * t + k * t + t
      /\ k * (l + t) = k * l + k * t
      /\ k * h \in Nat /\ k * l \in Nat /\ k * t \in Nat
  OBVIOUS
<1>2. k * h <= k * (l + t)
  BY Times
<1>3. PICK a \in Nat, b \in Nat, c \in Nat : a = k * h /\ b = k * l /\ c = k * t
  BY <1>1
<1>4. a <= b + c /\ b + h <= s /\ s <= c + t
  BY <1>1, <1>2, <1>3
<1>5. a + h <= c + c + t
  BY <1>4
<1> QED  BY <1>1, <1>3, <1>5

\* A finished plan against any assignment of all experts.
LEMMA PlanAgainst ==
  ASSUME PlanInv, AllDealt, NEW owner \in [Slots -> Ranks]
  PROVE  World * Busiest <= (2 * World - 1) * TopShare(owner)
<1>1. loads \in [Slots -> Nat] /\ DOMAIN assign = Slots /\ assign \in [Slots -> Ranks]
  BY DEF PlanInv, DealTypeOK, AllDealt, Remaining
<1>2. PICK high \in Ranks, low \in Ranks :
        /\ Busiest = Bin(high)
        /\ \A r \in Ranks : Bin(r) <= Bin(high) /\ Bin(low) <= Bin(r)
  BY BinExtremes DEF PlanInv
<1>3. \A r \in Ranks : Bin(r) = Share(assign, r)
  BY <1>1 DEF Bin, Dealt, Share
<1>4. PICK h \in Nat, l \in Nat : h = Bin(high) /\ l = Bin(low)
  BY DealFacts DEF PlanInv
<1>5. PICK t \in Nat : t = TopShare(owner)
  BY <1>1, TopFacts
<1>6. PICK s \in Nat : s = LoadOf(Slots)
  <2>1. IsFiniteSet(Slots) /\ \A e \in Slots : loads[e] \in Nat
    BY <1>1, SlotFacts
  <2> QED  BY <2>1, SumIsNat DEF LoadOf
<1>7. PICK k \in Nat : k = World - 1 /\ World = k + 1
  BY PlacementAssumption
<1>8. h - l <= t
  <2>1. PICK x \in Slots : h - l <= loads[x]
    BY <1>2, <1>4 DEF PlanInv, Ahead
  <2>2. loads[x] <= Share(owner, owner[x]) /\ Share(owner, owner[x]) <= t
    BY <1>1, <1>5, ShareFacts, TopFacts
  <2>3. loads[x] \in Nat /\ Share(owner, owner[x]) \in Nat
    BY <1>1, ShareFacts
  <2> QED  BY <2>1, <2>2, <2>3
<1>9. k * l + h <= s
  <2>1. \A r \in Ranks : l <= Share(assign, r) /\ Share(assign, r) <= h
    BY <1>2, <1>3, <1>4
  <2>2. (World - 1) * l + Share(assign, high) <= LoadOf(Slots)
    BY <1>1, <2>1, SharesAddUp
  <2> QED  BY <1>3, <1>4, <1>6, <1>7, <2>2
<1>10. s <= (k + 1) * t
  <2>1. \A r \in Ranks : 0 <= Share(owner, r) /\ Share(owner, r) <= t
    BY <1>1, <1>5, ShareFacts, TopFacts
  <2>2. LoadOf(Slots) <= World * t
    BY <1>1, <2>1, SharesAddUp
  <2> QED  BY <1>6, <1>7, <2>2
<1>11. (k + 1) * h <= (2 * (k + 1) - 1) * t
  BY <1>8, <1>9, <1>10, Graham
<1> QED  BY <1>2, <1>4, <1>5, <1>7, <1>11

\* expert_placement.py:9-13, 56: for all loads and any number of ranks and experts, the
\* busiest rank of the plan is within a factor of 2 - 1/World of the best that any
\* assignment with equal counts can do.
THEOREM PlanWithinTwice ==
  Spec => [](AllDealt => World * Busiest <= (2 * World - 1) * BestBusiest)
<1>1. ASSUME PlanInv, Balanced, AllDealt
      PROVE  World * Busiest <= (2 * World - 1) * BestBusiest
  <2> DEFINE Even == {o \in [Slots -> Ranks] : ~Uneven(o)}
             Tops == {TopShare(owner) : owner \in Even}
  <2>1. loads \in [Slots -> Nat] /\ assign \in [Slots -> Ranks]
    BY <1>1 DEF PlanInv, DealTypeOK, AllDealt, Remaining
  <2>2. BestBusiest = Min(Tops)
    BY DEF BestBusiest, TopShare, Share
  <2>3. assign \in Even
    BY <1>1, <2>1 DEF Balanced
  <2>4. PICK m \in Nat : m = TopShare(assign)
    BY <2>1, TopFacts
  <2>5. Tops \in SUBSET Nat /\ m \in Tops
    BY <2>1, <2>3, <2>4, TopFacts
  <2> HIDE DEF Tops
  <2>6. PICK best \in Tops : \A y \in Tops : best <= y
    <3> DEFINE Low == {y \in Tops : y <= m}
    <3>1. Low \in SUBSET Int /\ m \in Low /\ Low \subseteq 0 .. m
      <4>1. \A y \in Low : y \in Nat /\ y <= m
        BY <2>5
      <4>2. m \in Low
        BY <2>5
      <4> HIDE DEF Low
      <4> QED  BY <4>1, <4>2
    <3>2. IsFiniteSet(Low)
      <4>1. IsFiniteSet(0 .. m)
        BY FS_Interval
      <4> QED  BY <3>1, <4>1, FS_Subset
    <3> HIDE DEF Low
    <3>3. PICK x \in Low : \A y \in Low : x <= y
      BY <3>1, <3>2, FirstAndLast
    <3>4. x \in Tops /\ x <= m /\ \A y \in Tops : y <= m => x <= y
      BY <3>3 DEF Low
    <3> QED  BY <2>5, <3>4
  <2>7. Min(Tops) = best
    <3>1. Tops \in SUBSET Int
      BY <2>5
    <3> QED  BY <2>6, <3>1, Extremes
  <2>8. PICK owner \in Even : best = TopShare(owner)
    BY <2>6 DEF Tops
  <2>9. World * Busiest <= (2 * World - 1) * TopShare(owner)
    BY <1>1, <2>8, PlanAgainst
  <2> QED  BY <2>2, <2>7, <2>8, <2>9
<1>2. PlanInv /\ Balanced => (AllDealt => World * Busiest <= (2 * World - 1) * BestBusiest)
  BY <1>1
<1> QED  BY <1>2, Planned, PlanIsBalanced, PTL
=============================================================================

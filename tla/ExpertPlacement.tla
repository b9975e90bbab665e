--------------------------- MODULE ExpertPlacement ---------------------------
(***************************************************************************)
(* backend/expert_placement.py: a planner calibrates a placement file, and *)
(* at load time every rank of the tensor-parallel group applies it: layer  *)
(* by layer it permutes its copy of the gate, packs the experts that other *)
(* ranks want, meets them in an all_to_all and unpacks what it received.   *)
(*                                                                         *)
(* An expert's weights are its number in the checkpoint.  A rank's steps   *)
(* between two collectives touch only its own memory and are one step; a   *)
(* collective is one step of all ranks together.  Configurations differ by *)
(* rank where they come from its environment.  The process group and       *)
(* torch's tensors are external.                                           *)
(***************************************************************************)
EXTENDS GreedyPlacement

CONSTANTS
    None,
    NLayers,     \* layers of the model
    MoELayers,   \* those with experts
    Loads,       \* layer -> the load vectors a calibration may measure
    Foreign,     \* files that did not come from this planner
    Configs,     \* what the ranks' environments may say
    Audit        \* apply(audit=True)

Layers == 0 .. NLayers - 1
Settings == {"apply", "none", "mismatch"}

ASSUME ApplyAssumption ==
    /\ NLayers \in Nat \ {0} /\ MoELayers \subseteq Layers
    /\ Configs \subseteq [Ranks -> Settings]
    /\ Audit \in BOOLEAN
    /\ \A l \in Layers : Loads[l] \subseteq [Slots -> Nat]

VARIABLES
    plan,      \* new_to_old of the layers planned so far
    file,      \* the saved file: a row per layer, or None before it is saved
    config,    \* rank -> placement named and hash as pinned, disabled, or mismatched
    pc,        \* rank -> where its loader is
    layer,     \* rank -> the layer it is at
    gates,     \* rank -> layer -> slot -> the expert this row of the gate scores
    held,      \* layer -> slot -> the expert whose weights the slot's owner holds
    buffers,   \* rank -> rank -> what is packed for it, or was received from it
    copies,    \* rank -> its gate and its experts before the exchange, for the audit
    audits     \* rank -> layer -> the audit's verdict

planVars == <<loads, assign, plan>>
rankVars == <<pc, layer, gates, held, buffers, copies, audits>>
vars == <<planVars, file, config, rankVars>>

Identity == [slot \in Slots |-> slot]           \* before any permutation
Loaded == [l \in Layers |-> Identity]
NoBuffers == [r \in Ranks |-> <<>>]
NoLoads == [e \in Slots |-> 0]
Local(r) == {slot \in Slots : Owner(slot) = r}

CopiesBy(r) == [gate : [Slots -> Slots], experts : [Local(r) -> Slots]]

Points == {"start", "layer", "exchange", "unpack", "gather", "done", "skipped", "rejected"}

TypeOK ==
    /\ loads \in [Slots -> Nat] /\ assign \in [DOMAIN assign -> Ranks]
    /\ \A r \in Ranks : Count(r) <= NLocal
    /\ plan \in Seq([Slots -> Slots])
    /\ pc \in [Ranks -> Points] /\ layer \in [Ranks -> 0 .. NLayers]
    /\ gates \in [Ranks -> [Layers -> [Slots -> Slots]]]
    /\ held \in [Layers -> [Slots -> Slots]]
    /\ \A r, s \in Ranks : buffers[r][s] \in Seq(Slots)
    /\ \A r \in Ranks : copies[r] = None \/ copies[r] \in CopiesBy(r)
    /\ audits \in [Ranks -> [Layers -> {"none", "ok", "bad"}]]

Init ==
    /\ loads \in Loads[0] /\ assign = <<>> /\ plan = <<>>
    /\ file = None /\ config = None
    /\ pc = [r \in Ranks |-> "start"] /\ layer = [r \in Ranks |-> 0]
    /\ gates = [r \in Ranks |-> Loaded] /\ held = Loaded
    /\ buffers = [r \in Ranks |-> NoBuffers]
    /\ copies = [r \in Ranks |-> None]
    /\ audits = [r \in Ranks |-> [l \in Layers |-> "none"]]

-----------------------------------------------------------------------------
\* The planner: report() over the layers of a calibration, saved as a file.

Deal ==
    /\ Len(plan) < NLayers /\ DealNext
    /\ UNCHANGED <<plan, file, config, rankVars>>

PlanLayer ==
    /\ Len(plan) < NLayers /\ AllDealt /\ ~Uneven(assign)
    /\ plan' = Append(plan, NewToOld(assign))
    /\ assign' = <<>>
    /\ loads' \in IF Len(plan') < NLayers THEN Loads[Len(plan')] ELSE {NoLoads}
    /\ UNCHANGED <<file, config, rankVars>>

\* The deployment names a file, this planner's or another, and starts its ranks.
Deploy ==
    /\ file = None /\ Len(plan) = NLayers
    /\ file' \in {plan} \cup Foreign
    /\ config' \in Configs
    /\ UNCHANGED <<planVars, rankVars>>

-----------------------------------------------------------------------------
\* Each rank: maybe_apply and apply.

\* Mutated form: only rank 0, which also logs the file, compares the hash.
WrongFileAtRankZero(r) == r = 0 /\ config[r] = "mismatch"

\* check_expected_hash: the file is not the one the environment pins.
WrongFile(r) == config[r] = "mismatch"

Disabled(r) == World <= 1 \/ config[r] = "none"

Begin(r) ==
    /\ file # None /\ pc[r] = "start"
    /\ pc' = [pc EXCEPT ![r] = IF Disabled(r) THEN "skipped"
                               ELSE IF WrongFile(r) THEN "rejected" ELSE "layer"]
    /\ UNCHANGED <<planVars, file, config, layer, gates, held, buffers, copies, audits>>

Row(l) == file[l + 1]

IsPermutation(row) == DOMAIN row = Slots /\ {row[slot] : slot \in Slots} = Slots

\* The file has a row for layer l, and the row is a permutation.
Accepted(l) == Len(file) > l /\ IsPermutation(Row(l))

\* The two ValueErrors.
Refuses(r) == ~Accepted(layer[r])

OldToNew(row) == [e \in Slots |-> CHOOSE slot \in Slots : row[slot] = e]

\* Mutated form: a layer with nothing to move is left out.
SkipsIdentity(r) ==
    \/ layer[r] \notin MoELayers
    \/ Accepted(layer[r]) /\ Row(layer[r]) = Identity

\* A dense layer.
Skips(r) == layer[r] \notin MoELayers

\* Mutated form: the permutation is read in the wrong direction.
DestForward(row, e) == Owner(row[e])

\* exchange_plan: who wants the expert in slot e, and whose slots get s's experts.
Dest(row, e) == Owner(OldToNew(row)[e])
SlotsFrom(row, r, s) == {slot \in Local(r) : Owner(row[slot]) = s}

\* Mutated form: highest slot first.
PackedDescending(row, weights, r, d) ==
    LET sent == {e \in Local(r) : Dest(row, e) = d}
    IN  [k \in 1 .. Cardinality(sent) |-> weights[Nth(sent, Cardinality(sent) + 1 - k)]]

\* The experts r holds that d wants, by ascending slot.
Packed(row, weights, r, d) ==
    LET sent == {e \in Local(r) : Dest(row, e) = d}
    IN  [k \in 1 .. Cardinality(sent) |-> weights[Nth(sent, k)]]

SkipLayer(r) ==
    /\ pc[r] = "layer" /\ layer[r] < NLayers /\ Skips(r)
    /\ layer' = [layer EXCEPT ![r] = @ + 1]
    /\ UNCHANGED <<planVars, file, config, pc, gates, held, buffers, copies, audits>>

Reject(r) ==
    /\ pc[r] = "layer" /\ layer[r] < NLayers /\ ~Skips(r)
    /\ Refuses(r)
    /\ pc' = [pc EXCEPT ![r] = "rejected"]
    /\ UNCHANGED <<planVars, file, config, layer, gates, held, buffers, copies, audits>>

\* The audit's copies: rank r's gate, and the hashes of the experts it owns.
CopiesOf(r, l) == [gate |-> gates[r][l], experts |-> [e \in Local(r) |-> held[l][e]]]

\* Copy for the audit, permute_gate, then pack for every rank and enter the collective.
Send(r) ==
    /\ pc[r] = "layer" /\ layer[r] < NLayers /\ ~Skips(r)
    /\ ~Refuses(r)
    /\ LET l == layer[r]
       IN  /\ copies' = IF Audit THEN [copies EXCEPT ![r] = CopiesOf(r, l)] ELSE copies
           /\ gates' = [gates EXCEPT ![r][l] = [slot \in Slots |-> @[Row(l)[slot]]]]
           /\ buffers' = [buffers EXCEPT ![r] =
                            [d \in Ranks |-> Packed(Row(l), held[l], r, d)]]
    /\ pc' = [pc EXCEPT ![r] = "exchange"]
    /\ UNCHANGED <<planVars, file, config, layer, held, audits>>

\* dist.all_to_all: nobody leaves before everybody is in.
AllToAll ==
    /\ \A r \in Ranks : pc[r] = "exchange"
    /\ buffers' = [r \in Ranks |-> [s \in Ranks |-> buffers[s][r]]]
    /\ pc' = [r \in Ranks |-> "unpack"]
    /\ UNCHANGED <<planVars, file, config, layer, gates, held, copies, audits>>

\* Mutated form: the offset into the buffer does not advance.
TakenFirst(row, r, slot) == buffers[r][Owner(row[slot])][1]

\* Each source's buffer is unpacked into its slots in ascending order.
Taken(row, r, slot) ==
    LET s == Owner(row[slot])
    IN  buffers[r][s][Cardinality({other \in SlotsFrom(row, r, s) : other <= slot})]

Unpack(r) ==
    /\ pc[r] = "unpack"
    /\ LET l == layer[r]
       IN  held' = [held EXCEPT ![l] =
                      [slot \in Slots |-> IF Owner(slot) = r THEN Taken(Row(l), r, slot)
                                                             ELSE @[slot]]]
    /\ buffers' = [buffers EXCEPT ![r] = NoBuffers]
    /\ IF Audit THEN pc' = [pc EXCEPT ![r] = "gather"] /\ UNCHANGED layer
       ELSE pc' = [pc EXCEPT ![r] = "layer"] /\ layer' = [layer EXCEPT ![r] = @ + 1]
    /\ UNCHANGED <<planVars, file, config, gates, copies, audits>>

\* Mutated form: hashes are taken when they are published.
PublishedLate(e) == held[layer[Owner(e)]][e]

\* all_gather_object and merge: what the owner of expert e copied of it.
Published(e) == copies[Owner(e)].experts[e]

\* Mutated form: the experts are compared as a set.
VerdictUnordered(r, l) ==
    {held[l][slot] : slot \in Local(r)} = {Published(Row(l)[slot]) : slot \in Local(r)}

\* gate_ok and exchange_ok: the gate is its copy reordered (nobody else touches it, so
\* that it is looked at here), and each slot has the hash that was published for its
\* expert.
Verdict(r, l) ==
    /\ gates[r][l] = [slot \in Slots |-> copies[r].gate[Row(l)[slot]]]
    /\ \A slot \in Local(r) : held[l][slot] = Published(Row(l)[slot])

\* dist.all_gather_object of the hashes, and each rank's verdict on its slots.
Gather ==
    /\ \A r \in Ranks : pc[r] = "gather"
    /\ audits' = [r \in Ranks |-> [audits[r] EXCEPT ![layer[r]] =
                                     IF Verdict(r, layer[r]) THEN "ok" ELSE "bad"]]
    /\ pc' = [r \in Ranks |-> "layer"]
    /\ layer' = [r \in Ranks |-> layer[r] + 1]
    /\ UNCHANGED <<planVars, file, config, gates, held, buffers, copies>>

Return(r) ==
    /\ pc[r] = "layer" /\ layer[r] = NLayers
    /\ pc' = [pc EXCEPT ![r] = "done"]
    /\ UNCHANGED <<planVars, file, config, layer, gates, held, buffers, copies, audits>>

RankStep(r) == Begin(r) \/ SkipLayer(r) \/ Reject(r) \/ Send(r) \/ Unpack(r) \/ Return(r)

Next ==
    \/ Deal \/ PlanLayer \/ Deploy
    \/ \E r \in Ranks : RankStep(r)
    \/ AllToAll \/ Gather

\* The planner finishes, every rank's loader runs, collectives complete.
Spec ==
    /\ Init /\ [][Next]_vars
    /\ WF_vars(Deal \/ PlanLayer \/ Deploy)
    /\ \A r \in Ranks : WF_vars(RankStep(r))
    /\ WF_vars(AllToAll \/ Gather)

-----------------------------------------------------------------------------
\* Properties.

\* expert_placement.py:154-156: the plan's arithmetic agrees across ranks: they
\* meet at the same layer, and each is sent as many experts as it has slots for.
ExchangeAgrees ==
    (\A r \in Ranks : pc[r] = "exchange") =>
        \A r, s \in Ranks :
            /\ layer[r] = layer[s]
            /\ Len(buffers[s][r]) = Cardinality(SlotsFrom(Row(layer[r]), r, s))

\* No rank is between permuting a gate and finishing the same layer's exchange.
Resting == \A r \in Ranks : pc[r] \notin {"exchange", "unpack", "gather"}

\* On every rank, gate row j scores the expert that slot j's owner holds.
Whole(l) == \A r \in Ranks : gates[r][l] = held[l]

\* What new_to_old_from_assign emits and exchange_plan relies on.
Ascending(row) ==
    \A slot, other \in Slots :
        Owner(slot) = Owner(other) /\ slot < other => row[slot] < row[other]

FileAscending ==
    file # None => \A l \in MoELayers : Accepted(l) => Ascending(Row(l))

\* expert_placement.py:9-12, "the model computes the same function": between two
\* layers' exchanges, at the end, and after a file that turned out invalid
\* half-way, gate and experts agree in every layer on every rank.
FunctionPreserved == Resting /\ FileAscending => \A l \in Layers : Whole(l)

\* Whatever file was accepted, no expert is lost or doubled.
NoExpertLost ==
    Resting => \A l \in Layers : {held[l][slot] : slot \in Slots} = Slots

\* expert_placement.py:320-323: the audits of all ranks pass exactly when the
\* layer is whole.  It looks at tensors: it must not pass because apply() ran.
AuditMeansWhole ==
    \A l \in Layers :
        (\A r \in Ranks : audits[r][l] # "none") =>
            ((\A r \in Ranks : audits[r][l] = "ok") <=> Whole(l))

\* README.md:72, expert_placement.py:26-28: no rank comes out of apply() when
\* another did not go in or refused the file.
AllOrNone ==
    \A r, s \in Ranks : pc[r] = "done" => pc[s] \notin {"skipped", "rejected"}

\* expert_placement.py:26-28: with the same settings everywhere no rank waits for
\* ever in a collective, whatever the file; all finish alike.
NobodyStranded ==
    (file # None /\ \A r, s \in Ranks : config[r] = config[s])
        ~> \E end \in {"done", "skipped", "rejected"} : \A r \in Ranks : pc[r] = end

\* expert_placement.py:22-23: "new_to_old[L, j] is the original expert index that
\* becomes global expert j", of every layer done, for every file that is accepted.
SlotHoldsNamed ==
    Resting => \A l \in MoELayers :
        (\A r \in Ranks : layer[r] > l) => held[l] = Row(l)
=============================================================================

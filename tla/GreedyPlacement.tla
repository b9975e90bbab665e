--------------------------- MODULE GreedyPlacement ---------------------------
(***************************************************************************)
(* backend/expert_placement.py, the planning half: greedy_placement deals  *)
(* the experts of one layer to the ranks, heaviest first and at most       *)
(* NLocal to each, and new_to_old_from_assign turns the result into a      *)
(* permutation of the expert slots.  Slots and ranks are numbered from 0,  *)
(* and rank r owns the slots r*NLocal .. (r+1)*NLocal - 1.                 *)
(*                                                                         *)
(* Loads are integers; which of two equally loaded experts comes first is  *)
(* a choice, since argsort does not say.                                   *)
(***************************************************************************)
EXTENDS Positions, FiniteSetsExt, Functions

CONSTANTS
    World,     \* number of ranks
    NLocal     \* experts each rank owns

ASSUME PlacementAssumption == World \in Nat \ {0} /\ NLocal \in Nat \ {0}

VARIABLES
    loads,     \* expert -> its calibrated load
    assign     \* expert -> rank, for the experts dealt so far

Ranks == 0 .. World - 1
Slots == 0 .. World * NLocal - 1
Owner(slot) == slot \div NLocal

Dealt(r)  == {e \in DOMAIN assign : assign[e] = r}
Count(r)  == Cardinality(Dealt(r))
LoadOf(S) == SumFunctionOnSet(loads, S)
Bin(r)    == LoadOf(Dealt(r))

\* Mutated form: longest processing time first, without the cap.
AnyRank == Ranks

Candidates == {r \in Ranks : Count(r) < NLocal}

\* The order of min(cands, key=(bins, counts)), which keeps the first of equals.
Before(r, q) ==
    \/ Bin(r) < Bin(q)
    \/ Bin(r) = Bin(q) /\ Count(r) < Count(q)
    \/ Bin(r) = Bin(q) /\ Count(r) = Count(q) /\ r <= q

\* Mutated form: the fullest rank gets the next expert.
MostLoaded == CHOOSE r \in Candidates : \A q \in Candidates : Before(q, r)

LeastLoaded == CHOOSE r \in Candidates : \A q \in Candidates : Before(r, q)

Remaining == Slots \ DOMAIN assign

\* Mutated form: argsort without descending=True.
Lightest == {e \in Remaining : \A f \in Remaining : loads[e] <= loads[f]}

Heaviest == {e \in Remaining : \A f \in Remaining : loads[f] <= loads[e]}

\* One turn of the loop.
DealNext ==
    /\ \E e \in Heaviest :
         assign' = [f \in DOMAIN assign \cup {e} |->
                      IF f = e THEN LeastLoaded ELSE assign[f]]
    /\ UNCHANGED loads

AllDealt == Remaining = {}

\* new_to_old_from_assign: each rank's slots take its experts in ascending order.
NewToOld(owner) ==
    [slot \in Slots |->
        Nth({e \in Slots : owner[e] = Owner(slot)}, (slot % NLocal) + 1)]

\* Its ValueError: a rank with more or fewer experts than slots.
Uneven(owner) == \E r \in Ranks : Cardinality({e \in Slots : owner[e] = r}) # NLocal
-----------------------------------------------------------------------------
Busiest == Max({Bin(r) : r \in Ranks})
Idlest  == Min({Bin(r) : r \in Ranks})

\* The busiest rank of the best assignment with equal counts.
BestBusiest ==
    Min({Max({LoadOf({e \in Slots : owner[e] = r}) : r \in Ranks}) :
            owner \in {o \in [Slots -> Ranks] : ~Uneven(o)}})

\* expert_placement.py:56-62: whatever the loads, cap and greedy choice together
\* leave every rank the same number of experts and no rank ahead of another by
\* more than the load of one expert.
Balanced ==
    AllDealt =>
        /\ ~Uneven(assign)
        /\ Busiest - Idlest <= Max({loads[e] : e \in Slots})

\* expert_placement.py:9-13, 56: although a rank that is full must be passed over, the
\* busiest one is within a factor of 4/3 - 1/(3 World) of the best that any
\* assignment with equal counts can do, as longest processing time first is without
\* the cap.
NearBest == AllDealt => 3 * World * Busiest <= (4 * World - 1) * BestBusiest
=============================================================================

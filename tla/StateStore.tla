----------------------------- MODULE StateStore -----------------------------
(***************************************************************************)
(* state/slots.py: the dense table of private state rows.  A slot has an   *)
(* owner (a request id) and a generation counter; a RowRef names a slot at *)
(* one generation, so that a reference kept too long names nothing.        *)
(*                                                                         *)
(* The table's state is the pair of variables; whoever composes the store  *)
(* (SlotClients, Scheduler) says when its operations are called.           *)
(***************************************************************************)
EXTENDS Integers

CONSTANTS
    ReqIds,            \* request ids that may own a row
    MaxRows,           \* StateStore(max_rows, ...)
    MaxContextTokens,  \* StateStore(..., max_context_tokens)
    NoOwner            \* Python's None in _owners

ASSUME StoreAssumption ==
    /\ MaxRows \in Nat \ {0}
    /\ MaxContextTokens \in Nat
    /\ NoOwner \notin ReqIds

VARIABLES
    owners,       \* slot -> the request that owns it, or NoOwner
    generations   \* slot -> how often it has been released

Slots   == 0 .. MaxRows - 1
RowRefs == [slot : Slots, generation : Nat]

StoreTypeOK ==
    /\ owners \in [Slots -> ReqIds \cup {NoOwner}]
    /\ generations \in [Slots -> Nat]

StoreInit ==
    /\ owners = [s \in Slots |-> NoOwner]
    /\ generations = [s \in Slots |-> 0]

IsFree(s) == owners[s] = NoOwner

CanAdmit(promptTokens, maxNewTokens) ==
    promptTokens + maxNewTokens <= MaxContextTokens

\* The row the scan of `alloc` stops at: the lowest free slot.
FirstFree(s) == IsFree(s) /\ \A t \in Slots : IsFree(t) => s <= t

\* Mutated form: slots counted from one.
RefToOneBased(s) == [slot |-> s + 1, generation |-> generations[s]]

\* The reference alloc returns for row s.
RefTo(s) == [slot |-> s, generation |-> generations[s]]

\* alloc: publishes slot s for req.  It raises, and so is not enabled, when
\* every row is owned.
Alloc(req, s) ==
    /\ FirstFree(s)
    /\ owners' = [owners EXCEPT ![s] = req]
    /\ UNCHANGED generations

\* Mutated form: the generation is not compared.
HoldsAnyGeneration(ref, req) == owners[ref.slot] = req

\* The reference still names the row: same owner, same generation.
Holds(ref, req) ==
    /\ owners[ref.slot] = req
    /\ generations[ref.slot] = ref.generation

\* Mutated form: the generation stays.
FreeRowSameGeneration(s) ==
    /\ owners' = [owners EXCEPT ![s] = NoOwner]
    /\ UNCHANGED generations

\* release on a live reference: the row is free and its generation moves on.
FreeRow(s) ==
    /\ owners' = [owners EXCEPT ![s] = NoOwner]
    /\ generations' = [generations EXCEPT ![s] = @ + 1]

Release(ref, req) ==
    \/ Holds(ref, req) /\ FreeRow(ref.slot)
    \/ ~Holds(ref, req) /\ UNCHANGED <<owners, generations>>   \* returns False

\* owned_by: the lowest slot a request owns; empty for None.
OwnedBy(req) ==
    {s \in Slots : owners[s] = req /\ \A t \in Slots : owners[t] = req => s <= t}
=============================================================================

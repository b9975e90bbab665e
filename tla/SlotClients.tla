---------------------------- MODULE SlotClients -----------------------------
(***************************************************************************)
(* The state store under arbitrary clients.  Rows are allocated for any    *)
(* request, and every RowRef ever returned may be used to release a row at *)
(* any later time, any number of times: the late, stale and duplicated     *)
(* releases that generations exist for (state/slots.py:3-6).               *)
(***************************************************************************)
EXTENDS StateStore, Sequences

CONSTANT MaxGeneration   \* bound: a row at this generation is not handed out

ASSUME GenerationAssumption == MaxGeneration \in Nat

VARIABLES
    issued,  \* the log of what alloc has returned, [req, ref] each
    live     \* its entries whose holder has not asked for the release yet

vars == <<owners, generations, issued, live>>

Handles == [req : ReqIds, ref : RowRefs]

TypeOK ==
    /\ StoreTypeOK
    /\ issued \in Seq(Handles)
    /\ live \subseteq DOMAIN issued

Init ==
    /\ StoreInit
    /\ issued = <<>>
    /\ live = {}

\* A client is given a row.
Acquire(req) ==
    \E s \in Slots :
        /\ generations[s] < MaxGeneration
        /\ Alloc(req, s)
        /\ issued' = Append(issued, [req |-> req, ref |-> RefTo(s)])
        /\ live' = live \cup {Len(issued) + 1}

\* The holder of the i-th occupancy, or one that held it once, calls release.
Return(i) ==
    /\ Release(issued[i].ref, issued[i].req)
    /\ live' = live \ {i}
    /\ UNCHANGED issued

Next ==
    \/ \E req \in ReqIds : Acquire(req)
    \/ \E i \in DOMAIN issued : Return(i)

Spec == Init /\ [][Next]_vars

-----------------------------------------------------------------------------

\* A row is never taken from a client that still holds it: whatever stale
\* references others release, or the same request from an occupancy before, each
\* live occupancy still owns its row at its generation.  (slots.py:3-6,
\* release's two comparisons.)
NoStolenRow == \A i \in live : Holds(issued[i].ref, issued[i].req)

\* Rows are private: an owned row has exactly one live holder, so two requests
\* never share a row and no row stays owned after its holder let it go.
RowsPrivate ==
    \A s \in Slots :
        owners[s] # NoOwner =>
            \E i \in live :
                /\ issued[i].ref.slot = s
                /\ \A j \in live : issued[j].ref.slot = s => j = i

\* No two calls of alloc return the same reference, whoever asks, so that
\* (slot, generation) names one occupancy for ever (slots.py:3-6).
RefsUnique == \A i, j \in DOMAIN issued : issued[i].ref = issued[j].ref => i = j

=============================================================================

----------------------------- MODULE PrefixCache -----------------------------
(***************************************************************************)
(* What state/prefix.py promises (its docstrings): a byte-bounded cache of *)
(* snapshots, at most one per token sequence, that gives up the least      *)
(* recently used ones and no more of them than a new snapshot needs, and   *)
(* answers a lookup with the longest stored sequence that is a prefix of   *)
(* the request's tokens.  PrefixStore implements it.                       *)
(*                                                                         *)
(* Recency is a relation between the stored sequences, with no clock.      *)
(***************************************************************************)
EXTENDS Integers, Sequences, Functions

CONSTANTS
    Keys,         \* token sequences a snapshot may stand for
    Queries,      \* token sequences a client may look up
    Payloads,     \* opaque snapshot contents
    Sizes,        \* nbytes of a snapshot
    MinShareds,   \* values of lookup's min_shared
    ByteBudget,
    None

VARIABLES
    snapshots,   \* stored sequence -> [payload, nbytes]
    older,       \* <<k, l>>: k was used less recently than l
    answer       \* what the last call returned: [tokens, payload], or None

vars == <<snapshots, older, answer>>

Stored == DOMAIN snapshots
SizeOf(S) == SumFunctionOnSet([k \in Stored |-> snapshots[k].nbytes], S)

Init == snapshots = <<>> /\ older = {} /\ answer = None

\* The stored sequences used since k was, k included.
Since(k) == {k} \cup {l \in Stored : <<k, l>> \in older}

\* A snapshot survives when it and all younger ones leave room.
Survivors(key, nbytes) ==
    {k \in Stored \ {key} : SizeOf(Since(k) \ {key}) + nbytes <= ByteBudget}

\* Publication makes the sequence the most recent one.
Put(key, payload, nbytes) ==
    LET kept == Survivors(key, nbytes)
    IN  /\ nbytes <= ByteBudget
        /\ snapshots' = [k \in kept \cup {key} |->
                           IF k = key THEN [payload |-> payload, nbytes |-> nbytes]
                                      ELSE snapshots[k]]
        /\ older' = (older \cap (kept \X kept)) \cup (kept \X {key})
        /\ answer' = [tokens |-> key, payload |-> payload]

Refuse(nbytes) ==
    /\ nbytes > ByteBudget
    /\ answer' = None /\ UNCHANGED <<snapshots, older>>

IsPrefixOf(k, q) == Len(k) <= Len(q) /\ \A i \in 1 .. Len(k) : k[i] = q[i]
Matching(query, least) == {k \in Stored : IsPrefixOf(k, query) /\ Len(k) >= least}

\* The hit becomes the most recent one.
Lookup(query, least) ==
    \/ Matching(query, least) = {} /\ answer' = None /\ UNCHANGED <<snapshots, older>>
    \/ \E k \in Matching(query, least) :
        /\ \A l \in Matching(query, least) : Len(l) <= Len(k)
        /\ answer' = [tokens |-> k, payload |-> snapshots[k].payload]
        /\ older' = {p \in older : p[1] # k} \cup ((Stored \ {k}) \X {k})
        /\ UNCHANGED snapshots

Invalidate == snapshots' = <<>> /\ older' = {} /\ answer' = None

Next ==
    \/ \E k \in Keys, p \in Payloads, n \in Sizes : Put(k, p, n)
    \/ \E n \in Sizes : Refuse(n)
    \/ \E q \in Queries, m \in MinShareds : Lookup(q, m)
    \/ Invalidate

Spec == Init /\ [][Next]_vars
=============================================================================

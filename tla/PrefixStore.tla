----------------------------- MODULE PrefixStore -----------------------------
(***************************************************************************)
(* state/prefix.py: PrefixSnapshotStore, an ordered dictionary of          *)
(* snapshots, least recently used first, with a running byte count.  Every *)
(* method holds the lock from its first access to its last, so each is one *)
(* step; threads interleave between them.                                  *)
(***************************************************************************)
EXTENDS Integers, Sequences, SequencesExt

CONSTANTS
    Keys, Queries, Payloads, Sizes, MinShareds, ByteBudget, None,
    MaxGeneration     \* bound on the number of invalidations

ASSUME PrefixAssumption ==
    /\ Keys \subseteq Seq(Nat) /\ Queries \subseteq Seq(Nat)
    /\ ByteBudget \in Nat \ {0}
    /\ Sizes \subseteq Nat
    /\ MinShareds \subseteq Nat
    /\ None \notin [tokens : Keys, payload : Payloads, nbytes : Sizes]

VARIABLES
    entries,      \* _entries, in dictionary order: [tokens, payload, nbytes]
    bytes,        \* _bytes
    generation,   \* _generation
    answer        \* what the last call returned

vars == <<entries, bytes, generation, answer>>

Entries == [tokens : Keys, payload : Payloads, nbytes : Sizes]

TypeOK ==
    /\ entries \in Seq(Entries)
    /\ bytes \in 0 .. ByteBudget
    /\ generation \in Nat
    /\ answer \in [tokens : Keys, payload : Payloads] \cup {None}

Init == entries = <<>> /\ bytes = 0 /\ generation = 0 /\ answer = None

HasKey(key) == \E i \in 1 .. Len(entries) : entries[i].tokens = key
Place(key) == CHOOSE i \in 1 .. Len(entries) : entries[i].tokens = key
EntryOf(key) == entries[Place(key)]

\* The dictionary once key, if it is there, is popped.
Without(key) == IF HasKey(key) THEN RemoveAt(entries, Place(key)) ELSE entries

Nbytes(es) == [i \in DOMAIN es |-> es[i].nbytes]
TotalBytes(es) == SumFunction(Nbytes(es))
OldestBytes(es, n) == SumFunctionOnSet(Nbytes(es), 1 .. n)

\* Mutated form: the bytes of a replaced entry are not given back.
BytesWithoutLeak(key) == bytes

\* The count once the entry for key, if any, is popped.
BytesWithout(key) == IF HasKey(key) THEN bytes - EntryOf(key).nbytes ELSE bytes

\* The eviction loop: how many entries go before the new one fits.
Evictions(es, held, nbytes) ==
    CHOOSE n \in 0 .. Len(es) :
        /\ held - OldestBytes(es, n) + nbytes <= ByteBudget \/ n = Len(es)
        /\ \A m \in 0 .. n - 1 : held - OldestBytes(es, m) + nbytes > ByteBudget

PopOldest(es, n) == SubSeq(es, n + 1, Len(es))

Put(key, payload, nbytes) ==
    LET rest == Without(key)
        held == BytesWithout(key)
        n    == Evictions(rest, held, nbytes)
    IN  /\ nbytes <= ByteBudget
        /\ entries' = Append(PopOldest(rest, n),
                             [tokens |-> key, payload |-> payload, nbytes |-> nbytes])
        /\ bytes' = held - OldestBytes(rest, n) + nbytes
        /\ answer' = [tokens |-> key, payload |-> payload]
        /\ UNCHANGED generation

\* ValueError: larger than the whole budget.
PutRejected(nbytes) ==
    /\ nbytes > ByteBudget
    /\ answer' = None /\ UNCHANGED <<entries, bytes, generation>>

\* The comparison of the scan.
Better(best, e) == best = None \/ Len(e.tokens) > Len(best.tokens)

Matches(e, query, least) == Len(e.tokens) >= least /\ IsPrefix(e.tokens, query)

\* The scan of lookup, in dictionary order.
BestMatch(query, least) ==
    LET best[i \in 0 .. Len(entries)] ==
          IF i = 0 THEN None
          ELSE IF Matches(entries[i], query, least) /\ Better(best[i - 1], entries[i])
               THEN entries[i] ELSE best[i - 1]
    IN  best[Len(entries)]

\* Mutated form: a lookup leaves the order alone.
TouchedNot(best) == entries

\* move_to_end(best.tokens)
Touched(best) == Append(Without(best.tokens), best)

Lookup(query, least) ==
    LET best == BestMatch(query, least)
    IN  /\ IF best = None
           THEN answer' = None /\ UNCHANGED entries
           ELSE /\ answer' = [tokens |-> best.tokens, payload |-> best.payload]
                /\ entries' = Touched(best)
        /\ UNCHANGED <<bytes, generation>>

Invalidate ==
    /\ generation < MaxGeneration
    /\ entries' = <<>> /\ bytes' = 0 /\ generation' = generation + 1 /\ answer' = None

Next ==
    \/ \E k \in Keys, p \in Payloads, n \in Sizes : Put(k, p, n)
    \/ \E n \in Sizes : PutRejected(n)
    \/ \E q \in Queries, m \in MinShareds : Lookup(q, m)
    \/ Invalidate

Spec == Init /\ [][Next]_vars

-----------------------------------------------------------------------------
\* Properties.

\* The running count never drifts from the entries it counts, through
\* replacement, eviction and invalidation, and stays within the budget.
BytesExact == bytes = TotalBytes(entries) /\ bytes <= ByteBudget

\* The order of the dictionary, as pairs of keys.
UsedBefore ==
    {pair \in Keys \X Keys :
        \E i, j \in 1 .. Len(entries) :
            i < j /\ pair = <<entries[i].tokens, entries[j].tokens>>}

\* The dictionary, without its order.
Snapshots ==
    [k \in {entries[i].tokens : i \in 1 .. Len(entries)} |->
        [payload |-> EntryOf(k).payload, nbytes |-> EntryOf(k).nbytes]]

Cache == INSTANCE PrefixCache WITH snapshots <- Snapshots, older <- UsedBefore

\* prefix.py:1-18, 44-48, 74-76, 92-94: the store is the cache its docstrings
\* promise: exact longest prefix, least recently used out first and never more
\* than needed, one snapshot per sequence and always its latest payload.
ImplementsCache == Cache!Spec
=============================================================================

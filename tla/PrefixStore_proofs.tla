-------------------------- MODULE PrefixStore_proofs --------------------------
(***************************************************************************)
(* Proofs about PrefixStore for every set of keys, payloads and sizes and  *)
(* every budget: the running byte count, and that the ordered dictionary   *)
(* implements the cache that the docstrings of state/prefix.py promise.    *)
(***************************************************************************)
EXTENDS PrefixStore, Positions_proofs

\* One entry for each sequence: it is a dictionary.
DistinctIn(es) == \A i, j \in 1 .. Len(es) : es[i].tokens = es[j].tokens => i = j
Distinct == DistinctIn(entries)

PrefixInv == TypeOK /\ Distinct /\ BytesExact

-----------------------------------------------------------------------------
\* Popping an entry.

\* Where the entry now i-th was before key was popped.
Before(key) ==
    [i \in Nat |-> IF HasKey(key) /\ i >= Place(key) THEN i + 1 ELSE i]

\* The position of the popped entry.
LEMMA PlaceFacts ==
  ASSUME NEW key, HasKey(key)
  PROVE  Place(key) \in 1 .. Len(entries) /\ entries[Place(key)].tokens = key
  BY DEF HasKey, Place

\* RemoveAt keeps the others, those behind one place further on.
LEMMA Removed ==
  ASSUME NEW S, NEW s \in Seq(S), NEW p \in 1 .. Len(s)
  PROVE  /\ RemoveAt(s, p) \in Seq(S) /\ Len(RemoveAt(s, p)) = Len(s) - 1
         /\ \A i \in 1 .. Len(s) - 1 : RemoveAt(s, p)[i] = IF i >= p THEN s[i + 1] ELSE s[i]
<1> DEFINE front == SubSeq(s, 1, p - 1)
           back == SubSeq(s, p + 1, Len(s))
<1>1. Len(s) \in Nat /\ p \in Int
  OBVIOUS
<1>2. /\ front \in Seq(S) /\ Len(front) = p - 1
      /\ \A i \in 1 .. p - 1 : front[i] = s[i]
  BY <1>1, SubSeqProperties
<1>3. /\ back \in Seq(S) /\ Len(back) = Len(s) - p
      /\ \A i \in 1 .. Len(s) - p : back[i] = s[p + i]
  <2>1. \A i \in p + 1 .. Len(s) : s[i] \in S
    BY <1>1
  <2>2. QED
    BY <1>1, <2>1, SubSeqProperties
<1>4. RemoveAt(s, p) = front \o back
  BY DEF RemoveAt
<1> HIDE DEF front, back
<1>5. /\ front \o back \in Seq(S) /\ Len(front \o back) = (p - 1) + (Len(s) - p)
      /\ \A i \in 1 .. (p - 1) + (Len(s) - p) :
           (front \o back)[i] = IF i <= p - 1 THEN front[i] ELSE back[i - (p - 1)]
  <2>1. /\ front \o back \in Seq(S) /\ Len(front \o back) = Len(front) + Len(back)
        /\ \A i \in 1 .. Len(front) + Len(back) :
             (front \o back)[i] = IF i <= Len(front) THEN front[i] ELSE back[i - Len(front)]
    BY <1>2, <1>3, ConcatProperties
  <2>2. QED
    BY <1>2, <1>3, <2>1
<1>6. (p - 1) + (Len(s) - p) = Len(s) - 1
  BY <1>1
<1>7. ASSUME NEW i \in 1 .. Len(s) - 1
      PROVE  (front \o back)[i] = IF i >= p THEN s[i + 1] ELSE s[i]
  <2>1. CASE i >= p
    <3>1. (front \o back)[i] = back[i - (p - 1)]
      BY <1>1, <1>5, <1>6, <2>1
    <3>2. i - (p - 1) \in 1 .. Len(s) - p /\ p + (i - (p - 1)) = i + 1
      BY <1>1, <2>1
    <3>3. QED
      BY <1>3, <2>1, <3>1, <3>2
  <2>2. CASE i < p
    <3>1. i <= p - 1 /\ i \in 1 .. p - 1 /\ ~(i >= p)
      BY <1>1, <2>2
    <3>2. QED
      BY <1>2, <1>5, <1>6, <3>1
  <2>3. i >= p \/ i < p
    BY <1>1
  <2>4. QED
    BY <2>1, <2>2, <2>3
<1>8. QED
  BY <1>4, <1>5, <1>6, <1>7

\* What is left are the other entries, in their old order.
LEMMA WithoutFacts ==
  ASSUME entries \in Seq(Entries), Distinct, NEW key
  PROVE  /\ Without(key) \in Seq(Entries)
         /\ Len(Without(key)) = IF HasKey(key) THEN Len(entries) - 1 ELSE Len(entries)
         /\ \A i \in 1 .. Len(Without(key)) :
              /\ Before(key)[i] \in 1 .. Len(entries)
              /\ Without(key)[i] = entries[Before(key)[i]]
              /\ Without(key)[i].tokens # key
         /\ \A p \in 1 .. Len(entries) : entries[p].tokens # key =>
              \E i \in 1 .. Len(Without(key)) : Before(key)[i] = p
         /\ \A i, j \in 1 .. Len(Without(key)) : i < j <=> Before(key)[i] < Before(key)[j]
<1>1. Len(entries) \in Nat
  OBVIOUS
<1>2. CASE ~HasKey(key)
  <2>1. Without(key) = entries /\ \A i \in Nat : Before(key)[i] = i
    BY <1>2 DEF Without, Before
  <2>2. \A i \in 1 .. Len(entries) : entries[i].tokens # key /\ i \in Nat
    BY <1>1, <1>2 DEF HasKey
  <2>3. QED
    BY <1>1, <1>2, <2>1, <2>2
<1>3. CASE HasKey(key)
  <2> DEFINE p == Place(key)
             n == Len(entries)
             rest == RemoveAt(entries, p)
  <2>1. p \in 1 .. n /\ entries[p].tokens = key /\ n \in Nat
    BY <1>1, <1>3, PlaceFacts
  <2> HIDE DEF p
  <2>2. rest \in Seq(Entries) /\ Len(rest) = n - 1
    BY <2>1, Removed
  <2>3. \A i \in 1 .. n - 1 : rest[i] = IF i >= p THEN entries[i + 1] ELSE entries[i]
    BY <2>1, Removed
  <2>4. \A i, j \in 1 .. n : entries[i].tokens = entries[j].tokens => i = j
    BY DEF Distinct, DistinctIn
  <2>5. \A i \in 1 .. n - 1 : i \in Int /\ Before(key)[i] = IF i >= p THEN i + 1 ELSE i
    BY <1>1, <1>3 DEF Before, p, n
  <2>6. Without(key) = rest
    BY <1>3 DEF Without, p
  <2> HIDE DEF rest, n
  <2>7. ASSUME NEW i \in 1 .. n - 1
        PROVE  /\ Before(key)[i] \in 1 .. n /\ Before(key)[i] # p
               /\ rest[i] = entries[Before(key)[i]]
    BY <2>1, <2>3, <2>5
  <2>8. \A i \in 1 .. n - 1 : entries[Before(key)[i]].tokens # key
    BY <2>1, <2>4, <2>7
  <2>9. ASSUME NEW q \in 1 .. n, entries[q].tokens # key
        PROVE  \E i \in 1 .. n - 1 : Before(key)[i] = q
    <3>1. q # p
      BY <2>1, <2>9
    <3>2. CASE q < p
      <4>1. q \in 1 .. n - 1 /\ Before(key)[q] = q
        BY <2>1, <2>5, <3>2
      <4>2. QED
        BY <4>1
    <3>3. CASE q > p
      <4>1. q - 1 \in 1 .. n - 1 /\ Before(key)[q - 1] = q
        BY <2>1, <2>5, <3>3
      <4>2. QED
        BY <4>1
    <3>4. QED
      BY <2>1, <3>1, <3>2, <3>3
  <2>10. \A i, j \in 1 .. n - 1 : i < j <=> Before(key)[i] < Before(key)[j]
    BY <2>1, <2>5
  <2>11. QED
    BY <1>3, <2>2, <2>6, <2>7, <2>8, <2>9, <2>10 DEF n
<1>4. QED
  BY <1>2, <1>3
-----------------------------------------------------------------------------
\* The byte count.

\* Sizes are natural numbers, and so are their sums.
LEMMA BytesAreNat ==
  ASSUME NEW es \in Seq(Entries)
  PROVE  /\ DOMAIN Nbytes(es) = 1 .. Len(es) /\ Len(es) \in Nat
         /\ \A i \in 1 .. Len(es) : es[i].nbytes \in Nat /\ Nbytes(es)[i] = es[i].nbytes
         /\ \A P \in SUBSET (1 .. Len(es)) :
              IsFiniteSet(P) /\ SumFunctionOnSet(Nbytes(es), P) \in Nat
         /\ TotalBytes(es) = SumFunctionOnSet(Nbytes(es), 1 .. Len(es))
<1>1. /\ DOMAIN Nbytes(es) = 1 .. Len(es) /\ Len(es) \in Nat
      /\ \A i \in 1 .. Len(es) : es[i].nbytes \in Nat /\ Nbytes(es)[i] = es[i].nbytes
  <2>1. \A i \in 1 .. Len(es) : es[i] \in Entries
    OBVIOUS
  <2>2. \A e \in Entries : e.nbytes \in Nat
    BY PrefixAssumption DEF PrefixAssumption, Entries
  <2>3. DOMAIN es = 1 .. Len(es) /\ Len(es) \in Nat
    OBVIOUS
  <2>4. QED
    BY <2>1, <2>2, <2>3 DEF Nbytes
<1>2. ASSUME NEW P \in SUBSET (1 .. Len(es))
      PROVE  IsFiniteSet(P) /\ SumFunctionOnSet(Nbytes(es), P) \in Nat
  <2>1. IsFiniteSet(P)
    <3>1. IsFiniteSet(1 .. Len(es))
      BY <1>1, FS_Interval
    <3>2. QED
      BY <3>1, FS_Subset
  <2>2. \A i \in P : Nbytes(es)[i] \in Nat
    BY <1>1
  <2>3. QED
    BY <2>1, <2>2, SumIsNat
<1>3. TotalBytes(es) = SumFunctionOnSet(Nbytes(es), 1 .. Len(es))
  BY <1>1 DEF TotalBytes, SumFunction
<1>4. QED
  BY <1>1, <1>2, <1>3

\* The same entries in other places take the same bytes.
LEMMA SameBytes ==
  ASSUME NEW es \in Seq(Entries), NEW P \in SUBSET DOMAIN es,
         NEW fs \in Seq(Entries), NEW R \in SUBSET DOMAIN fs,
         NEW at \in Bijection(P, R), \A i \in P : fs[at[i]].nbytes = es[i].nbytes
  PROVE  SumFunctionOnSet(Nbytes(es), P) = SumFunctionOnSet(Nbytes(fs), R)
<1>1. PICK f, g : f = Nbytes(es) /\ g = Nbytes(fs)
  OBVIOUS
<1>2. ASSUME NEW i \in P PROVE f[i] \in Int /\ f[i] = g[at[i]]
  <2>1. i \in 1 .. Len(es) /\ at[i] \in 1 .. Len(fs)
    BY DEF Bijection, Injection
  <2>2. f[i] = es[i].nbytes /\ f[i] \in Int /\ g[at[i]] = fs[at[i]].nbytes
    BY <1>1, <2>1, BytesAreNat
  <2>3. QED
    BY <2>2
<1>3. IsFiniteSet(P)
  <2>1. P \in SUBSET (1 .. Len(es))
    OBVIOUS
  <2>2. QED
    BY <2>1, BytesAreNat
<1>4. SumFunctionOnSet(f, P) = SumFunctionOnSet(g, R)
  BY <1>2, <1>3, SumRenamed
<1>5. QED
  BY <1>1, <1>4

\* Popping an entry gives its bytes back.
LEMMA BytesPopped ==
  ASSUME PrefixInv, NEW key
  PROVE  BytesWithout(key) = TotalBytes(Without(key))
<1> DEFINE rest == Without(key)
           P == 1 .. Len(rest)
           all == 1 .. Len(entries)
           f == Nbytes(entries)
<1>1. entries \in Seq(Entries) /\ Distinct /\ bytes = TotalBytes(entries) /\ Len(entries) \in Nat
  BY DEF PrefixInv, TypeOK, BytesExact
<1>2. /\ rest \in Seq(Entries)
      /\ \A i \in P : Before(key)[i] \in all /\ rest[i] = entries[Before(key)[i]]
                      /\ rest[i].tokens # key
      /\ \A p \in all : entries[p].tokens # key => \E i \in P : Before(key)[i] = p
      /\ \A i, j \in P : i < j <=> Before(key)[i] < Before(key)[j]
  BY <1>1, WithoutFacts
<1>3. CASE ~HasKey(key)
  BY <1>1, <1>3 DEF BytesWithout, Without
<1>4. CASE HasKey(key)
  <2> DEFINE p == Place(key)
  <2>1. p \in all /\ entries[p].tokens = key
    BY <1>4, PlaceFacts
  <2> DEFINE others == all \ {p}
  <2>2. /\ \A i \in P : Before(key)[i] \in others
        /\ \A q \in others : \E i \in P : Before(key)[i] = q
    <3>1. \A i \in P : entries[Before(key)[i]].tokens # key
      BY <1>2
    <3>2. \A q \in all : entries[q].tokens = key => q = p
      BY <1>1, <2>1 DEF Distinct, DistinctIn
    <3> HIDE DEF P, p, all
    <3>3. QED
      BY <1>2, <2>1, <3>1, <3>2
  <2>3. TotalBytes(rest) = SumFunctionOnSet(f, others)
    <3>1. \A i, j \in P : Before(key)[i] = Before(key)[j] => i = j
      <4>1. \A i \in P : i \in Int /\ Before(key)[i] \in Int
        BY <1>2
      <4> HIDE DEF P, rest
      <4>2. QED
        BY <1>2, <4>1
    <3>2. TotalBytes(rest) = SumFunctionOnSet(Nbytes(rest), P)
      BY <1>2, BytesAreNat
    <3>3. SumFunctionOnSet(Nbytes(rest), P) = SumFunctionOnSet(Nbytes(entries), others)
      <4> DEFINE at == [i \in P |-> Before(key)[i]]
      <4> HIDE DEF rest, p, P, others
      <4>1. at \in Bijection(P, others) /\ \A i \in P : at[i] = Before(key)[i]
        BY <2>2, <3>1 DEF Bijection, Injection, Surjection, IsInjective
      <4> HIDE DEF at
      <4>2. \A i \in P : entries[at[i]].nbytes = rest[i].nbytes
        BY <1>2, <4>1
      <4>3. P \in SUBSET DOMAIN rest /\ others \in SUBSET DOMAIN entries
        BY <1>1, <1>2 DEF P, others
      <4>4. QED
        BY <1>1, <1>2, <4>1, <4>2, <4>3, SameBytes
    <3>4. QED
      BY <3>2, <3>3
  <2>4. SumFunctionOnSet(f, all) = f[p] + SumFunctionOnSet(f, others)
    <3>1. IsFiniteSet(all) /\ \A i \in all : f[i] \in Int
      BY <1>1, BytesAreNat
    <3> HIDE DEF f, all, p
    <3>2. QED
      BY <2>1, <3>1, SumTake DEF others
  <2>5. f[p] = EntryOf(key).nbytes /\ f[p] \in Nat
    BY <1>1, <2>1, BytesAreNat DEF EntryOf
  <2>6. SumFunctionOnSet(f, others) \in Nat
    BY <1>1, BytesAreNat
  <2>7. TotalBytes(entries) = SumFunctionOnSet(f, all)
    BY <1>1, BytesAreNat
  <2> HIDE DEF f, all, p, others
  <2>8. QED
    BY <1>1, <1>4, <2>3, <2>4, <2>5, <2>6, <2>7 DEF BytesWithout
<1>5. QED
  BY <1>3, <1>4

\* A new entry adds its bytes.
LEMMA BytesAppended ==
  ASSUME NEW es \in Seq(Entries), NEW e \in Entries
  PROVE  Append(es, e) \in Seq(Entries) /\ TotalBytes(Append(es, e)) = TotalBytes(es) + e.nbytes
<1> DEFINE n == Len(es)
           new == Append(es, e)
           P == 1 .. n
<1>1. /\ new \in Seq(Entries) /\ Len(new) = n + 1 /\ n \in Nat
      /\ new[n + 1] = e /\ \A i \in P : new[i] = es[i]
  BY AppendProperties
<1>2. TotalBytes(new) = SumFunctionOnSet(Nbytes(new), 1 .. n + 1)
  BY <1>1, BytesAreNat
<1>3. /\ IsFiniteSet(1 .. n + 1) /\ n + 1 \in 1 .. n + 1 /\ (1 .. n + 1) \ {n + 1} = P
      /\ Nbytes(new)[n + 1] = e.nbytes /\ \A i \in 1 .. n + 1 : Nbytes(new)[i] \in Int
  <2>1. IsFiniteSet(1 .. n + 1)
    BY <1>1, FS_Interval
  <2>2. n + 1 \in 1 .. n + 1 /\ (1 .. n + 1) \ {n + 1} = P
    BY <1>1
  <2> HIDE DEF new
  <2>3. \A i \in 1 .. n + 1 : Nbytes(new)[i] = new[i].nbytes /\ Nbytes(new)[i] \in Int
    BY <1>1, BytesAreNat
  <2>4. QED
    BY <1>1, <2>1, <2>2, <2>3
<1>4. SumFunctionOnSet(Nbytes(new), 1 .. n + 1) = e.nbytes + SumFunctionOnSet(Nbytes(new), P)
  <2>1. PICK f, S : f = Nbytes(new) /\ S = 1 .. n + 1
    OBVIOUS
  <2>2. IsFiniteSet(S) /\ n + 1 \in S /\ \A i \in S : f[i] \in Int
    BY <1>3, <2>1
  <2>3. SumFunctionOnSet(f, S) = f[n + 1] + SumFunctionOnSet(f, S \ {n + 1})
    BY <2>2, SumTake
  <2>4. QED
    BY <1>3, <2>1, <2>3
<1>5. SumFunctionOnSet(Nbytes(es), P) = SumFunctionOnSet(Nbytes(new), P)
  <2> DEFINE at == [i \in P |-> i]
  <2>1. at \in Bijection(P, P)
    BY DEF Bijection, Injection, Surjection, IsInjective
  <2>2. \A i \in P : at[i] = i /\ new[at[i]].nbytes = es[i].nbytes
    BY <1>1
  <2>3. P \in SUBSET DOMAIN es /\ P \in SUBSET DOMAIN new
    BY <1>1
  <2> HIDE DEF at, P, new
  <2>4. QED
    BY <1>1, <2>1, <2>2, <2>3, SameBytes
<1>6. TotalBytes(es) = SumFunctionOnSet(Nbytes(es), P) /\ TotalBytes(es) \in Int /\ e.nbytes \in Int
  <2>1. TotalBytes(es) = SumFunctionOnSet(Nbytes(es), P) /\ SumFunctionOnSet(Nbytes(es), P) \in Nat
    BY BytesAreNat
  <2> HIDE DEF new
  <2>2. new[n + 1].nbytes \in Nat
    BY <1>1, BytesAreNat
  <2>3. QED
    BY <1>1, <2>1, <2>2
<1> HIDE DEF new, P, n
<1>7. QED
  BY <1>1, <1>2, <1>4, <1>5, <1>6 DEF new

\* What the oldest entries take and what the others take make up the whole.
LEMMA BytesSplit ==
  ASSUME NEW es \in Seq(Entries), NEW n \in 0 .. Len(es)
  PROVE  /\ PopOldest(es, n) \in Seq(Entries) /\ Len(PopOldest(es, n)) = Len(es) - n
         /\ \A i \in 1 .. Len(es) - n : PopOldest(es, n)[i] = es[n + i]
         /\ OldestBytes(es, n) \in Nat
         /\ TotalBytes(PopOldest(es, n)) = SumFunctionOnSet(Nbytes(es), n + 1 .. Len(es))
         /\ TotalBytes(es) = OldestBytes(es, n) + TotalBytes(PopOldest(es, n))
<1> DEFINE rest == PopOldest(es, n)
           old == 1 .. n
           young == n + 1 .. Len(es)
           P == 1 .. Len(es) - n
<1>1. /\ rest \in Seq(Entries) /\ Len(rest) = Len(es) - n /\ Len(es) \in Nat /\ n \in Nat
      /\ \A i \in P : rest[i] = es[n + i]
  <2>1. Len(es) \in Nat /\ n \in Nat /\ \A i \in n + 1 .. Len(es) : es[i] \in Entries
    OBVIOUS
  <2>2. /\ rest \in Seq(Entries) /\ Len(rest) = IF n + 1 <= Len(es) THEN Len(es) - (n + 1) + 1 ELSE 0
        /\ \A i \in 1 .. Len(es) - (n + 1) + 1 : rest[i] = es[(n + 1) + i - 1]
    BY <2>1, SubSeqProperties DEF PopOldest
  <2>3. Len(es) - (n + 1) + 1 = Len(es) - n /\ \A i \in Int : (n + 1) + i - 1 = n + i
    BY <2>1
  <2>4. Len(rest) = Len(es) - n
    BY <2>1, <2>2
  <2> HIDE DEF rest
  <2>5. ASSUME NEW i \in P PROVE rest[i] = es[n + i]
    <3>1. i \in 1 .. Len(es) - (n + 1) + 1 /\ i \in Int
      BY <2>1, <2>3
    <3>2. QED
      BY <2>2, <2>3, <3>1
  <2>6. QED
    BY <2>1, <2>2, <2>4, <2>5
<1>2. old \in SUBSET (1 .. Len(es)) /\ young \in SUBSET (1 .. Len(es)) /\ old \cap young = {}
      /\ old \cup young = 1 .. Len(es)
  BY <1>1
<1>3. /\ IsFiniteSet(old) /\ IsFiniteSet(young) /\ \A i \in old \cup young : Nbytes(es)[i] \in Int
      /\ SumFunctionOnSet(Nbytes(es), old) \in Nat /\ SumFunctionOnSet(Nbytes(es), young) \in Nat
  <2> HIDE DEF old, young
  <2>1. \A i \in 1 .. Len(es) : Nbytes(es)[i] \in Int
    BY BytesAreNat
  <2>2. QED
    BY <1>2, <2>1, BytesAreNat
<1>4. SumFunctionOnSet(Nbytes(es), old \cup young)
        = SumFunctionOnSet(Nbytes(es), old) + SumFunctionOnSet(Nbytes(es), young)
  <2>1. PICK f, S, T : f = Nbytes(es) /\ S = old /\ T = young
    OBVIOUS
  <2> HIDE DEF old, young
  <2>2. IsFiniteSet(S) /\ IsFiniteSet(T) /\ S \cap T = {} /\ \A i \in S \cup T : f[i] \in Int
    BY <1>2, <1>3, <2>1
  <2>3. SumFunctionOnSet(f, S \cup T) = SumFunctionOnSet(f, S) + SumFunctionOnSet(f, T)
    BY <2>2, SumUnion
  <2>4. QED
    BY <2>1, <2>3
<1>5. TotalBytes(rest) = SumFunctionOnSet(Nbytes(es), young)
  <2> DEFINE at == [i \in P |-> n + i]
  <2>1. at \in Bijection(P, young)
    <3>1. \A i \in P : at[i] \in young /\ at[i] = n + i /\ i \in Int
      BY <1>1
    <3>2. \A q \in young : q - n \in P /\ at[q - n] = q
      BY <1>1
    <3>3. \A i, j \in P : at[i] = at[j] => i = j
      BY <1>1
    <3> HIDE DEF P, young
    <3>4. QED
      BY <3>1, <3>2, <3>3 DEF Bijection, Injection, Surjection, IsInjective
  <2>2. \A i \in P : es[at[i]].nbytes = rest[i].nbytes
    BY <1>1
  <2>3. P \in SUBSET DOMAIN rest /\ young \in SUBSET DOMAIN es /\ rest \in Seq(Entries)
    BY <1>1
  <2>4. TotalBytes(rest) = SumFunctionOnSet(Nbytes(rest), P)
    <3>1. P = 1 .. Len(rest)
      BY <1>1
    <3> HIDE DEF P, rest
    <3>2. QED
      BY <1>1, <3>1, BytesAreNat
  <2> HIDE DEF at, P, young, rest
  <2>5. SumFunctionOnSet(Nbytes(rest), P) = SumFunctionOnSet(Nbytes(es), young)
    BY <2>1, <2>2, <2>3, SameBytes
  <2>6. QED
    BY <2>4, <2>5
<1>6. TotalBytes(es) = SumFunctionOnSet(Nbytes(es), old \cup young)
  BY <1>2, BytesAreNat
<1> HIDE DEF rest, old, young
<1>7. QED
  BY <1>1, <1>3, <1>4, <1>5, <1>6 DEF rest, old, young, OldestBytes

\* The eviction loop stops at the first place where the new entry fits, and it does
\* fit there, because at the end the whole budget is free.
LEMMA EvictionsFacts ==
  ASSUME NEW es \in Seq(Entries), NEW nbytes \in Nat, nbytes <= ByteBudget
  PROVE  /\ Evictions(es, TotalBytes(es), nbytes) \in 0 .. Len(es)
         /\ \A m \in 0 .. Len(es) :
              m >= Evictions(es, TotalBytes(es), nbytes)
                <=> TotalBytes(es) - OldestBytes(es, m) + nbytes <= ByteBudget
<1> DEFINE held == TotalBytes(es)
           Fits(m) == held - OldestBytes(es, m) + nbytes <= ByteBudget
           N == {m \in 0 .. Len(es) : Fits(m)}
<1>1. /\ Len(es) \in Nat /\ held \in Nat /\ ByteBudget \in Nat
      /\ \A m \in 0 .. Len(es) : OldestBytes(es, m) \in Nat
  <2>1. held \in Nat /\ Len(es) \in Nat
    BY BytesAreNat
  <2>2. QED
    BY <2>1, BytesSplit, PrefixAssumption DEF PrefixAssumption
<1>2. OldestBytes(es, Len(es)) = held
  BY BytesAreNat DEF OldestBytes
<1>3. Fits(Len(es))
  BY <1>1, <1>2
<1>4. ASSUME NEW m \in 0 .. Len(es), NEW k \in 0 .. Len(es), m <= k
      PROVE  OldestBytes(es, m) <= OldestBytes(es, k)
  <2>1. PICK f, S, T : f = Nbytes(es) /\ S = 1 .. m /\ T = m + 1 .. k
    OBVIOUS
  <2>2. IsFiniteSet(S) /\ IsFiniteSet(T)
    BY <1>1, <2>1, FS_Interval
  <2>3. S \cap T = {} /\ S \cup T = 1 .. k /\ T \in SUBSET (1 .. Len(es))
    BY <1>1, <1>4, <2>1
  <2>4. \A i \in S \cup T : f[i] \in Int
    BY <1>1, <2>1, <2>3, BytesAreNat
  <2>5. SumFunctionOnSet(f, T) \in Nat
    BY <2>1, <2>3, BytesAreNat
  <2>6. SumFunctionOnSet(f, S \cup T) = SumFunctionOnSet(f, S) + SumFunctionOnSet(f, T)
    BY <2>2, <2>3, <2>4, SumUnion
  <2>7. OldestBytes(es, k) = OldestBytes(es, m) + SumFunctionOnSet(f, T)
    BY <2>1, <2>3, <2>6 DEF OldestBytes
  <2>8. QED
    BY <1>1, <2>5, <2>7
<1>5. PICK n \in N : \A m \in N : n <= m
  <2>1. N \in SUBSET (0 .. Len(es)) /\ Len(es) \in N
    BY <1>1, <1>3
  <2>2. IsFiniteSet(0 .. Len(es)) /\ 0 .. Len(es) \in SUBSET Int
    BY <1>1, FS_Interval
  <2> HIDE DEF N
  <2>3. N \in SUBSET Int /\ IsFiniteSet(N) /\ N # {}
    BY <2>1, <2>2, FS_Subset
  <2>4. QED
    BY <2>3, FirstAndLast
<1>6. ASSUME NEW m \in 0 .. n - 1 PROVE held - OldestBytes(es, m) + nbytes > ByteBudget
  <2>1. m \in 0 .. Len(es) /\ m \notin N
    BY <1>1, <1>5
  <2>2. QED
    BY <1>1, <2>1
<1> DEFINE First(k) == /\ held - OldestBytes(es, k) + nbytes <= ByteBudget \/ k = Len(es)
                       /\ \A m \in 0 .. k - 1 : held - OldestBytes(es, m) + nbytes > ByteBudget
<1>7. Evictions(es, held, nbytes) = CHOOSE k \in 0 .. Len(es) : First(k)
  BY DEF Evictions
<1>8. n \in 0 .. Len(es) /\ First(n)
  BY <1>5, <1>6
<1>9. PICK e \in 0 .. Len(es) : e = Evictions(es, held, nbytes) /\ First(e)
  <2> HIDE DEF First
  <2>1. QED
    BY <1>7, <1>8
<1>10. Fits(e)
  BY <1>3, <1>9
<1>11. ASSUME NEW m \in 0 .. Len(es) PROVE m >= e <=> Fits(m)
  <2>1. CASE m >= e
    <3>1. OldestBytes(es, e) <= OldestBytes(es, m)
      BY <1>4, <2>1
    <3>2. QED
      BY <1>1, <1>10, <2>1, <3>1
  <2>2. CASE m < e
    <3>1. m \in 0 .. e - 1
      BY <1>1, <2>2
    <3>2. QED
      BY <1>1, <1>9, <2>2, <3>1
  <2>3. QED
    BY <1>1, <2>1, <2>2
<1>12. QED
  BY <1>9, <1>11

-----------------------------------------------------------------------------
\* The invariant is kept.

\* No two of the entries left have one sequence.
LEMMA WithoutDistinct ==
  ASSUME entries \in Seq(Entries), Distinct, NEW key
  PROVE  DistinctIn(Without(key))
<1> DEFINE P == 1 .. Len(Without(key))
<1>1. /\ \A i \in P : /\ Before(key)[i] \in 1 .. Len(entries)
                      /\ Without(key)[i] = entries[Before(key)[i]]
      /\ \A i, j \in P : i < j <=> Before(key)[i] < Before(key)[j]
  BY WithoutFacts
<1>2. ASSUME NEW i \in P, NEW j \in P, Without(key)[i].tokens = Without(key)[j].tokens PROVE i = j
  <2>1. Before(key)[i] = Before(key)[j]
    BY <1>1, <1>2 DEF Distinct, DistinctIn
  <2>2. ~(i < j) /\ ~(j < i) /\ i \in Int /\ j \in Int
    <3>1. Before(key)[i] \in Int
      BY <1>1
    <3>2. i \in Int /\ j \in Int
      OBVIOUS
    <3> HIDE DEF P
    <3>3. QED
      BY <1>1, <2>1, <3>1, <3>2
  <2>3. QED
    BY <2>2
<1>3. QED
  BY <1>2 DEF DistinctIn

\* A new sequence at the end keeps them apart.
LEMMA AppendDistinct ==
  ASSUME NEW es \in Seq(Entries), NEW e \in Entries, DistinctIn(es),
         \A i \in 1 .. Len(es) : es[i].tokens # e.tokens
  PROVE  DistinctIn(Append(es, e))
<1> DEFINE new == Append(es, e)
<1>1. /\ Len(new) = Len(es) + 1 /\ Len(es) \in Nat
      /\ new[Len(es) + 1] = e /\ \A i \in 1 .. Len(es) : new[i] = es[i]
  BY AppendProperties
<1> HIDE DEF new
<1>2. ASSUME NEW i \in 1 .. Len(new), NEW j \in 1 .. Len(new), new[i].tokens = new[j].tokens
      PROVE  i = j
  <2>1. (i \in 1 .. Len(es) \/ i = Len(es) + 1) /\ (j \in 1 .. Len(es) \/ j = Len(es) + 1)
    BY <1>1
  <2>2. QED
    BY <1>1, <1>2, <2>1 DEF DistinctIn
<1>3. QED
  BY <1>2 DEF DistinctIn, new

\* What put leaves, before and after it appends the new entry.
LEMMA PutKeeps ==
  ASSUME PrefixInv, NEW key \in Keys, NEW payload \in Payloads, NEW nbytes \in Sizes,
         nbytes <= ByteBudget
  PROVE  LET rest == Without(key)
             n    == Evictions(rest, BytesWithout(key), nbytes)
             kept == PopOldest(rest, n)
         IN  /\ rest \in Seq(Entries) /\ n \in 0 .. Len(rest)
             /\ kept \in Seq(Entries) /\ DistinctIn(kept) /\ \A i \in 1 .. Len(kept) : kept[i].tokens # key
             /\ BytesWithout(key) - OldestBytes(rest, n) = TotalBytes(kept)
             /\ TotalBytes(kept) \in Nat /\ TotalBytes(kept) + nbytes <= ByteBudget
<1> DEFINE rest == Without(key)
           n    == Evictions(rest, BytesWithout(key), nbytes)
           kept == PopOldest(rest, n)
<1>1. entries \in Seq(Entries) /\ Distinct
  BY DEF PrefixInv, TypeOK
<1>2. rest \in Seq(Entries) /\ DistinctIn(rest) /\ \A i \in 1 .. Len(rest) : rest[i].tokens # key
  BY <1>1, WithoutFacts, WithoutDistinct
<1>3. BytesWithout(key) = TotalBytes(rest)
  BY BytesPopped
<1>4. nbytes \in Nat
  BY PrefixAssumption DEF PrefixAssumption
<1> HIDE DEF rest
<1>5. n \in 0 .. Len(rest) /\ TotalBytes(rest) - OldestBytes(rest, n) + nbytes <= ByteBudget
  <2>1. n = Evictions(rest, TotalBytes(rest), nbytes)
    BY <1>3
  <2> HIDE DEF n
  <2>2. n \in 0 .. Len(rest) /\ n >= n
    <3>1. n \in 0 .. Len(rest)
      BY <1>2, <1>4, <2>1, EvictionsFacts
    <3>2. QED
      BY <3>1
  <2>3. QED
    BY <1>2, <1>4, <2>1, <2>2, EvictionsFacts
<1> HIDE DEF n
<1>6. /\ kept \in Seq(Entries) /\ Len(kept) = Len(rest) - n /\ Len(rest) \in Nat
      /\ \A i \in 1 .. Len(rest) - n : kept[i] = rest[n + i]
      /\ OldestBytes(rest, n) \in Nat /\ TotalBytes(kept) \in Nat
      /\ TotalBytes(rest) = OldestBytes(rest, n) + TotalBytes(kept)
  <2>1. kept \in Seq(Entries)
    BY <1>2, <1>5, BytesSplit
  <2> HIDE DEF kept
  <2>2. TotalBytes(kept) \in Nat
    BY <2>1, BytesAreNat
  <2>3. QED
    BY <1>2, <1>5, <2>1, <2>2, BytesSplit DEF kept
<1> HIDE DEF kept
<1>7. ASSUME NEW i \in 1 .. Len(kept) PROVE n + i \in 1 .. Len(rest) /\ kept[i] = rest[n + i] /\ i \in Int
  BY <1>5, <1>6
<1>8. DistinctIn(kept) /\ \A i \in 1 .. Len(kept) : kept[i].tokens # key
  <2>1. \A i \in 1 .. Len(kept) : kept[i].tokens # key
    BY <1>2, <1>7
  <2>2. ASSUME NEW i \in 1 .. Len(kept), NEW j \in 1 .. Len(kept), kept[i].tokens = kept[j].tokens
        PROVE  i = j
    <3>1. n + i = n + j
      BY <1>2, <1>7, <2>2 DEF DistinctIn
    <3>2. QED
      BY <1>5, <1>7, <3>1
  <2>3. QED
    BY <2>1, <2>2 DEF DistinctIn
<1>9. /\ BytesWithout(key) - OldestBytes(rest, n) = TotalBytes(kept)
      /\ TotalBytes(kept) + nbytes <= ByteBudget
  BY <1>3, <1>5, <1>6
<1>10. QED
  BY <1>2, <1>5, <1>6, <1>8, <1>9 DEF rest, n, kept

LEMMA PutStep ==
  ASSUME PrefixInv, NEW key \in Keys, NEW payload \in Payloads, NEW nbytes \in Sizes,
         Put(key, payload, nbytes)
  PROVE  PrefixInv'
<1> DEFINE rest == Without(key)
           n    == Evictions(rest, BytesWithout(key), nbytes)
           kept == PopOldest(rest, n)
           new == [tokens |-> key, payload |-> payload, nbytes |-> nbytes]
<1>1. /\ nbytes <= ByteBudget /\ entries' = Append(kept, new)
      /\ bytes' = BytesWithout(key) - OldestBytes(rest, n) + nbytes
      /\ answer' = [tokens |-> key, payload |-> payload] /\ generation' = generation
  BY DEF Put
<1>2. /\ kept \in Seq(Entries) /\ DistinctIn(kept) /\ \A i \in 1 .. Len(kept) : kept[i].tokens # key
      /\ BytesWithout(key) - OldestBytes(rest, n) = TotalBytes(kept)
      /\ TotalBytes(kept) \in Nat /\ TotalBytes(kept) + nbytes <= ByteBudget
  BY <1>1, PutKeeps
<1>3. new \in Entries /\ new.tokens = key /\ new.nbytes = nbytes /\ nbytes \in Nat /\ ByteBudget \in Nat
  BY PrefixAssumption DEF Entries, PrefixAssumption
<1> HIDE DEF rest, n, kept, new
<1>4. /\ entries' \in Seq(Entries) /\ TotalBytes(entries') = TotalBytes(kept) + nbytes
      /\ DistinctIn(entries')
  BY <1>1, <1>2, <1>3, BytesAppended, AppendDistinct
<1>5. bytes' = TotalBytes(kept) + nbytes /\ bytes' \in 0 .. ByteBudget
  BY <1>1, <1>2, <1>3
<1>6. TypeOK'
  BY <1>1, <1>4, <1>5 DEF PrefixInv, TypeOK
<1>7. BytesExact'
  BY <1>2, <1>4, <1>5 DEF BytesExact, TotalBytes, Nbytes
<1>8. QED
  BY <1>4, <1>6, <1>7 DEF PrefixInv, Distinct, DistinctIn

-----------------------------------------------------------------------------
\* The scan of lookup.

\* One round of the scan: the best so far, and the i-th entry.
ScanTurn(query, least, b, i) ==
    IF Matches(entries[i], query, least) /\ Better(b, entries[i]) THEN entries[i] ELSE b

Scan(query, least, f, n) ==
    f = [i \in 0 .. n |-> IF i = 0 THEN None ELSE ScanTurn(query, least, f[i - 1], i)]

\* The recursive definition of the scan defines a function.
LEMMA ScanExists ==
  ASSUME NEW query, NEW least, NEW N \in Nat
  PROVE  \E f : Scan(query, least, f, N)
<1> DEFINE Good == {n \in 0 .. N : \E f : Scan(query, least, f, n)}
<1>1. 0 \in Good
  <2> DEFINE f == [i \in 0 .. 0 |-> None]
  <2>1. \A i \in 0 .. 0 : i = 0
    OBVIOUS
  <2>2. Scan(query, least, f, 0)
    BY <2>1 DEF Scan
  <2>3. QED
    BY <2>2
<1>2. ASSUME NEW n \in Good, n < N PROVE n + 1 \in Good
  <2>1. PICK f : Scan(query, least, f, n)
    OBVIOUS
  <2> DEFINE Value(g, i) == IF i = 0 THEN None ELSE ScanTurn(query, least, g[i - 1], i)
             new == [i \in 0 .. n + 1 |->
                       IF i = n + 1 THEN ScanTurn(query, least, f[n], n + 1) ELSE f[i]]
  <2>2. n \in Nat /\ n + 1 \in 0 .. N
    BY <1>2
  <2>3. \A i \in 0 .. n : f[i] = Value(f, i)
    BY <2>1 DEF Scan
  <2>4. \A i \in 0 .. n : new[i] = f[i]
    BY <2>2
  <2>5. new[n + 1] = ScanTurn(query, least, f[n], n + 1) /\ new[n] = f[n]
    BY <2>2
  <2> HIDE DEF new
  <2>6. ASSUME NEW i \in 0 .. n + 1 PROVE new[i] = Value(new, i)
    <3>1. CASE i = n + 1
      <4>1. i # 0 /\ i - 1 = n
        BY <2>2, <3>1
      <4>2. QED
        BY <2>5, <3>1, <4>1
    <3>2. CASE i = 0
      <4>1. 0 \in 0 .. n
        BY <2>2
      <4>2. QED
        BY <2>3, <2>4, <3>2, <4>1
    <3>3. CASE i # 0 /\ i # n + 1
      <4>1. i \in 0 .. n /\ i - 1 \in 0 .. n
        BY <2>2, <3>3
      <4>2. QED
        BY <2>3, <2>4, <3>3, <4>1
    <3>4. QED
      BY <3>1, <3>2, <3>3
  <2>7. new = [i \in 0 .. n + 1 |-> Value(new, i)]
    <3>1. new = [i \in 0 .. n + 1 |-> new[i]]
      BY DEF new
    <3>2. QED
      BY <2>6, <3>1
  <2>8. Scan(query, least, new, n + 1)
    BY <2>7 DEF Scan
  <2>9. QED
    BY <2>2, <2>8
<1>3. N \in 0 .. N
  OBVIOUS
<1>4. QED
  <2> HIDE DEF Good
  <2>1. Good \in SUBSET (0 .. N)
    BY DEF Good
  <2>2. N \in Good
    BY <1>1, <1>2, <1>3, <2>1, UpTo
  <2>3. QED
    BY <2>2 DEF Good

\* The scan finds a longest matching entry, and none only when none matches.
LEMMA BestMatchFacts ==
  ASSUME entries \in Seq(Entries), NEW query, NEW least
  PROVE  \/ /\ BestMatch(query, least) = None
            /\ \A i \in 1 .. Len(entries) : ~Matches(entries[i], query, least)
         \/ \E p \in 1 .. Len(entries) :
              /\ BestMatch(query, least) = entries[p] /\ entries[p] # None
              /\ Matches(entries[p], query, least)
              /\ \A i \in 1 .. Len(entries) :
                   Matches(entries[i], query, least) => Len(entries[i].tokens) <= Len(entries[p].tokens)
<1> DEFINE N == Len(entries)
           Fit(i) == Matches(entries[i], query, least)
           size(i) == Len(entries[i].tokens)
           best == CHOOSE f : Scan(query, least, f, N)
           Found(b, n) ==
             \/ b = None /\ \A i \in 1 .. n : ~Fit(i)
             \/ \E p \in 1 .. n : /\ b = entries[p] /\ entries[p] # None /\ Fit(p)
                                  /\ \A i \in 1 .. n : Fit(i) => size(i) <= size(p)
           Good == {n \in 0 .. N : Found(best[n], n)}
<1>1. N \in Nat
  OBVIOUS
<1>2. ASSUME NEW i \in 1 .. N PROVE size(i) \in Nat /\ entries[i] # None
  <2>1. entries[i] \in Entries
    OBVIOUS
  <2>2. entries[i].tokens \in Seq(Nat)
    BY <2>1, PrefixAssumption DEF Entries, PrefixAssumption
  <2>3. QED
    BY <2>1, <2>2, PrefixAssumption DEF Entries, PrefixAssumption
<1>3. Scan(query, least, best, N)
  BY <1>1, ScanExists
<1>4. BestMatch(query, least) = best[N]
  BY DEF BestMatch, Scan, ScanTurn
<1> HIDE DEF best
<1>5. best[0] = None /\ \A i \in 1 .. N : best[i] = ScanTurn(query, least, best[i - 1], i)
  <2>1. \A i \in 0 .. N : best[i] = IF i = 0 THEN None ELSE ScanTurn(query, least, best[i - 1], i)
    BY <1>3 DEF Scan
  <2>2. 0 \in 0 .. N /\ \A i \in 1 .. N : i \in 0 .. N /\ i # 0
    BY <1>1
  <2>3. QED
    BY <2>1, <2>2
<1> HIDE DEF N
<1>6. 0 \in Good
  BY <1>1, <1>5
<1>7. ASSUME NEW n \in Good, n < N PROVE n + 1 \in Good
  <2>1. n \in Nat /\ n + 1 \in 1 .. N /\ n + 1 \in 0 .. N /\ (n + 1) - 1 = n
    BY <1>1, <1>7
  <2>2. best[n + 1] = ScanTurn(query, least, best[n], n + 1)
    BY <1>5, <2>1
  <2>3. Found(best[n], n)
    BY <1>7
  <2> HIDE DEF Good, Fit, size
  <2>4. \A i \in 1 .. n + 1 : i \in 1 .. n \/ i = n + 1
    BY <2>1
  <2>5. \A i \in 1 .. n : i \in 1 .. n + 1 /\ i \in 1 .. N
    BY <1>1, <2>1
  <2>6. n + 1 \in 1 .. n + 1
    BY <2>1
  <2>7. Found(best[n + 1], n + 1)
    <3>1. CASE Fit(n + 1) /\ Better(best[n], entries[n + 1])
      <4>1. best[n + 1] = entries[n + 1]
        BY <2>2, <3>1 DEF ScanTurn, Fit
      <4>2. \A i \in 1 .. n : Fit(i) => size(i) <= size(n + 1)
        <5>1. CASE best[n] = None /\ \A i \in 1 .. n : ~Fit(i)
          BY <5>1
        <5>2. ASSUME NEW p \in 1 .. n, best[n] = entries[p], entries[p] # None,
                     \A i \in 1 .. n : Fit(i) => size(i) <= size(p)
              PROVE  \A i \in 1 .. n : Fit(i) => size(i) <= size(n + 1)
          <6>1. size(n + 1) > size(p)
            BY <3>1, <5>2 DEF Better, size
          <6>2. QED
            BY <1>2, <2>1, <2>5, <5>2, <6>1
        <5>3. QED
          BY <2>3, <5>1, <5>2
      <4>3. size(n + 1) <= size(n + 1)
        BY <1>2, <2>1
      <4>4. QED
        BY <1>2, <2>1, <2>4, <2>6, <3>1, <4>1, <4>2, <4>3
    <3>2. CASE ~(Fit(n + 1) /\ Better(best[n], entries[n + 1]))
      <4>1. best[n + 1] = best[n]
        BY <2>2, <3>2 DEF ScanTurn, Fit
      <4>2. CASE best[n] = None /\ \A i \in 1 .. n : ~Fit(i)
        <5>1. ~Fit(n + 1)
          BY <3>2, <4>2 DEF Better
        <5>2. QED
          BY <2>4, <4>1, <4>2, <5>1
      <4>3. ASSUME NEW p \in 1 .. n, best[n] = entries[p], entries[p] # None, Fit(p),
                   \A i \in 1 .. n : Fit(i) => size(i) <= size(p)
            PROVE  Found(best[n + 1], n + 1)
        <5>1. Fit(n + 1) => size(n + 1) <= size(p)
          <6>1. Fit(n + 1) => ~(size(n + 1) > size(p))
            BY <3>2, <4>3 DEF Better, size
          <6>2. QED
            BY <1>2, <2>1, <2>5, <6>1
        <5>2. \A i \in 1 .. n + 1 : Fit(i) => size(i) <= size(p)
          BY <2>4, <4>3, <5>1
        <5>3. QED
          BY <2>5, <4>1, <4>3, <5>2
      <4>4. QED
        BY <2>3, <4>2, <4>3
    <3>3. QED
      BY <3>1, <3>2
  <2>8. QED
    BY <2>1, <2>7 DEF Good
<1>8. N \in Good
  <2> HIDE DEF Good
  <2>1. Good \in SUBSET (0 .. N) /\ N \in 0 .. N
    BY <1>1 DEF Good
  <2>2. QED
    BY <1>1, <1>6, <1>7, <2>1, UpTo
<1>9. QED
  BY <1>4, <1>8 DEF N

-----------------------------------------------------------------------------
\* The remaining steps, and the invariant.

\* A touched entry is taken out and appended: nothing is lost.
LEMMA TouchKeeps ==
  ASSUME PrefixInv, NEW p \in 1 .. Len(entries), NEW best, best = entries[p]
  PROVE  /\ Touched(best) \in Seq(Entries) /\ DistinctIn(Touched(best))
         /\ TotalBytes(Touched(best)) = TotalBytes(entries)
         /\ best \in Entries /\ HasKey(best.tokens) /\ Place(best.tokens) = p
<1> DEFINE key == best.tokens
           rest == Without(key)
<1>1. entries \in Seq(Entries) /\ Distinct /\ bytes = TotalBytes(entries) /\ best \in Entries
  BY DEF PrefixInv, TypeOK, BytesExact
<1>2. HasKey(key)
  BY DEF HasKey
<1>3. Place(key) = p
  BY <1>1, <1>2, PlaceFacts DEF Distinct, DistinctIn
<1>4. /\ rest \in Seq(Entries) /\ DistinctIn(rest)
      /\ \A i \in 1 .. Len(rest) : rest[i].tokens # key
  BY <1>1, WithoutFacts, WithoutDistinct
<1>5. TotalBytes(rest) = bytes - best.nbytes
  BY <1>2, <1>3, BytesPopped DEF BytesWithout, EntryOf
<1>6. Touched(best) = Append(rest, best)
  BY DEF Touched
<1>7. bytes \in Nat /\ best.nbytes \in Nat
  <2>1. bytes \in Nat
    BY PrefixAssumption DEF PrefixInv, TypeOK, PrefixAssumption
  <2>2. QED
    BY <1>1, <2>1, PrefixAssumption DEF Entries, PrefixAssumption
<1> HIDE DEF rest
<1>8. /\ Append(rest, best) \in Seq(Entries) /\ DistinctIn(Append(rest, best))
      /\ TotalBytes(Append(rest, best)) = TotalBytes(rest) + best.nbytes
  BY <1>1, <1>4, BytesAppended, AppendDistinct
<1>9. QED
  BY <1>1, <1>2, <1>3, <1>5, <1>6, <1>7, <1>8

LEMMA LookupStep ==
  ASSUME PrefixInv, NEW query \in Queries, NEW least \in MinShareds, Lookup(query, least)
  PROVE  PrefixInv'
<1> DEFINE best == BestMatch(query, least)
<1>1. bytes' = bytes /\ generation' = generation
  BY DEF Lookup
<1>2. entries \in Seq(Entries) /\ bytes \in 0 .. ByteBudget /\ generation \in Nat
      /\ DistinctIn(entries) /\ bytes = TotalBytes(entries) /\ bytes <= ByteBudget
  BY DEF PrefixInv, TypeOK, Distinct, BytesExact
<1>3. CASE best = None
  <2>1. entries' = entries /\ answer' = None
    BY <1>3 DEF Lookup
  <2>2. QED
    BY <1>1, <1>2, <2>1 DEF PrefixInv, TypeOK, Distinct, DistinctIn, BytesExact, TotalBytes, Nbytes
<1>4. CASE best # None
  <2>1. entries' = Touched(best) /\ answer' = [tokens |-> best.tokens, payload |-> best.payload]
    BY <1>4 DEF Lookup
  <2>2. PICK p \in 1 .. Len(entries) : best = entries[p]
    BY <1>2, <1>4, BestMatchFacts
  <2> HIDE DEF best
  <2>3. /\ Touched(best) \in Seq(Entries) /\ DistinctIn(Touched(best))
        /\ TotalBytes(Touched(best)) = TotalBytes(entries) /\ best \in Entries
    BY <2>2, TouchKeeps
  <2>4. TypeOK'
    BY <1>1, <1>2, <2>1, <2>3 DEF TypeOK, Entries
  <2>5. Distinct' /\ BytesExact'
    BY <1>1, <1>2, <2>1, <2>3 DEF Distinct, DistinctIn, BytesExact, TotalBytes, Nbytes
  <2>6. QED
    BY <2>4, <2>5 DEF PrefixInv
<1>5. QED
  BY <1>3, <1>4

\* The empty store: no entries and no bytes.
LEMMA EmptyStore == <<>> \in Seq(Entries) /\ DistinctIn(<<>>) /\ TotalBytes(<<>>) = 0
<1>1. TotalBytes(<<>>) = SumFunctionOnSet(Nbytes(<<>>), 1 .. 0)
  <2>1. PICK es : es = <<>> /\ es \in Seq(Entries) /\ Len(es) = 0
    <3>1. <<>> \in Seq(Entries) /\ Len(<<>>) = 0
      OBVIOUS
    <3>2. QED
      BY <3>1
  <2>2. TotalBytes(es) = SumFunctionOnSet(Nbytes(es), 1 .. Len(es))
    BY <2>1, BytesAreNat
  <2>3. QED
    BY <2>1, <2>2
<1>2. 1 .. 0 = {}
  OBVIOUS
<1>3. SumFunctionOnSet(Nbytes(<<>>), {}) = 0
  BY FS_EmptySet, SumTurn
<1>4. QED
  BY <1>1, <1>2, <1>3 DEF DistinctIn

LEMMA PrefixInvInit == Init => PrefixInv
<1> SUFFICES ASSUME Init PROVE PrefixInv
  OBVIOUS
<1>1. entries = <<>> /\ bytes = 0 /\ generation = 0 /\ answer = None
  BY DEF Init
<1>2. ByteBudget \in Nat
  BY PrefixAssumption DEF PrefixAssumption
<1>3. QED
  BY <1>1, <1>2, EmptyStore DEF PrefixInv, TypeOK, Distinct, BytesExact

LEMMA PrefixInvStep == PrefixInv /\ [Next]_vars => PrefixInv'
<1> SUFFICES ASSUME PrefixInv, [Next]_vars PROVE PrefixInv'
  OBVIOUS
<1>1. ASSUME NEW k \in Keys, NEW p \in Payloads, NEW n \in Sizes, Put(k, p, n) PROVE PrefixInv'
  BY <1>1, PutStep
<1>2. ASSUME NEW n \in Sizes, PutRejected(n) PROVE PrefixInv'
  BY <1>2 DEF PutRejected, PrefixInv, TypeOK, Distinct, DistinctIn, BytesExact, TotalBytes, Nbytes
<1>3. ASSUME NEW q \in Queries, NEW m \in MinShareds, Lookup(q, m) PROVE PrefixInv'
  BY <1>3, LookupStep
<1>4. CASE Invalidate
  <2>1. /\ entries' = <<>> /\ bytes' = 0 /\ generation' = generation + 1 /\ answer' = None
        /\ generation \in Nat
    BY <1>4 DEF Invalidate, PrefixInv, TypeOK
  <2>2. ByteBudget \in Nat
    BY PrefixAssumption DEF PrefixAssumption
  <2>3. TypeOK' /\ Distinct'
    BY <2>1, <2>2, EmptyStore DEF TypeOK, Distinct, DistinctIn
  <2>4. BytesExact'
    BY <2>1, <2>2, EmptyStore DEF BytesExact, TotalBytes, Nbytes
  <2>5. QED
    BY <2>3, <2>4 DEF PrefixInv
<1>5. CASE UNCHANGED vars
  BY <1>5 DEF vars, PrefixInv, TypeOK, Distinct, DistinctIn, BytesExact, TotalBytes, Nbytes
<1>6. QED
  BY <1>1, <1>2, <1>3, <1>4, <1>5 DEF Next

\* The store holds well formed snapshots and its counters stay in their ranges,
\* whatever calls are made (prefix.py, PrefixSnapshotStore).
THEOREM PrefixTypeCorrect == Spec => []TypeOK
<1>1. PrefixInv => TypeOK
  BY DEF PrefixInv
<1>2. QED
  BY <1>1, PrefixInvInit, PrefixInvStep, PTL DEF Spec

\* _bytes is the sum of the snapshots' sizes and within the budget, after any
\* sequence of put, lookup and invalidate (prefix.py:50-72): it holds because a
\* sequence has one entry only, so that replacing it gives back what it took.
THEOREM BytesAreExact == Spec => []BytesExact
<1>1. PrefixInv => BytesExact
  BY DEF PrefixInv
<1>2. QED
  BY <1>1, PrefixInvInit, PrefixInvStep, PTL DEF Spec

-----------------------------------------------------------------------------
\* The cache that a list of entries stands for.

KeysOf(es) == {es[i].tokens : i \in 1 .. Len(es)}

SnapshotsOf(es) ==
    [k \in KeysOf(es) |->
       LET p == CHOOSE i \in 1 .. Len(es) : es[i].tokens = k
       IN  [payload |-> es[p].payload, nbytes |-> es[p].nbytes]]

OrderOf(es) ==
    {pair \in Keys \X Keys :
        \E i, j \in 1 .. Len(es) : i < j /\ pair = <<es[i].tokens, es[j].tokens>>}

LEMMA Abstraction ==
  /\ Snapshots = SnapshotsOf(entries) /\ Snapshots' = SnapshotsOf(entries')
  /\ UsedBefore = OrderOf(entries) /\ UsedBefore' = OrderOf(entries')
  BY DEF Snapshots, UsedBefore, SnapshotsOf, OrderOf, KeysOf, EntryOf, Place

\* A stored sequence is looked up at its own entry.
LEMMA SnapshotsFacts ==
  ASSUME NEW es \in Seq(Entries), DistinctIn(es)
  PROVE  /\ DOMAIN SnapshotsOf(es) = KeysOf(es) /\ KeysOf(es) \subseteq Keys
         /\ SnapshotsOf(es) = [k \in KeysOf(es) |-> SnapshotsOf(es)[k]]
         /\ \A i \in 1 .. Len(es) :
              /\ es[i].tokens \in KeysOf(es)
              /\ SnapshotsOf(es)[es[i].tokens] = [payload |-> es[i].payload, nbytes |-> es[i].nbytes]
<1>1. \A i \in 1 .. Len(es) : es[i] \in Entries /\ es[i].tokens \in KeysOf(es)
  BY DEF KeysOf
<1>2. KeysOf(es) \subseteq Keys
  BY <1>1 DEF KeysOf, Entries
<1>3. DOMAIN SnapshotsOf(es) = KeysOf(es) /\ SnapshotsOf(es) = [k \in KeysOf(es) |-> SnapshotsOf(es)[k]]
  BY DEF SnapshotsOf
<1>4. ASSUME NEW i \in 1 .. Len(es)
      PROVE  SnapshotsOf(es)[es[i].tokens] = [payload |-> es[i].payload, nbytes |-> es[i].nbytes]
  <2> DEFINE p == CHOOSE j \in 1 .. Len(es) : es[j].tokens = es[i].tokens
  <2>1. p \in 1 .. Len(es) /\ es[p].tokens = es[i].tokens
    OBVIOUS
  <2>2. p = i
    BY <2>1 DEF DistinctIn
  <2>3. SnapshotsOf(es)[es[i].tokens] = [payload |-> es[p].payload, nbytes |-> es[p].nbytes]
    BY <1>1 DEF SnapshotsOf
  <2>4. QED
    BY <2>2, <2>3
<1>5. QED
  BY <1>1, <1>2, <1>3, <1>4

\* The order is that of the positions.
LEMMA OrderFacts ==
  ASSUME NEW es \in Seq(Entries), DistinctIn(es),
         NEW i \in 1 .. Len(es), NEW j \in 1 .. Len(es)
  PROVE  <<es[i].tokens, es[j].tokens>> \in OrderOf(es) <=> i < j
<1>1. es[i].tokens \in Keys /\ es[j].tokens \in Keys
  BY SnapshotsFacts
<1>2. \A x, y \in 1 .. Len(es) :
        <<es[i].tokens, es[j].tokens>> = <<es[x].tokens, es[y].tokens>> => x = i /\ y = j
  BY DEF DistinctIn
<1>3. QED
  BY <1>1, <1>2 DEF OrderOf

\* A selection of the entries, in their order: the cache restricted to them.
LEMMA SelectionFacts ==
  ASSUME NEW es \in Seq(Entries), DistinctIn(es), NEW fs \in Seq(Entries),
         NEW at \in [1 .. Len(fs) -> 1 .. Len(es)],
         \A i \in 1 .. Len(fs) : fs[i] = es[at[i]],
         \A i, j \in 1 .. Len(fs) : i < j <=> at[i] < at[j]
  PROVE  /\ DistinctIn(fs) /\ KeysOf(fs) \subseteq KeysOf(es)
         /\ \A k \in KeysOf(fs) : SnapshotsOf(fs)[k] = SnapshotsOf(es)[k]
         /\ OrderOf(fs) = OrderOf(es) \cap (KeysOf(fs) \X KeysOf(fs))
<1> DEFINE P == 1 .. Len(fs)
           Q == 1 .. Len(es)
<1>1. (\A i \in P : i \in Int) /\ (\A i \in Q : i \in Int)
  OBVIOUS
<1>2. /\ \A i \in P : at[i] \in Q /\ fs[i] = es[at[i]]
      /\ \A i, j \in P : i < j <=> at[i] < at[j]
  OBVIOUS
<1> HIDE DEF P, Q
<1>3. \A i, j \in P : at[i] = at[j] => i = j
  BY <1>1, <1>2
<1>4. DistinctIn(fs)
  BY <1>2, <1>3 DEF DistinctIn, P, Q
<1>5. KeysOf(fs) \subseteq KeysOf(es) /\ \A k \in KeysOf(fs) : \E i \in P : k = fs[i].tokens
  BY <1>2 DEF KeysOf, P, Q
<1>6. ASSUME NEW k \in KeysOf(fs) PROVE SnapshotsOf(fs)[k] = SnapshotsOf(es)[k]
  <2>1. PICK i \in P : k = fs[i].tokens
    BY <1>5
  <2>2. SnapshotsOf(fs)[k] = [payload |-> fs[i].payload, nbytes |-> fs[i].nbytes]
    BY <1>4, <2>1, SnapshotsFacts DEF P
  <2>3. SnapshotsOf(es)[es[at[i]].tokens]
          = [payload |-> es[at[i]].payload, nbytes |-> es[at[i]].nbytes]
    BY <1>2, SnapshotsFacts DEF Q
  <2>4. QED
    BY <1>2, <2>1, <2>2, <2>3
<1>7. ASSUME NEW i \in P, NEW j \in P
      PROVE  <<fs[i].tokens, fs[j].tokens>> \in OrderOf(fs)
               <=> <<fs[i].tokens, fs[j].tokens>> \in OrderOf(es)
  <2>1. <<fs[i].tokens, fs[j].tokens>> \in OrderOf(fs) <=> i < j
    BY <1>4, OrderFacts DEF P
  <2>2. <<es[at[i]].tokens, es[at[j]].tokens>> \in OrderOf(es) <=> at[i] < at[j]
    BY <1>2, OrderFacts DEF Q
  <2>3. QED
    BY <1>2, <2>1, <2>2
<1>8. \A pair \in OrderOf(fs) : \E i, j \in P : pair = <<fs[i].tokens, fs[j].tokens>>
  BY DEF OrderOf, P
<1>9. ASSUME NEW pair PROVE pair \in OrderOf(fs) <=> pair \in OrderOf(es) /\ pair \in KeysOf(fs) \X KeysOf(fs)
  <2>1. ASSUME pair \in OrderOf(fs)
        PROVE  pair \in OrderOf(es) /\ pair \in KeysOf(fs) \X KeysOf(fs)
    <3>1. PICK i \in P, j \in P : pair = <<fs[i].tokens, fs[j].tokens>>
      BY <1>8, <2>1
    <3>2. fs[i].tokens \in KeysOf(fs) /\ fs[j].tokens \in KeysOf(fs)
      BY DEF KeysOf, P
    <3>3. QED
      BY <1>7, <2>1, <3>1, <3>2
  <2>2. ASSUME pair \in OrderOf(es), pair \in KeysOf(fs) \X KeysOf(fs)
        PROVE  pair \in OrderOf(fs)
    <3>1. PICK k \in KeysOf(fs), l \in KeysOf(fs) : pair = <<k, l>>
      BY <2>2
    <3>2. PICK i \in P, j \in P : pair = <<fs[i].tokens, fs[j].tokens>>
      BY <1>5, <3>1
    <3>3. QED
      BY <1>7, <2>2, <3>2
  <2>3. QED
    BY <2>1, <2>2
<1>10. QED
  BY <1>4, <1>5, <1>6, <1>9

\* A new entry at the end: one more sequence, younger than all the others.
LEMMA AppendedFacts ==
  ASSUME NEW es \in Seq(Entries), DistinctIn(es), NEW e \in Entries, e.tokens \notin KeysOf(es)
  PROVE  /\ SnapshotsOf(Append(es, e)) =
              [k \in KeysOf(es) \cup {e.tokens} |->
                 IF k = e.tokens THEN [payload |-> e.payload, nbytes |-> e.nbytes]
                                 ELSE SnapshotsOf(es)[k]]
         /\ OrderOf(Append(es, e)) = OrderOf(es) \cup (KeysOf(es) \X {e.tokens})
<1> DEFINE new == Append(es, e)
           N == Len(es)
           key == e.tokens
<1>1. /\ new \in Seq(Entries) /\ Len(new) = N + 1 /\ N \in Nat
      /\ new[N + 1] = e /\ \A i \in 1 .. N : new[i] = es[i]
  BY AppendProperties
<1>2. /\ \A i \in 1 .. Len(new) : i \in 1 .. N \/ i = N + 1
      /\ \A i \in 1 .. N : i \in 1 .. Len(new) /\ i < N + 1
      /\ N + 1 \in 1 .. Len(new)
  BY <1>1
<1> HIDE DEF new
<1>3. DistinctIn(new)
  <2>1. \A i \in 1 .. N : es[i].tokens # key
    BY DEF KeysOf
  <2>2. QED
    BY <2>1, AppendDistinct DEF new
<1>4. KeysOf(new) = KeysOf(es) \cup {key}
  BY <1>1, <1>2 DEF KeysOf
<1>5. ASSUME NEW k \in KeysOf(new)
      PROVE  SnapshotsOf(new)[k] = IF k = key THEN [payload |-> e.payload, nbytes |-> e.nbytes]
                                             ELSE SnapshotsOf(es)[k]
  <2>1. CASE k = key
    BY <1>1, <1>2, <1>3, <2>1, SnapshotsFacts
  <2>2. CASE k # key
    <3>1. PICK i \in 1 .. N : k = es[i].tokens
      BY <1>4, <2>2 DEF KeysOf
    <3>2. new[i] = es[i] /\ i \in 1 .. Len(new)
      BY <1>1, <1>2
    <3>3. SnapshotsOf(new)[k] = [payload |-> new[i].payload, nbytes |-> new[i].nbytes]
      BY <1>1, <1>3, <3>1, <3>2, SnapshotsFacts
    <3>4. SnapshotsOf(es)[k] = [payload |-> es[i].payload, nbytes |-> es[i].nbytes]
      BY <3>1, SnapshotsFacts
    <3>5. QED
      BY <2>2, <3>2, <3>3, <3>4
  <2>3. QED
    BY <2>1, <2>2
<1>6. SnapshotsOf(new) = [k \in KeysOf(new) |-> SnapshotsOf(new)[k]]
  BY <1>1, <1>3, SnapshotsFacts
<1>7. SnapshotsOf(new) = [k \in KeysOf(es) \cup {key} |->
                            IF k = key THEN [payload |-> e.payload, nbytes |-> e.nbytes]
                                       ELSE SnapshotsOf(es)[k]]
  BY <1>4, <1>5, <1>6
<1>8. ASSUME NEW pair PROVE pair \in OrderOf(new) <=> pair \in OrderOf(es) \/ pair \in KeysOf(es) \X {key}
  <2>1. ASSUME pair \in OrderOf(new) PROVE pair \in OrderOf(es) \/ pair \in KeysOf(es) \X {key}
    <3>1. PICK i \in 1 .. Len(new), j \in 1 .. Len(new) :
            i < j /\ pair = <<new[i].tokens, new[j].tokens>>
      BY <2>1 DEF OrderOf
    <3>2. i \in 1 .. N /\ new[i] = es[i]
      BY <1>1, <1>2, <3>1
    <3>3. CASE j = N + 1
      BY <1>1, <3>1, <3>2, <3>3 DEF KeysOf
    <3>4. CASE j \in 1 .. N
      BY <1>1, <2>1, <3>1, <3>2, <3>4 DEF OrderOf
    <3>5. QED
      BY <1>2, <3>3, <3>4
  <2>2. ASSUME pair \in OrderOf(es) PROVE pair \in OrderOf(new)
    <3>1. PICK i \in 1 .. N, j \in 1 .. N : i < j /\ pair = <<es[i].tokens, es[j].tokens>>
      BY <2>2 DEF OrderOf
    <3>2. QED
      BY <1>1, <1>2, <2>2, <3>1 DEF OrderOf
  <2>3. ASSUME pair \in KeysOf(es) \X {key} PROVE pair \in OrderOf(new)
    <3>1. PICK i \in 1 .. N : pair = <<es[i].tokens, key>>
      BY <2>3 DEF KeysOf
    <3>2. pair = <<new[i].tokens, new[N + 1].tokens>> /\ i \in 1 .. Len(new) /\ i < N + 1
      BY <1>1, <1>2, <3>1
    <3>3. QED
      BY <1>1, <1>2, <1>3, <3>2, OrderFacts
  <2>4. QED
    BY <2>1, <2>2, <2>3
<1>9. QED
  BY <1>7, <1>8 DEF new

\* The cache without one sequence is what is left when its entry is popped.
LEMMA RestFacts ==
  ASSUME entries \in Seq(Entries), Distinct, NEW key
  PROVE  LET rest == Without(key)
         IN  /\ rest \in Seq(Entries) /\ DistinctIn(rest)
             /\ KeysOf(rest) = KeysOf(entries) \ {key}
             /\ \A k \in KeysOf(rest) : SnapshotsOf(rest)[k] = SnapshotsOf(entries)[k]
             /\ OrderOf(rest) = OrderOf(entries) \cap (KeysOf(rest) \X KeysOf(rest))
<1> DEFINE rest == Without(key)
<1>1. /\ rest \in Seq(Entries)
      /\ \A i \in 1 .. Len(rest) : /\ Before(key)[i] \in 1 .. Len(entries)
                                   /\ rest[i] = entries[Before(key)[i]] /\ rest[i].tokens # key
      /\ \A p \in 1 .. Len(entries) : entries[p].tokens # key =>
           \E i \in 1 .. Len(rest) : Before(key)[i] = p
      /\ \A i, j \in 1 .. Len(rest) : i < j <=> Before(key)[i] < Before(key)[j]
  BY WithoutFacts
<1>2. DistinctIn(entries)
  BY DEF Distinct
<1> HIDE DEF rest
<1>3. /\ DistinctIn(rest) /\ KeysOf(rest) \subseteq KeysOf(entries)
      /\ \A k \in KeysOf(rest) : SnapshotsOf(rest)[k] = SnapshotsOf(entries)[k]
      /\ OrderOf(rest) = OrderOf(entries) \cap (KeysOf(rest) \X KeysOf(rest))
  <2> DEFINE at == [i \in 1 .. Len(rest) |-> Before(key)[i]]
  <2>1. /\ at \in [1 .. Len(rest) -> 1 .. Len(entries)]
        /\ \A i \in 1 .. Len(rest) : at[i] = Before(key)[i]
    BY <1>1
  <2> HIDE DEF at
  <2>2. /\ \A i \in 1 .. Len(rest) : rest[i] = entries[at[i]]
        /\ \A i, j \in 1 .. Len(rest) : i < j <=> at[i] < at[j]
    BY <1>1, <2>1
  <2>3. QED
    BY <1>1, <1>2, <2>1, <2>2, SelectionFacts
<1>4. key \notin KeysOf(rest)
  BY <1>1 DEF KeysOf
<1>5. ASSUME NEW k \in KeysOf(entries), k # key PROVE k \in KeysOf(rest)
  <2>1. PICK p \in 1 .. Len(entries) : entries[p].tokens = k
    BY DEF KeysOf
  <2>2. PICK i \in 1 .. Len(rest) : Before(key)[i] = p
    BY <1>1, <1>5, <2>1
  <2>3. QED
    BY <1>1, <2>1, <2>2 DEF KeysOf
<1>6. QED
  BY <1>1, <1>3, <1>4, <1>5 DEF rest

\* Both modules sum with the same operator.
LEMMA SameSum == \A f, S : Cache!SumFunctionOnSet(f, S) = SumFunctionOnSet(f, S)
  BY DEF Cache!SumFunctionOnSet, SumFunctionOnSet, Cache!FoldFunctionOnSet, FoldFunctionOnSet,
         Cache!MapThenFoldSet, MapThenFoldSet

\* A sequence and the younger ones, but for the published one: the entries from
\* its place on, and their bytes.
LEMMA SizeSince ==
  ASSUME PrefixInv, NEW key, NEW i \in 1 .. Len(Without(key))
  PROVE  Cache!SizeOf(Cache!Since(Without(key)[i].tokens) \ {key})
           = TotalBytes(Without(key)) - OldestBytes(Without(key), i - 1)
<1> DEFINE rest == Without(key)
           N == Len(rest)
           P == i .. N
           k == rest[i].tokens
           younger == Cache!Since(k) \ {key}
           sizes == [l \in DOMAIN Snapshots |-> Snapshots[l].nbytes]
<1>1. entries \in Seq(Entries) /\ Distinct /\ DistinctIn(entries)
  BY DEF PrefixInv, TypeOK, Distinct
<1>2. /\ rest \in Seq(Entries) /\ DistinctIn(rest)
      /\ KeysOf(rest) = KeysOf(entries) \ {key}
      /\ \A l \in KeysOf(rest) : SnapshotsOf(rest)[l] = SnapshotsOf(entries)[l]
      /\ OrderOf(rest) = OrderOf(entries) \cap (KeysOf(rest) \X KeysOf(rest))
  BY <1>1, RestFacts
<1>3. N \in Nat /\ i \in Int /\ i \in P /\ \A j \in P : j \in 1 .. N /\ (j = i \/ i < j)
  BY <1>2
<1>4. DOMAIN Snapshots = KeysOf(entries) /\ Snapshots = SnapshotsOf(entries) /\ UsedBefore = OrderOf(entries)
  BY <1>1, Abstraction, SnapshotsFacts
<1>5. Cache!Stored = DOMAIN Snapshots /\ Cache!Since(k) = {k} \cup {l \in KeysOf(entries) : <<k, l>> \in OrderOf(entries)}
  BY <1>4 DEF Cache!Stored, Cache!Since
<1>6. Cache!SizeOf(younger) = SumFunctionOnSet(sizes, younger)
  BY <1>5, SameSum DEF Cache!SizeOf
<1> HIDE DEF rest, N, sizes
<1>7. \A j \in 1 .. N : rest[j].tokens \in KeysOf(rest)
  BY DEF KeysOf, N
<1>8. younger = {rest[j].tokens : j \in P}
  <2>1. ASSUME NEW j \in P PROVE rest[j].tokens \in younger
    <3>1. rest[j].tokens \in KeysOf(entries) /\ rest[j].tokens # key /\ j \in 1 .. N
      BY <1>2, <1>3, <1>7
    <3>2. CASE j = i
      BY <1>5, <3>1, <3>2
    <3>3. CASE i < j
      <4>1. <<k, rest[j].tokens>> \in OrderOf(rest)
        BY <1>2, <1>3, <3>1, <3>3, OrderFacts DEF N
      <4>2. QED
        BY <1>2, <1>5, <3>1, <4>1
    <3>4. QED
      BY <1>3, <3>2, <3>3
  <2>2. ASSUME NEW l \in younger PROVE \E j \in P : l = rest[j].tokens
    <3>1. CASE l = k
      BY <1>3, <3>1
    <3>2. CASE l # k
      <4>1. l \in KeysOf(rest) /\ <<k, l>> \in OrderOf(rest)
        <5>1. l \in KeysOf(entries) /\ <<k, l>> \in OrderOf(entries) /\ l # key
          BY <1>5, <2>2, <3>2
        <5>2. k \in KeysOf(rest)
          BY <1>3, <1>7
        <5>3. QED
          BY <1>2, <5>1, <5>2
      <4>2. PICK j \in 1 .. N : l = rest[j].tokens
        BY <4>1 DEF KeysOf, N
      <4>3. i < j
        BY <1>2, <1>3, <4>1, <4>2, OrderFacts DEF N
      <4>4. j \in P
        BY <1>3, <4>3
      <4>5. QED
        BY <4>2, <4>4
    <3>3. QED
      BY <3>1, <3>2
  <2> HIDE DEF younger, P
  <2>3. QED
    BY <2>1, <2>2
<1> HIDE DEF younger
<1>9. SumFunctionOnSet(Nbytes(rest), P) = SumFunctionOnSet(sizes, younger)
  <2> DEFINE at == [j \in P |-> rest[j].tokens]
  <2>1. \A x, y \in P : rest[x].tokens = rest[y].tokens => x = y
    BY <1>2, <1>3 DEF DistinctIn, N
  <2>2. at \in Bijection(P, younger) /\ \A j \in P : at[j] = rest[j].tokens
    <3> HIDE DEF P
    <3>1. QED
      BY <1>8, <2>1 DEF Bijection, Injection, Surjection, IsInjective
  <2> HIDE DEF at
  <2>3. IsFiniteSet(P)
    BY <1>3, FS_Interval
  <2>4. PICK f : f = Nbytes(rest)
    OBVIOUS
  <2>5. ASSUME NEW j \in P PROVE f[j] \in Int /\ f[j] = sizes[at[j]]
    <3>1. j \in 1 .. N
      BY <1>3
    <3>2. f[j] = rest[j].nbytes /\ f[j] \in Nat
      BY <1>2, <2>4, <3>1, BytesAreNat DEF N
    <3>3. rest[j].tokens \in KeysOf(rest)
      BY <1>7, <3>1
    <3>4. SnapshotsOf(rest)[rest[j].tokens] = [payload |-> rest[j].payload, nbytes |-> rest[j].nbytes]
      BY <1>2, <3>1, SnapshotsFacts DEF N
    <3>5. sizes[rest[j].tokens] = rest[j].nbytes
      BY <1>2, <1>4, <3>3, <3>4 DEF sizes
    <3>6. QED
      BY <2>2, <3>2, <3>5
  <2> HIDE DEF P
  <2>6. SumFunctionOnSet(f, P) = SumFunctionOnSet(sizes, younger)
    BY <2>2, <2>3, <2>5, SumRenamed
  <2>7. QED
    BY <2>4, <2>6
<1>10. SumFunctionOnSet(Nbytes(rest), P) = TotalBytes(rest) - OldestBytes(rest, i - 1)
  <2>1. i - 1 \in 0 .. Len(rest) /\ (i - 1) + 1 = i
    BY <1>3 DEF N
  <2>2. PICK m \in 0 .. Len(rest) : m = i - 1
    BY <2>1
  <2>3. /\ OldestBytes(rest, m) \in Nat
        /\ TotalBytes(PopOldest(rest, m)) = SumFunctionOnSet(Nbytes(rest), m + 1 .. Len(rest))
        /\ TotalBytes(rest) = OldestBytes(rest, m) + TotalBytes(PopOldest(rest, m))
        /\ PopOldest(rest, m) \in Seq(Entries)
    BY <1>2, <2>2, BytesSplit
  <2>4. TotalBytes(PopOldest(rest, m)) \in Nat
    BY <2>3, BytesAreNat
  <2>5. m + 1 .. Len(rest) = P
    BY <2>1, <2>2 DEF N
  <2>6. QED
    BY <2>2, <2>3, <2>4, <2>5
<1>11. QED
  BY <1>6, <1>9, <1>10 DEF younger, rest

\* What put keeps is what the cache keeps.
LEMMA SurvivorsKept ==
  ASSUME PrefixInv, NEW key \in Keys, NEW nbytes \in Sizes, nbytes <= ByteBudget
  PROVE  LET rest == Without(key)
             n    == Evictions(rest, BytesWithout(key), nbytes)
             kept == PopOldest(rest, n)
         IN  /\ kept \in Seq(Entries) /\ DistinctIn(kept)
             /\ KeysOf(kept) = Cache!Survivors(key, nbytes)
             /\ \A k \in KeysOf(kept) : SnapshotsOf(kept)[k] = Snapshots[k]
             /\ OrderOf(kept) = UsedBefore \cap (KeysOf(kept) \X KeysOf(kept))
<1> DEFINE rest == Without(key)
           n    == Evictions(rest, BytesWithout(key), nbytes)
           kept == PopOldest(rest, n)
           N == Len(rest)
           Room(k) == Cache!SizeOf(Cache!Since(k) \ {key}) + nbytes <= ByteBudget
<1>1. entries \in Seq(Entries) /\ Distinct /\ DistinctIn(entries)
  BY DEF PrefixInv, TypeOK, Distinct
<1>2. /\ rest \in Seq(Entries) /\ DistinctIn(rest)
      /\ KeysOf(rest) = KeysOf(entries) \ {key}
      /\ \A k \in KeysOf(rest) : SnapshotsOf(rest)[k] = SnapshotsOf(entries)[k]
      /\ OrderOf(rest) = OrderOf(entries) \cap (KeysOf(rest) \X KeysOf(rest))
  BY <1>1, RestFacts
<1>3. BytesWithout(key) = TotalBytes(rest) /\ nbytes \in Nat
  BY BytesPopped, PrefixAssumption DEF PrefixAssumption
<1>4. /\ n \in 0 .. N
      /\ \A m \in 0 .. N : m >= n <=> TotalBytes(rest) - OldestBytes(rest, m) + nbytes <= ByteBudget
  <2> HIDE DEF rest
  <2>1. QED
    BY <1>2, <1>3, EvictionsFacts
<1>5. \A i \in 1 .. N : Cache!SizeOf(Cache!Since(rest[i].tokens) \ {key})
                          = TotalBytes(rest) - OldestBytes(rest, i - 1)
  BY SizeSince
<1> HIDE DEF rest
<1>6. N \in Nat /\ n \in Int
  BY <1>2, <1>4
<1> HIDE DEF n
<1>7. /\ kept \in Seq(Entries) /\ Len(kept) = N - n
      /\ \A i \in 1 .. N - n : kept[i] = rest[n + i]
  BY <1>2, <1>4, BytesSplit
<1> HIDE DEF kept, N
<1>8. ASSUME NEW i \in 1 .. N PROVE Room(rest[i].tokens) <=> i > n
  <2>1. i - 1 \in 0 .. N /\ (i - 1 >= n <=> i > n)
    BY <1>6
  <2>2. QED
    BY <1>4, <1>5, <2>1
<1>9. /\ DistinctIn(kept) /\ KeysOf(kept) \subseteq KeysOf(rest)
      /\ \A k \in KeysOf(kept) : SnapshotsOf(kept)[k] = SnapshotsOf(rest)[k]
      /\ OrderOf(kept) = OrderOf(rest) \cap (KeysOf(kept) \X KeysOf(kept))
  <2> DEFINE at == [i \in 1 .. Len(kept) |-> n + i]
  <2>1. \A i \in 1 .. Len(kept) : i \in Int /\ n + i \in 1 .. Len(rest) /\ kept[i] = rest[n + i]
    BY <1>4, <1>6, <1>7 DEF N
  <2>2. at \in [1 .. Len(kept) -> 1 .. Len(rest)] /\ \A i \in 1 .. Len(kept) : at[i] = n + i
    BY <2>1
  <2> HIDE DEF at
  <2>3. /\ \A i \in 1 .. Len(kept) : kept[i] = rest[at[i]]
        /\ \A i, j \in 1 .. Len(kept) : i < j <=> at[i] < at[j]
    BY <1>6, <2>1, <2>2
  <2>4. QED
    BY <1>2, <1>7, <2>2, <2>3, SelectionFacts
<1>10. ASSUME NEW i \in 1 .. N PROVE rest[i].tokens \in KeysOf(kept) <=> i > n
  <2>1. ASSUME i > n PROVE rest[i].tokens \in KeysOf(kept)
    <3>1. i - n \in 1 .. N - n /\ n + (i - n) = i
      BY <1>6, <2>1
    <3>2. kept[i - n] = rest[i]
      BY <1>7, <3>1
    <3>3. QED
      BY <1>7, <3>1, <3>2 DEF KeysOf
  <2>2. ASSUME rest[i].tokens \in KeysOf(kept) PROVE i > n
    <3>1. PICK j \in 1 .. N - n : rest[i].tokens = kept[j].tokens
      BY <1>7, <2>2 DEF KeysOf
    <3>2. n + j \in 1 .. N /\ n + j > n /\ kept[j] = rest[n + j]
      BY <1>4, <1>6, <1>7
    <3>3. i = n + j
      BY <1>2, <3>1, <3>2 DEF DistinctIn, N
    <3>4. QED
      BY <3>2, <3>3
  <2>3. QED
    BY <2>1, <2>2
<1>11. Snapshots = SnapshotsOf(entries) /\ UsedBefore = OrderOf(entries) /\ Cache!Stored = KeysOf(entries)
  BY <1>1, Abstraction, SnapshotsFacts DEF Cache!Stored
<1>12. Cache!Survivors(key, nbytes) = {k \in KeysOf(rest) : Room(k)}
  BY <1>2, <1>11 DEF Cache!Survivors
<1>13. \A k \in KeysOf(rest) : \E i \in 1 .. N : k = rest[i].tokens
  BY DEF KeysOf, N
<1>14. KeysOf(kept) = Cache!Survivors(key, nbytes)
  <2> HIDE DEF Room
  <2>1. QED
    BY <1>8, <1>9, <1>10, <1>12, <1>13
<1>15. OrderOf(kept) = OrderOf(entries) \cap (KeysOf(kept) \X KeysOf(kept))
  <2>1. KeysOf(kept) \X KeysOf(kept) \subseteq KeysOf(rest) \X KeysOf(rest)
    BY <1>9
  <2>2. QED
    BY <1>2, <1>9, <2>1
<1>16. \A k \in KeysOf(kept) : SnapshotsOf(kept)[k] = Snapshots[k]
  BY <1>2, <1>9, <1>11
<1>17. QED
  BY <1>7, <1>9, <1>11, <1>14, <1>15, <1>16 DEF kept, n, rest

-----------------------------------------------------------------------------
\* Every step is a step of the cache, or leaves it alone.

LEMMA PutRefines ==
  ASSUME PrefixInv, NEW key \in Keys, NEW payload \in Payloads, NEW nbytes \in Sizes,
         Put(key, payload, nbytes)
  PROVE  Cache!Put(key, payload, nbytes)
<1> DEFINE rest == Without(key)
           n    == Evictions(rest, BytesWithout(key), nbytes)
           kept == PopOldest(rest, n)
           new == [tokens |-> key, payload |-> payload, nbytes |-> nbytes]
<1>1. nbytes <= ByteBudget /\ entries' = Append(kept, new)
      /\ answer' = [tokens |-> key, payload |-> payload]
  BY DEF Put
<1>2. /\ kept \in Seq(Entries) /\ DistinctIn(kept)
      /\ KeysOf(kept) = Cache!Survivors(key, nbytes)
      /\ \A k \in KeysOf(kept) : SnapshotsOf(kept)[k] = Snapshots[k]
      /\ OrderOf(kept) = UsedBefore \cap (KeysOf(kept) \X KeysOf(kept))
  BY <1>1, SurvivorsKept
<1>3. new \in Entries /\ new.tokens = key /\ new.payload = payload /\ new.nbytes = nbytes
  BY DEF Entries
<1> HIDE DEF kept, new
<1>4. key \notin KeysOf(kept)
  BY <1>2 DEF Cache!Survivors
<1>5. /\ SnapshotsOf(entries') =
           [k \in KeysOf(kept) \cup {key} |->
              IF k = key THEN [payload |-> payload, nbytes |-> nbytes] ELSE SnapshotsOf(kept)[k]]
      /\ OrderOf(entries') = OrderOf(kept) \cup (KeysOf(kept) \X {key})
  <2>1. /\ SnapshotsOf(Append(kept, new)) =
             [k \in KeysOf(kept) \cup {new.tokens} |->
                IF k = new.tokens THEN [payload |-> new.payload, nbytes |-> new.nbytes]
                                  ELSE SnapshotsOf(kept)[k]]
        /\ OrderOf(Append(kept, new)) = OrderOf(kept) \cup (KeysOf(kept) \X {new.tokens})
    BY <1>2, <1>3, <1>4, AppendedFacts
  <2>2. QED
    BY <1>1, <1>3, <2>1
<1>6. Snapshots' = [k \in KeysOf(kept) \cup {key} |->
                      IF k = key THEN [payload |-> payload, nbytes |-> nbytes] ELSE Snapshots[k]]
  BY <1>2, <1>5, Abstraction
<1>7. UsedBefore' = (UsedBefore \cap (KeysOf(kept) \X KeysOf(kept))) \cup (KeysOf(kept) \X {key})
  BY <1>2, <1>5, Abstraction
<1>8. QED
  BY <1>1, <1>2, <1>6, <1>7 DEF Cache!Put

\* The comparison of a slice is that of the elements.
LEMMA SamePrefix ==
  ASSUME NEW s \in Seq(Nat), NEW q \in Seq(Nat)
  PROVE  IsPrefix(s, q) <=> Cache!IsPrefixOf(s, q)
<1> DEFINE n == Len(s)
<1>1. n \in Nat /\ Len(q) \in Nat
  OBVIOUS
<1>2. CASE n <= Len(q)
  <2>1. /\ \A i \in 1 .. n : s[i] \in Nat /\ q[i] \in Nat
        /\ (n - 1 + 1 = n) /\ \A i \in 1 .. n : 1 + i - 1 = i
    BY <1>1, <1>2
  <2>2. /\ SubSeq(s, 1, n) \in Seq(Nat) /\ Len(SubSeq(s, 1, n)) = n
        /\ \A i \in 1 .. n : SubSeq(s, 1, n)[i] = s[i]
    <3>1. /\ SubSeq(s, 1, n) \in Seq(Nat)
          /\ Len(SubSeq(s, 1, n)) = IF 1 <= n THEN n - 1 + 1 ELSE 0
          /\ \A i \in 1 .. n - 1 + 1 : SubSeq(s, 1, n)[i] = s[1 + i - 1]
      BY <1>1, <2>1, SubSeqProperties
    <3>2. QED
      BY <1>1, <2>1, <3>1
  <2>3. /\ SubSeq(q, 1, n) \in Seq(Nat) /\ Len(SubSeq(q, 1, n)) = n
        /\ \A i \in 1 .. n : SubSeq(q, 1, n)[i] = q[i]
    <3>1. /\ SubSeq(q, 1, n) \in Seq(Nat)
          /\ Len(SubSeq(q, 1, n)) = IF 1 <= n THEN n - 1 + 1 ELSE 0
          /\ \A i \in 1 .. n - 1 + 1 : SubSeq(q, 1, n)[i] = q[1 + i - 1]
      BY <1>1, <2>1, SubSeqProperties
    <3>2. QED
      BY <1>1, <2>1, <3>1
  <2>4. PICK a, b : a = SubSeq(s, 1, n) /\ b = SubSeq(q, 1, n)
    OBVIOUS
  <2>5. a = b <=> \A i \in 1 .. n : s[i] = q[i]
    <3>1. ASSUME a = b PROVE \A i \in 1 .. n : s[i] = q[i]
      BY <2>2, <2>3, <2>4, <3>1
    <3>2. ASSUME \A i \in 1 .. n : s[i] = q[i] PROVE a = b
      <4>1. a \in Seq(Nat) /\ b \in Seq(Nat) /\ Len(a) = Len(b) /\ \A i \in 1 .. Len(a) : a[i] = b[i]
        BY <2>2, <2>3, <2>4, <3>2
      <4>2. QED
        BY <4>1, SeqEqual
    <3>3. QED
      BY <3>1, <3>2
  <2>6. IsPrefix(s, q) <=> a = b
    BY <1>2, <2>4 DEF IsPrefix
  <2>7. QED
    BY <1>2, <2>5, <2>6 DEF Cache!IsPrefixOf
<1>3. CASE ~(n <= Len(q))
  BY <1>3 DEF IsPrefix, Cache!IsPrefixOf
<1>4. QED
  BY <1>2, <1>3

LEMMA LookupRefines ==
  ASSUME PrefixInv, NEW query \in Queries, NEW least \in MinShareds, Lookup(query, least)
  PROVE  Cache!Lookup(query, least)
<1> DEFINE best == BestMatch(query, least)
           N == Len(entries)
           Fit(i) == Matches(entries[i], query, least)
<1>1. entries \in Seq(Entries) /\ Distinct /\ DistinctIn(entries)
  BY DEF PrefixInv, TypeOK, Distinct
<1>2. /\ Snapshots = SnapshotsOf(entries) /\ Snapshots' = SnapshotsOf(entries')
      /\ UsedBefore = OrderOf(entries) /\ UsedBefore' = OrderOf(entries')
      /\ Cache!Stored = KeysOf(entries)
  BY <1>1, Abstraction, SnapshotsFacts DEF Cache!Stored
<1>3. ASSUME NEW i \in 1 .. N
      PROVE  /\ entries[i].tokens \in KeysOf(entries) /\ Len(entries[i].tokens) \in Nat
             /\ Fit(i) <=> entries[i].tokens \in Cache!Matching(query, least)
  <2>1. entries[i].tokens \in Keys /\ entries[i].tokens \in KeysOf(entries)
    BY <1>1, SnapshotsFacts
  <2>2. entries[i].tokens \in Seq(Nat) /\ query \in Seq(Nat)
    BY <2>1, PrefixAssumption DEF PrefixAssumption
  <2>3. IsPrefix(entries[i].tokens, query) <=> Cache!IsPrefixOf(entries[i].tokens, query)
    BY <2>2, SamePrefix
  <2>4. QED
    BY <1>2, <2>1, <2>2, <2>3 DEF Matches, Cache!Matching
<1>4. \A k \in Cache!Matching(query, least) : \E i \in 1 .. N : k = entries[i].tokens
  BY <1>2 DEF Cache!Matching, KeysOf
<1>5. \/ best = None /\ \A i \in 1 .. N : ~Fit(i)
      \/ \E p \in 1 .. N : /\ best = entries[p] /\ entries[p] # None /\ Fit(p)
                           /\ \A i \in 1 .. N : Fit(i) => Len(entries[i].tokens) <= Len(entries[p].tokens)
  BY <1>1, BestMatchFacts
<1>6. CASE best = None /\ \A i \in 1 .. N : ~Fit(i)
  <2>1. answer' = None /\ entries' = entries
    BY <1>6 DEF Lookup
  <2> HIDE DEF best, Fit, N
  <2>2. Cache!Matching(query, least) = {}
    BY <1>3, <1>4, <1>6
  <2>3. Snapshots' = Snapshots /\ UsedBefore' = UsedBefore
    BY <1>2, <2>1
  <2>4. QED
    BY <2>1, <2>2, <2>3 DEF Cache!Lookup
<1>7. ASSUME NEW p \in 1 .. N, best = entries[p], entries[p] # None, Fit(p),
             \A i \in 1 .. N : Fit(i) => Len(entries[i].tokens) <= Len(entries[p].tokens)
      PROVE  Cache!Lookup(query, least)
  <2> DEFINE key == best.tokens
             rest == Without(key)
  <2>1. /\ answer' = [tokens |-> best.tokens, payload |-> best.payload]
        /\ entries' = Append(rest, best)
    BY <1>7 DEF Lookup, Touched
  <2>2. best \in Entries
    BY <1>1, <1>7
  <2> HIDE DEF best, Fit
  <2>3. key \in Cache!Matching(query, least) /\ key \in KeysOf(entries)
        /\ \A l \in Cache!Matching(query, least) : Len(l) <= Len(key)
    <3> HIDE DEF N
    <3>1. QED
      BY <1>3, <1>4, <1>7
  <2>4. Snapshots[key] = [payload |-> best.payload, nbytes |-> best.nbytes]
    BY <1>1, <1>2, <1>7, SnapshotsFacts
  <2>5. /\ rest \in Seq(Entries) /\ DistinctIn(rest)
        /\ KeysOf(rest) = KeysOf(entries) \ {key}
        /\ \A k \in KeysOf(rest) : SnapshotsOf(rest)[k] = SnapshotsOf(entries)[k]
        /\ OrderOf(rest) = OrderOf(entries) \cap (KeysOf(rest) \X KeysOf(rest))
    BY <1>1, RestFacts
  <2> HIDE DEF rest
  <2>6. /\ SnapshotsOf(entries') =
             [k \in KeysOf(rest) \cup {key} |->
                IF k = key THEN [payload |-> best.payload, nbytes |-> best.nbytes]
                           ELSE SnapshotsOf(rest)[k]]
        /\ OrderOf(entries') = OrderOf(rest) \cup (KeysOf(rest) \X {key})
    <3>1. key \notin KeysOf(rest)
      BY <2>5
    <3>2. QED
      BY <2>1, <2>2, <2>5, <3>1, AppendedFacts
  <2>7. Snapshots' = Snapshots
    <3>1. Snapshots = [k \in KeysOf(entries) |-> Snapshots[k]]
      BY <1>1, <1>2, SnapshotsFacts
    <3>2. KeysOf(rest) \cup {key} = KeysOf(entries)
      BY <2>3, <2>5
    <3>3. Snapshots' = [k \in KeysOf(entries) |-> Snapshots[k]]
      BY <1>2, <2>4, <2>5, <2>6, <3>2
    <3>4. QED
      BY <3>1, <3>3
  <2>8. UsedBefore' = {pair \in UsedBefore : pair[1] # key} \cup ((Cache!Stored \ {key}) \X {key})
    <3> DEFINE others == KeysOf(rest)
               before == {pair \in UsedBefore : pair[1] # key}
    <3>1. UsedBefore' = (UsedBefore \cap (others \X others)) \cup (others \X {key})
      BY <1>2, <2>5, <2>6
    <3>2. others = Cache!Stored \ {key}
      BY <1>2, <2>5
    <3>3. \A pair \in UsedBefore : \E i, j \in 1 .. N : pair = <<entries[i].tokens, entries[j].tokens>>
      BY <1>2 DEF OrderOf
    <3>4. ASSUME NEW pair \in before PROVE pair \in others \X others \/ pair \in others \X {key}
      <4>1. PICK i \in 1 .. N, j \in 1 .. N : pair = <<entries[i].tokens, entries[j].tokens>>
        BY <3>3
      <4>2. entries[i].tokens # key
        BY <3>4, <4>1
      <4>3. entries[i].tokens \in others
        BY <1>3, <2>5, <4>2
      <4>4. entries[j].tokens \in others \/ entries[j].tokens = key
        BY <1>3, <2>5
      <4>5. QED
        BY <4>1, <4>3, <4>4
    <3>5. UsedBefore \cap (others \X others) \subseteq before
      BY <3>2
    <3>6. QED
      BY <3>1, <3>2, <3>4, <3>5
  <2>9. answer' = [tokens |-> key, payload |-> Snapshots[key].payload]
    BY <2>1, <2>4
  <2>10. QED
    BY <2>3, <2>7, <2>8, <2>9 DEF Cache!Lookup
<1>8. QED
  BY <1>5, <1>6, <1>7

LEMMA CacheInit == Init => Cache!Init
<1> SUFFICES ASSUME Init PROVE Cache!Init
  OBVIOUS
<1>1. entries = <<>> /\ answer = None /\ 1 .. Len(entries) = {}
  BY DEF Init
<1>2. Snapshots = <<>> /\ UsedBefore = {}
  BY <1>1 DEF Snapshots, UsedBefore
<1>3. QED
  BY <1>1, <1>2 DEF Cache!Init

LEMMA CacheStep == PrefixInv /\ [Next]_vars => [Cache!Next]_(Cache!vars)
<1> SUFFICES ASSUME PrefixInv, [Next]_vars PROVE [Cache!Next]_(Cache!vars)
  OBVIOUS
<1>1. ASSUME NEW k \in Keys, NEW p \in Payloads, NEW n \in Sizes, Put(k, p, n) PROVE Cache!Next
  BY <1>1, PutRefines DEF Cache!Next
<1>2. ASSUME NEW n \in Sizes, PutRejected(n) PROVE Cache!Next
  <2>1. Snapshots' = Snapshots /\ UsedBefore' = UsedBefore
    BY <1>2, Abstraction DEF PutRejected
  <2>2. Cache!Refuse(n)
    BY <1>2, <2>1 DEF PutRejected, Cache!Refuse
  <2>3. QED
    BY <2>2 DEF Cache!Next
<1>3. ASSUME NEW q \in Queries, NEW m \in MinShareds, Lookup(q, m) PROVE Cache!Next
  BY <1>3, LookupRefines DEF Cache!Next
<1>4. CASE Invalidate
  <2>1. entries' = <<>> /\ answer' = None /\ 1 .. Len(entries') = {}
    BY <1>4 DEF Invalidate
  <2>2. Snapshots' = <<>> /\ UsedBefore' = {}
    BY <2>1 DEF Snapshots, UsedBefore
  <2>3. QED
    BY <2>1, <2>2 DEF Cache!Invalidate, Cache!Next
<1>5. CASE UNCHANGED vars
  <2>1. Snapshots' = Snapshots /\ UsedBefore' = UsedBefore /\ answer' = answer
    BY <1>5, Abstraction DEF vars
  <2>2. QED
    BY <2>1 DEF Cache!vars
<1>6. QED
  BY <1>1, <1>2, <1>3, <1>4, <1>5 DEF Next

\* The ordered dictionary is the cache its docstrings promise (prefix.py:1-18,
\* 44-48, 74-76, 92-94), for all sequences, sizes and budgets: the longest exact
\* prefix is found, the least recently used go first and no more than needed,
\* and a sequence has one snapshot, its latest.
THEOREM CacheIsImplemented == Spec => ImplementsCache
<1>1. QED
  BY PrefixInvInit, PrefixInvStep, CacheInit, CacheStep, PTL DEF Spec, ImplementsCache, Cache!Spec
=============================================================================

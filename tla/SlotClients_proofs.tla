-------------------------- MODULE SlotClients_proofs ------------------------
(***************************************************************************)
(* Proofs about the state store under arbitrary clients, for every number  *)
(* of requests and rows.                                                   *)
(***************************************************************************)
EXTENDS SlotClients, TLAPS

\* No issued reference is ahead of its row's generation, and one that is level
\* with it is the row's current occupancy.
RefsBehind ==
    \A i \in DOMAIN issued :
        LET h == issued[i]
        IN  /\ h.ref.generation <= generations[h.ref.slot]
            /\ h.ref.generation = generations[h.ref.slot] => owners[h.ref.slot] = h.req

\* An owned row is held: its current occupancy is a live one.
OwnedIsLive ==
    \A s \in Slots :
        owners[s] # NoOwner =>
            \E i \in live : issued[i] = [req |-> owners[s], ref |-> RefTo(s)]

\* The inductive invariant.
StoreInv ==
    /\ TypeOK
    /\ RefsBehind
    /\ NoStolenRow
    /\ OwnedIsLive
    /\ RefsUnique

\* The operators' types: a reference to a row at its current generation.
LEMMA RefToType ==
    ASSUME TypeOK, NEW s \in Slots
    PROVE  /\ RefTo(s) \in RowRefs
           /\ RefTo(s).slot = s
           /\ RefTo(s).generation = generations[s]
BY DEF TypeOK, StoreTypeOK, RefTo, RowRefs

\* What the log holds: references to rows, each with a request.
LEMMA IssuedFacts ==
    ASSUME TypeOK, NEW i \in DOMAIN issued
    PROVE  /\ issued[i] \in Handles
           /\ issued[i].ref.slot \in Slots
           /\ issued[i].ref.generation \in Nat
           /\ issued[i].req # NoOwner
<1>1. issued[i] \in Handles
  BY DEF TypeOK
<1> QED  BY <1>1, StoreAssumption DEF Handles, RowRefs

\* The store starts with every row free and no reference issued.
LEMMA StoreInvInit == Init => StoreInv
BY DEF Init, StoreInit, StoreInv, TypeOK, StoreTypeOK, RefsBehind, NoStolenRow,
       OwnedIsLive, RefsUnique

\* alloc keeps the invariant: it takes a free row, which no live handle names, and
\* no reference returned before is level with it.
LEMMA AcquireStep ==
    ASSUME StoreInv, NEW req \in ReqIds, Acquire(req)
    PROVE  StoreInv'
<1>1. PICK s \in Slots :
        /\ Alloc(req, s)
        /\ issued' = Append(issued, [req |-> req, ref |-> RefTo(s)])
        /\ live' = live \cup {Len(issued) + 1}
  BY DEF Acquire
<1> DEFINE h0 == [req |-> req, ref |-> RefTo(s)]
           new == Len(issued) + 1
<1>2. /\ h0 \in Handles /\ h0.req = req /\ h0.ref = RefTo(s)
      /\ h0.ref.slot = s /\ h0.ref.generation = generations[s]
  BY RefToType DEF StoreInv, Handles
<1>3. owners[s] = NoOwner /\ req # NoOwner
  BY <1>1, StoreAssumption DEF Alloc, FirstFree, IsFree
<1>4. /\ generations' = generations
      /\ owners' = [owners EXCEPT ![s] = req]
      /\ \A t \in Slots : RefTo(t)' = RefTo(t)
  BY <1>1 DEF Alloc, RefTo
<1>5. /\ issued \in Seq(Handles) /\ live \subseteq DOMAIN issued
      /\ issued' \in Seq(Handles)
      /\ DOMAIN issued' = DOMAIN issued \cup {new} /\ new \notin DOMAIN issued
      /\ issued'[new] = h0
      /\ \A i \in DOMAIN issued : issued'[i] = issued[i]
  <2>1. issued \in Seq(Handles) /\ live \subseteq DOMAIN issued
    BY DEF StoreInv, TypeOK
  <2> HIDE DEF h0
  <2> QED  BY <1>1, <1>2, <2>1 DEF h0
<1>6. TypeOK'
  <2>1. live' \subseteq DOMAIN issued'
    BY <1>1, <1>5
  <2>2. StoreTypeOK'
    BY <1>4 DEF StoreInv, TypeOK, StoreTypeOK
  <2> QED  BY <1>5, <2>1, <2>2 DEF TypeOK
<1>7. \A i \in DOMAIN issued : issued[i].ref.slot \in Slots /\ issued[i].req # NoOwner
  BY IssuedFacts DEF StoreInv
<1>8. \A i \in DOMAIN issued : issued[i].ref # RefTo(s)
  BY <1>2, <1>3, <1>7 DEF StoreInv, RefsBehind
<1> HIDE DEF h0, new
<1>9. RefsBehind'
  <2> SUFFICES ASSUME NEW i \in DOMAIN issued'
               PROVE  LET h == issued'[i]
                      IN  /\ h.ref.generation <= generations[h.ref.slot]
                          /\ h.ref.generation = generations[h.ref.slot]
                                => owners'[h.ref.slot] = h.req
    BY <1>4 DEF RefsBehind
  <2>1. CASE i = new
    BY <2>1, <1>2, <1>4, <1>5 DEF StoreInv, TypeOK, StoreTypeOK
  <2>2. CASE i \in DOMAIN issued
    BY <2>2, <1>3, <1>4, <1>5, <1>7 DEF StoreInv, RefsBehind, TypeOK, StoreTypeOK
  <2> QED  BY <2>1, <2>2, <1>5
<1>10. NoStolenRow'
  <2> SUFFICES ASSUME NEW i \in live'
               PROVE  LET h == issued'[i]
                      IN  owners'[h.ref.slot] = h.req /\ generations[h.ref.slot] = h.ref.generation
    BY <1>4 DEF NoStolenRow, Holds
  <2>1. CASE i = new
    BY <2>1, <1>2, <1>4, <1>5 DEF StoreInv, TypeOK, StoreTypeOK
  <2>2. CASE i \in live
    BY <2>2, <1>3, <1>4, <1>5, <1>7 DEF StoreInv, NoStolenRow, Holds, TypeOK, StoreTypeOK
  <2> QED  BY <2>1, <2>2, <1>1 DEF new
<1>11. OwnedIsLive'
  <2> SUFFICES ASSUME NEW t \in Slots, owners'[t] # NoOwner
               PROVE  \E i \in live' : issued'[i] = [req |-> owners'[t], ref |-> RefTo(t)]
    BY <1>4 DEF OwnedIsLive
  <2>1. CASE t = s
    <3>1. owners'[t] = req
      BY <2>1, <1>4 DEF StoreInv, TypeOK, StoreTypeOK
    <3>2. new \in live' /\ issued'[new] = h0
      BY <1>1, <1>5 DEF new
    <3> QED  BY <2>1, <3>1, <3>2 DEF h0
  <2>2. CASE t # s
    <3>1. owners'[t] = owners[t]
      BY <2>2, <1>4 DEF StoreInv, TypeOK, StoreTypeOK
    <3>2. PICK i \in live : issued[i] = [req |-> owners[t], ref |-> RefTo(t)]
      BY <3>1 DEF StoreInv, OwnedIsLive
    <3>3. i \in live' /\ issued'[i] = issued[i]
      BY <1>1, <1>5
    <3> QED  BY <3>1, <3>2, <3>3
  <2> QED  BY <2>1, <2>2
<1>12. RefsUnique'
  <2> SUFFICES ASSUME NEW i \in DOMAIN issued', NEW j \in DOMAIN issued',
                      issued'[i].ref = issued'[j].ref
               PROVE  i = j
    BY DEF RefsUnique
  <2>1. CASE i = new \/ j = new
    BY <2>1, <1>2, <1>5, <1>8
  <2>2. CASE i # new /\ j # new
    BY <2>2, <1>5 DEF StoreInv, RefsUnique
  <2> QED  BY <2>1, <2>2
<1> QED  BY <1>6, <1>9, <1>10, <1>11, <1>12 DEF StoreInv

\* release keeps the invariant: a live reference frees only its own row, and a
\* stale one changes nothing.
LEMMA ReturnStep ==
    ASSUME StoreInv, NEW i \in DOMAIN issued, Return(i)
    PROVE  StoreInv'
<1> DEFINE h == issued[i]
           s == h.ref.slot
<1>1. /\ issued' = issued
      /\ live' = live \ {i}
      /\ Release(h.ref, h.req)
  BY DEF Return
<1>2. /\ \A j \in DOMAIN issued : /\ issued[j].ref.slot \in Slots
                                  /\ issued[j].ref.generation \in Nat
                                  /\ issued[j].req # NoOwner
                                  /\ issued[j].ref \in RowRefs
      /\ live \subseteq DOMAIN issued
  BY IssuedFacts DEF StoreInv, TypeOK, Handles
<1>3. CASE Holds(h.ref, h.req) /\ FreeRow(s)
  <2>1. /\ owners' = [owners EXCEPT ![s] = NoOwner]
        /\ generations' = [generations EXCEPT ![s] = @ + 1]
        /\ owners[s] = h.req /\ generations[s] = h.ref.generation
        /\ s \in Slots
    BY <1>2, <1>3 DEF FreeRow, Holds
  <2>2. TypeOK'
    BY <1>1, <2>1 DEF StoreInv, TypeOK, StoreTypeOK
  <2>3. RefsBehind'
    BY <1>1, <1>2, <2>1 DEF StoreInv, RefsBehind, TypeOK, StoreTypeOK
  <2>4. \A j \in live : issued[j].ref.slot = s => j = i
    <3> SUFFICES ASSUME NEW j \in live, issued[j].ref.slot = s PROVE j = i
      OBVIOUS
    <3>1. j \in DOMAIN issued /\ issued[j].ref.generation = generations[s]
      BY <1>2 DEF StoreInv, NoStolenRow, Holds
    <3>2. issued[j].ref = issued[i].ref
      BY <1>2, <2>1, <3>1 DEF RowRefs
    <3> QED  BY <3>1, <3>2 DEF StoreInv, RefsUnique
  <2>5. NoStolenRow'
    BY <1>1, <1>2, <2>1, <2>4 DEF StoreInv, NoStolenRow, Holds, TypeOK, StoreTypeOK
  <2>6. OwnedIsLive'
    <3> SUFFICES ASSUME NEW t \in Slots, owners'[t] # NoOwner
                 PROVE  \E j \in live' : issued'[j] = [req |-> owners'[t], ref |-> RefTo(t)']
      BY DEF OwnedIsLive
    <3>1. t # s /\ owners'[t] = owners[t] /\ RefTo(t)' = RefTo(t)
      BY <2>1 DEF StoreInv, TypeOK, StoreTypeOK, RefTo
    <3>2. PICK j \in live : issued[j] = [req |-> owners[t], ref |-> RefTo(t)]
      BY <3>1 DEF StoreInv, OwnedIsLive
    <3>3. j # i
      BY <3>1, <3>2 DEF RefTo
    <3> QED  BY <1>1, <3>1, <3>2, <3>3
  <2>7. RefsUnique'
    BY <1>1 DEF StoreInv, RefsUnique
  <2> QED  BY <2>2, <2>3, <2>5, <2>6, <2>7 DEF StoreInv
<1>4. CASE ~Holds(h.ref, h.req) /\ UNCHANGED <<owners, generations>>
  <2>1. i \notin live
    BY <1>4 DEF StoreInv, NoStolenRow
  <2>2. live' = live
    BY <2>1, <1>1
  <2> QED
    BY <1>1, <1>4, <2>2 DEF StoreInv, TypeOK, StoreTypeOK, RefsBehind, NoStolenRow, Holds,
                            OwnedIsLive, RefTo, RefsUnique
<1> QED  BY <1>1, <1>3, <1>4 DEF Release

\* The invariant holds throughout every behaviour.
LEMMA StoreInvariant == Spec => []StoreInv
<1>1. StoreInv /\ [Next]_vars => StoreInv'
  <2> SUFFICES ASSUME StoreInv, [Next]_vars PROVE StoreInv'
    OBVIOUS
  <2>1. CASE \E req \in ReqIds : Acquire(req)
    BY <2>1, AcquireStep
  <2>2. CASE \E i \in DOMAIN issued : Return(i)
    BY <2>2, ReturnStep
  <2>3. CASE UNCHANGED vars
    BY <2>3 DEF vars, StoreInv, TypeOK, StoreTypeOK, RefsBehind, NoStolenRow, Holds,
                OwnedIsLive, RefTo, RefsUnique
  <2> QED  BY <2>1, <2>2, <2>3 DEF Next
<1> QED  BY StoreInvInit, <1>1, PTL DEF Spec

\* Type correctness of the store and its handles.
THEOREM StoreTypeCorrect == Spec => []TypeOK
BY StoreInvariant, PTL DEF StoreInv

\* slots.py:3-6: whatever stale references are released, every live occupancy
\* still owns its row.
THEOREM NoRowIsStolen == Spec => []NoStolenRow
BY StoreInvariant, PTL DEF StoreInv

\* slots.py:3-6: alloc returns no (slot, generation) twice, to another request or
\* to the same one.
THEOREM ReferencesAreUnique == Spec => []RefsUnique
BY StoreInvariant, PTL DEF StoreInv

\* Rows are private: an owned row has exactly one live holder.
THEOREM RowsArePrivate == Spec => []RowsPrivate
<1>1. StoreInv => RowsPrivate
  <2> SUFFICES ASSUME StoreInv, NEW s \in Slots, owners[s] # NoOwner
               PROVE  \E i \in live : /\ issued[i].ref.slot = s
                                      /\ \A j \in live : issued[j].ref.slot = s => j = i
    BY DEF RowsPrivate
  <2>1. PICK i \in live : issued[i] = [req |-> owners[s], ref |-> RefTo(s)]
    BY DEF StoreInv, OwnedIsLive
  <2>2. issued[i].ref.slot = s /\ i \in DOMAIN issued
    BY <2>1, RefToType DEF StoreInv, TypeOK
  <2>3. ASSUME NEW j \in live, issued[j].ref.slot = s
        PROVE  j = i
    <3>1. j \in DOMAIN issued /\ issued[j].ref.generation = generations[s]
          /\ issued[i].ref.generation = generations[s]
      BY <2>2, <2>3 DEF StoreInv, TypeOK, NoStolenRow, Holds
    <3>2. issued[j].ref \in RowRefs /\ issued[i].ref \in RowRefs
      BY <2>2, <3>1, IssuedFacts DEF StoreInv, Handles
    <3>3. issued[j].ref = issued[i].ref
      BY <2>2, <2>3, <3>1, <3>2 DEF RowRefs
    <3> QED  BY <2>2, <3>1, <3>3 DEF StoreInv, RefsUnique
  <2> QED  BY <2>2, <2>3
<1> QED  BY <1>1, StoreInvariant, PTL
=============================================================================

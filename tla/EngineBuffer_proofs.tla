-------------------------- MODULE EngineBuffer_proofs --------------------------
(***************************************************************************)
(* Proofs about the engine and its backend together: whatever prompts,     *)
(* budgets and prefix hits share a cohort, and whoever is cancelled,       *)
(* stalled or failed, the buffer is wide enough, decode steps consume what *)
(* was filled, and a request that runs to its end does so on its boundary. *)
(***************************************************************************)
EXTENDS Engine_proofs, Positions_proofs

\* The scheduler's theorems, about the scheduler that the engine drives.
SP == INSTANCE Scheduler_proofs WITH pc <- spc, done <- Done

-----------------------------------------------------------------------------
\* What the scheduler promises.

LEMMA SchedulerSetting == SP!SchedulerAssumption
<1>1. PromptLen \in [Requests -> Nat]
  BY EngineAssumption
<1>2. QED
  BY <1>1, EngineAssumption DEF SP!SchedulerAssumption

\* Engine and proofs see the same scheduler.
LEMMA SameStep == [Sched!Next]_(Sched!vars) => [SP!Next]_(SP!vars)
<1> USE DEF Sched!vars, SP!vars, Sched!queueVars, SP!queueVars, Sched!rowVars, SP!rowVars,
            Sched!scanVars, SP!scanVars, Sched!planVars, SP!planVars, Sched!ActiveReqs,
            SP!ActiveReqs, Sched!Slots, SP!Slots, Sched!NoRows, SP!NoRows
<1>1. ASSUME NEW r \in Requests, Sched!Submit(r) PROVE SP!Submit(r)
  BY <1>1 DEF Sched!Submit, SP!Submit, Sched!SubmitReject, Sched!SubmitCheck,
     Sched!SubmitAppend, SP!SubmitReject, SP!SubmitCheck, SP!SubmitAppend, Sched!Acceptable,
     SP!Acceptable, Sched!Fits, SP!Fits, Sched!Store!CanAdmit, SP!Store!CanAdmit
<1>2. ASSUME NEW r \in Requests, Sched!Finish(r) PROVE SP!Finish(r)
  BY <1>2 DEF Sched!Finish, SP!Finish
<1>3. ASSUME Sched!Publish PROVE SP!Publish
  BY <1>3 DEF Sched!Publish, SP!Publish, Sched!Store!Alloc, SP!Store!Alloc, Sched!Store!RefTo,
     SP!Store!RefTo, Sched!Store!FirstFree, SP!Store!FirstFree, Sched!Store!IsFree,
     SP!Store!IsFree, Sched!Store!Slots, SP!Store!Slots
<1>4. ASSUME NEW s \in Sched!Slots, Sched!ReleaseRow(s) PROVE SP!ReleaseRow(s)
  BY <1>4 DEF Sched!ReleaseRow, SP!ReleaseRow, Sched!StoreRelease, SP!StoreRelease,
     Sched!Store!Release, SP!Store!Release, Sched!Store!Holds, SP!Store!Holds,
     Sched!Store!FreeRow, SP!Store!FreeRow
<1>5. ASSUME Sched!ScanAccept \/ Sched!ScanRequeue PROVE SP!ScanAccept \/ SP!ScanRequeue
  BY <1>5 DEF Sched!ScanAccept, SP!ScanAccept, Sched!ScanRequeue, SP!ScanRequeue, Sched!Joins,
     SP!Joins, Sched!Dissimilar, SP!Dissimilar, Sched!Fits, SP!Fits, Sched!Store!CanAdmit,
     SP!Store!CanAdmit, Sched!MinOf, SP!MinOf, Sched!MaxOf, SP!MaxOf
<1>6. ASSUME \/ Sched!PlanDecode \/ Sched!DrainCohort \/ Sched!BeginAdmit \/ Sched!Pop
             \/ Sched!PopDone \/ Sched!ScanDone \/ Sched!PublishDone
      PROVE  \/ SP!PlanDecode \/ SP!DrainCohort \/ SP!BeginAdmit \/ SP!Pop
             \/ SP!PopDone \/ SP!ScanDone \/ SP!PublishDone
  BY <1>6 DEF Sched!PlanDecode, Sched!DrainCohort, Sched!BeginAdmit, Sched!Pop, Sched!PopDone,
     Sched!ScanDone, Sched!PublishDone, SP!PlanDecode, SP!DrainCohort, SP!BeginAdmit, SP!Pop,
     SP!PopDone, SP!ScanDone, SP!PublishDone, Sched!WantsCandidate, SP!WantsCandidate,
     Sched!Requeued, SP!Requeued
<1>7. Sched!TakePlan => SP!TakePlan
  BY DEF Sched!TakePlan, SP!TakePlan
<1>8. Sched!NextPlan => SP!NextPlan
  BY <1>3, <1>4, <1>5, <1>6 DEF Sched!NextPlan, SP!NextPlan
<1>9. (\E r \in Requests : Sched!Submit(r) \/ Sched!Finish(r))
        => \E r \in Requests : SP!Submit(r) \/ SP!Finish(r)
  BY <1>1, <1>2
<1>10. QED
  BY <1>7, <1>8, <1>9 DEF Sched!Next, SP!Next

\* The engine never takes the scheduler out of what is proved of it alone.
LEMMA SchedulerKept == SafetySpec => SP!SafetySpec /\ []SP!SchedInv
<1>1. Sched!Init => SP!Init
  BY DEF Sched!Init, SP!Init, Sched!Store!StoreInit, SP!Store!StoreInit, Sched!NoRows,
     SP!NoRows, Sched!Slots, SP!Slots, Sched!Store!Slots, SP!Store!Slots
<1>2. [Sched!Next]_(Sched!vars) => [SP!Next]_(SP!vars)
  BY SameStep
<1>3. Sched!SafetySpec => SP!SafetySpec
  BY <1>1, <1>2, PTL DEF Sched!SafetySpec, SP!SafetySpec
<1>4. SP!SafetySpec => []SP!SchedInv
  BY SchedulerSetting, SP!SchedInvariant
<1>5. QED
  BY <1>3, <1>4, SchedulerIsRefined, PTL DEF SchedulerRefined

-----------------------------------------------------------------------------
\* The rows of a cohort.

\* What the rest needs to know of the scheduler.
RowFacts ==
    /\ active \in [Sched!Slots -> Requests \cup {None}]
    /\ \A s, t \in Sched!Slots : active[s] = active[t] /\ active[s] # None => s = t
    /\ \A s \in Sched!Slots : owners[s] = active[s]
    /\ \A s \in Sched!Slots : active[s] # None => phase[active[s]] = "queued"
    /\ phase \in [Requests -> Sched!Phases]
    /\ spc \in {"pop", "scan"} => Sched!ActiveReqs = {}

LEMMA SchedulerRows == SP!SchedInv => RowFacts
<1> SUFFICES ASSUME SP!SchedInv PROVE RowFacts
  OBVIOUS
<1>1. SP!Slots = Sched!Slots
  BY DEF SP!Slots, Sched!Slots
<1>2. active \in [Sched!Slots -> Requests \cup {None}]
  BY <1>1 DEF SP!SchedInv, SP!TypeOK
<1>3. \A s \in Sched!Slots : owners[s] = active[s]
  BY <1>1 DEF SP!SchedInv, SP!RowsAgree
<1>4. \A s, t \in Sched!Slots : active[s] = active[t] /\ active[s] # None => s = t
  BY <1>1 DEF SP!SchedInv, SP!Partition, SP!RowsDistinct
<1>5. ASSUME NEW s \in Sched!Slots, active[s] # None PROVE phase[active[s]] = "queued"
  <2>1. active[s] \in SP!ActiveReqs
    BY <1>1, <1>5 DEF SP!ActiveReqs
  <2>2. active[s] \in SP!Queued
    BY <2>1 DEF SP!SchedInv, SP!Partition
  <2>3. QED
    BY <2>2 DEF SP!Queued
<1>6. phase \in [Requests -> Sched!Phases]
  BY DEF SP!SchedInv, SP!TypeOK, SP!Phases, Sched!Phases
<1>7. spc \in {"pop", "scan"} => Sched!ActiveReqs = {}
  BY <1>1 DEF SP!SchedInv, SP!Shape, Sched!ActiveReqs
<1>8. QED
  BY <1>2, <1>3, <1>4, <1>5, <1>6, <1>7 DEF RowFacts

IsActive(r) == \E s \in Sched!Slots : active[s] = r

\* The list of a table's rows has each of its requests, once.
LEMMA RowsOfFacts ==
  ASSUME NEW table \in [Sched!Slots -> Requests \cup {None}],
         \A s, t \in Sched!Slots : table[s] = table[t] /\ table[s] # None => s = t
  PROVE  /\ RowsOf(table) \in Seq(Requests)
         /\ \A i, j \in 1 .. Len(RowsOf(table)) : RowsOf(table)[i] = RowsOf(table)[j] => i = j
         /\ \A i \in 1 .. Len(RowsOf(table)) : \E s \in Sched!Slots : table[s] = RowsOf(table)[i]
         /\ \A s \in Sched!Slots : table[s] # None =>
              \E i \in 1 .. Len(RowsOf(table)) : RowsOf(table)[i] = table[s]
<1> DEFINE S == {s \in Sched!Slots : table[s] # None}
           slots == InOrder(S)
<1>1. S \in SUBSET Int /\ IsFiniteSet(S)
  <2>1. MaxRows - 1 \in Int
    BY EngineAssumption
  <2>2. IsFiniteSet(Sched!Slots) /\ Sched!Slots \subseteq Int
    BY <2>1, FS_Interval DEF Sched!Slots
  <2>3. QED
    BY <2>2, FS_Subset
<1>2. /\ slots \in Seq(S)
      /\ \A s \in S : \E i \in 1 .. Len(slots) : slots[i] = s
      /\ \A i, j \in 1 .. Len(slots) : slots[i] = slots[j] => i = j
  <2> HIDE DEF S
  <2>1. /\ slots \in Seq(S)
        /\ \A s \in S : slots[Cardinality({f \in S : f <= s})] = s
        /\ \A s \in S : Cardinality({f \in S : f <= s}) \in 1 .. Len(slots)
    BY <1>1, InOrderFacts
  <2>2. \A i, j \in 1 .. Len(slots) : slots[i] = slots[j] => i = j
    BY <1>1, InOrderFacts
  <2>3. QED
    BY <2>1, <2>2
<1>3. RowsOf(table) = [i \in 1 .. Len(slots) |-> table[slots[i]]]
  BY DEF RowsOf
<1> HIDE DEF slots
<1>4. Len(slots) \in Nat /\ \A i \in 1 .. Len(slots) : slots[i] \in S
  BY <1>2
<1>5. \A i \in 1 .. Len(slots) : table[slots[i]] \in Requests /\ slots[i] \in Sched!Slots
  BY <1>4
<1>6. RowsOf(table) \in Seq(Requests) /\ Len(RowsOf(table)) = Len(slots)
  BY <1>3, <1>4, <1>5
<1>7. \A i \in 1 .. Len(slots) : RowsOf(table)[i] = table[slots[i]]
  BY <1>3
<1>8. ASSUME NEW i \in 1 .. Len(slots), NEW j \in 1 .. Len(slots),
             RowsOf(table)[i] = RowsOf(table)[j]
      PROVE  i = j
  <2>1. table[slots[i]] = table[slots[j]]
    BY <1>7, <1>8
  <2>2. slots[i] = slots[j]
    BY <1>4, <2>1
  <2>3. QED
    BY <1>2, <2>2
<1>9. ASSUME NEW s \in Sched!Slots, table[s] # None
      PROVE  \E i \in 1 .. Len(slots) : RowsOf(table)[i] = table[s]
  BY <1>2, <1>7, <1>9
<1>10. QED
  BY <1>5, <1>6, <1>7, <1>8, <1>9

\* The rows that are active now.
LEMMA ActiveRows ==
  ASSUME RowFacts
  PROVE  /\ RowsOf(active) \in Seq(Requests)
         /\ \A i, j \in 1 .. Len(RowsOf(active)) :
              RowsOf(active)[i] = RowsOf(active)[j] => i = j
         /\ \A i \in 1 .. Len(RowsOf(active)) : IsActive(RowsOf(active)[i])
         /\ \A r \in Sched!ActiveReqs : \E i \in 1 .. Len(RowsOf(active)) : RowsOf(active)[i] = r
         /\ Sched!ActiveReqs # {} => RowsOf(active) # <<>>
<1>1. \A r \in Sched!ActiveReqs : \E i \in 1 .. Len(RowsOf(active)) : RowsOf(active)[i] = r
  BY RowsOfFacts DEF RowFacts, Sched!ActiveReqs
<1>2. RowsOf(active) = <<>> => Len(RowsOf(active)) = 0
  OBVIOUS
<1>3. QED
  BY <1>1, <1>2, RowsOfFacts DEF RowFacts, IsActive

-----------------------------------------------------------------------------
\* The backend.

\* A stored sequence that is the whole prompt: the token after it is not taken.
FullHit(r) == SharedLen[r] # None /\ SharedLen[r] = PromptLen[r]

\* The cursor at which a row first emits, and how many of its tokens have been
\* staged so far.
FirstEmit(r) == PromptLen[r] + (IF FullHit(r) THEN 1 ELSE 0)
Emitted(r) == IF cursor < FirstEmit(r) THEN 0 ELSE cursor - FirstEmit(r) + 1

\* The buffer is wide enough for row i, filled up to the cursor, and the step's
\* result for it says whether it emits.
RowInv(i) ==
    LET r == reqIds[i]
    IN  /\ total >= FirstEmit(r) + MaxNewTokens[r]
        /\ FullHit(r) => cursor >= PromptLen[r]
        /\ 0 .. PromptLen[r] - 1 \subseteq filled[i]
        /\ PromptLen[r] <= cursor /\ cursor < total /\ ~FullHit(r) => cursor \in filled[i]
        /\ staged[i].req = r
        /\ staged[i].emits <=> cursor >= FirstEmit(r)

BackInv ==
    /\ Back!BackendTypeOK
    /\ reqIds # <<>> => Len(staged) = Len(reqIds)
    /\ \A i \in 1 .. Len(reqIds) : RowInv(i)

LEMMA RequestFacts ==
  ASSUME NEW r \in Requests
  PROVE  /\ PromptLen[r] \in Nat /\ PromptLen[r] >= 1 /\ MaxNewTokens[r] \in Nat
         /\ SharedLen[r] # None => SharedLen[r] \in Nat /\ SharedLen[r] <= PromptLen[r]
         /\ FirstEmit(r) \in Nat /\ PromptLen[r] <= FirstEmit(r)
         /\ FullHit(r) => FirstEmit(r) = PromptLen[r] + 1
         /\ ~FullHit(r) => FirstEmit(r) = PromptLen[r]
<1>1. PromptLen[r] \in Nat \ {0} /\ MaxNewTokens[r] \in Nat
  BY EngineAssumption
<1>2. SharedLen[r] # None => SharedLen[r] \in Nat /\ SharedLen[r] <= PromptLen[r]
  BY EngineAssumption
<1>3. QED
  BY <1>1, <1>2 DEF FirstEmit

\* A nonempty list of integers has a largest and a smallest value.
LEMMA Extremes ==
  ASSUME NEW n \in Nat \ {0}, NEW v \in [1 .. n -> Int]
  PROVE  LET S == {v[i] : i \in 1 .. n}
         IN  /\ Back!Largest(S) \in S /\ Back!Smallest(S) \in S
             /\ \A i \in 1 .. n : Back!Smallest(S) <= v[i] /\ v[i] <= Back!Largest(S)
<1> DEFINE S == {v[i] : i \in 1 .. n}
<1>1. v \in Surjection(1 .. n, S)
  BY DEF Surjection
<1>2. IsFiniteSet(S) /\ S \in SUBSET Int /\ S # {}
  <2>1. IsFiniteSet(1 .. n)
    BY FS_Interval
  <2>2. IsFiniteSet(S)
    BY <1>1, <2>1, FS_Surjection
  <2>3. v[1] \in S
    OBVIOUS
  <2>4. QED
    BY <2>2, <2>3
<1> HIDE DEF S
<1>3. (\E x \in S : \A y \in S : x <= y) /\ (\E x \in S : \A y \in S : y <= x)
  BY <1>2, FirstAndLast
<1>4. Back!Largest(S) \in S /\ \A y \in S : y <= Back!Largest(S)
  BY <1>3 DEF Back!Largest
<1>5. Back!Smallest(S) \in S /\ \A y \in S : Back!Smallest(S) <= y
  BY <1>3 DEF Back!Smallest
<1>6. \A i \in 1 .. n : v[i] \in S
  BY DEF S
<1>7. QED
  BY <1>4, <1>5, <1>6 DEF S

\* The bulk prefill stops at the shortest prompt, and the window behind it takes
\* the rest of every prompt and its completion.
LEMMA WindowWide ==
  ASSUME NEW rows \in Seq(Requests), rows # <<>>
  PROVE  /\ Back!ShortestPrompt(rows) \in Nat
         /\ Back!ShortestPrompt(rows) + Back!Window(rows) \in Nat
         /\ \A i \in 1 .. Len(rows) :
              /\ Back!ShortestPrompt(rows) <= PromptLen[rows[i]]
              /\ Back!ShortestPrompt(rows) + Back!Window(rows)
                   >= PromptLen[rows[i]] + MaxNewTokens[rows[i]]
<1> DEFINE n == Len(rows)
           lens == [i \in 1 .. n |-> PromptLen[rows[i]]]
           short == Back!ShortestPrompt(rows)
           need(r) == PromptLen[r] - short + (IF MaxNewTokens[r] = 0 THEN 1 ELSE MaxNewTokens[r])
           needs == [i \in 1 .. n |-> need(rows[i])]
<1>1. n \in Nat \ {0} /\ \A i \in 1 .. n : rows[i] \in Requests
  OBVIOUS
<1>2. \A i \in 1 .. n : PromptLen[rows[i]] \in Nat /\ MaxNewTokens[rows[i]] \in Nat
  BY <1>1, RequestFacts
<1>3. short \in Nat /\ \A i \in 1 .. n : short <= PromptLen[rows[i]]
  <2>1. lens \in [1 .. n -> Int]
    BY <1>2
  <2>2. {lens[i] : i \in 1 .. n} = {PromptLen[rows[i]] : i \in 1 .. n}
    OBVIOUS
  <2>3. short = Back!Smallest({lens[i] : i \in 1 .. n})
    BY <2>2 DEF Back!ShortestPrompt
  <2> HIDE DEF n, short
  <2>4. /\ short \in {lens[i] : i \in 1 .. n}
        /\ \A i \in 1 .. n : short <= lens[i]
    BY <1>1, <2>1, <2>3, Extremes
  <2>5. QED
    BY <1>2, <2>4
<1>4. /\ Back!Window(rows) \in {needs[i] : i \in 1 .. n}
      /\ \A i \in 1 .. n : needs[i] <= Back!Window(rows)
  <2>1. \A i \in 1 .. n : need(rows[i]) \in Int
    BY <1>2, <1>3
  <2>2. {needs[i] : i \in 1 .. n} = {need(rows[i]) : i \in 1 .. n}
    OBVIOUS
  <2>3. Back!Window(rows) = Back!Largest({needs[i] : i \in 1 .. n})
    BY <2>2 DEF Back!Window
  <2> HIDE DEF n, short, need
  <2>4. needs \in [1 .. n -> Int]
    BY <2>1
  <2> HIDE DEF needs
  <2>5. QED
    BY <1>1, <2>3, <2>4, Extremes
<1>5. \A i \in 1 .. n : needs[i] = need(rows[i]) /\ needs[i] \in Nat
                        /\ needs[i] >= PromptLen[rows[i]] - short + MaxNewTokens[rows[i]]
  <2> HIDE DEF short
  <2>1. QED
    BY <1>2, <1>3
<1>6. Back!Window(rows) \in Nat
  BY <1>4, <1>5
<1> HIDE DEF n, short, needs, need
<1>7. \A i \in 1 .. n : short + Back!Window(rows) >= PromptLen[rows[i]] + MaxNewTokens[rows[i]]
  BY <1>2, <1>3, <1>4, <1>5, <1>6
<1>8. QED
  BY <1>3, <1>6, <1>7 DEF short, n

\* What a step writes for row i.
LEMMA Collected ==
  ASSUME NEW rows \in Seq(Requests), NEW columns \in Seq(SUBSET Nat),
         Len(columns) = Len(rows), NEW width \in Nat, NEW position \in Nat,
         Back!Collect(rows, columns, width, position)
  PROVE  /\ filled' \in Seq(SUBSET Nat) /\ Len(filled') = Len(rows)
         /\ staged' \in Seq([req : Requests, emits : BOOLEAN]) /\ Len(staged') = Len(rows)
         /\ \A i \in 1 .. Len(rows) :
              /\ columns[i] \subseteq filled'[i]
              /\ PromptLen[rows[i]] <= position /\ position < width => position \in filled'[i]
              /\ staged'[i].req = rows[i]
              /\ staged'[i].emits <=> position >= PromptLen[rows[i]]
<1> DEFINE n == Len(rows)
           takes(i) == position >= PromptLen[rows[i]] /\ position < width
           column(i) == IF takes(i) THEN columns[i] \cup {position} ELSE columns[i]
           result(i) == [req |-> rows[i], emits |-> position >= PromptLen[rows[i]]]
<1>1. n \in Nat /\ \A i \in 1 .. n : rows[i] \in Requests /\ columns[i] \in SUBSET Nat
  OBVIOUS
<1>2. filled' = [i \in 1 .. n |-> column(i)] /\ staged' = [i \in 1 .. n |-> result(i)]
  BY DEF Back!Collect, Back!Emits
<1>3. \A i \in 1 .. n : /\ column(i) \in SUBSET Nat
                        /\ result(i) \in [req : Requests, emits : BOOLEAN]
  BY <1>1
<1>4. \A i \in 1 .. n : /\ columns[i] \subseteq column(i)
                        /\ takes(i) => position \in column(i)
                        /\ result(i).req = rows[i]
                        /\ result(i).emits <=> position >= PromptLen[rows[i]]
  OBVIOUS
<1>5. \A i \in 1 .. n : PromptLen[rows[i]] <= position <=> position >= PromptLen[rows[i]]
  BY <1>1, RequestFacts
<1> HIDE DEF n, column, result
<1>6. filled' \in Seq(SUBSET Nat) /\ Len(filled') = n
  BY <1>1, <1>2, <1>3
<1>7. staged' \in Seq([req : Requests, emits : BOOLEAN]) /\ Len(staged') = n
  BY <1>1, <1>2, <1>3
<1>8. \A i \in 1 .. n : filled'[i] = column(i) /\ staged'[i] = result(i)
  BY <1>2
<1>9. QED
  BY <1>4, <1>5, <1>6, <1>7, <1>8 DEF n

\* A prefill lays the cohort out, and no row is past its first token.
LEMMA PrefillRows ==
  ASSUME NEW rows \in Seq(Requests), rows # <<>>, Back!Prefill(rows)
  PROVE  /\ BackInv' /\ reqIds' = rows
         /\ \A i \in 1 .. Len(rows) : cursor' <= FirstEmit(rows[i])
<1> DEFINE n == Len(rows)
           columns == Back!PromptColumns(rows)
<1>1. n \in Nat \ {0} /\ \A i \in 1 .. n : rows[i] \in Requests
  OBVIOUS
<1>2. \A i \in 1 .. n : columns[i] = 0 .. PromptLen[rows[i]] - 1 /\ columns[i] \in SUBSET Nat
  BY <1>1, RequestFacts DEF Back!PromptColumns
<1>3. columns \in Seq(SUBSET Nat) /\ Len(columns) = n
  <2>1. columns = [i \in 1 .. n |-> columns[i]]
    BY DEF Back!PromptColumns
  <2> HIDE DEF columns, n
  <2>2. QED
    BY <1>1, <1>2, <2>1
<1>4. CASE Back!PrefillBulk(rows)
  <2> DEFINE short == Back!ShortestPrompt(rows)
             width == short + Back!Window(rows)
  <2>1. /\ reqIds' = rows /\ cursor' = short /\ total' = width
        /\ Back!Collect(rows, columns, width, short)
    BY <1>4 DEF Back!PrefillBulk
  <2>2. /\ short \in Nat /\ width \in Nat
        /\ \A i \in 1 .. n : /\ short <= PromptLen[rows[i]]
                             /\ width >= PromptLen[rows[i]] + MaxNewTokens[rows[i]]
    BY WindowWide
  <2>3. \A i \in 1 .. n : ~FullHit(rows[i])
    BY <1>4 DEF Back!PrefillBulk, Back!Hits, FullHit
  <2>4. \A i \in 1 .. n : FirstEmit(rows[i]) = PromptLen[rows[i]]
    BY <1>1, <2>3, RequestFacts
  <2> HIDE DEF short, width, columns
  <2>5. /\ filled' \in Seq(SUBSET Nat) /\ Len(filled') = n
        /\ staged' \in Seq([req : Requests, emits : BOOLEAN]) /\ Len(staged') = n
        /\ \A i \in 1 .. n :
              /\ columns[i] \subseteq filled'[i]
              /\ PromptLen[rows[i]] <= short /\ short < width => short \in filled'[i]
              /\ staged'[i].req = rows[i]
              /\ staged'[i].emits <=> short >= PromptLen[rows[i]]
    BY <1>3, <2>1, <2>2, Collected
  <2>6. \A i \in 1 .. n : RowInv(i)'
    BY <1>2, <2>1, <2>2, <2>3, <2>4, <2>5 DEF RowInv
  <2>7. Back!BackendTypeOK'
    BY <2>1, <2>2, <2>5 DEF Back!BackendTypeOK
  <2>8. QED
    BY <2>1, <2>2, <2>4, <2>5, <2>6, <2>7 DEF BackInv
<1>5. CASE Back!PrefillFromSnapshot(rows)
  <2> DEFINE r == rows[1]
             width == PromptLen[r] + MaxNewTokens[r] + 1
  <2>1. /\ n = 1 /\ SharedLen[r] # None /\ r \in Requests
        /\ reqIds' = rows /\ total' = width
    BY <1>1, <1>5 DEF Back!PrefillFromSnapshot, Back!Hits
  <2>2. /\ PromptLen[r] \in Nat /\ MaxNewTokens[r] \in Nat /\ SharedLen[r] \in Nat
        /\ PromptLen[r] >= 1 /\ SharedLen[r] <= PromptLen[r] /\ width \in Nat
        /\ FirstEmit(r) \in Nat /\ PromptLen[r] <= FirstEmit(r)
        /\ width >= FirstEmit(r) + MaxNewTokens[r]
        /\ FullHit(r) <=> SharedLen[r] = PromptLen[r]
        /\ FullHit(r) => FirstEmit(r) = PromptLen[r] + 1
        /\ ~FullHit(r) => FirstEmit(r) = PromptLen[r]
    BY <2>1, RequestFacts DEF FullHit
  <2>3. \A i \in 1 .. n : i = 1
    BY <2>1
  <2>4. CASE PromptLen[r] - SharedLen[r] > 1
    <3>1. cursor' = PromptLen[r] /\ Back!Collect(rows, columns, width, PromptLen[r])
      BY <1>5, <2>4 DEF Back!PrefillFromSnapshot
    <3> HIDE DEF width, columns
    <3>2. /\ filled' \in Seq(SUBSET Nat) /\ Len(filled') = n
          /\ staged' \in Seq([req : Requests, emits : BOOLEAN]) /\ Len(staged') = n
          /\ \A i \in 1 .. n :
                /\ columns[i] \subseteq filled'[i]
                /\ PromptLen[rows[i]] <= PromptLen[r] /\ PromptLen[r] < width
                     => PromptLen[r] \in filled'[i]
                /\ staged'[i].req = rows[i]
                /\ staged'[i].emits <=> PromptLen[r] >= PromptLen[rows[i]]
      BY <1>3, <2>2, <3>1, Collected
    <3>3. ~FullHit(r)
      BY <2>2, <2>4
    <3>4. RowInv(1)'
      BY <1>2, <2>1, <2>2, <3>1, <3>2, <3>3 DEF RowInv
    <3>5. Back!BackendTypeOK'
      BY <2>1, <2>2, <3>1, <3>2 DEF Back!BackendTypeOK
    <3>6. QED
      BY <2>1, <2>2, <2>3, <3>1, <3>2, <3>4, <3>5 DEF BackInv
  <2>5. CASE ~(PromptLen[r] - SharedLen[r] > 1)
    <3>1. /\ cursor' = SharedLen[r] /\ filled' = columns
          /\ staged' = <<[req |-> r, emits |-> FALSE]>>
      BY <1>5, <2>5 DEF Back!PrefillFromSnapshot
    <3>2. /\ staged' \in Seq([req : Requests, emits : BOOLEAN]) /\ Len(staged') = n
          /\ staged'[1].req = r /\ staged'[1].emits = FALSE
      BY <2>1, <3>1
    <3>3. columns[1] = 0 .. PromptLen[r] - 1
      BY <1>2, <2>1
    <3> HIDE DEF width, columns
    <3>4. SharedLen[r] < FirstEmit(r) /\ (PromptLen[r] <= SharedLen[r] => FullHit(r))
      BY <2>2
    <3>5. RowInv(1)'
      BY <2>1, <2>2, <3>1, <3>2, <3>3, <3>4 DEF RowInv
    <3>6. Back!BackendTypeOK'
      BY <1>3, <2>1, <2>2, <3>1, <3>2 DEF Back!BackendTypeOK
    <3>7. QED
      BY <2>1, <2>2, <2>3, <3>1, <3>2, <3>4, <3>5, <3>6 DEF BackInv
  <2>6. QED
    BY <2>4, <2>5
<1>6. QED
  BY <1>4, <1>5 DEF Back!Prefill

\* A decode step consumes one more column.
LEMMA DecodeRows ==
  ASSUME BackInv, NEW rows, Back!Decode(rows)
  PROVE  BackInv' /\ UNCHANGED reqIds /\ cursor' = cursor + 1 /\ cursor \in Nat
<1> DEFINE n == Len(reqIds)
<1>1. /\ rows = reqIds /\ cursor' = cursor + 1 /\ UNCHANGED <<reqIds, total>>
      /\ cursor < total /\ Back!Collect(reqIds, filled, total, cursor + 1)
  BY DEF BackInv, Back!Decode, Back!CohortChanged, Back!Exhausted, Back!BackendTypeOK
<1>2. /\ reqIds \in Seq(Requests) /\ cursor \in Nat /\ total \in Nat
      /\ filled \in Seq(SUBSET Nat) /\ Len(filled) = n
  BY DEF BackInv, Back!BackendTypeOK
<1>3. /\ filled' \in Seq(SUBSET Nat) /\ Len(filled') = n
      /\ staged' \in Seq([req : Requests, emits : BOOLEAN]) /\ Len(staged') = n
      /\ \A i \in 1 .. n :
            /\ filled[i] \subseteq filled'[i]
            /\ PromptLen[reqIds[i]] <= cursor + 1 /\ cursor + 1 < total
                 => cursor + 1 \in filled'[i]
            /\ staged'[i].req = reqIds[i]
            /\ staged'[i].emits <=> cursor + 1 >= PromptLen[reqIds[i]]
  <2>1. cursor + 1 \in Nat
    BY <1>2
  <2>2. QED
    BY <1>1, <1>2, <2>1, Collected
<1>4. ASSUME NEW i \in 1 .. n PROVE RowInv(i)'
  <2> DEFINE r == reqIds[i]
  <2>1. r \in Requests
    BY <1>2
  <2>2. /\ total >= FirstEmit(r) + MaxNewTokens[r]
        /\ FullHit(r) => cursor >= PromptLen[r]
        /\ 0 .. PromptLen[r] - 1 \subseteq filled[i]
    BY DEF BackInv, RowInv
  <2>3. /\ PromptLen[r] \in Nat /\ FirstEmit(r) \in Nat
        /\ FullHit(r) => FirstEmit(r) = PromptLen[r] + 1
        /\ ~FullHit(r) => FirstEmit(r) = PromptLen[r]
    BY <2>1, RequestFacts
  <2>4. cursor + 1 >= PromptLen[r] <=> cursor + 1 >= FirstEmit(r)
    BY <1>2, <2>2, <2>3
  <2>5. 0 .. PromptLen[r] - 1 \subseteq filled'[i]
    BY <1>3, <2>2
  <2>6. /\ FullHit(r) => cursor + 1 >= PromptLen[r]
        /\ PromptLen[r] <= cursor + 1 <=> cursor + 1 >= PromptLen[r]
    BY <1>2, <2>2, <2>3
  <2>7. /\ PromptLen[r] <= cursor + 1 /\ cursor + 1 < total => cursor + 1 \in filled'[i]
        /\ staged'[i].req = r
        /\ staged'[i].emits <=> cursor + 1 >= FirstEmit(r)
    BY <1>3, <2>4
  <2>8. /\ reqIds'[i] = r /\ cursor' = cursor + 1 /\ total' = total
        /\ FullHit(r)' = FullHit(r) /\ FirstEmit(r)' = FirstEmit(r)
    BY <1>1 DEF FullHit, FirstEmit
  <2> HIDE DEF r, n
  <2>9. QED
    BY <2>2, <2>5, <2>6, <2>7, <2>8 DEF RowInv, FullHit, FirstEmit
<1>5. Back!BackendTypeOK'
  BY <1>1, <1>2, <1>3 DEF Back!BackendTypeOK
<1>6. QED
  BY <1>1, <1>2, <1>3, <1>4, <1>5 DEF BackInv

\* A step of the backend finds the rows the plan is for.
LEMMA BackInvNext ==
  EngineInv /\ DrainInv /\ RowFacts /\ BackInv /\ [Next]_vars => BackInv'
<1> SUFFICES ASSUME EngineInv, DrainInv, RowFacts, BackInv, [Next]_vars PROVE BackInv'
  OBVIOUS
<1>1. ASSUME UNCHANGED backVars PROVE BackInv'
  BY <1>1 DEF backVars, BackInv, Back!BackendTypeOK, RowInv, FullHit, FirstEmit
<1>2. ASSUME epc = "step", plan = "prefill", Back!Prefill(RowsOf(active)) PROVE BackInv'
  <2>1. Sched!ActiveReqs # {}
    BY <1>2 DEF DrainInv, PlanHasRows, Prefilling
  <2>2. RowsOf(active) \in Seq(Requests) /\ RowsOf(active) # <<>>
    BY <2>1, ActiveRows
  <2>3. QED
    BY <1>2, <2>2, PrefillRows
<1>3. CASE BeginPrefill \/ StepFails
  <2>1. UNCHANGED backVars \/ (plan = "prefill" /\ Back!Prefill(RowsOf(active)))
    BY <1>3 DEF BeginPrefill, StepFails
  <2>2. epc = "step"
    BY <1>3 DEF BeginPrefill, StepFails
  <2>3. QED
    BY <1>1, <1>2, <2>1, <2>2
<1>4. CASE BeginDecode
  BY <1>4, DecodeRows DEF BeginDecode
<1>5. CASE ShutdownBackend
  <2>1. Back!Reset
    BY <1>5 DEF ShutdownBackend
  <2>2. reqIds' = <<>> /\ cursor' = 0 /\ total' = 0 /\ filled' = <<>> /\ staged' = staged
    BY <2>1 DEF Back!Reset
  <2>3. QED
    BY <2>2 DEF BackInv, Back!BackendTypeOK
<1>6. CASE UNCHANGED vars
  BY <1>1, <1>6 DEF vars, state
<1>7. CASE \/ DeadAtStart \/ DrainControl \/ HoldOpen \/ PassWindow \/ Clear \/ Wake
           \/ Planning \/ AfterPlan \/ AfterPlanRaises \/ StepRefused \/ EndStep
           \/ DeliverNext \/ DeliverDone \/ DeliverToken
           \/ Finish \/ FinishRaises \/ EmitTerminal \/ Evict \/ Die \/ Close \/ Exit
  <2>1. UNCHANGED backVars
    BY <1>7 DEF DeadAtStart, DrainControl, HoldOpen, PassWindow, Clear, Wake, Planning, AfterPlan,
       AfterPlanRaises, StepRefused, EndStep, DeliverNext, DeliverDone, DeliverToken, Finish,
       FinishRaises, EmitTerminal, Evict, Die, Close, Exit, state
  <2>2. QED
    BY <1>1, <2>1
<1>8. CASE \/ \E r \in Requests : SubmitTests(r) \/ SubmitAppend(r) \/ Cancel(r) \/ Read(r)
           \/ PostStop \/ Start \/ WindowPasses
  <2>1. UNCHANGED backVars
    BY <1>8 DEF SubmitTests, SubmitAppend, Cancel, Read, PostStop, Start, WindowPasses, state
  <2>2. QED
    BY <1>1, <2>1
<1>9. QED
  BY <1>3, <1>4, <1>5, <1>6, <1>7, <1>8 DEF Next, EngineThread

LEMMA BackInvariant == SafetySpec => []BackInv
<1>1. Init => BackInv
  <2> SUFFICES ASSUME Init PROVE BackInv
    OBVIOUS
  <2>1. reqIds = <<>> /\ cursor = 0 /\ total = 0 /\ filled = <<>> /\ staged = <<>>
    BY DEF Init, Back!BackendInit
  <2>2. QED
    BY <2>1 DEF BackInv, Back!BackendTypeOK
<1>2. SP!SchedInv => RowFacts
  BY SchedulerRows
<1>3. QED
  BY <1>1, <1>2, BackInvNext, SchedulerKept, EngineInvariant, DrainInvariant, PTL DEF SafetySpec

\* No prefix hit is a whole prompt.
NoFullHits == \A r \in Requests : SharedLen[r] # None => SharedLen[r] < PromptLen[r]

\* reference.py:376-378: as long as no prefix hit is a whole prompt, a decode
\* step consumes a column that every row of the cohort has filled.
THEOREM DecodeConsumesFilled == ASSUME NoFullHits PROVE SafetySpec => []ConsumesFilled
<1>1. BackInv => ConsumesFilled
  <2> SUFFICES ASSUME BackInv, ~Back!DecodeRefused(RowsOf(active)), NEW i \in 1 .. Len(reqIds)
               PROVE  cursor \in filled[i]
    BY DEF ConsumesFilled
  <2> DEFINE r == reqIds[i]
  <2>1. cursor \in Nat /\ total \in Nat /\ cursor < total /\ r \in Requests
    BY DEF BackInv, Back!BackendTypeOK, Back!DecodeRefused, Back!Exhausted
  <2>2. /\ 0 .. PromptLen[r] - 1 \subseteq filled[i]
        /\ PromptLen[r] <= cursor /\ cursor < total /\ ~FullHit(r) => cursor \in filled[i]
    BY DEF BackInv, RowInv
  <2>3. PromptLen[r] \in Nat /\ ~FullHit(r)
    <3>1. PromptLen[r] \in Nat /\ (SharedLen[r] # None => SharedLen[r] \in Nat)
      BY <2>1, RequestFacts
    <3>2. SharedLen[r] # None => SharedLen[r] < PromptLen[r]
      BY <2>1 DEF NoFullHits
    <3>3. QED
      BY <3>1, <3>2 DEF FullHit
  <2>4. CASE cursor < PromptLen[r]
    BY <2>1, <2>2, <2>3, <2>4
  <2>5. CASE PromptLen[r] <= cursor
    BY <2>1, <2>2, <2>3, <2>5
  <2>6. QED
    BY <2>1, <2>3, <2>4, <2>5
<1>2. QED
  BY <1>1, BackInvariant, PTL

-----------------------------------------------------------------------------
\* The results of a step, and what is left of them.

\* Where the engine thread closes a record, and where it delivers.
Closing == {"finish", "terminal", "evict"}
Delivering == {"deliver", "token"} \cup Closing

\* How many results of the step have been delivered.
Delivered == Len(staged) - Len(results)

\* The loop holds the end of what the backend staged; the record in hand is the
\* first of it, or one a closing loop has taken up.
ResultsInv ==
    /\ results \in Seq([req : Requests, emits : BOOLEAN])
    /\ epc \notin Delivering \cup {"dying"} => results = <<>>
    /\ Len(results) <= Len(staged)
    /\ \A j \in 1 .. Len(results) : results[j] = staged[Delivered + j]
    /\ epc = "token" => /\ results # <<>> /\ finishReason[current.req] = None
                        /\ current.reason \in {"cancelled"} \cup Back!Reported(Head(results).emits)
    /\ epc \in {"token"} \cup Closing /\ results # <<>> => current.req = Head(results).req
    /\ epc \in Closing /\ results = <<>> => stopped
    /\ epc = "finish" /\ results = <<>> => current.reason = "cancelled"
    /\ epc = "closing" => stopped
    /\ stopped => /\ stopPosted \/ dead
                  /\ results = <<>>
                  /\ epc \in {"top", "closing", "dying", "exited"} \cup Closing

\* Steps that touch neither the backend, the rows, the results nor a record.
Bystanding ==
    \/ DeadAtStart \/ HoldOpen \/ PassWindow \/ Clear \/ Wake \/ DeliverDone \/ Exit
    \/ PostStop \/ Start \/ WindowPasses
    \/ \E r \in Requests : SubmitTests(r) \/ SubmitAppend(r) \/ Cancel(r) \/ Read(r)

\* The engine thread stays, or moves between its points of rest.
Moves ==
    \/ epc' = epc
    \/ epc \in {"top", "clear", "asleep", "closing", "exited"} /\ epc' \in {"top", "exited"}
    \/ epc = "deliver" /\ results = <<>> /\ epc' = "top"
    \/ epc = "top" /\ ~dead /\ ~stopPosted /\ epc' \in {"clear", "planning"}
    \/ epc = "clear" /\ epc' = "asleep"

rowStepVars == <<active, owners, rowRef, spc, plan, drained>>

LEMMA BystandingLeaves ==
  ASSUME Bystanding
  PROVE  /\ UNCHANGED <<backVars, rowStepVars, recordVars, results, current, lastCohort, captured>>
         /\ UNCHANGED <<stopped, dead, raised>> /\ (stopPosted => stopPosted') /\ Moves
         /\ cancel \subseteq cancel'
<1> USE DEF state, schedVars, backVars, loopVars, clientVars, recordVars, endVars, flagVars,
            rowStepVars
<1>1. CASE \/ DeadAtStart \/ HoldOpen \/ PassWindow \/ Clear \/ Wake \/ DeliverDone \/ Exit
           \/ PostStop \/ Start \/ WindowPasses
  BY <1>1 DEF DeadAtStart, HoldOpen, PassWindow, Clear, Wake, DeliverDone, Exit, PostStop,
     Start, WindowPasses, Moves
<1>2. ASSUME NEW r \in Requests, SubmitTests(r) \/ SubmitAppend(r) \/ Cancel(r) \/ Read(r)
      PROVE  /\ UNCHANGED <<backVars, rowStepVars, recordVars, results, current, lastCohort, captured>>
             /\ UNCHANGED <<stopped, dead, raised>> /\ (stopPosted => stopPosted') /\ Moves
             /\ cancel \subseteq cancel'
  BY <1>2 DEF SubmitTests, SubmitAppend, Cancel, Read, Moves, Sched!SubmitReject,
     Sched!SubmitCheck, Sched!SubmitAppend, Sched!rowVars, Sched!scanVars, Sched!planVars
<1>3. QED
  BY <1>1, <1>2 DEF Bystanding

\* What is left after one more delivery.
LEMMA OneDelivered ==
  ASSUME BackInv, ResultsInv, results # <<>>, UNCHANGED staged, results' = Tail(results)
  PROVE  /\ results' \in Seq([req : Requests, emits : BOOLEAN])
         /\ Len(results') <= Len(staged') /\ Delivered' = Delivered + 1
         /\ \A j \in 1 .. Len(results') : results'[j] = staged'[Delivered' + j]
         /\ Head(results) = results[1] /\ results[1] = staged[Delivered + 1]
         /\ Delivered + 1 \in 1 .. Len(staged)
<1>1. /\ results \in Seq([req : Requests, emits : BOOLEAN]) /\ Len(results) <= Len(staged)
      /\ \A j \in 1 .. Len(results) : results[j] = staged[Delivered + j]
  BY DEF ResultsInv
<1>2. Len(results) \in Nat \ {0} /\ Len(staged) \in Nat
  BY <1>1 DEF BackInv, Back!BackendTypeOK
<1>3. /\ results' \in Seq([req : Requests, emits : BOOLEAN]) /\ Len(results') = Len(results) - 1
      /\ \A j \in 1 .. Len(results) - 1 : results'[j] = results[j + 1]
  BY <1>1
<1>4. Delivered' = Delivered + 1 /\ Delivered \in Nat
  BY <1>1, <1>2, <1>3 DEF Delivered
<1>5. ASSUME NEW j \in 1 .. Len(results) - 1 PROVE results'[j] = staged'[Delivered' + j]
  <2>1. results[j + 1] = staged[Delivered + (j + 1)]
    BY <1>1, <1>2
  <2>2. Delivered' + j = Delivered + (j + 1)
    BY <1>4
  <2>3. QED
    BY <1>3, <2>1, <2>2
<1>6. Head(results) = results[1] /\ results[1] = staged[Delivered + 1]
  BY <1>1, <1>2
<1>7. Delivered + 1 \in 1 .. Len(staged)
  BY <1>1, <1>2 DEF Delivered
<1>8. QED
  BY <1>1, <1>2, <1>3, <1>4, <1>5, <1>6, <1>7

LEMMA ResultsInvNext ==
  EngineInv /\ DrainInv /\ BackInv /\ BackInv' /\ ResultsInv /\ [Next]_vars => ResultsInv'
<1> SUFFICES ASSUME EngineInv, DrainInv, BackInv, BackInv', ResultsInv, [Next]_vars
             PROVE  ResultsInv'
  OBVIOUS
<1> USE DEF Closing, Delivering
<1>1. Len(staged') \in Nat /\ Len(staged) \in Nat /\ Len(results) \in Nat
  BY DEF BackInv, Back!BackendTypeOK, ResultsInv
<1>2. ASSUME UNCHANGED results, UNCHANGED staged \/ results = <<>>
      PROVE  /\ results' \in Seq([req : Requests, emits : BOOLEAN])
             /\ Len(results') <= Len(staged')
             /\ \A j \in 1 .. Len(results') : results'[j] = staged'[Delivered' + j]
  BY <1>1, <1>2 DEF ResultsInv, Delivered
<1>3. CASE Bystanding
  <2>1. /\ UNCHANGED <<results, staged, current, stopped, dead, finishReason>>
        /\ (stopPosted => stopPosted') /\ Moves
    BY <1>3, BystandingLeaves DEF backVars, recordVars
  <2>2. QED
    BY <1>2, <2>1 DEF ResultsInv, Moves
<1>4. CASE Planning \/ AfterPlan \/ AfterPlanRaises
  <2>1. /\ UNCHANGED <<results, staged, current, stopped, dead, stopPosted>> /\ epc = "planning"
        /\ epc' \in {"planning", "clear", "step", "dying"}
    BY <1>4 DEF Planning, AfterPlan, AfterPlanRaises, backVars, loopVars, clientVars, flagVars, endVars
  <2>2. QED
    BY <1>2, <2>1 DEF ResultsInv
<1>5. CASE BeginPrefill \/ BeginDecode \/ StepRefused \/ StepFails
  <2>1. /\ UNCHANGED <<results, current, stopped, dead, stopPosted>> /\ epc = "step"
        /\ epc' \in {"running", "dying"}
    BY <1>5 DEF BeginPrefill, BeginDecode, StepRefused, StepFails, state, loopVars, clientVars,
       flagVars, endVars
  <2>2. QED
    BY <1>2, <2>1 DEF ResultsInv
<1>6. CASE EndStep
  <2>1. /\ UNCHANGED <<staged, current, stopped, dead, stopPosted>> /\ epc = "running"
        /\ \/ results' = staged /\ epc' = "deliver"
           \/ UNCHANGED results /\ epc' = "dying"
    BY <1>6 DEF EndStep, backVars, clientVars, flagVars, endVars
  <2>2. CASE results' = staged /\ epc' = "deliver"
    <3>1. results' \in Seq([req : Requests, emits : BOOLEAN])
      BY <2>2 DEF BackInv, Back!BackendTypeOK
    <3>2. Delivered' = 0
      BY <1>1, <2>1, <2>2 DEF Delivered
    <3>3. QED
      BY <1>1, <2>1, <2>2, <3>1, <3>2 DEF ResultsInv
  <2>3. CASE UNCHANGED results /\ epc' = "dying"
    BY <1>2, <2>1, <2>3 DEF ResultsInv
  <2>4. QED
    BY <2>1, <2>2, <2>3
<1>7. CASE DrainControl
  <2>1. /\ UNCHANGED <<results, staged, current, dead, stopPosted>> /\ epc = "top" /\ stopPosted
        /\ epc' = "closing" /\ stopped' = TRUE
    BY <1>7 DEF DrainControl, backVars, clientVars
  <2>2. QED
    BY <1>2, <2>1 DEF ResultsInv
<1>8. CASE DeliverNext
  <2> DEFINE takes == /\ current'.req = Head(results).req /\ finishReason'[current'.req] = None
                      /\ current'.reason \in {"cancelled"} \cup Back!Reported(Head(results).emits)
  <2>1. /\ UNCHANGED <<staged, stopped, dead, stopPosted>> /\ epc = "deliver" /\ results # <<>>
        /\ \/ results' = Tail(results) /\ UNCHANGED <<current, epc>>
           \/ takes /\ epc' = "token" /\ UNCHANGED results
    BY <1>8 DEF DeliverNext, Skips, backVars, clientVars, recordVars, flagVars, endVars
  <2>2. CASE results' = Tail(results) /\ UNCHANGED <<current, epc>>
    BY <2>1, <2>2, OneDelivered DEF ResultsInv
  <2>3. CASE takes /\ epc' = "token" /\ UNCHANGED results
    BY <1>2, <2>1, <2>3 DEF ResultsInv
  <2>4. QED
    BY <2>1, <2>2, <2>3
<1>9. CASE DeliverToken
  <2>1. /\ UNCHANGED <<staged, stopped, dead, stopPosted>> /\ epc = "token"
        /\ current'.req = current.req
        /\ \/ results' = Tail(results) /\ epc' = "deliver"
           \/ epc' = "finish" /\ UNCHANGED results
    BY <1>9 DEF DeliverToken, backVars, flagVars, endVars
  <2>2. results # <<>>
    BY <2>1 DEF ResultsInv
  <2>3. CASE results' = Tail(results) /\ epc' = "deliver"
    BY <2>1, <2>2, <2>3, OneDelivered DEF ResultsInv
  <2>4. CASE epc' = "finish" /\ UNCHANGED results
    BY <1>2, <2>1, <2>2, <2>4 DEF ResultsInv
  <2>5. QED
    BY <2>1, <2>3, <2>4
<1>10. CASE Finish \/ FinishRaises
  <2>1. /\ UNCHANGED <<results, staged, current, stopped, dead, stopPosted>> /\ epc = "finish"
        /\ epc' \in {"terminal", "dying"} \/ (dead /\ epc' = "exited")
    BY <1>10 DEF Finish, FinishRaises, backVars, loopVars, clientVars, flagVars, endVars
  <2>2. dead => results = <<>>
    BY DEF DrainInv, DeadEnds
  <2>3. QED
    BY <1>2, <2>1, <2>2 DEF ResultsInv
<1>11. CASE EmitTerminal \/ Evict
  <2>1. /\ UNCHANGED <<staged, current, stopped, dead, stopPosted>> /\ epc \in {"terminal", "evict"}
        /\ \/ epc' = "evict" /\ UNCHANGED results
           \/ FinishReturns
    BY <1>11 DEF EmitTerminal, Evict, backVars, flagVars, endVars
  <2>2. CASE epc' = "evict" /\ UNCHANGED results
    BY <1>2, <2>1, <2>2 DEF ResultsInv
  <2>3. CASE FinishReturns /\ results # <<>>
    <3>1. results' = Tail(results) /\ epc' = "deliver"
      BY <2>3 DEF FinishReturns
    <3>2. QED
      BY <2>1, <2>3, <3>1, OneDelivered DEF ResultsInv
  <2>4. CASE FinishReturns /\ results = <<>>
    <3>1. UNCHANGED results /\ epc' = "closing"
      BY <2>4 DEF FinishReturns
    <3>2. QED
      BY <1>2, <2>1, <2>4, <3>1 DEF ResultsInv
  <2>5. QED
    BY <2>1, <2>2, <2>3, <2>4
<1>12. CASE Die
  <2>1. /\ results' = <<>> /\ epc' = "closing" /\ dead' = TRUE /\ stopped' = TRUE
        /\ UNCHANGED staged
    BY <1>12 DEF Die, backVars
  <2>2. QED
    BY <1>1, <2>1 DEF ResultsInv
<1>13. CASE Close
  <2>1. /\ UNCHANGED <<results, staged, stopped, dead, stopPosted>> /\ epc = "closing"
        /\ \/ UNCHANGED <<current, epc>>
           \/ epc' = "finish" /\ current'.reason = "cancelled"
    BY <1>13 DEF Close, backVars, clientVars, flagVars, endVars
  <2>2. QED
    BY <1>2, <2>1 DEF ResultsInv
<1>14. CASE ShutdownBackend
  <2>1. UNCHANGED <<results, staged, current, stopped, dead, stopPosted, epc, finishReason>>
    BY <1>14 DEF ShutdownBackend, Back!Reset, loopVars, clientVars, recordVars, flagVars, endVars
  <2>2. QED
    BY <1>2, <2>1 DEF ResultsInv
<1>15. CASE UNCHANGED vars
  <2>1. UNCHANGED <<results, staged, current, stopped, dead, stopPosted, epc, finishReason>>
    BY <1>15 DEF vars, state, backVars, loopVars, clientVars, recordVars, flagVars, endVars
  <2>2. QED
    BY <1>2, <2>1 DEF ResultsInv
<1>16. QED
  BY <1>3, <1>4, <1>5, <1>6, <1>7, <1>8, <1>9, <1>10, <1>11, <1>12, <1>13, <1>14, <1>15
  DEF Next, EngineThread, Bystanding

LEMMA ResultsInvariant == SafetySpec => []ResultsInv
<1>1. Init => ResultsInv
  BY DEF Init, ResultsInv, Delivering, Closing, Back!BackendInit
<1>2. QED
  BY <1>1, ResultsInvNext, BackInvariant, EngineInvariant, DrainInvariant, PTL DEF SafetySpec

-----------------------------------------------------------------------------
\* The cohort: who holds a row, in the scheduler and in the backend.

\* A call of next_plan, as the rest of the engine sees it.
Replans ==
    \/ /\ UNCHANGED <<active, phase>>
       /\ \/ /\ spc = "idle" /\ spc' = "returned" /\ plan' = "decode"
             /\ \E r \in Sched!ActiveReqs : finishReason[r] = None
          \/ /\ spc = "idle" /\ spc' = "release" /\ plan' = plan
             /\ \A r \in Sched!ActiveReqs : finishReason[r] # None
          \/ /\ spc \in {"idle", "release"} /\ spc' = "pop" /\ plan' = plan
             /\ Sched!ActiveReqs = {}
          \/ /\ spc \in {"pop", "scan"} /\ spc' \in {"pop", "scan", "publish"} /\ plan' = plan
          \/ spc = "scan" /\ spc' = "returned" /\ plan' = "none" /\ Sched!ActiveReqs = {}
          \/ spc = "publish" /\ spc' = "returned" /\ plan' = "prefill"
    \/ /\ spc = "release" /\ UNCHANGED <<spc, plan>>
       /\ \E s \in Sched!Slots : /\ active[s] # None
                                 /\ active' = [active EXCEPT ![s] = None]
                                 /\ phase' = [phase EXCEPT ![active[s]] = "released"]
    \/ /\ spc = "publish" /\ UNCHANGED <<spc, plan, phase>>
       /\ \E s \in Sched!Slots, q \in Requests : /\ active[s] = None
                                                 /\ active' = [active EXCEPT ![s] = q]

LEMMA PlanningReplans ==
  ASSUME EngineInv, DrainInv, RowFacts, Planning
  PROVE  /\ Replans /\ epc = "planning" /\ UNCHANGED epc
         /\ UNCHANGED <<backVars, loopVars, clientVars, recordVars, flagVars>>
<1>1. /\ epc = "planning" /\ UNCHANGED epc /\ Sched!NextPlan
      /\ UNCHANGED <<backVars, loopVars, clientVars, recordVars, flagVars>>
  BY DEF Planning
<1> SUFFICES Replans
  BY <1>1
<1> USE DEF Sched!queueVars, Sched!rowVars, Sched!scanVars, Sched!planVars
<1>2. Sched!ActiveReqs \subseteq Requests
  BY DEF RowFacts, Sched!ActiveReqs
<1>3. \A r \in Sched!ActiveReqs : r \in Done <=> finishReason[r] # None
  BY <1>2 DEF Done, Sched!ActiveReqs, Sched!Slots
<1>4. CASE Sched!PlanDecode
  BY <1>3, <1>4 DEF Sched!PlanDecode, Replans
<1>5. CASE Sched!DrainCohort
  BY <1>3, <1>5 DEF Sched!DrainCohort, Replans
<1>6. CASE \E s \in Sched!Slots : Sched!ReleaseRow(s)
  BY <1>6 DEF Sched!ReleaseRow, Replans
<1>7. CASE Sched!BeginAdmit
  BY <1>7 DEF Sched!BeginAdmit, Replans
<1>8. CASE Sched!Pop \/ Sched!PopDone \/ Sched!ScanAccept \/ Sched!ScanRequeue
  BY <1>8 DEF Sched!Pop, Sched!PopDone, Sched!ScanAccept, Sched!ScanRequeue, Replans
<1>9. CASE Sched!ScanDone
  <2>1. Sched!ActiveReqs = {} /\ spc = "scan"
    BY <1>9 DEF Sched!ScanDone, RowFacts
  <2>2. QED
    BY <1>9, <2>1 DEF Sched!ScanDone, Replans
<1>10. CASE Sched!Publish
  <2>1. PICK s \in Sched!Slots : /\ Sched!Store!Alloc(Head(cohort), s)
                                 /\ active' = [active EXCEPT ![s] = Head(cohort)]
    BY <1>10 DEF Sched!Publish
  <2>2. active[s] = None
    BY <2>1 DEF Sched!Store!Alloc, Sched!Store!FirstFree, Sched!Store!IsFree, RowFacts
  <2>3. Head(cohort) \in Requests
    BY <1>10 DEF Sched!Publish, DrainInv, QueueTypes
  <2>4. spc = "publish" /\ UNCHANGED <<spc, plan, phase>>
    BY <1>10 DEF Sched!Publish
  <2>5. QED
    BY <2>1, <2>2, <2>3, <2>4 DEF Replans
<1>11. CASE Sched!PublishDone
  BY <1>11 DEF Sched!PublishDone, Replans
<1>12. QED
  BY <1>1, <1>4, <1>5, <1>6, <1>7, <1>8, <1>9, <1>10, <1>11 DEF Sched!NextPlan

\* The engine has not died, and no new cohort is on its way into the backend.
Alive == ~dead /\ epc # "dying"
Turning == Admitting \/ Prefilling

RowsDistinct == \A i, j \in 1 .. Len(reqIds) : reqIds[i] = reqIds[j] => i = j

\* Backend and scheduler hold the same rows, and the loop is to capture them or
\* has done so.
Held ==
    Alive /\ reqIds # <<>> /\ Sched!ActiveReqs # {} /\ ~Turning /\ spc # "release" =>
        /\ reqIds = RowsOf(active)
        /\ lastCohort = reqIds \/ (lastCohort = <<>> /\ captured)

\* A row whose record is open, or about to be closed, is still active.
UnfinishedActive ==
    Alive => \A i \in 1 .. Len(reqIds) :
        finishReason[reqIds[i]] = None \/ (epc \in {"token", "finish"} /\ current.req = reqIds[i])
           => IsActive(reqIds[i])

\* Only a request whose cohort has run has tokens, or was finished before a stop.
Started ==
    \A r \in Requests : completion[r] > 0 \/ (terminalSent[r] /\ ~stopped) =>
        phase[r] = "released" \/ (IsActive(r) /\ ~Turning)

\* A decode is planned only for a row that is not finished.
WorkLeft ==
    plan = "decode" /\ (spc = "returned" \/ epc = "step") =>
        \E r \in Sched!ActiveReqs : finishReason[r] = None

\* Rows are released only when all are finished.
ReleasesDone == spc = "release" => \A r \in Sched!ActiveReqs : finishReason[r] # None

InHandActive == epc \in {"token"} \cup Closing /\ results # <<>> => IsActive(current.req)

CohortInv ==
    RowsDistinct /\ Held /\ UnfinishedActive /\ Started /\ WorkLeft /\ ReleasesDone /\ InHandActive

LEMMA ActiveIs ==
  ASSUME RowFacts
  PROVE  /\ \A r \in Requests : IsActive(r) <=> r \in Sched!ActiveReqs
         /\ Sched!ActiveReqs \subseteq Requests
BY EngineAssumption DEF RowFacts, IsActive, Sched!ActiveReqs

LEMMA CohortReplans ==
  ASSUME EngineInv, DrainInv, RowFacts, BackInv, CohortInv, Planning
  PROVE  CohortInv'
<1>1. /\ Replans /\ epc = "planning" /\ epc' = "planning"
      /\ UNCHANGED <<reqIds, results, current, lastCohort, captured, finishReason, terminalSent,
                     completion, stopped, dead>>
  BY PlanningReplans DEF backVars, loopVars, recordVars, flagVars, endVars
<1>2. Alive /\ Alive' /\ ~Prefilling /\ ~Prefilling'
  BY <1>1 DEF Alive, Prefilling, DrainInv, DeadEnds
<1>3. RowsDistinct' /\ InHandActive'
  BY <1>1 DEF CohortInv, RowsDistinct, InHandActive, Closing
<1>4. CASE UNCHANGED <<active, phase>>
  <2>1. Sched!ActiveReqs' = Sched!ActiveReqs /\ \A r : IsActive(r)' <=> IsActive(r)
    BY <1>4 DEF Sched!ActiveReqs, IsActive
  <2>2. UnfinishedActive'
    BY <1>1, <1>2, <2>1 DEF CohortInv, UnfinishedActive
  <2>3. \/ /\ spc = "idle" /\ spc' = "returned" /\ plan' = "decode"
           /\ \E r \in Sched!ActiveReqs : finishReason[r] = None
        \/ /\ spc = "idle" /\ spc' = "release" /\ plan' = plan
           /\ \A r \in Sched!ActiveReqs : finishReason[r] # None
        \/ /\ spc \in {"idle", "release"} /\ spc' = "pop" /\ plan' = plan /\ Sched!ActiveReqs = {}
        \/ /\ spc \in {"pop", "scan"} /\ spc' \in {"pop", "scan", "publish"} /\ plan' = plan
        \/ spc = "scan" /\ spc' = "returned" /\ plan' = "none" /\ Sched!ActiveReqs = {}
        \/ spc = "publish" /\ spc' = "returned" /\ plan' = "prefill"
        \/ spc' = spc /\ plan' = plan
    BY <1>1 DEF Replans
  <2>4. RowsOf(active)' = RowsOf(active)
    BY <1>4
  <2>5. Held'
    BY <1>1, <1>2, <2>1, <2>3, <2>4 DEF CohortInv, Held, Turning, Admitting
  <2>6. Started'
    <3>1. \A r \in Requests : Sched!ActiveReqs = {} => ~IsActive(r)
      BY ActiveIs
    <3>2. QED
      BY <1>1, <1>2, <1>4, <2>1, <2>3, <3>1 DEF CohortInv, Started, Turning, Admitting
  <2>7. WorkLeft' /\ ReleasesDone'
    BY <1>1, <2>1, <2>3 DEF CohortInv, WorkLeft, ReleasesDone
  <2>8. QED
    BY <1>3, <2>2, <2>5, <2>6, <2>7 DEF CohortInv
<1>5. ASSUME NEW s \in Sched!Slots, active[s] # None, spc = "release", UNCHANGED <<spc, plan>>,
             active' = [active EXCEPT ![s] = None],
             phase' = [phase EXCEPT ![active[s]] = "released"]
      PROVE  CohortInv'
  <2>1. active[s] \in Requests /\ finishReason[active[s]] # None
    BY <1>5, ActiveIs DEF CohortInv, ReleasesDone, RowFacts, Sched!ActiveReqs
  <2>2. \A r \in Requests : IsActive(r) /\ r # active[s] => IsActive(r)'
    BY <1>5 DEF IsActive, RowFacts
  <2>3. Sched!ActiveReqs' \subseteq Sched!ActiveReqs
    BY <1>5 DEF Sched!ActiveReqs, Sched!Slots, RowFacts
  <2>4. UnfinishedActive'
    BY <1>1, <1>2, <2>1, <2>2, <1>5 DEF CohortInv, UnfinishedActive, RowFacts, IsActive
  <2>5. Started'
    BY <1>1, <1>2, <1>5, <2>1, <2>2 DEF CohortInv, Started, Turning, Admitting, RowFacts
  <2>6. ReleasesDone'
    BY <1>1, <1>5, <2>3 DEF CohortInv, ReleasesDone
  <2>7. Held' /\ WorkLeft'
    BY <1>1, <1>5 DEF Held, WorkLeft
  <2>8. QED
    BY <1>3, <2>4, <2>5, <2>6, <2>7 DEF CohortInv
<1>6. ASSUME NEW s \in Sched!Slots, NEW q \in Requests, active[s] = None, spc = "publish",
             UNCHANGED <<spc, plan, phase>>, active' = [active EXCEPT ![s] = q]
      PROVE  CohortInv'
  <2>1. \A r \in Requests : IsActive(r) => IsActive(r)'
    BY <1>6, EngineAssumption DEF IsActive, RowFacts
  <2>2. UnfinishedActive'
    <3>1. \A i \in 1 .. Len(reqIds) : reqIds[i] \in Requests
      BY DEF BackInv, Back!BackendTypeOK
    <3>2. QED
      BY <1>1, <1>2, <2>1, <3>1 DEF CohortInv, UnfinishedActive
  <2>3. Started'
    BY <1>1, <1>2, <1>6, <2>1 DEF CohortInv, Started, Turning, Admitting
  <2>4. Held' /\ WorkLeft' /\ ReleasesDone'
    BY <1>1, <1>6 DEF Held, WorkLeft, ReleasesDone, Turning, Admitting
  <2>5. QED
    BY <1>3, <2>2, <2>3, <2>4 DEF CohortInv
<1>7. QED
  BY <1>1, <1>4, <1>5, <1>6 DEF Replans

\* Steps that change no record and no row, and take up only open records.
LEMMA CohortFrame ==
  ASSUME CohortInv, UNCHANGED <<active, spc, plan, lastCohort, captured, recordVars>>,
         reqIds' \in {reqIds, <<>>},
         \A r \in Requests : phase[r] = "released" => phase'[r] = "released",
         stopped => stopped', Alive' => Alive, epc' = "step" => epc = "step",
         Prefilling /\ Alive' => Prefilling',
         epc' \in {"token", "finish"} =>
           finishReason[current'.req] = None \/ UNCHANGED <<epc, current>>,
         InHandActive'
  PROVE  CohortInv'
<1>1. /\ UNCHANGED <<active, spc, plan, lastCohort, captured, finishReason, terminalSent, completion>>
      /\ Sched!ActiveReqs' = Sched!ActiveReqs /\ \A r : IsActive(r)' <=> IsActive(r)
      /\ RowsOf(active)' = RowsOf(active)
  BY DEF recordVars, Sched!ActiveReqs, IsActive
<1>2. reqIds' = <<>> => Len(reqIds') = 0
  OBVIOUS
<1>3. RowsDistinct'
  BY <1>2 DEF CohortInv, RowsDistinct
<1>4. Held'
  BY <1>1 DEF CohortInv, Held, Turning, Admitting
<1>5. UnfinishedActive'
  BY <1>1, <1>2 DEF CohortInv, UnfinishedActive
<1>6. Started'
  BY <1>1 DEF CohortInv, Started, Turning, Admitting, Prefilling
<1>7. WorkLeft' /\ ReleasesDone'
  BY <1>1 DEF CohortInv, WorkLeft, ReleasesDone
<1>8. QED
  BY <1>3, <1>4, <1>5, <1>6, <1>7 DEF CohortInv

\* What API threads do to a phase.
LEMMA PhaseMoves ==
  ASSUME RowFacts, Bystanding
  PROVE  \A r \in Requests : phase[r] \in {"queued", "released"} => phase'[r] = phase[r]
<1>1. CASE \E q \in Requests : SubmitTests(q) \/ SubmitAppend(q)
  <2>1. PICK q \in Requests : SubmitTests(q) \/ SubmitAppend(q)
    BY <1>1
  <2>2. \/ phase[q] = "new" /\ phase' = [phase EXCEPT ![q] = "rejected"]
        \/ phase[q] = "new" /\ phase' = [phase EXCEPT ![q] = "checked"]
        \/ phase[q] = "checked" /\ phase' = [phase EXCEPT ![q] = "queued"]
    BY <2>1 DEF SubmitTests, SubmitAppend, Sched!SubmitReject, Sched!SubmitCheck, Sched!SubmitAppend
  <2>3. QED
    BY <2>2 DEF RowFacts
<1>2. CASE \/ DeadAtStart \/ HoldOpen \/ PassWindow \/ Clear \/ Wake \/ DeliverDone \/ Exit
           \/ PostStop \/ Start \/ WindowPasses \/ \E r \in Requests : Cancel(r) \/ Read(r)
  BY <1>2 DEF DeadAtStart, HoldOpen, PassWindow, Clear, Wake, DeliverDone, Exit, PostStop,
     Start, WindowPasses, Cancel, Read, state, schedVars
<1>3. QED
  BY <1>1, <1>2 DEF Bystanding

LEMMA CohortQuiet ==
  ASSUME EngineInv, DrainInv, RowFacts, ResultsInv, CohortInv,
         \/ Bystanding \/ ShutdownBackend \/ UNCHANGED vars \/ DrainControl \/ StepRefused \/ EndStep
         \/ DeliverNext \/ EmitTerminal \/ Evict \/ Die \/ Close
  PROVE  CohortInv'
<1> USE DEF Closing
<1>1. CASE Bystanding
  <2>1. /\ UNCHANGED <<active, spc, plan, lastCohort, captured, recordVars, reqIds, results, current>>
        /\ UNCHANGED <<stopped, dead>> /\ Moves
    BY <1>1, BystandingLeaves DEF backVars, rowStepVars
  <2>2. \A r \in Requests : phase[r] = "released" => phase'[r] = "released"
    BY <1>1, PhaseMoves
  <2>3. (Alive' => Alive) /\ (epc' = "step" <=> epc = "step")
    BY <2>1 DEF Alive, Moves
  <2>4. InHandActive'
    BY <2>1 DEF CohortInv, InHandActive, IsActive, Moves
  <2>5. epc' \in {"token", "finish"} => UNCHANGED <<epc, current>>
    BY <2>1 DEF Moves
  <2>6. QED
    BY <2>1, <2>2, <2>3, <2>4, <2>5, CohortFrame DEF Prefilling
<1>2. CASE ShutdownBackend \/ UNCHANGED vars
  <2>1. /\ UNCHANGED <<active, spc, plan, lastCohort, captured, recordVars, results, current>>
        /\ UNCHANGED <<stopped, dead, epc, phase>> /\ reqIds' \in {reqIds, <<>>}
    BY <1>2 DEF ShutdownBackend, Back!Reset, vars, state, schedVars, backVars, loopVars, flagVars,
       endVars
  <2>2. Alive' => Alive
    BY <2>1 DEF Alive
  <2>3. InHandActive'
    BY <2>1 DEF CohortInv, InHandActive, IsActive
  <2>4. QED
    BY <2>1, <2>2, <2>3, CohortFrame DEF Prefilling
<1>3. CASE DrainControl \/ StepRefused \/ EndStep \/ EmitTerminal \/ Evict \/ Die
  <2>1. /\ UNCHANGED <<active, spc, plan, lastCohort, captured, recordVars, reqIds, phase>>
        /\ (stopped => stopped') /\ (dead => dead')
    BY <1>3 DEF DrainControl, StepRefused, EndStep, EmitTerminal, Evict, Die, state, schedVars,
       backVars, loopVars, recordVars, flagVars, endVars
  <2>2. /\ epc = "dying" => dead'
        /\ epc \in {"top", "step", "running", "terminal", "evict", "dying"}
        /\ epc' \in {"closing", "dying", "deliver", "evict"} /\ (epc = "step" => epc' = "dying")
    BY <1>3 DEF DrainControl, StepRefused, EndStep, EmitTerminal, Evict, Die, FinishReturns
  <2>3. Alive' => Alive
    BY <2>1, <2>2 DEF Alive
  <2>4. InHandActive'
    <3>1. CASE EmitTerminal \/ Evict
      <4>1. epc' = "evict" => UNCHANGED <<results, current>>
        BY <3>1 DEF EmitTerminal, Evict, FinishReturns
      <4>2. epc \in Closing
        BY <3>1 DEF EmitTerminal, Evict
      <4>3. QED
        BY <2>1, <2>2, <4>1, <4>2 DEF CohortInv, InHandActive, IsActive
    <3>2. CASE DrainControl \/ StepRefused \/ EndStep \/ Die
      <4>1. epc' \in {"closing", "dying", "deliver"}
        BY <3>2 DEF DrainControl, StepRefused, EndStep, Die
      <4>2. QED
        BY <4>1 DEF InHandActive
    <3>3. QED
      BY <1>3, <3>1, <3>2
  <2>5. Prefilling => ~Alive'
    BY <2>2 DEF Prefilling, Alive
  <2>6. QED
    BY <2>1, <2>2, <2>3, <2>4, <2>5, CohortFrame
<1>4. CASE DeliverNext \/ Close
  <2>1. /\ UNCHANGED <<active, spc, plan, lastCohort, captured, recordVars, reqIds, phase>>
        /\ UNCHANGED <<stopped, dead>>
    BY <1>4 DEF DeliverNext, Close, schedVars, backVars, flagVars, endVars
  <2>2. \/ UNCHANGED <<epc, current>> /\ epc \in {"deliver", "closing"}
        \/ /\ epc' = "token" /\ epc = "deliver" /\ ~Skips(current'.req)
        \/ epc' = "finish" /\ epc = "closing" /\ ~IsClosed(current'.req) /\ UNCHANGED results
    BY <1>4 DEF DeliverNext, Close
  <2>3. Alive' => Alive
    BY <2>1, <2>2 DEF Alive
  <2>4. InHandActive'
    <3>1. ASSUME ~Skips(current'.req) PROVE IsActive(current.req)'
      BY <2>1, <3>1 DEF Skips, Sched!Store!OwnedBy, Sched!Store!Slots, Sched!Slots, IsActive
    <3>2. epc = "closing" => results = <<>>
      BY DEF ResultsInv, Delivering
    <3>3. QED
      BY <2>2, <3>1, <3>2 DEF InHandActive
  <2>5. epc' \in {"token", "finish"} => finishReason[current'.req] = None
    BY <2>2 DEF Skips, IsClosed
  <2>6. ~Prefilling /\ epc' # "step"
    BY <2>2 DEF Prefilling
  <2>7. QED
    BY <2>1, <2>3, <2>4, <2>5, <2>6, CohortFrame
<1>5. QED
  BY <1>1, <1>2, <1>3, <1>4

\* The plan is taken; an idle capture leaves no rows to hold.
LEMMA CohortTaken ==
  ASSUME EngineInv, DrainInv, CohortInv, AfterPlan \/ AfterPlanRaises
  PROVE  CohortInv'
<1>1. /\ epc = "planning" /\ spc = "returned" /\ spc' = "idle"
      /\ UNCHANGED <<active, phase, plan, reqIds, results, recordVars, stopped, dead>>
      /\ epc' = "dying" \/ epc' = IF plan = "none" THEN "clear" ELSE "step"
      /\ lastCohort' = lastCohort \/ Sched!ActiveReqs = {}
  BY DEF AfterPlan, AfterPlanRaises, Sched!TakePlan, Sched!queueVars, Sched!rowVars, CapturesIdle,
     backVars, loopVars, flagVars, endVars
<1>0. captured => captured'
  BY DEF AfterPlan, AfterPlanRaises, loopVars
<1>2. /\ UNCHANGED <<finishReason, terminalSent, completion>>
      /\ Sched!ActiveReqs' = Sched!ActiveReqs /\ \A r : IsActive(r)' <=> IsActive(r)
      /\ RowsOf(active)' = RowsOf(active)
  BY <1>1 DEF recordVars, Sched!ActiveReqs, IsActive
<1>3. Alive /\ ~Prefilling /\ (Alive' /\ plan = "prefill" => Prefilling')
  BY <1>1 DEF Alive, Prefilling, DrainInv, DeadEnds
<1>4. Held'
  BY <1>0, <1>1, <1>2, <1>3 DEF CohortInv, Held, Turning, Admitting
<1>5. UnfinishedActive'
  BY <1>1, <1>2, <1>3 DEF CohortInv, UnfinishedActive
<1>6. Started'
  BY <1>1, <1>2, <1>3 DEF CohortInv, Started, Turning, Admitting, Prefilling
<1>7. RowsDistinct' /\ WorkLeft' /\ ReleasesDone' /\ InHandActive'
  BY <1>1, <1>2 DEF CohortInv, RowsDistinct, WorkLeft, ReleasesDone, InHandActive, Closing
<1>8. QED
  BY <1>4, <1>5, <1>6, <1>7 DEF CohortInv

\* A prefill brings the scheduler's rows into the backend.
LEMMA CohortEnqueued ==
  ASSUME EngineInv, DrainInv, RowFacts, BackInv, CohortInv, BeginPrefill \/ BeginDecode \/ StepFails
  PROVE  CohortInv'
<1>1. /\ epc = "step" /\ epc' \in {"running", "dying"} /\ (StepFails => epc' = "dying")
      /\ UNCHANGED <<schedVars, recordVars, results, stopped, dead>>
  BY DEF BeginPrefill, BeginDecode, StepFails, loopVars, flagVars, endVars
<1>2. \/ plan = "prefill" /\ Back!Prefill(RowsOf(active))
         /\ (BeginPrefill => lastCohort' = RowsOf(active))
      \/ UNCHANGED <<reqIds, lastCohort, captured>> /\ (Prefilling => epc' = "dying")
  <2>1. CASE BeginPrefill
    BY <2>1 DEF BeginPrefill
  <2>2. CASE BeginDecode
    BY <2>2, DecodeRows DEF BeginDecode, Prefilling, loopVars
  <2>3. CASE StepFails
    BY <2>3, <1>1 DEF StepFails, BeginPrefill, backVars
  <2>4. QED
    BY <2>1, <2>2, <2>3
<1>3. /\ UNCHANGED <<active, phase, spc, plan, finishReason, terminalSent, completion>>
      /\ Sched!ActiveReqs' = Sched!ActiveReqs /\ \A r : IsActive(r)' <=> IsActive(r)
      /\ RowsOf(active)' = RowsOf(active)
  BY <1>1 DEF schedVars, recordVars, Sched!ActiveReqs, IsActive
<1>4. spc = "idle" /\ spc' = "idle" /\ ~Prefilling' /\ ~Turning'
  BY <1>1, <1>3 DEF EngineInv, Prefilling, Turning, Admitting
<1>5. reqIds' = reqIds \/ (reqIds' = RowsOf(active) /\ Prefilling)
  <2>1. CASE plan = "prefill" /\ Back!Prefill(RowsOf(active))
    <3>1. Sched!ActiveReqs # {}
      BY <1>1, <2>1 DEF DrainInv, PlanHasRows, Prefilling
    <3>2. RowsOf(active) \in Seq(Requests) /\ RowsOf(active) # <<>>
      BY <3>1, ActiveRows
    <3>3. QED
      BY <1>1, <2>1, <3>2, PrefillRows DEF Prefilling
  <2>2. QED
    BY <1>2, <2>1
<1>6. RowsDistinct'
  BY <1>5, ActiveRows DEF CohortInv, RowsDistinct
<1>7. Held'
  <2>1. CASE epc' = "dying"
    BY <2>1 DEF Held, Alive
  <2>2. CASE epc' = "running" /\ BeginPrefill
    <3>1. reqIds' = RowsOf(active) /\ lastCohort' = RowsOf(active)
      <4>1. Back!Prefill(RowsOf(active)) /\ Prefilling /\ lastCohort' = RowsOf(active)
        BY <2>2 DEF BeginPrefill, Prefilling
      <4>2. reqIds' = RowsOf(active)
        <5>1. Sched!ActiveReqs # {}
          BY <4>1 DEF DrainInv, PlanHasRows
        <5>2. RowsOf(active) \in Seq(Requests) /\ RowsOf(active) # <<>>
          BY <5>1, ActiveRows
        <5>3. QED
          BY <4>1, <5>2, PrefillRows
      <4>3. QED
        BY <4>1, <4>2
    <3>2. QED
      BY <1>3, <3>1 DEF Held
  <2>3. CASE epc' = "running" /\ BeginDecode
    <3>1. /\ plan = "decode" /\ UNCHANGED <<reqIds, lastCohort, captured>>
      BY <2>3, DecodeRows DEF BeginDecode, loopVars
    <3>2. Alive' => Alive /\ ~Turning
      BY <1>1, <1>4, <3>1 DEF Alive, Turning, Admitting, Prefilling
    <3>3. QED
      BY <1>3, <1>4, <3>1, <3>2 DEF CohortInv, Held
  <2>4. QED
    BY <1>1, <2>1, <2>2, <2>3
<1>8. UnfinishedActive'
  <2>1. Alive' => Alive
    BY <1>1 DEF Alive
  <2>2. QED
    BY <1>1, <1>3, <1>5, <2>1, ActiveRows DEF CohortInv, UnfinishedActive
<1>9. Started'
  BY <1>1, <1>3, <1>4 DEF CohortInv, Started
<1>10. WorkLeft' /\ ReleasesDone' /\ InHandActive'
  BY <1>1, <1>4 DEF WorkLeft, ReleasesDone, InHandActive, Closing
<1>11. QED
  BY <1>6, <1>7, <1>8, <1>9, <1>10 DEF CohortInv

\* A record gets its token, its reason or its end while its row is active.
LEMMA CohortRecords ==
  ASSUME EngineInv, DrainInv, RowFacts, BackInv, ResultsInv, CohortInv,
         DeliverToken \/ Finish \/ FinishRaises
  PROVE  CohortInv'
<1> DEFINE q == current.req
<1>1. /\ epc \in {"token", "finish"} /\ epc' \notin {"step", "planning"}
      /\ UNCHANGED <<schedVars, reqIds, stopped, dead>> /\ current'.req = q
      /\ results' \in {results, Tail(results)}
  BY DEF DeliverToken, Finish, FinishRaises, RowStays, backVars, loopVars, flagVars, endVars
<1>2. /\ UNCHANGED <<active, phase, spc, plan>> /\ spc = "idle"
      /\ Sched!ActiveReqs' = Sched!ActiveReqs /\ (\A r : IsActive(r)' <=> IsActive(r))
      /\ RowsOf(active)' = RowsOf(active)
  BY <1>1 DEF schedVars, Sched!ActiveReqs, IsActive, EngineInv
<1>3. ~Turning /\ ~Turning' /\ (Alive' => Alive)
  BY <1>1, <1>2 DEF Turning, Admitting, Prefilling, Alive
<1>4. \A r \in Requests : r # q => UNCHANGED <<finishReason[r], terminalSent[r], completion[r]>>
  BY DEF DeliverToken, EmitToken, Finish, FinishRaises, CloseRecord, EngineInv, RecordTypes
<1>5. \A r \in Requests : finishReason[r] # None => finishReason'[r] # None
  <2>1. CASE DeliverToken
    <3>1. "backpressure" # None
      BY EngineAssumption DEF Reasons
    <3>2. UNCHANGED finishReason \/ finishReason' = [finishReason EXCEPT ![q] = "backpressure"]
      BY <2>1 DEF DeliverToken, EmitToken
    <3>3. QED
      BY <3>1, <3>2 DEF EngineInv, RecordTypes
  <2>2. CASE Finish \/ FinishRaises
    <3>1. finishReason' = [finishReason EXCEPT ![q] = current.reason] /\ current.reason # None
      BY <2>2 DEF Finish, FinishRaises, CloseRecord, EngineInv
    <3>2. QED
      BY <3>1 DEF EngineInv, RecordTypes
  <2>3. QED
    BY <2>1, <2>2
<1>6. results # <<>> => IsActive(q)
  BY <1>1 DEF CohortInv, InHandActive, Closing
<1>7. RowsDistinct' /\ WorkLeft' /\ ReleasesDone'
  BY <1>1, <1>2 DEF CohortInv, RowsDistinct, WorkLeft, ReleasesDone
<1>8. Held'
  <2>1. CASE DeliverToken
    BY <1>1, <1>2, <1>3, <2>1 DEF DeliverToken, CohortInv, Held
  <2>2. CASE Finish
    BY <1>1, <1>2, <1>3, <2>2 DEF Finish, CohortInv, Held
  <2>3. CASE FinishRaises
    BY <1>1, <1>2, <1>3, <2>3 DEF FinishRaises, CohortInv, Held, loopVars
  <2>4. QED
    BY <2>1, <2>2, <2>3
<1>9. UnfinishedActive'
  <2> SUFFICES ASSUME Alive', NEW i \in 1 .. Len(reqIds),
                      \/ finishReason'[reqIds[i]] = None
                      \/ epc' \in {"token", "finish"} /\ current'.req = reqIds[i]
               PROVE  IsActive(reqIds[i])
    BY <1>1, <1>2 DEF UnfinishedActive
  <2>1. CASE reqIds[i] = q
    BY <1>1, <1>3, <2>1 DEF CohortInv, UnfinishedActive
  <2>2. CASE reqIds[i] # q
    <3>1. finishReason[reqIds[i]] = None
      BY <1>1, <1>4, <2>2 DEF BackInv, Back!BackendTypeOK
    <3>2. QED
      BY <1>3, <3>1 DEF CohortInv, UnfinishedActive
  <2>3. QED
    BY <2>1, <2>2
<1>10. Started'
  <2> SUFFICES ASSUME NEW r \in Requests, completion'[r] > 0 \/ (terminalSent'[r] /\ ~stopped')
               PROVE  phase[r] = "released" \/ IsActive(r)
    BY <1>2, <1>3 DEF Started
  <2>1. CASE r # q
    BY <1>1, <1>3, <1>4, <2>1 DEF CohortInv, Started
  <2>2. CASE r = q /\ results # <<>>
    BY <1>6, <2>2
  <2>3. CASE r = q /\ results = <<>>
    <3>1. (Finish \/ FinishRaises) /\ stopped /\ UNCHANGED completion
      BY <1>1, <2>3 DEF ResultsInv, Closing, DeliverToken, Finish, FinishRaises
    <3>2. completion[r] > 0
      BY <1>1, <3>1
    <3>3. QED
      BY <1>3, <3>2 DEF CohortInv, Started
  <2>4. QED
    BY <2>1, <2>2, <2>3
<1>11. InHandActive'
  <2>1. CASE results' # <<>>
    <3>1. results # <<>>
      BY <1>1, <2>1 DEF ResultsInv, DeliverToken, Finish, FinishRaises, loopVars
    <3>2. QED
      BY <1>1, <1>2, <1>6, <3>1 DEF InHandActive
  <2>2. QED
    BY <2>1 DEF InHandActive
<1>12. QED
  BY <1>7, <1>8, <1>9, <1>10, <1>11 DEF CohortInv

LEMMA CohortInvNext ==
  EngineInv /\ DrainInv /\ RowFacts /\ BackInv /\ ResultsInv /\ CohortInv /\ [Next]_vars => CohortInv'
BY CohortReplans, CohortQuiet, CohortTaken, CohortEnqueued, CohortRecords
DEF Next, EngineThread, Bystanding

LEMMA CohortInvariant == SafetySpec => []CohortInv
<1>1. Init => CohortInv
  <2> SUFFICES ASSUME Init PROVE CohortInv
    OBVIOUS
  <2>1. reqIds = <<>> /\ epc = "top" /\ spc = "idle" /\ results = <<>>
    BY DEF Init, Back!BackendInit, Sched!Init
  <2>2. \A r \in Requests : completion[r] = 0 /\ terminalSent[r] = FALSE
    BY DEF Init
  <2>3. QED
    BY <2>1, <2>2 DEF CohortInv, RowsDistinct, Held, UnfinishedActive, Started, WorkLeft,
       ReleasesDone, InHandActive, Closing
<1>2. SP!SchedInv => RowFacts
  BY SchedulerRows
<1>3. QED
  BY <1>1, <1>2, CohortInvNext, SchedulerKept, EngineInvariant, DrainInvariant, BackInvariant,
     ResultsInvariant, PTL DEF SafetySpec

-----------------------------------------------------------------------------
\* Tokens staged and tokens delivered.

\* The result of row i is still to be delivered.
Undelivered(i) == epc = "running" \/ i > Delivered + (IF epc \in Closing THEN 1 ELSE 0)

\* The result in hand was taken up before r was cancelled.
InTime(r) == epc = "token" /\ current.req = r /\ current.reason # "cancelled"

\* r is not finished, nor about to be.
Open(r) == finishReason[r] = None /\ ~(epc = "finish" /\ current.req = r)

\* What row i has been given, or will be when its result is delivered.
Due(i) ==
    completion[reqIds[i]]
      + (IF Undelivered(i) /\ cursor >= FirstEmit(reqIds[i]) THEN 1 ELSE 0)

\* A cancelled row can miss the one token that was in hand.
Missable(r) == IF r \in cancel /\ ~InTime(r) THEN 1 ELSE 0

\* An open row has been given what was staged for it, within its budget.
CountOf(i) ==
    LET r == reqIds[i]
    IN  Open(r) => /\ Due(i) <= Emitted(r)
                   /\ Emitted(r) <= Due(i) + Missable(r)
                   /\ ~Undelivered(i) => completion[r] < MaxNewTokens[r]

\* A row about to finish in full has been given all that was staged for it.
BoundaryOf(i) ==
    LET r == reqIds[i]
    IN  /\ epc = "finish" /\ current.req = r /\ current.reason \in {"length", "stop"}
        /\ r \notin cancel /\ MaxNewTokens[r] > 0
        => cursor >= FirstEmit(r) /\ Emitted(r) = completion[r]

CountInv == Alive => \A i \in 1 .. Len(reqIds) : CountOf(i) /\ BoundaryOf(i)

\* The types that counting needs.
LEMMA CountTypes ==
  ASSUME EngineInv, BackInv, ResultsInv, NEW i \in 1 .. Len(reqIds)
  PROVE  /\ reqIds[i] \in Requests /\ completion[reqIds[i]] \in Nat /\ cursor \in Nat
         /\ total \in Nat /\ FirstEmit(reqIds[i]) \in Nat /\ MaxNewTokens[reqIds[i]] \in Nat
         /\ i \in Nat /\ Len(staged) = Len(reqIds) /\ Delivered \in 0 .. Len(staged)
         /\ results = <<>> => Delivered = Len(staged)
<1>1. reqIds[i] \in Requests /\ cursor \in Nat /\ total \in Nat /\ Len(reqIds) \in Nat
      /\ staged \in Seq([req : Requests, emits : BOOLEAN]) /\ i \in Nat
  BY DEF BackInv, Back!BackendTypeOK
<1>2. reqIds # <<>>
  <2>1. reqIds = <<>> => Len(reqIds) = 0
    OBVIOUS
  <2>2. QED
    BY <2>1
<1>3. Len(staged) = Len(reqIds) /\ Len(results) \in Nat /\ Len(results) <= Len(staged)
  BY <1>1, <1>2 DEF BackInv, ResultsInv
<1>4. Delivered \in 0 .. Len(staged) /\ (results = <<>> => Delivered = Len(staged))
  <2>1. results = <<>> => Len(results) = 0
    OBVIOUS
  <2>2. Len(staged) \in Nat
    BY <1>1
  <2>3. QED
    BY <1>3, <2>1, <2>2 DEF Delivered
<1>5. QED
  BY <1>1, <1>3, <1>4, RequestFacts DEF EngineInv, RecordTypes

\* With no results left, every row's has been delivered.
LEMMA AllDelivered ==
  ASSUME EngineInv, BackInv, ResultsInv, results = <<>>, epc # "running",
         NEW i \in 1 .. Len(reqIds)
  PROVE  ~Undelivered(i)
<1>1. i \in Nat /\ Delivered = Len(reqIds) /\ Len(reqIds) \in Nat /\ i <= Len(reqIds)
  BY CountTypes DEF BackInv, Back!BackendTypeOK
<1>2. QED
  BY <1>1 DEF Undelivered

\* A step that gives nothing, stages nothing and finishes nothing.
LEMMA CountFrame ==
  ASSUME EngineInv, BackInv, ResultsInv, CountInv,
         UNCHANGED <<reqIds, cursor, completion, finishReason>>, cancel \subseteq cancel',
         Alive' => Alive,
         \A i \in 1 .. Len(reqIds) :
           finishReason[reqIds[i]] = None => (Undelivered(i)' <=> Undelivered(i)),
         \A r \in Requests : InTime(r)' /\ r \in cancel => InTime(r),
         Alive' /\ epc = "finish" => UNCHANGED <<epc, current>>,
         epc' = "finish" => UNCHANGED <<epc, current>> \/ current'.reason = "cancelled"
  PROVE  CountInv'
<1> SUFFICES ASSUME Alive', NEW i \in 1 .. Len(reqIds)
             PROVE  CountOf(i)' /\ BoundaryOf(i)'
  BY DEF CountInv
<1> DEFINE r == reqIds[i]
<1>1. CountOf(i) /\ BoundaryOf(i)
  BY DEF CountInv
<1>2. /\ r \in Requests /\ completion[r] \in Nat /\ cursor \in Nat /\ FirstEmit(r) \in Nat
      /\ Emitted(r) \in Nat
  BY CountTypes DEF Emitted
<1>3. /\ reqIds' = reqIds /\ Emitted(r)' = Emitted(r) /\ FirstEmit(r)' = FirstEmit(r)
      /\ cursor' = cursor /\ completion' = completion
  BY DEF Emitted, FirstEmit, FullHit
<1>4. Open(r)' => Open(r)
  BY DEF Open
<1>5. Missable(r) <= Missable(r)' /\ Missable(r) \in Nat /\ Missable(r)' \in Nat
  BY <1>2 DEF Missable
<1>6. finishReason[r] = None => Due(i)' = Due(i) /\ (Undelivered(i)' <=> Undelivered(i))
  BY <1>3 DEF Due
<1>7. Due(i) \in Nat
  BY <1>2 DEF Due
<1> HIDE DEF r
<1>8. CountOf(i)'
  <2> SUFFICES ASSUME Open(r)'
               PROVE  /\ Due(i)' <= Emitted(r) /\ Emitted(r) <= Due(i)' + Missable(r)'
                      /\ ~Undelivered(i)' => completion[r] < MaxNewTokens[r]
    BY <1>3 DEF CountOf, r
  <2>1. Open(r) /\ finishReason[r] = None
    BY <1>4 DEF Open
  <2>2. /\ Due(i) <= Emitted(r) /\ Emitted(r) <= Due(i) + Missable(r)
        /\ ~Undelivered(i) => completion[r] < MaxNewTokens[r]
    BY <1>1, <2>1 DEF CountOf, r
  <2>3. QED
    BY <1>2, <1>5, <1>6, <1>7, <2>1, <2>2
<1>9. BoundaryOf(i)'
  BY <1>1, <1>3 DEF BoundaryOf, r
<1>10. QED
  BY <1>8, <1>9

\* A row whose result is skipped is finished: an open one is where its record says.
LEMMA SkippedIsFinished ==
  ASSUME RowFacts, BackInv, CohortInv, Alive, NEW i \in 1 .. Len(reqIds), Skips(reqIds[i])
  PROVE  finishReason[reqIds[i]] # None
<1> DEFINE r == reqIds[i]
<1> SUFFICES ASSUME finishReason[r] = None PROVE FALSE
  OBVIOUS
<1>1. r \in Requests /\ r # None
  BY EngineAssumption DEF BackInv, Back!BackendTypeOK
<1>2. PICK s \in Sched!Slots : active[s] = r
  BY DEF CohortInv, UnfinishedActive, IsActive
<1>3. owners[s] = r /\ \A t \in Sched!Slots : owners[t] = r => t = s
  BY <1>1, <1>2 DEF RowFacts
<1>4. s \in Int
  BY EngineAssumption DEF Sched!Slots
<1>5. s \in Sched!Store!OwnedBy(r)
  BY <1>3, <1>4 DEF Sched!Store!OwnedBy, Sched!Store!Slots, Sched!Slots
<1>6. QED
  BY <1>2, <1>5 DEF Skips

LEMMA CountQuiet ==
  ASSUME EngineInv, DrainInv, RowFacts, BackInv, ResultsInv, CohortInv, CountInv,
         \/ Bystanding \/ ShutdownBackend \/ UNCHANGED vars
         \/ Planning \/ AfterPlan \/ AfterPlanRaises \/ DrainControl \/ StepRefused \/ StepFails
         \/ EndStep \/ DeliverNext \/ FinishRaises \/ EmitTerminal \/ Evict \/ Die \/ Close
  PROVE  CountInv'
<1> USE DEF Closing
<1>1. CASE Bystanding \/ UNCHANGED vars
  <2>1. /\ UNCHANGED <<reqIds, cursor, staged, results, current, completion, finishReason, dead>>
        /\ cancel \subseteq cancel' /\ Moves
    BY <1>1, BystandingLeaves DEF backVars, recordVars, vars, state, loopVars, clientVars, flagVars,
       endVars, Moves
  <2>2. \A i : Undelivered(i)' <=> Undelivered(i)
    BY <2>1 DEF Undelivered, Delivered, Moves
  <2>3. /\ Alive' => Alive
        /\ \A r : InTime(r)' => InTime(r)
        /\ epc = "finish" \/ epc' = "finish" => UNCHANGED <<epc, current>>
    BY <2>1 DEF Alive, InTime, Moves
  <2>4. QED
    BY <2>1, <2>2, <2>3, CountFrame
<1>2. CASE \/ AfterPlanRaises \/ StepRefused \/ StepFails \/ FinishRaises \/ Die
  <2>1. ~Alive'
    BY <1>2 DEF AfterPlanRaises, StepRefused, StepFails, FinishRaises, Die, Alive
  <2>2. QED
    BY <2>1 DEF CountInv
<1>3. CASE ShutdownBackend
  <2>1. reqIds' = <<>>
    BY <1>3 DEF ShutdownBackend, Back!Reset
  <2>2. QED
    BY <2>1 DEF CountInv
<1>4. CASE Planning \/ AfterPlan \/ DrainControl \/ Close
  <2>1. /\ UNCHANGED <<reqIds, cursor, staged, results, completion, finishReason, cancel, dead>>
        /\ epc \in {"planning", "top", "closing"}
        /\ epc' \in {"planning", "clear", "step", "closing", "finish"}
        /\ epc' = "finish" => current'.reason = "cancelled"
    BY <1>4 DEF Planning, AfterPlan, DrainControl, Close, backVars, loopVars, clientVars,
       recordVars, flagVars, endVars
  <2>2. results = <<>>
    BY <2>1 DEF ResultsInv, Delivering
  <2>3. ASSUME NEW i \in 1 .. Len(reqIds) PROVE ~Undelivered(i) /\ ~Undelivered(i)'
    <3>1. ~Undelivered(i) /\ Delivered' = Delivered /\ Delivered \in Nat /\ i \in Nat
      BY <2>1, <2>2, AllDelivered, CountTypes DEF Delivered
    <3>2. QED
      BY <2>1, <3>1 DEF Undelivered
  <2>4. (Alive' => Alive) /\ (\A r : ~InTime(r)')
    BY <2>1 DEF Alive, InTime
  <2>5. QED
    BY <2>1, <2>3, <2>4, CountFrame
<1>5. CASE EndStep
  <2>1. CASE epc' = "dying"
    BY <2>1 DEF CountInv, Alive
  <2>2. CASE epc' # "dying"
    <3>1. /\ UNCHANGED <<reqIds, cursor, staged, completion, finishReason, cancel, dead>>
          /\ epc = "running" /\ epc' = "deliver" /\ results' = staged
      BY <1>5, <2>2 DEF EndStep, backVars, clientVars, recordVars, flagVars, endVars
    <3>2. ASSUME NEW i \in 1 .. Len(reqIds) PROVE Undelivered(i) /\ Undelivered(i)'
      <4>1. Len(staged) \in Nat
        BY DEF BackInv, Back!BackendTypeOK
      <4>2. Delivered' = 0 /\ i > 0
        BY <3>1, <4>1 DEF Delivered
      <4>3. QED
        BY <3>1, <4>2 DEF Undelivered
    <3>3. (Alive' => Alive) /\ \A r : ~InTime(r)'
      BY <3>1 DEF Alive, InTime
    <3>4. QED
      BY <3>1, <3>2, <3>3, CountFrame
  <2>3. QED
    BY <2>1, <2>2
<1>6. CASE DeliverNext
  <2> DEFINE q == Head(results).req
  <2>1. /\ UNCHANGED <<reqIds, cursor, staged, completion, finishReason, cancel, dead>>
        /\ epc = "deliver" /\ results # <<>>
        /\ \/ /\ Skips(q) /\ results' = Tail(results) /\ UNCHANGED <<current, epc>>
           \/ /\ ~Skips(q) /\ epc' = "token" /\ UNCHANGED results
              /\ current'.req = q /\ (q \in cancel => current'.reason = "cancelled")
    BY <1>6 DEF DeliverNext, backVars, clientVars, recordVars, flagVars, endVars
  <2>2. ASSUME Alive, NEW i \in 1 .. Len(reqIds), finishReason[reqIds[i]] = None
        PROVE  Undelivered(i)' <=> Undelivered(i)
    <3>1. CASE UNCHANGED results
      BY <2>1, <3>1 DEF Undelivered, Delivered
    <3>2. CASE Skips(q) /\ results' = Tail(results) /\ UNCHANGED <<current, epc>>
      <4>1. /\ Delivered' = Delivered + 1 /\ q = staged[Delivered + 1].req
            /\ Delivered \in Nat /\ i \in Nat
        BY <2>1, <3>2, OneDelivered, CountTypes
      <4>2. i # Delivered + 1
        <5>1. staged[i].req = reqIds[i]
          BY DEF BackInv, RowInv
        <5>2. ~Skips(reqIds[i])
          BY <2>2, SkippedIsFinished
        <5>3. QED
          BY <3>2, <4>1, <5>1, <5>2
      <4>3. QED
        BY <2>1, <3>2, <4>1, <4>2 DEF Undelivered
    <3>3. QED
      BY <2>1, <3>1, <3>2
  <2>3. (Alive' => Alive) /\ \A r : ~(InTime(r)' /\ r \in cancel)
    BY <2>1 DEF Alive, InTime
  <2>4. CASE Alive
    BY <2>1, <2>2, <2>3, <2>4, CountFrame
  <2>5. CASE ~Alive
    BY <2>3, <2>5 DEF CountInv
  <2>6. QED
    BY <2>4, <2>5
<1>7. CASE EmitTerminal \/ Evict
  <2>1. /\ UNCHANGED <<reqIds, cursor, staged, completion, finishReason, cancel, dead, current>>
        /\ epc \in {"terminal", "evict"}
        /\ \/ epc' = "evict" /\ UNCHANGED results
           \/ FinishReturns
    BY <1>7 DEF EmitTerminal, Evict, backVars, clientVars, recordVars, flagVars, endVars
  <2>2. \/ epc' = "evict" /\ UNCHANGED results
        \/ results # <<>> /\ results' = Tail(results) /\ epc' = "deliver"
        \/ results = <<>> /\ UNCHANGED results /\ epc' = "closing"
    BY <2>1 DEF FinishReturns
  <2>3. ASSUME NEW i \in 1 .. Len(reqIds) PROVE Undelivered(i)' <=> Undelivered(i)
    <3>1. CASE epc' = "evict" /\ UNCHANGED results
      BY <2>1, <3>1 DEF Undelivered, Delivered
    <3>2. CASE results # <<>> /\ results' = Tail(results) /\ epc' = "deliver"
      <4>1. Delivered' = Delivered + 1
        BY <2>1, <3>2, OneDelivered
      <4>2. QED
        BY <2>1, <3>2, <4>1 DEF Undelivered
    <3>3. CASE results = <<>> /\ UNCHANGED results /\ epc' = "closing"
      <4>1. ~Undelivered(i) /\ Delivered' = Delivered /\ Delivered \in Nat /\ i \in Nat
            /\ Delivered = Len(reqIds) /\ i <= Len(reqIds)
        BY <2>1, <3>3, AllDelivered, CountTypes DEF Delivered
      <4>2. QED
        BY <3>3, <4>1 DEF Undelivered
    <3>4. QED
      BY <2>2, <3>1, <3>2, <3>3
  <2>4. (Alive' => Alive) /\ (\A r : ~InTime(r)') /\ epc # "finish" /\ epc' # "finish"
    BY <2>1, <2>2 DEF Alive, InTime
  <2>5. QED
    BY <2>1, <2>3, <2>4, CountFrame
<1>8. QED
  BY <1>1, <1>2, <1>3, <1>4, <1>5, <1>6, <1>7

\* A step stages one token more for each row that emits.
LEMMA CountStaged ==
  ASSUME EngineInv, DrainInv, RowFacts, BackInv, BackInv', ResultsInv, CohortInv, CountInv,
         BeginPrefill \/ BeginDecode
  PROVE  CountInv'
<1>1. /\ epc = "step" /\ epc' = "running" /\ results = <<>>
      /\ UNCHANGED <<completion, finishReason, cancel, dead, active, phase>>
  BY DEF BeginPrefill, BeginDecode, ResultsInv, Delivering, Closing, schedVars, recordVars,
     clientVars, flagVars, endVars
<1>2. (\A r : ~InTime(r) /\ ~InTime(r)') /\ Alive /\ Alive'
  BY <1>1 DEF Undelivered, InTime, Alive, DrainInv, DeadEnds
<1>3. \A i : BoundaryOf(i)' /\ Undelivered(i)'
  BY <1>1 DEF BoundaryOf, Undelivered
<1>4. CASE BeginPrefill
  <2> DEFINE rows == RowsOf(active)
  <2>1. /\ Prefilling /\ Back!Prefill(rows) /\ rows \in Seq(Requests) /\ rows # <<>>
    <3>1. Prefilling /\ Back!Prefill(rows)
      BY <1>4 DEF BeginPrefill, Prefilling
    <3>2. Sched!ActiveReqs # {}
      BY <3>1 DEF DrainInv, PlanHasRows
    <3>3. QED
      BY <3>1, <3>2, ActiveRows
  <2>2. reqIds' = rows /\ \A i \in 1 .. Len(rows) : cursor' <= FirstEmit(rows[i])
    BY <2>1, PrefillRows
  <2>3. ASSUME NEW i \in 1 .. Len(rows) PROVE CountOf(i)'
    <3>0. rows[i] \in Requests /\ IsActive(rows[i])
      BY <2>1, ActiveRows
    <3>1. PICK r \in Requests : r = rows[i] /\ IsActive(r)
      BY <3>0
    <3>2. phase[r] = "queued"
      BY <3>1, EngineAssumption DEF RowFacts, IsActive
    <3>3. ~(completion[r] > 0)
      BY <2>1, <3>1, <3>2 DEF CohortInv, Started, Turning
    <3>4. completion'[r] = 0 /\ cursor' \in Nat /\ FirstEmit(r) \in Nat
      BY <1>1, <3>1, <3>3, RequestFacts DEF EngineInv, RecordTypes, BackInv, Back!BackendTypeOK
    <3>5. reqIds'[i] = r /\ cursor' <= FirstEmit(r) /\ FirstEmit(r)' = FirstEmit(r)
      BY <2>2, <3>1 DEF FirstEmit, FullHit
    <3> HIDE DEF rows
    <3>6. Due(i)' = (IF cursor' >= FirstEmit(r) THEN 1 ELSE 0)
      BY <1>3, <3>4, <3>5 DEF Due
    <3>7. Emitted(r)' = (IF cursor' >= FirstEmit(r) THEN 1 ELSE 0)
      BY <3>4, <3>5 DEF Emitted
    <3>8. Missable(r)' \in Nat
      BY DEF Missable
    <3>9. QED
      BY <1>3, <3>5, <3>6, <3>7, <3>8 DEF CountOf
  <2>4. QED
    BY <1>3, <2>2, <2>3 DEF CountInv
<1>5. CASE BeginDecode
  <2>1. UNCHANGED reqIds /\ cursor' = cursor + 1
    BY <1>5, DecodeRows DEF BeginDecode
  <2>2. ASSUME NEW i \in 1 .. Len(reqIds) PROVE CountOf(i)'
    <3>0. PICK r \in Requests : r = reqIds[i]
      BY CountTypes
    <3>1. /\ r \in Requests /\ completion[r] \in Nat /\ cursor \in Nat /\ FirstEmit(r) \in Nat
          /\ ~Undelivered(i)
      BY <1>1, <3>0, CountTypes, AllDelivered
    <3>2. /\ reqIds'[i] = r /\ FirstEmit(r)' = FirstEmit(r) /\ completion'[r] = completion[r]
          /\ Missable(r)' = Missable(r) /\ Missable(r) \in Nat /\ (Open(r)' => Open(r))
      BY <1>1, <1>2, <2>1, <3>0 DEF FirstEmit, FullHit, Missable, Open
    <3>3. Open(r) => /\ Due(i) <= Emitted(r) /\ Emitted(r) <= Due(i) + Missable(r)
      BY <1>2, <3>0 DEF CountInv, CountOf
    <3>4. Due(i) = completion[r]
      BY <3>0, <3>1 DEF Due
    <3>5. Due(i)' = completion[r] + (IF cursor + 1 >= FirstEmit(r) THEN 1 ELSE 0)
      BY <1>3, <2>1, <3>2 DEF Due
    <3>6. Emitted(r)' = (IF cursor' < FirstEmit(r) THEN 0 ELSE cursor' - FirstEmit(r) + 1)
      BY <3>2 DEF Emitted
    <3>7. Emitted(r) = (IF cursor < FirstEmit(r) THEN 0 ELSE cursor - FirstEmit(r) + 1)
      BY DEF Emitted
    <3>8. Emitted(r) \in Nat /\ Emitted(r)' = Emitted(r) + (IF cursor + 1 >= FirstEmit(r) THEN 1 ELSE 0)
      BY <2>1, <3>1, <3>6, <3>7
    <3>9. Open(r)' => Due(i)' <= Emitted(r)' /\ Emitted(r)' <= Due(i)' + Missable(r)'
      BY <3>1, <3>2, <3>3, <3>4, <3>5, <3>8
    <3>10. QED
      BY <1>3, <3>2, <3>9 DEF CountOf
  <2>3. QED
    BY <1>3, <2>1, <2>2 DEF CountInv
<1>6. QED
  BY <1>4, <1>5

\* A record is closed.
LEMMA CountFinished ==
  ASSUME EngineInv, DrainInv, BackInv, ResultsInv, CountInv, Finish
  PROVE  CountInv'
<1>1. /\ UNCHANGED <<reqIds, cursor, staged, results, completion, cancel, dead>>
      /\ epc = "finish" /\ epc' = "terminal"
      /\ finishReason' = [finishReason EXCEPT ![current.req] = current.reason]
      /\ current.reason # None
  BY DEF Finish, CloseRecord, backVars, clientVars, flagVars, endVars, EngineInv
<1>2. \A i : BoundaryOf(i)' /\ (Undelivered(i)' <=> Undelivered(i))
  BY <1>1 DEF BoundaryOf, Undelivered, Delivered, Closing
<1>3. \A r \in Requests : (Open(r)' => Open(r)) /\ ~InTime(r) /\ ~InTime(r)'
  BY <1>1 DEF Open, InTime, EngineInv, RecordTypes
<1>4. ASSUME NEW i \in 1 .. Len(reqIds), CountOf(i) PROVE CountOf(i)'
  <2>1. PICK r \in Requests : r = reqIds[i]
    BY CountTypes
  <2>2. /\ reqIds'[i] = r /\ Due(i)' = Due(i) /\ Emitted(r)' = Emitted(r)
        /\ Missable(r)' = Missable(r) /\ (Open(r)' => Open(r)) /\ completion' = completion
    BY <1>1, <1>2, <1>3, <2>1 DEF Due, Emitted, FirstEmit, FullHit, Missable
  <2>3. Open(r) => /\ Due(i) <= Emitted(r) /\ Emitted(r) <= Due(i) + Missable(r)
                   /\ ~Undelivered(i) => completion[r] < MaxNewTokens[r]
    BY <1>4, <2>1 DEF CountOf
  <2>4. QED
    BY <1>2, <2>2, <2>3 DEF CountOf
<1>5. Alive' => Alive
  BY <1>1 DEF Alive
<1>6. QED
  BY <1>1, <1>2, <1>4, <1>5 DEF CountInv

\* A delivery gives one row its token, or misses it for a cancelled one.
LEMMA CountDelivered ==
  ASSUME EngineInv, DrainInv, BackInv, ResultsInv, CohortInv, CountInv, DeliverToken
  PROVE  CountInv'
<1> DEFINE k == Delivered + 1
<1>1. PICK q : q = current.req
  OBVIOUS
<1>2. /\ UNCHANGED <<reqIds, cursor, staged, dead>> /\ epc = "token" /\ current'.req = q
      /\ \/ /\ Head(results).emits /\ finishReason[q] = None /\ q \notin cancel /\ EmitToken(q)
         \/ /\ ~(Head(results).emits /\ finishReason[q] = None /\ q \notin cancel)
            /\ UNCHANGED <<completion, cancel, finishReason>>
      /\ current'.reason = IF current.reason = None /\ completion'[q] >= MaxNewTokens[q]
                           THEN "length" ELSE current.reason
      /\ \/ current'.reason = None /\ epc' = "deliver" /\ results' = Tail(results)
         \/ current'.reason # None /\ epc' = "finish" /\ UNCHANGED results
  BY <1>1 DEF DeliverToken, BudgetSpent, backVars, flagVars, endVars
<1>3. /\ results # <<>> /\ finishReason[q] = None /\ q = Head(results).req
      /\ current.reason \in {"cancelled", None} \cup (IF Head(results).emits THEN {"stop"} ELSE {})
  BY <1>1, <1>2 DEF ResultsInv, Back!Reported
<1>4. Alive' => Alive
  BY <1>2 DEF Alive
<1> SUFFICES ASSUME Alive', NEW i \in 1 .. Len(reqIds) PROVE CountOf(i)' /\ BoundaryOf(i)'
  BY <1>2 DEF CountInv
<1>5. PICK r \in Requests : r = reqIds[i]
  BY CountTypes
<1>6. /\ completion[r] \in Nat /\ cursor \in Nat /\ FirstEmit(r) \in Nat /\ MaxNewTokens[r] \in Nat
      /\ i \in Nat /\ Delivered \in Nat /\ Len(staged) = Len(reqIds)
  BY <1>5, CountTypes
<1>7. Head(results) = staged[k] /\ k \in 1 .. Len(reqIds)
  <2>1. Head(results) = results[1] /\ results[1] = staged[Delivered + 1]
    BY <1>3 DEF ResultsInv
  <2>2. Len(results) >= 1 /\ Len(results) \in Nat /\ Len(staged) \in Nat /\ Len(results) <= Len(staged)
    BY <1>3 DEF ResultsInv, BackInv, Back!BackendTypeOK
  <2>3. k \in 1 .. Len(staged)
    BY <2>2 DEF Delivered
  <2>4. QED
    BY <1>6, <2>1, <2>3
<1>8. /\ reqIds'[i] = r /\ Emitted(r)' = Emitted(r) /\ FirstEmit(r)' = FirstEmit(r)
      /\ epc' = "finish" => results' = results
      /\ epc' = "deliver" => Delivered' = k
  BY <1>2, <1>3, <1>5, OneDelivered DEF Emitted, FirstEmit, FullHit
<1>9. CountOf(i)
  BY <1>4 DEF CountInv
<1>10. CASE i # k
  <2>1. r # q
    <3>1. staged[k].req = reqIds[k]
      BY <1>7 DEF BackInv, RowInv
    <3>2. reqIds[k] # reqIds[i]
      BY <1>7, <1>10 DEF CohortInv, RowsDistinct
    <3>3. QED
      BY <1>3, <1>5, <1>7, <3>1, <3>2
  <2>2. Undelivered(i)' <=> Undelivered(i)
    BY <1>2, <1>6, <1>8, <1>10 DEF Undelivered, Delivered, Closing
  <2>3. /\ completion'[r] = completion[r] /\ finishReason'[r] = finishReason[r]
        /\ (r \in cancel' <=> r \in cancel)
    BY <1>2, <2>1 DEF EmitToken, EngineInv, RecordTypes
  <2>4. ~InTime(r) /\ ~InTime(r)'
    BY <1>1, <1>2, <2>1 DEF InTime
  <2>5. Missable(r)' = Missable(r) /\ (Open(r)' => Open(r)) /\ Due(i)' = Due(i)
    BY <1>1, <1>2, <1>5, <1>8, <2>1, <2>2, <2>3, <2>4 DEF Missable, Open, Due
  <2>6. CountOf(i)'
    BY <1>5, <1>8, <1>9, <2>2, <2>3, <2>5 DEF CountOf
  <2>7. BoundaryOf(i)'
    BY <1>2, <1>8, <2>1 DEF BoundaryOf
  <2>8. QED
    BY <2>6, <2>7
<1>11. CASE i = k
  <2>1. r = q /\ (Head(results).emits <=> cursor >= FirstEmit(r))
    BY <1>3, <1>5, <1>7, <1>11 DEF BackInv, RowInv
  <2>2. Undelivered(i) /\ (epc' = "deliver" => ~Undelivered(i)')
    BY <1>2, <1>6, <1>8, <1>11 DEF Undelivered, Closing
  <2>3. Due(i) = completion[r] + (IF cursor >= FirstEmit(r) THEN 1 ELSE 0)
    BY <1>5, <2>2 DEF Due
  <2>4. epc' = "deliver" => Due(i)' = completion'[r]
    <3>1. completion'[r] \in Nat
      BY <1>2, <1>6, <2>1 DEF EmitToken, EngineInv, RecordTypes
    <3>2. QED
      BY <1>8, <2>2, <3>1 DEF Due
  <2>5. Open(r)
    BY <1>2, <1>3, <2>1 DEF Open
  <2>6. Due(i) <= Emitted(r) /\ Emitted(r) <= Due(i) + Missable(r)
    BY <1>5, <1>9, <2>5 DEF CountOf
  <2>7. Missable(r) \in Nat /\ Missable(r)' \in Nat /\ Emitted(r) \in Nat
    BY <1>6 DEF Missable, Emitted
  <2>8. epc' = "finish" => ~Open(r)'
    BY <1>2, <2>1 DEF Open
  <2>9. epc' = "deliver" =>
          /\ current.reason = None /\ completion'[r] >= MaxNewTokens[r] => FALSE
          /\ current.reason = None
    BY <1>2, <2>1, EngineAssumption DEF Reasons
  <2>10. CASE Head(results).emits /\ r \notin cancel /\ EmitToken(r) /\ HasRoom(r)
    <3>1. completion'[r] = completion[r] + 1
      BY <2>10 DEF EmitToken, EngineInv, RecordTypes
    <3>2. Emitted(r) = completion[r] + 1 /\ cursor >= FirstEmit(r)
      BY <1>6, <2>1, <2>3, <2>6, <2>7, <2>10 DEF Missable
    <3>3. epc' = "deliver" => completion'[r] < MaxNewTokens[r]
      BY <1>6, <2>9, <3>1
    <3>4. CountOf(i)'
      <4>1. CASE epc' = "finish"
        BY <1>8, <2>8, <4>1 DEF CountOf
      <4>2. CASE epc' = "deliver"
        <5>1. Due(i)' <= Emitted(r)' /\ Emitted(r)' <= Due(i)' + Missable(r)'
          BY <1>6, <1>8, <2>4, <2>7, <3>1, <3>2, <4>2
        <5>2. QED
          BY <1>8, <3>3, <4>2, <5>1 DEF CountOf
      <4>3. QED
        BY <1>2, <4>1, <4>2
    <3>5. BoundaryOf(i)'
      BY <1>2, <1>8, <3>1, <3>2 DEF BoundaryOf
    <3>6. QED
      BY <3>4, <3>5
  <2>11. CASE EmitToken(r) /\ ~HasRoom(r)
    <3>1. finishReason'[r] # None /\ r \in cancel'
      BY <2>11, EngineAssumption DEF EmitToken, EngineInv, RecordTypes, Reasons
    <3>2. QED
      BY <1>8, <3>1 DEF CountOf, BoundaryOf, Open
  <2>12. CASE ~(Head(results).emits /\ r \notin cancel) /\ UNCHANGED <<completion, cancel, finishReason>>
    <3>1. CASE epc' = "finish"
      <4>1. CountOf(i)'
        BY <1>8, <2>8, <3>1 DEF CountOf
      <4>2. BoundaryOf(i)'
        <5> SUFFICES ASSUME current'.reason \in {"length", "stop"}, r \notin cancel, MaxNewTokens[r] > 0
                     PROVE  FALSE
          BY <1>8, <2>12 DEF BoundaryOf
        <5>1. ~Head(results).emits /\ ~(cursor >= FirstEmit(r))
          BY <2>1, <2>12
        <5>2. completion[r] = 0
          BY <1>6, <2>3, <2>6, <2>7, <5>1 DEF Emitted
        <5>3. current.reason \in {"cancelled", None} /\ None \notin {"length", "stop"}
          BY <1>3, <5>1, EngineAssumption DEF Reasons
        <5>4. completion'[q] >= MaxNewTokens[q]
          BY <1>2, <5>3
        <5>5. QED
          BY <1>6, <2>1, <2>12, <5>2, <5>4
      <4>3. QED
        BY <4>1, <4>2
    <3>2. CASE epc' = "deliver"
      <4>1. current.reason = None /\ completion[r] < MaxNewTokens[r] /\ completion'[r] = completion[r]
        BY <1>6, <2>9, <2>12, <3>2
      <4>2. InTime(r) /\ ~InTime(r)'
        BY <1>1, <1>2, <2>1, <3>2, <4>1, EngineAssumption DEF InTime, Reasons
      <4>3. Missable(r) = 0 /\ Missable(r)' = (IF r \in cancel THEN 1 ELSE 0)
        BY <2>12, <4>2 DEF Missable
      <4>4. Emitted(r) = completion[r] + (IF cursor >= FirstEmit(r) THEN 1 ELSE 0)
        BY <1>6, <2>3, <2>6, <2>7, <4>3
      <4>5. cursor >= FirstEmit(r) => r \in cancel
        BY <2>1, <2>12
      <4>6. Due(i)' <= Emitted(r)' /\ Emitted(r)' <= Due(i)' + Missable(r)'
        BY <1>6, <1>8, <2>4, <3>2, <4>1, <4>3, <4>4, <4>5
      <4>7. CountOf(i)'
        BY <1>8, <4>1, <4>6 DEF CountOf
      <4>8. BoundaryOf(i)'
        BY <3>2 DEF BoundaryOf
      <4>9. QED
        BY <4>7, <4>8
    <3>3. QED
      BY <1>2, <3>1, <3>2
  <2>13. QED
    BY <1>2, <1>3, <2>1, <2>10, <2>11, <2>12
<1>12. QED
  BY <1>10, <1>11

LEMMA CountInvNext ==
  /\ EngineInv /\ DrainInv /\ RowFacts /\ BackInv /\ BackInv' /\ ResultsInv /\ CohortInv
  /\ CountInv /\ [Next]_vars
  => CountInv'
BY CountQuiet, CountStaged, CountFinished, CountDelivered DEF Next, EngineThread, Bystanding

LEMMA CountInvariant == SafetySpec => []CountInv
<1>1. Init => CountInv
  BY DEF Init, CountInv, Back!BackendInit
<1>2. SP!SchedInv => RowFacts
  BY SchedulerRows
<1>3. QED
  BY <1>1, <1>2, CountInvNext, SchedulerKept, EngineInvariant, DrainInvariant, BackInvariant,
     ResultsInvariant, CohortInvariant, PTL DEF SafetySpec

-----------------------------------------------------------------------------
\* The theorems.

\* reference.py:209-214: a decode step finds the cohort it prefilled and a column
\* left to consume, for every mix of prompts, budgets and prefix hits and every
\* race of cancellation, back pressure and stop, unless shutdown has reset the
\* backend.
THEOREM DecodeNeverRefused == SafetySpec => []BufferSuffices
<1>1. EngineInv /\ DrainInv /\ RowFacts /\ BackInv /\ ResultsInv /\ CohortInv /\ CountInv
        => BufferSuffices
  <2> SUFFICES ASSUME EngineInv, DrainInv, RowFacts, BackInv, ResultsInv, CohortInv, CountInv,
                      epc = "step", plan = "decode", reqIds # <<>>
               PROVE  ~Back!DecodeRefused(RowsOf(active))
    BY DEF BufferSuffices
  <2>1. Alive /\ ~Turning /\ spc = "idle" /\ results = <<>>
    BY DEF EngineInv, DrainInv, DeadEnds, Alive, Turning, Admitting, Prefilling, ResultsInv,
           Delivering, Closing
  <2>2. PICK r \in Sched!ActiveReqs : finishReason[r] = None
    BY DEF CohortInv, WorkLeft
  <2>3. reqIds = RowsOf(active)
    BY <2>1, <2>2 DEF CohortInv, Held
  <2>4. PICK i \in 1 .. Len(reqIds) : reqIds[i] = r
    BY <2>2, <2>3, ActiveRows
  <2>5. /\ completion[r] \in Nat /\ cursor \in Nat /\ total \in Nat /\ FirstEmit(r) \in Nat
        /\ MaxNewTokens[r] \in Nat /\ ~Undelivered(i)
    BY <2>1, <2>4, CountTypes, AllDelivered
  <2>6. Emitted(r) <= Due(i) + Missable(r) /\ completion[r] < MaxNewTokens[r]
    BY <2>1, <2>2, <2>4, <2>5 DEF CountInv, CountOf, Open
  <2>7. Due(i) = completion[r] /\ Missable(r) \in {0, 1}
    BY <2>4, <2>5 DEF Due, Missable
  <2>8. total >= FirstEmit(r) + MaxNewTokens[r]
    BY <2>4 DEF BackInv, RowInv
  <2>9. cursor < total
    BY <2>5, <2>6, <2>7, <2>8 DEF Emitted
  <2>10. QED
    BY <2>3, <2>5, <2>9 DEF Back!DecodeRefused, Back!CohortChanged, Back!Exhausted
<1>2. SP!SchedInv => RowFacts
  BY SchedulerRows
<1>3. QED
  BY <1>1, <1>2, SchedulerKept, EngineInvariant, DrainInvariant, BackInvariant, ResultsInvariant,
     CohortInvariant, CountInvariant, PTL

\* engine.py:73-75, 269-273: as long as no prefix hit is a whole prompt and every
\* budget allows a token, a request that runs to its end is finished at the
\* boundary its caches represent, with the index of its batch row.
THEOREM FinishedOnBoundary ==
  ASSUME NoFullHits, \A r \in Requests : MaxNewTokens[r] > 0
  PROVE  SafetySpec => FinishAtBoundary
<1>1. /\ EngineInv /\ DrainInv /\ BackInv /\ ResultsInv /\ CohortInv /\ CountInv /\ [Next]_vars
      => [\A r \in Requests :
           Finishing(r) /\ finishReason'[r] \in {"length", "stop"} /\ r \notin cancel
             => AtBoundary(r)]_vars
  <2> SUFFICES ASSUME EngineInv, DrainInv, BackInv, ResultsInv, CohortInv, CountInv, [Next]_vars,
                      NEW r \in Requests, Finishing(r), finishReason'[r] \in {"length", "stop"},
                      r \notin cancel, reqIds # <<>>,
                      NEW i \in 1 .. Len(lastCohort), lastCohort[i] = r
               PROVE  reqIds[i] = r /\ cursor = PromptLen[r] + completion[r] - 1
    BY DEF AtBoundary
  <2>1. Finish \/ FinishRaises
    BY DEF Finishing, Next, EngineThread, vars, state, recordVars, loopVars, clientVars,
       DeadAtStart, DrainControl, HoldOpen, PassWindow, Clear, Wake, Planning, AfterPlan,
       AfterPlanRaises, BeginPrefill, BeginDecode, StepRefused, StepFails, EndStep, DeliverNext,
       DeliverDone, DeliverToken, EmitTerminal, Evict, Die, Close, Exit, SubmitTests, SubmitAppend,
       Cancel, Read, PostStop, ShutdownBackend, Start, WindowPasses
  <2>2. epc = "finish" /\ current.req = r /\ finishReason'[r] = current.reason
    BY <2>1 DEF Finish, FinishRaises, CloseRecord, Finishing, EngineInv, RecordTypes
  <2>3. results # <<>>
    BY <2>2 DEF ResultsInv, Closing
  <2>4. Alive /\ ~Turning /\ spc = "idle"
    BY <2>2, <2>3 DEF EngineInv, DrainInv, DeadEnds, Alive, Turning, Admitting, Prefilling
  <2>5. IsActive(r)
    BY <2>2, <2>3 DEF CohortInv, InHandActive, Closing
  <2>6. Sched!ActiveReqs # {}
    <3>1. PICK s \in Sched!Slots : active[s] = r
      BY <2>5 DEF IsActive
    <3>2. r \in Sched!ActiveReqs
      BY <3>1, EngineAssumption DEF Sched!ActiveReqs
    <3>3. QED
      BY <3>2
  <2>7. lastCohort = reqIds
    BY <2>4, <2>6 DEF CohortInv, Held
  <2>8. reqIds[i] = r /\ i \in 1 .. Len(reqIds)
    BY <2>7
  <2>9. cursor >= FirstEmit(r) /\ Emitted(r) = completion[r]
    BY <2>2, <2>4, <2>8 DEF CountInv, BoundaryOf
  <2>10. /\ cursor \in Nat /\ completion[r] \in Nat /\ FirstEmit(r) = PromptLen[r]
         /\ PromptLen[r] \in Nat
    <3>1. cursor \in Nat /\ completion[r] \in Nat
      BY <2>8, CountTypes
    <3>2. PromptLen[r] \in Nat /\ (SharedLen[r] # None => SharedLen[r] \in Nat)
      BY RequestFacts
    <3>3. ~FullHit(r)
      BY <3>2 DEF NoFullHits, FullHit
    <3>4. QED
      BY <3>1, <3>2, <3>3, RequestFacts
  <2>11. cursor = PromptLen[r] + completion[r] - 1
    BY <2>9, <2>10 DEF Emitted
  <2>12. QED
    BY <2>8, <2>11
<1>2. QED
  BY <1>1, EngineInvariant, DrainInvariant, BackInvariant, ResultsInvariant, CohortInvariant,
     CountInvariant, PTL DEF SafetySpec, FinishAtBoundary

-----------------------------------------------------------------------------
\* Captures and terminals.

\* r was finished and its callbacks returned.
Ended(r) == terminalSent[r] /\ r \notin raised

\* Once every row's record is closed, the cohort has been captured; a record
\* whose callbacks raised has sent no terminal.
EndInv ==
    /\ \A r \in raised : r \in Requests => ~HasTerminal(r)
    /\ reqIds # <<>> /\ ~dead /\ (\A i \in 1 .. Len(reqIds) : Ended(reqIds[i])) => captured

\* An open record's stream has no terminal.
LEMMA OpenHasNoTerminal ==
  ASSUME EngineInv, NEW r \in Requests, ~terminalSent[r]
  PROVE  ~HasTerminal(r)
<1> DEFINE n == IF finishReason[r] = "backpressure" THEN completion[r] - 1 ELSE completion[r]
<1>1. Stream(r) = TokensUpTo(n)
  BY DEF EngineInv, NoGapBeforeEnd
<1>0. n \in Nat \/ n = -1
  BY DEF EngineInv, RecordTypes
<1> HIDE DEF n
<1>2. \A i \in 1 .. n : TokensUpTo(n)[i] = Token(i - 1)
  BY DEF TokensUpTo
<1>3. \A i \in 1 .. Len(TokensUpTo(n)) : ~IsTerminal(TokensUpTo(n)[i])
  <2>0. Len(TokensUpTo(n)) = n \/ Len(TokensUpTo(n)) = 0
    <3>1. CASE n \in Nat
      BY <3>1, TokensGrow
    <3>2. CASE n = -1
      BY <3>2 DEF TokensUpTo
    <3>3. QED
      BY <1>0, <3>1, <3>2
  <2>1. ASSUME NEW i \in 1 .. Len(TokensUpTo(n)) PROVE i \in 1 .. n
    BY <2>0, <1>0
  <2>2. \A i : ~IsTerminal(Token(i))
    BY DEF IsTerminal, Token
  <2>3. QED
    BY <1>2, <2>1, <2>2
<1>4. QED
  BY <1>1, <1>3 DEF HasTerminal

LEMMA EndInvNext ==
  EngineInv /\ DrainInv /\ RowFacts /\ BackInv /\ ResultsInv /\ CohortInv /\ EndInv /\ [Next]_vars
    => EndInv'
<1> SUFFICES ASSUME EngineInv, DrainInv, RowFacts, BackInv, ResultsInv, CohortInv, EndInv,
                    [Next]_vars
             PROVE  EndInv'
  OBVIOUS
<1>1. ASSUME UNCHANGED <<terminalSent, raised>>, captured => captured', dead => dead',
             reqIds' \in {reqIds, <<>>},
             \A r \in Requests : r \in raised => Stream(r)' = Stream(r)
      PROVE  EndInv'
  BY <1>1 DEF EndInv, Ended, HasTerminal
<1>2. CASE \E q \in Requests : Read(q)
  <2>1. PICK q \in Requests : Read(q)
    BY <1>2
  <2>2. /\ UNCHANGED <<terminalSent, raised, captured, dead, reqIds>>
        /\ mailbox[q] # <<>> /\ mailbox[q] \in Seq(Events) /\ received[q] \in Seq(Events)
        /\ mailbox' = [mailbox EXCEPT ![q] = Tail(@)]
        /\ received' = [received EXCEPT ![q] = Append(@, Head(mailbox[q]))]
    BY <2>1 DEF Read, EngineInv, RecordTypes, backVars, loopVars, recordVars, flagVars, endVars
  <2>3. Stream(q)' = Stream(q)
    BY <2>2, ReadMoves DEF Stream, EngineInv, RecordTypes
  <2>4. \A r \in Requests \ {q} : Stream(r)' = Stream(r)
    BY <2>2 DEF Stream, EngineInv, RecordTypes
  <2>5. QED
    BY <1>1, <2>2, <2>3, <2>4
<1>3. CASE \/ DeadAtStart \/ DrainControl \/ HoldOpen \/ PassWindow \/ Clear \/ Wake
           \/ Planning \/ AfterPlan \/ AfterPlanRaises \/ StepRefused \/ EndStep
           \/ DeliverNext \/ DeliverDone \/ Die \/ Close \/ Exit \/ UNCHANGED vars
           \/ \E r \in Requests : SubmitTests(r) \/ SubmitAppend(r) \/ Cancel(r)
           \/ PostStop \/ ShutdownBackend \/ Start \/ WindowPasses
  <2>1. /\ UNCHANGED <<terminalSent, raised, mailbox, received>> /\ reqIds' \in {reqIds, <<>>}
        /\ dead => dead'
    BY <1>3 DEF DeadAtStart, DrainControl, HoldOpen, PassWindow, Clear, Wake, Planning, AfterPlan,
       AfterPlanRaises, StepRefused, EndStep, DeliverNext, DeliverDone, Die, Close, Exit, vars,
       SubmitTests, SubmitAppend, Cancel, PostStop, ShutdownBackend, Start, WindowPasses, Back!Reset,
       state, backVars, recordVars, clientVars, flagVars, endVars
  <2>2. captured => captured'
    BY <1>3 DEF DeadAtStart, DrainControl, HoldOpen, PassWindow, Clear, Wake, Planning, AfterPlan,
       AfterPlanRaises, StepRefused, EndStep, DeliverNext, DeliverDone, Die, Close, Exit, vars,
       SubmitTests, SubmitAppend, Cancel, PostStop, ShutdownBackend, Start, WindowPasses, state,
       loopVars
  <2>3. QED
    BY <1>1, <2>1, <2>2 DEF Stream
<1>4. CASE BeginDecode
  <2>1. UNCHANGED reqIds
    BY <1>4, DecodeRows DEF BeginDecode
  <2>2. QED
    BY <1>1, <1>4, <2>1 DEF BeginDecode, recordVars, clientVars, flagVars, endVars, loopVars, Stream
<1>5. CASE DeliverToken
  <2> DEFINE q == current.req
  <2>1. /\ UNCHANGED <<terminalSent, raised, captured, dead, reqIds, received>> /\ epc = "token"
        /\ mailbox' = mailbox \/ \E e : mailbox' = [mailbox EXCEPT ![q] = e]
    BY <1>5 DEF DeliverToken, EmitToken, backVars, flagVars, endVars
  <2>2. \A r \in raised : r \in Requests => r # q
    BY <2>1 DEF EngineInv, RaisedIsClosed, AtHand
  <2>3. \A r \in raised : r \in Requests => Stream(r)' = Stream(r)
    BY <2>1, <2>2 DEF Stream, EngineInv, RecordTypes
  <2>4. QED
    BY <1>1, <2>1, <2>3
<1>6. CASE EmitTerminal \/ Evict
  <2> DEFINE q == current.req
  <2>1. /\ UNCHANGED <<terminalSent, raised, captured, dead, reqIds, received>>
        /\ epc \in {"terminal", "evict"}
        /\ mailbox' = mailbox \/ \E e : mailbox' = [mailbox EXCEPT ![q] = e]
    BY <1>6 DEF EmitTerminal, Evict, PutTerminal, backVars, recordVars, flagVars, endVars
  <2>2. \A r \in raised : r \in Requests => r # q
    BY <2>1 DEF EngineInv, AtHand
  <2>3. \A r \in raised : r \in Requests => Stream(r)' = Stream(r)
    BY <2>1, <2>2 DEF Stream, EngineInv, RecordTypes
  <2>4. QED
    BY <1>1, <2>1, <2>3
<1>7. CASE Finish
  <2> DEFINE q == current.req
  <2>1. /\ UNCHANGED <<raised, mailbox, received, dead, reqIds>> /\ epc = "finish"
        /\ terminalSent' = [terminalSent EXCEPT ![q] = TRUE]
        /\ finishReason' = [finishReason EXCEPT ![q] = current.reason] /\ current.reason # None
    BY <1>7 DEF Finish, CloseRecord, backVars, clientVars, flagVars, endVars, EngineInv
  <2>2. (captured => captured') /\ (Drains => captured')
    BY <1>7 DEF Finish
  <2>3. \A r \in raised : r \in Requests => ~HasTerminal(r)'
    BY <2>1 DEF EndInv, HasTerminal, Stream
  <2>4. ASSUME reqIds # <<>>, ~dead, \A i \in 1 .. Len(reqIds) : Ended(reqIds[i])', ~captured
        PROVE  Drains
    <3>1. PICK i \in 1 .. Len(reqIds) : ~Ended(reqIds[i])
      BY <2>4 DEF EndInv
    <3>2. \A j \in 1 .. Len(reqIds) : reqIds[j] \in Requests
      BY DEF BackInv, Back!BackendTypeOK
    <3>3. reqIds[i] = q
      BY <2>1, <2>4, <3>1, <3>2 DEF Ended, EngineInv, RecordTypes
    <3>4. Alive /\ ~Turning /\ spc = "idle"
      BY <2>1, <2>4 DEF EngineInv, Alive, Turning, Admitting, Prefilling
    <3>5. IsActive(q)
      BY <2>1, <3>3, <3>4 DEF CohortInv, UnfinishedActive
    <3>6. Sched!ActiveReqs # {}
      BY <3>2, <3>3, <3>5, ActiveIs
    <3>7. lastCohort = reqIds
      BY <2>4, <3>4, <3>6 DEF CohortInv, Held
    <3>8. \A j \in 1 .. Len(reqIds) : finishReason'[reqIds[j]] # None
      BY <2>1, <2>4, <3>2 DEF Ended, EngineInv, RecordTypes, ClosedHasReason
    <3>9. QED
      BY <2>4, <3>7, <3>8 DEF Drains, CohortDone
  <2>5. QED
    BY <2>1, <2>2, <2>3, <2>4 DEF EndInv
<1>8. CASE FinishRaises
  <2> DEFINE q == current.req
  <2>1. /\ UNCHANGED <<mailbox, received, dead, reqIds, captured>> /\ epc = "finish"
        /\ terminalSent' = [terminalSent EXCEPT ![q] = TRUE] /\ raised' = raised \cup {q}
    BY <1>8 DEF FinishRaises, CloseRecord, backVars, loopVars, clientVars
  <2>2. q \in Requests => ~HasTerminal(q)
    BY <2>1, OpenHasNoTerminal DEF EngineInv, AtHand
  <2>3. \A r \in raised' : r \in Requests => ~HasTerminal(r)'
    BY <2>1, <2>2 DEF EndInv, HasTerminal, Stream
  <2>4. \A r \in Requests : Ended(r)' => Ended(r)
    BY <2>1 DEF Ended, EngineInv, RecordTypes
  <2>5. \A i \in 1 .. Len(reqIds) : reqIds[i] \in Requests
    BY DEF BackInv, Back!BackendTypeOK
  <2>6. QED
    BY <2>1, <2>3, <2>4, <2>5 DEF EndInv
<1>9. CASE BeginPrefill \/ StepFails
  <2>1. /\ UNCHANGED <<terminalSent, raised, mailbox, received, dead, stopped, active, phase>>
        /\ epc = "step"
        /\ UNCHANGED <<reqIds, captured>> \/ (plan = "prefill" /\ Back!Prefill(RowsOf(active)))
    BY <1>9 DEF BeginPrefill, StepFails, backVars, schedVars, recordVars, clientVars, flagVars, endVars
  <2>2. CASE UNCHANGED <<reqIds, captured>>
    BY <1>1, <2>1, <2>2 DEF Stream
  <2>3. CASE plan = "prefill" /\ Back!Prefill(RowsOf(active))
    <3> DEFINE rows == RowsOf(active)
    <3>1. Prefilling /\ Sched!ActiveReqs # {}
      BY <2>1, <2>3 DEF DrainInv, PlanHasRows, Prefilling
    <3>2. rows \in Seq(Requests) /\ rows # <<>> /\ \A i \in 1 .. Len(rows) : IsActive(rows[i])
      BY <3>1, ActiveRows
    <3>3. reqIds' = rows
      BY <2>3, <3>2, PrefillRows
    <3> HIDE DEF rows
    <3>4. 1 \in 1 .. Len(rows) /\ rows[1] \in Requests
      BY <3>2
    <3>5. phase[rows[1]] # "released"
      BY <3>2, <3>4, EngineAssumption DEF IsActive, RowFacts
    <3>6. ~stopped
      BY <2>1 DEF ResultsInv, Closing
    <3>7. ~terminalSent[rows[1]]
      BY <3>1, <3>4, <3>5, <3>6 DEF CohortInv, Started, Turning
    <3>8. ~Ended(reqIds[1])'
      BY <2>1, <3>3, <3>7 DEF Ended
    <3>9. \A r \in raised' : r \in Requests => ~HasTerminal(r)'
      BY <2>1 DEF EndInv, HasTerminal, Stream
    <3>10. QED
      BY <3>3, <3>4, <3>8, <3>9 DEF EndInv
  <2>4. QED
    BY <2>1, <2>2, <2>3
<1>10. QED
  BY <1>2, <1>3, <1>4, <1>5, <1>6, <1>7, <1>8, <1>9 DEF Next, EngineThread

\* engine.py:254-255: whatever ends the requests of a cohort, by the time all
\* their clients can see a terminal on_drain has fired.
THEOREM DrainedBeforeLastTerminal == SafetySpec => []DrainBeforeLastTerminal
<1>1. Init => EndInv
  BY DEF Init, EndInv, Back!BackendInit
<1>2. EngineInv /\ BackInv /\ EndInv => DrainBeforeLastTerminal
  <2> SUFFICES ASSUME EngineInv, BackInv, EndInv, NEW i \in 1 .. Len(reqIds), HasTerminal(reqIds[i])
               PROVE  Ended(reqIds[i])
    BY DEF EndInv, DrainBeforeLastTerminal
  <2>1. reqIds[i] \in Requests
    BY DEF BackInv, Back!BackendTypeOK
  <2>2. QED
    BY <2>1, OpenHasNoTerminal DEF EndInv, Ended
<1>3. SP!SchedInv => RowFacts
  BY SchedulerRows
<1>4. QED
  BY <1>1, <1>2, <1>3, EndInvNext, SchedulerKept, EngineInvariant, DrainInvariant, BackInvariant,
     ResultsInvariant, CohortInvariant, PTL DEF SafetySpec

-----------------------------------------------------------------------------
\* Type correctness.

\* The variables of the loop and of the clients; the record in hand is a request's.
LoopTypes ==
    /\ epc \in EnginePoints
    /\ todo \in Seq(Requests) /\ lastCohort \in Seq(Requests)
    /\ current \in [req : Requests \cup {None}, reason : Reasons \cup {None}]
    /\ epc \in Busy => current.req \in Requests
    /\ cancel \subseteq Requests /\ raised \subseteq Requests
    /\ \A r \in Requests : Len(mailbox[r]) <= MailboxCap
    /\ deadline \in {"none", "running", "passed"}

FlagTypes == {stopPosted, stopped, dead, wakeup, captured} \subseteq BOOLEAN

\* The steps that only move the thread between its points, set a flag or cancel.
LEMMA LoopTypesQuiet ==
  ASSUME LoopTypes, UNCHANGED <<todo, lastCohort, current, raised, mailbox>>,
         epc' = epc \/ epc' \in EnginePoints \ Busy,
         cancel' \subseteq Requests, deadline' \in {"none", "running", "passed"}
  PROVE  LoopTypes'
  BY DEF LoopTypes

LEMMA RowsAreRequests ==
  ASSUME RowFacts
  PROVE  RowsOf(active) \in Seq(Requests)
  BY RowsOfFacts DEF RowFacts

\* A closing loop goes through the active and the waiting requests.
LEMMA TodoType ==
  ASSUME RowFacts, QueueTypes
  PROVE  RowsOf(active) \o waiting \in Seq(Requests)
<1>1. RowsOf(active) \in Seq(Requests) /\ waiting \in Seq(Requests)
  BY RowsAreRequests DEF QueueTypes
<1>2. PICK a \in Seq(Requests), b \in Seq(Requests) : a = RowsOf(active) /\ b = waiting
  BY <1>1
<1>3. a \o b \in Seq(Requests)
  OBVIOUS
<1>4. QED
  BY <1>2, <1>3

\* Only _emit fills a mailbox, and only when it has room.
LEMMA PutFits ==
  ASSUME RecordTypes, NEW q \in Requests, HasRoom(q), NEW e \in Events,
         \A r \in Requests : Len(mailbox[r]) <= MailboxCap,
         mailbox' = [mailbox EXCEPT ![q] = Append(@, e)]
  PROVE  \A r \in Requests : Len(mailbox'[r]) <= MailboxCap
<1>1. mailbox \in [Requests -> Seq(Events)] /\ MailboxCap \in Nat
  BY EngineAssumption DEF RecordTypes
<1>2. PICK m \in Seq(Events) : m = mailbox[q]
  BY <1>1
<1>3. Len(Append(m, e)) = Len(m) + 1 /\ Len(m) \in Nat
  OBVIOUS
<1>4. mailbox'[q] = Append(m, e) /\ \A r \in Requests : r # q => mailbox'[r] = mailbox[r]
  BY <1>1, <1>2
<1>5. QED
  BY <1>1, <1>2, <1>3, <1>4 DEF HasRoom

LEMMA TakeFits ==
  ASSUME RecordTypes, NEW q \in Requests, mailbox[q] # <<>>,
         \A r \in Requests : Len(mailbox[r]) <= MailboxCap,
         mailbox' = [mailbox EXCEPT ![q] = Tail(@)]
  PROVE  \A r \in Requests : Len(mailbox'[r]) <= MailboxCap
<1>1. mailbox \in [Requests -> Seq(Events)] /\ MailboxCap \in Nat
  BY EngineAssumption DEF RecordTypes
<1>2. PICK m \in Seq(Events) : m = mailbox[q]
  BY <1>1
<1>3. Len(Tail(m)) = Len(m) - 1 /\ Len(m) \in Nat
  BY <1>2
<1>4. mailbox'[q] = Tail(m) /\ \A r \in Requests : r # q => mailbox'[r] = mailbox[r]
  BY <1>1, <1>2
<1>5. Len(m) <= MailboxCap
  BY <1>2
<1>6. QED
  BY <1>1, <1>3, <1>4, <1>5

LEMMA LoopTypesNext ==
  EngineInv /\ DrainInv /\ RowFacts /\ ResultsInv /\ LoopTypes /\ [Next]_vars => LoopTypes'
<1> SUFFICES ASSUME EngineInv, DrainInv, RowFacts, ResultsInv, LoopTypes, [Next]_vars
             PROVE  LoopTypes'
  OBVIOUS
<1> USE DEF Busy
<1>1. RowsOf(active) \in Seq(Requests) /\ RowsOf(active) \o waiting \in Seq(Requests)
  BY RowsAreRequests, TodoType DEF DrainInv
<1>2. RecordTypes /\ results \in Seq([req : Requests, emits : BOOLEAN])
  BY DEF EngineInv, ResultsInv
<1>3. CASE \/ DeadAtStart \/ HoldOpen \/ PassWindow \/ Clear \/ Wake \/ Planning
           \/ AfterPlanRaises \/ BeginDecode \/ StepRefused \/ EndStep \/ DeliverDone \/ Exit
           \/ PostStop \/ ShutdownBackend \/ Start \/ WindowPasses
           \/ \E r \in Requests : SubmitTests(r) \/ SubmitAppend(r) \/ Cancel(r)
  <2>1. /\ UNCHANGED <<todo, lastCohort, current, raised, mailbox>>
        /\ epc' = epc \/ epc' \in EnginePoints \ Busy
        /\ cancel' \subseteq Requests /\ deadline' \in {"none", "running", "passed"}
    BY <1>3 DEF DeadAtStart, HoldOpen, PassWindow, Clear, Wake, Planning, AfterPlanRaises,
       BeginDecode, StepRefused, EndStep, DeliverDone, Exit, PostStop, ShutdownBackend, Start,
       WindowPasses, SubmitTests, SubmitAppend, Cancel, state, loopVars, clientVars, flagVars,
       endVars, EnginePoints, LoopTypes
  <2>2. QED
    BY <2>1, LoopTypesQuiet
<1>4. CASE DrainControl \/ Die
  <2>1. /\ UNCHANGED <<lastCohort, current, raised, mailbox, cancel, deadline>>
        /\ epc' = "closing" /\ todo' = RowsOf(active) \o waiting
    BY <1>4 DEF DrainControl, Die, Unserved, clientVars
  <2>2. QED
    BY <1>1, <2>1 DEF LoopTypes, EnginePoints
<1>5. CASE AfterPlan \/ BeginPrefill \/ StepFails
  <2>1. /\ UNCHANGED <<todo, current, raised, mailbox, cancel, deadline>>
        /\ epc' \in {"clear", "step", "running", "dying"}
        /\ lastCohort' \in {lastCohort, <<>>, RowsOf(active)}
    BY <1>5 DEF AfterPlan, BeginPrefill, StepFails, clientVars, flagVars, endVars
  <2>2. lastCohort' \in Seq(Requests)
    <3>1. lastCohort \in Seq(Requests) /\ <<>> \in Seq(Requests)
      BY DEF LoopTypes
    <3>2. QED
      BY <1>1, <2>1, <3>1
  <2>3. QED
    BY <2>1, <2>2 DEF LoopTypes, EnginePoints
<1>6. CASE DeliverNext
  <2>1. /\ UNCHANGED <<todo, lastCohort, raised, mailbox, cancel, deadline>>
        /\ epc = "deliver" /\ results # <<>>
    BY <1>6 DEF DeliverNext, clientVars, flagVars, endVars
  <2>2. CASE UNCHANGED <<current, epc>>
    BY <2>1, <2>2 DEF LoopTypes
  <2>3. CASE /\ epc' = "token"
             /\ \E reason \in {"cancelled", "stop", None} :
                  current' = [req |-> Head(results).req, reason |-> reason]
    <3>1. Head(results).req \in Requests
      <4> DEFINE R == [req : Requests, emits : BOOLEAN]
      <4>1. results \in Seq(R) /\ results # <<>>
        BY <1>2, <2>1
      <4>2. \A res \in R : res.req \in Requests
        OBVIOUS
      <4> HIDE DEF R
      <4>3. Head(results) \in R
        BY <4>1
      <4>4. QED
        BY <4>2, <4>3
    <3>2. QED
      BY <2>1, <2>3, <3>1 DEF LoopTypes, EnginePoints, Reasons
  <2>4. QED
    BY <1>6, <2>2, <2>3 DEF DeliverNext, Back!Reported
<1>7. CASE DeliverToken
  <2>1. /\ UNCHANGED <<todo, lastCohort, raised, deadline>> /\ epc = "token"
        /\ epc' \in {"deliver", "finish"}
        /\ \E reason \in {"length", current.reason} :
             current' = [req |-> current.req, reason |-> reason]
    BY <1>7 DEF DeliverToken, flagVars, endVars
  <2>2. current.req \in Requests /\ completion[current.req] \in Nat
    BY <1>2, <2>1 DEF LoopTypes, RecordTypes
  <2>3. EmitToken(current.req) \/ UNCHANGED <<mailbox, cancel>>
    BY <1>7 DEF DeliverToken
  <2>4. cancel' \subseteq Requests /\ \A r \in Requests : Len(mailbox'[r]) <= MailboxCap
    <3>1. CASE UNCHANGED <<mailbox, cancel>>
      BY <3>1 DEF LoopTypes
    <3>2. CASE EmitToken(current.req) /\ ~HasRoom(current.req)
      BY <2>2, <3>2 DEF EmitToken, LoopTypes
    <3>3. CASE EmitToken(current.req) /\ HasRoom(current.req)
      <4>1. PICK q \in Requests, e \in Events :
              q = current.req /\ e = Token(completion[current.req])
        BY <2>2 DEF Events, Token
      <4>2. mailbox' = [mailbox EXCEPT ![q] = Append(@, e)] /\ UNCHANGED cancel
        BY <3>3, <4>1 DEF EmitToken
      <4>3. \A r \in Requests : Len(mailbox'[r]) <= MailboxCap
        BY <1>2, <3>3, <4>1, <4>2, PutFits DEF LoopTypes
      <4>4. QED
        BY <4>2, <4>3 DEF LoopTypes
    <3>4. QED
      BY <2>3, <3>1, <3>2, <3>3
  <2>5. QED
    BY <2>1, <2>2, <2>4 DEF LoopTypes, EnginePoints, Reasons
<1>8. CASE Finish \/ FinishRaises
  <2>1. /\ UNCHANGED <<todo, current, mailbox, cancel, deadline>> /\ epc = "finish"
        /\ epc' \in {"terminal", "exited", "dying"}
        /\ lastCohort' \in {lastCohort, <<>>}
        /\ raised' \in {raised, raised \cup {current.req}}
    BY <1>8 DEF Finish, FinishRaises, loopVars, clientVars, flagVars, endVars
  <2>2. lastCohort' \in Seq(Requests)
    <3>1. lastCohort \in Seq(Requests) /\ <<>> \in Seq(Requests)
      BY DEF LoopTypes
    <3>2. QED
      BY <2>1, <3>1
  <2>3. QED
    BY <2>1, <2>2 DEF LoopTypes, EnginePoints
<1>9. CASE EmitTerminal \/ Evict
  <2>1. /\ UNCHANGED <<todo, lastCohort, current, raised, cancel, deadline>>
        /\ epc \in {"terminal", "evict"} /\ epc' \in {"evict", "deliver", "closing"}
    BY <1>9 DEF EmitTerminal, Evict, FinishReturns, flagVars, endVars
  <2>2. PICK q \in Requests, e \in Events :
          q = current.req /\ e = Terminal(current.reason, completion[q])
    <3>1. current.req \in Requests
      BY <2>1 DEF LoopTypes
    <3>2. completion[current.req] \in Nat /\ current.reason \in Reasons \cup {None}
      BY <1>2, <3>1 DEF RecordTypes
    <3>3. QED
      BY <3>1, <3>2 DEF Events, Terminal
  <2>3. HasRoom(q) \/ mailbox[q] # <<>>
    BY EngineAssumption DEF HasRoom
  <2>4. \/ UNCHANGED mailbox
        \/ HasRoom(q) /\ mailbox' = [mailbox EXCEPT ![q] = Append(@, e)]
        \/ mailbox[q] # <<>> /\ mailbox' = [mailbox EXCEPT ![q] = Tail(@)]
    BY <1>9, <2>2, <2>3 DEF EmitTerminal, Evict, PutTerminal
  <2>5. \A r \in Requests : Len(mailbox'[r]) <= MailboxCap
    BY <1>2, <2>4, PutFits, TakeFits DEF LoopTypes
  <2>6. QED
    BY <2>1, <2>5 DEF LoopTypes, EnginePoints
<1>10. CASE Close
  <2>1. /\ UNCHANGED <<lastCohort, raised, mailbox, cancel, deadline>>
        /\ epc = "closing" /\ todo # <<>> /\ todo' = Tail(todo)
        /\ \/ UNCHANGED <<current, epc>>
           \/ epc' = "finish" /\ current' = [req |-> Head(todo), reason |-> "cancelled"]
    BY <1>10 DEF Close, clientVars, flagVars, endVars
  <2>2. Head(todo) \in Requests /\ Tail(todo) \in Seq(Requests)
    BY <2>1 DEF LoopTypes
  <2>3. QED
    BY <2>1, <2>2 DEF LoopTypes, EnginePoints, Reasons
<1>11. CASE \E r \in Requests : Read(r)
  <2>1. PICK q \in Requests : Read(q)
    BY <1>11
  <2>2. /\ UNCHANGED <<todo, lastCohort, current, raised, cancel, deadline, epc>>
        /\ mailbox[q] # <<>> /\ mailbox' = [mailbox EXCEPT ![q] = Tail(@)]
    BY <2>1 DEF Read, loopVars, flagVars, endVars
  <2>3. \A r \in Requests : Len(mailbox'[r]) <= MailboxCap
    BY <1>2, <2>2, TakeFits DEF LoopTypes
  <2>4. QED
    BY <2>2, <2>3 DEF LoopTypes
<1>12. CASE UNCHANGED vars
  <2>1. UNCHANGED <<todo, lastCohort, current, raised, mailbox, cancel, deadline, epc>>
    BY <1>12 DEF vars, state, loopVars, clientVars, flagVars, endVars
  <2>2. QED
    BY <2>1 DEF LoopTypes
<1>13. QED
  BY <1>3, <1>4, <1>5, <1>6, <1>7, <1>8, <1>9, <1>10, <1>11, <1>12 DEF Next, EngineThread

LEMMA FlagTypesNext == FlagTypes /\ [Next]_vars => FlagTypes'
<1> SUFFICES ASSUME FlagTypes, [Next]_vars PROVE FlagTypes'
  OBVIOUS
<1>1. ASSUME NEW f, f \in {stopPosted', stopped', dead', wakeup'}
      PROVE  f \in {stopPosted, stopped, dead, wakeup, TRUE, FALSE}
  BY <1>1 DEF Next, EngineThread, DeadAtStart, DrainControl, HoldOpen, PassWindow, Clear, Wake,
     Planning, AfterPlan, AfterPlanRaises, BeginPrefill, BeginDecode, StepRefused, StepFails,
     EndStep, DeliverNext, DeliverDone, DeliverToken, Finish, FinishRaises, EmitTerminal, Evict,
     Die, Close, Exit, SubmitTests, SubmitAppend, Cancel, Read, PostStop, ShutdownBackend, Start,
     WindowPasses, vars, state, loopVars, clientVars, flagVars, endVars
<1>2. captured' \in {captured, TRUE, FALSE}
  BY DEF FlagTypes, Next, EngineThread, DeadAtStart, DrainControl, HoldOpen, PassWindow, Clear, Wake,
     Planning, AfterPlan, AfterPlanRaises, BeginPrefill, BeginDecode, StepRefused, StepFails,
     EndStep, DeliverNext, DeliverDone, DeliverToken, Finish, FinishRaises, EmitTerminal, Evict,
     Die, Close, Exit, SubmitTests, SubmitAppend, Cancel, Read, PostStop, ShutdownBackend, Start,
     WindowPasses, vars, state, loopVars, clientVars, flagVars, endVars
<1>3. QED
  BY <1>1, <1>2 DEF FlagTypes

\* The types of all components together: among them that no mailbox ever holds
\* more than its capacity and that the record in hand is always a request's.
THEOREM EngineTypeCorrect == SafetySpec => []TypeOK
<1>1. Init => LoopTypes /\ FlagTypes
  <2>1. SUFFICES ASSUME Init PROVE LoopTypes /\ FlagTypes
    OBVIOUS
  <2>2. FlagTypes
    BY <2>1 DEF Init, FlagTypes
  <2>3. epc = "top" /\ todo = <<>> /\ lastCohort = <<>> /\ cancel = {} /\ raised = {}
    BY <2>1 DEF Init
  <2>4. current \in [req : Requests \cup {None}, reason : Reasons \cup {None}]
    BY <2>1 DEF Init
  <2>5. \A r \in Requests : mailbox[r] = <<>>
    BY <2>1 DEF Init
  <2>6. Len(<<>>) = 0 /\ 0 <= MailboxCap /\ <<>> \in Seq(Requests)
    BY EngineAssumption
  <2>7. deadline = "none"
    BY <2>1 DEF Init
  <2>8. QED
    BY <2>2, <2>3, <2>4, <2>5, <2>6, <2>7 DEF LoopTypes, EnginePoints, Busy
<1>2. SP!TypeOK => Sched!TypeOK
  BY DEF SP!TypeOK, Sched!TypeOK, SP!Slots, Sched!Slots, SP!Phases, Sched!Phases,
     SP!Store!StoreTypeOK, Sched!Store!StoreTypeOK, SP!Store!Slots, Sched!Store!Slots,
     SP!Store!RowRefs, Sched!Store!RowRefs
<1>3. SP!SchedInv => SP!TypeOK
  BY DEF SP!SchedInv
<1>4. /\ SP!TypeOK /\ EngineInv /\ BackInv /\ ResultsInv /\ LoopTypes /\ FlagTypes
      => TypeOK
  BY <1>2 DEF TypeOK, EngineInv, RecordTypes, BackInv, ResultsInv, LoopTypes, FlagTypes
<1>5. SP!SchedInv => RowFacts
  BY SchedulerRows
<1>6. QED
  BY <1>1, <1>3, <1>4, <1>5, LoopTypesNext, FlagTypesNext, SchedulerKept, EngineInvariant,
     DrainInvariant, BackInvariant, ResultsInvariant, PTL DEF SafetySpec

-----------------------------------------------------------------------------
\* Nobody is forgotten.

\* A record closed for good is answered, unless its terminal is on its way.
Answered(r) ==
    /\ finishReason[r] \notin {None, "backpressure"} => terminalSent[r]
    /\ TerminalQueued(r) => HasTerminal(r)

\* A thread that is gone was stopped or has died.
AnsweredInv ==
    /\ \A r \in Requests : Answered(r)
    /\ dead \/ epc = "exited" => stopped

\* A step that leaves r's record alone, or only reads or fills its mailbox.
LEMMA AnsweredStays ==
  ASSUME NEW r \in Requests, Answered(r), UNCHANGED <<finishReason[r], terminalSent[r]>>,
         r \in raised => r \in raised', HasTerminal(r) => HasTerminal(r)',
         epc \in {"terminal", "evict"} /\ current.req = r =>
           epc' \in {"terminal", "evict"} /\ current'.req = r
  PROVE  Answered(r)'
BY DEF Answered, TerminalQueued

\* The steps that touch no stream.
LEMMA AnsweredQuiet ==
  ASSUME AnsweredInv, UNCHANGED streamVars, dead' \/ epc' = "exited" => stopped',
         epc \in {"terminal", "evict"} => UNCHANGED <<epc, current>>
  PROVE  AnsweredInv'
<1>1. \A r \in Requests : HasTerminal(r) => HasTerminal(r)'
  BY DEF streamVars, HasTerminal, Stream
<1>2. \A r \in Requests : Answered(r)'
  BY <1>1, AnsweredStays DEF AnsweredInv, streamVars
<1>3. QED
  BY <1>2 DEF AnsweredInv

\* The steps that work on the record in hand.
LEMMA AnsweredAtHand ==
  ASSUME AnsweredInv, NEW q, current.req = q, UNCHANGED current.req, UNCHANGED stopped,
         dead' \/ epc' = "exited" => stopped,
         \A r \in Requests \ {q} : UNCHANGED recordOf(r) /\ (r \in raised => r \in raised'),
         q \in Requests => Answered(q)'
  PROVE  AnsweredInv'
<1>1. ASSUME NEW r \in Requests, r # q PROVE Answered(r)'
  <2>1. UNCHANGED recordOf(r) /\ (r \in raised => r \in raised')
    BY <1>1
  <2>2. UNCHANGED <<finishReason[r], terminalSent[r]>> /\ (HasTerminal(r) => HasTerminal(r)')
    BY <2>1 DEF recordOf, HasTerminal, Stream
  <2>3. QED
    BY <1>1, <2>1, <2>2, AnsweredStays DEF AnsweredInv
<1>2. QED
  BY <1>1 DEF AnsweredInv

LEMMA AnsweredRead ==
  ASSUME EngineInv, AnsweredInv, NEW q \in Requests, Read(q)
  PROVE  AnsweredInv'
<1>1. /\ UNCHANGED <<finishReason, terminalSent, raised, current, epc, dead, stopped>>
      /\ mailbox[q] # <<>> /\ mailbox[q] \in Seq(Events) /\ received[q] \in Seq(Events)
      /\ mailbox' = [mailbox EXCEPT ![q] = Tail(@)]
      /\ received' = [received EXCEPT ![q] = Append(@, Head(mailbox[q]))]
  BY DEF Read, EngineInv, RecordTypes, loopVars, recordVars, flagVars, endVars
<1>2. Stream(q)' = Stream(q)
  BY <1>1, ReadMoves DEF Stream, EngineInv, RecordTypes
<1>3. \A r \in Requests \ {q} : Stream(r)' = Stream(r)
  BY <1>1 DEF Stream, EngineInv, RecordTypes
<1>4. \A r \in Requests : HasTerminal(r) => HasTerminal(r)'
  BY <1>2, <1>3 DEF HasTerminal
<1>5. \A r \in Requests : Answered(r)'
  BY <1>1, <1>4, AnsweredStays DEF AnsweredInv
<1>6. QED
  BY <1>1, <1>5 DEF AnsweredInv

LEMMA AnsweredToken ==
  ASSUME EngineInv, StreamInv, AnsweredInv, DeliverToken
  PROVE  AnsweredInv'
<1>0. PICK q : q = current.req
  OBVIOUS
<1>1. /\ UNCHANGED <<terminalSent, received, raised, stopped, dead>> /\ epc = "token"
      /\ epc' \in {"deliver", "finish"} /\ current'.req = q
      /\ \/ UNCHANGED <<completion, mailbox, finishReason>>
         \/ EmitToken(q) /\ finishReason[q] = None
  BY <1>0 DEF DeliverToken, flagVars, endVars
<1>2. \A r \in Requests \ {q} : UNCHANGED recordOf(r)
  BY <1>0, <1>1 DEF EmitToken, recordOf, EngineInv, RecordTypes
<1>3. ASSUME q \in Requests PROVE Answered(q)'
  <2>1. ~terminalSent[q]
    BY <1>0, <1>1, <1>3 DEF EngineInv, AtHand
  <2>2. finishReason[q] \in {None, "backpressure"} /\ ~TerminalQueued(q)'
    BY <1>0, <1>1, <1>3, <2>1 DEF AnsweredInv, Answered, TerminalQueued
  <2>3. finishReason'[q] \in {finishReason[q], "backpressure"}
    BY <1>0, <1>1, <1>3 DEF EmitToken, EngineInv, RecordTypes
  <2>4. QED
    BY <2>2, <2>3 DEF Answered
<1>4. QED
  BY <1>0, <1>1, <1>2, <1>3, AnsweredAtHand DEF AnsweredInv

LEMMA AnsweredFinish ==
  ASSUME EngineInv, AnsweredInv, Finish \/ FinishRaises
  PROVE  AnsweredInv'
<1>0. PICK q : q = current.req
  OBVIOUS
<1>1. /\ UNCHANGED <<completion, mailbox, received, current, stopped, dead>> /\ epc = "finish"
      /\ CloseRecord
      /\ \/ epc' = "terminal" /\ UNCHANGED raised
         \/ raised' = raised \cup {q} /\ epc' \in {"dying"} \cup (IF dead THEN {"exited"} ELSE {})
  BY <1>0 DEF Finish, FinishRaises, loopVars, clientVars, flagVars, endVars
<1>2. \A r \in Requests \ {q} : UNCHANGED recordOf(r)
  BY <1>0, <1>1 DEF CloseRecord, recordOf, EngineInv, RecordTypes
<1>3. ASSUME q \in Requests PROVE Answered(q)'
  <2>1. terminalSent'[q]
    BY <1>0, <1>1, <1>3 DEF CloseRecord, EngineInv, RecordTypes
  <2>2. ~TerminalQueued(q)'
    BY <1>0, <1>1, <1>3 DEF TerminalQueued
  <2>3. QED
    BY <2>1, <2>2 DEF Answered
<1>4. dead' \/ epc' = "exited" => stopped
  BY <1>0, <1>1 DEF AnsweredInv
<1>5. QED
  BY <1>0, <1>1, <1>2, <1>3, <1>4, AnsweredAtHand

\* The terminal is put, or its turn is still to come.
LEMMA AnsweredTerminal ==
  ASSUME EngineInv, AnsweredInv, EngineInv', EmitTerminal \/ Evict
  PROVE  AnsweredInv'
<1>0. PICK q : q = current.req
  OBVIOUS
<1> DEFINE e == Terminal(current.reason, completion[q])
<1>1. /\ UNCHANGED <<finishReason, terminalSent, completion, received, current, raised, stopped, dead>>
      /\ epc \in {"terminal", "evict"}
      /\ \/ epc' = "evict" /\ (mailbox' = mailbox \/ mailbox' = [mailbox EXCEPT ![q] = Tail(@)])
         \/ mailbox' = [mailbox EXCEPT ![q] = Append(@, e)] /\ epc' \in {"deliver", "closing"}
  BY <1>0, ReturnsToLoop DEF EmitTerminal, Evict, PutTerminal, recordVars, flagVars, endVars
<1>2. \A r \in Requests \ {q} : UNCHANGED recordOf(r)
  BY <1>0, <1>1 DEF recordOf, EngineInv, RecordTypes
<1>3. ASSUME q \in Requests PROVE Answered(q)'
  <2>1. terminalSent'[q]
    BY <1>0, <1>1, <1>3 DEF EngineInv, AtHand
  <2>2. CASE epc' = "evict"
    BY <1>0, <1>1, <2>1, <2>2 DEF Answered, TerminalQueued
  <2>3. CASE mailbox' = [mailbox EXCEPT ![q] = Append(@, e)]
    <3>1. mailbox[q] \in Seq(Events) /\ current.reason \in Reasons \cup {None} /\ completion[q] \in Nat
      BY <1>3 DEF EngineInv, RecordTypes
    <3>2. e \in Events /\ IsTerminal(e)
      BY <3>1 DEF Terminal, Events, IsTerminal
    <3>3. mailbox'[q] = Append(mailbox[q], e)
      BY <1>3, <2>3 DEF EngineInv, RecordTypes
    <3>4. TerminalIn(mailbox'[q])
      BY <3>1, <3>2, <3>3, TerminalMoves
    <3>5. Stream(q)' = received'[q] \o mailbox'[q] /\ received'[q] \in Seq(Events)
          /\ mailbox'[q] \in Seq(Events)
      BY <1>3 DEF Stream, EngineInv, RecordTypes
    <3>6. HasTerminal(q)'
      BY <3>4, <3>5, TerminalInBoth DEF HasTerminal, TerminalIn
    <3>7. QED
      BY <2>1, <3>6 DEF Answered
  <2>4. QED
    BY <1>0, <1>1, <2>2, <2>3
<1>4. QED
  BY <1>0, <1>1, <1>2, <1>3, AnsweredAtHand DEF AnsweredInv

LEMMA AnsweredInvNext ==
  EngineInv /\ EngineInv' /\ StreamInv /\ ResultsInv /\ AnsweredInv /\ [Next]_vars => AnsweredInv'
<1> SUFFICES ASSUME EngineInv, EngineInv', StreamInv, ResultsInv, AnsweredInv, [Next]_vars
             PROVE  AnsweredInv'
  OBVIOUS
<1>1. CASE \/ DeadAtStart \/ DrainControl \/ HoldOpen \/ PassWindow \/ Clear \/ Wake
           \/ Planning \/ AfterPlan \/ AfterPlanRaises \/ BeginPrefill \/ BeginDecode
           \/ StepRefused \/ StepFails \/ EndStep
           \/ DeliverNext \/ DeliverDone \/ Die \/ Close \/ Exit \/ UNCHANGED vars
           \/ \E r \in Requests : SubmitTests(r) \/ SubmitAppend(r) \/ Cancel(r)
           \/ PostStop \/ ShutdownBackend \/ Start \/ WindowPasses
  <2>1. UNCHANGED streamVars
    BY <1>1 DEF DeadAtStart, DrainControl, HoldOpen, PassWindow, Clear, Wake, Planning, AfterPlan,
       AfterPlanRaises, BeginPrefill, BeginDecode, StepRefused, StepFails, EndStep, DeliverNext,
       DeliverDone, Die, Close, Exit, vars, SubmitTests, SubmitAppend, Cancel, PostStop,
       ShutdownBackend, Start, WindowPasses, state, recordVars, clientVars, flagVars, endVars,
       streamVars
  <2>2. epc \in {"terminal", "evict"} => UNCHANGED <<epc, current>>
    BY <1>1 DEF DeadAtStart, DrainControl, HoldOpen, PassWindow, Clear, Wake, Planning, AfterPlan,
       AfterPlanRaises, BeginPrefill, BeginDecode, StepRefused, StepFails, EndStep, DeliverNext,
       DeliverDone, Die, Close, Exit, vars, SubmitTests, SubmitAppend, Cancel, PostStop,
       ShutdownBackend, Start, WindowPasses, state, loopVars
  <2>3. \/ DrainControl \/ Die
        \/ UNCHANGED <<stopped, dead>> /\ (epc' = "exited" => epc \in {"exited", "closing"} \/ dead)
    BY <1>1 DEF DeadAtStart, HoldOpen, PassWindow, Clear, Wake, Planning, AfterPlan,
       AfterPlanRaises, BeginPrefill, BeginDecode, StepRefused, StepFails, EndStep, DeliverNext,
       DeliverDone, Close, Exit, vars, SubmitTests, SubmitAppend, Cancel, PostStop,
       ShutdownBackend, Start, WindowPasses, state, flagVars, endVars
  <2>4. dead' \/ epc' = "exited" => stopped'
    BY <2>3 DEF DrainControl, Die, AnsweredInv, ResultsInv
  <2>5. QED
    BY <2>1, <2>2, <2>4, AnsweredQuiet
<1>2. QED
  BY <1>1, AnsweredRead, AnsweredToken, AnsweredFinish, AnsweredTerminal DEF Next, EngineThread

LEMMA AnsweredInvariant == SafetySpec => []AnsweredInv
<1>1. Init => AnsweredInv
  BY DEF Init, AnsweredInv, Answered, TerminalQueued
<1>2. QED
  BY <1>1, AnsweredInvNext, EngineInvariant, StreamInvariant, ResultsInvariant, PTL DEF SafetySpec

\* What is owed to a request once it is in line: a reason, or a place in the
\* closing loop's list from the moment there is one.
InList(q, r) == \E i \in 1 .. Len(q) : q[i] = r

Owed(r) ==
    \/ finishReason[r] # None
    \/ /\ phase[r] = "queued"
       /\ stopped /\ epc # "dying" => InList(todo, r) \/ (epc = "finish" /\ current.req = r)

\* Outside next_plan, who is in line or in a row is on the list.
Listed == spc = "idle" => \A r \in Requests : phase[r] = "queued" => InList(Unserved, r)

LEMMA QueuedIsListed == SP!SchedInv => Listed
<1> SUFFICES ASSUME SP!SchedInv, spc = "idle", NEW r \in Requests, phase[r] = "queued"
             PROVE  InList(Unserved, r)
  BY DEF Listed
<1>1. RowFacts /\ waiting \in Seq(Requests)
  BY SchedulerRows DEF SP!SchedInv, SP!TypeOK
<1>2. RowsOf(active) \in Seq(Requests)
  BY <1>1, ActiveRows
<1>3. SP!Elems(<<>>) = {} /\ candidates = <<>> /\ cohort = <<>> /\ requeue = <<>>
  BY DEF SP!SchedInv, SP!Shape, SP!Elems
<1>4. r \in SP!ActiveReqs \cup SP!Elems(waiting)
  BY <1>3 DEF SP!SchedInv, SP!Partition, SP!Queued
<1>5. SP!ActiveReqs = Sched!ActiveReqs
  BY DEF SP!ActiveReqs, Sched!ActiveReqs, SP!Slots, Sched!Slots
<1>6. r \in SP!Elems(RowsOf(active)) \cup SP!Elems(waiting)
  <2>1. Sched!ActiveReqs \subseteq SP!Elems(RowsOf(active))
    BY <1>1, ActiveRows DEF SP!Elems
  <2>2. QED
    BY <1>4, <1>5, <2>1
<1>7. r \in SP!Elems(RowsOf(active) \o waiting)
  <2>1. PICK a \in Seq(Requests), b \in Seq(Requests) : a = RowsOf(active) /\ b = waiting
    BY <1>1, <1>2
  <2>2. SP!Elems(a \o b) = SP!Elems(a) \cup SP!Elems(b)
    BY SchedulerSetting, SP!Concatenate
  <2>3. QED
    BY <1>6, <2>1, <2>2
<1>8. QED
  BY <1>7 DEF SP!Elems, InList, Unserved

\* A record that has a reason keeps one.
LEMMA ReasonStands ==
  ASSUME EngineInv, [Next]_vars, NEW r \in Requests, finishReason[r] # None
  PROVE  finishReason'[r] # None
<1>1. CASE DeliverToken
  <2>1. "backpressure" # None
    BY EngineAssumption DEF Reasons
  <2>2. \/ UNCHANGED finishReason
        \/ finishReason' = [finishReason EXCEPT ![current.req] = "backpressure"]
    BY <1>1 DEF DeliverToken, EmitToken
  <2>3. QED
    BY <2>1, <2>2 DEF EngineInv, RecordTypes
<1>2. CASE Finish \/ FinishRaises
  <2>1. /\ finishReason' = [finishReason EXCEPT ![current.req] = current.reason]
        /\ current.reason # None
    BY <1>2 DEF Finish, FinishRaises, CloseRecord, EngineInv
  <2>2. QED
    BY <2>1 DEF EngineInv, RecordTypes
<1>3. CASE UNCHANGED finishReason
  BY <1>3
<1>4. DeliverToken \/ Finish \/ FinishRaises \/ UNCHANGED finishReason
  BY DEF Next, EngineThread, DeadAtStart, DrainControl, HoldOpen, PassWindow, Clear, Wake, Planning,
     AfterPlan, AfterPlanRaises, BeginPrefill, BeginDecode, StepRefused, StepFails, EndStep,
     DeliverNext, DeliverDone, EmitTerminal, Evict, Die, Close, Exit, vars, SubmitTests,
     SubmitAppend, Cancel, Read, PostStop, ShutdownBackend, Start, WindowPasses, state, recordVars
<1>5. QED
  BY <1>1, <1>2, <1>3, <1>4

\* A request leaves the scheduler only when it is finished.
LEMMA QueuedStays ==
  ASSUME EngineInv, DrainInv, RowFacts, CohortInv, [Next]_vars,
         NEW r \in Requests, phase[r] = "queued", finishReason[r] = None
  PROVE  phase'[r] = "queued"
<1>1. CASE Bystanding
  BY <1>1, PhaseMoves
<1>2. CASE Planning
  <2>1. Replans
    BY <1>2, PlanningReplans
  <2>2. CASE UNCHANGED phase
    BY <2>2
  <2>3. ASSUME NEW s \in Sched!Slots, spc = "release", active[s] # None,
               phase' = [phase EXCEPT ![active[s]] = "released"]
        PROVE  phase'[r] = "queued"
    <3>1. active[s] # r
      BY <2>3 DEF CohortInv, ReleasesDone, Sched!ActiveReqs
    <3>2. QED
      BY <2>3, <3>1 DEF RowFacts
  <2>4. QED
    BY <2>1, <2>2, <2>3 DEF Replans
<1>3. CASE UNCHANGED phase
  BY <1>3
<1>4. Bystanding \/ Planning \/ UNCHANGED phase
  BY DEF Bystanding, Next, EngineThread, DrainControl, AfterPlan, AfterPlanRaises, Sched!TakePlan,
     Sched!queueVars, BeginPrefill, BeginDecode, StepRefused, StepFails, EndStep, DeliverNext,
     DeliverToken, Finish, FinishRaises, RowStays, EmitTerminal, Evict, Die, Close, ShutdownBackend,
     vars, state, schedVars
<1>5. QED
  BY <1>1, <1>2, <1>3, <1>4

LEMMA OwedNext ==
  ASSUME NEW r \in Requests
  PROVE  /\ EngineInv /\ DrainInv /\ RowFacts /\ CohortInv /\ Listed
         /\ todo \in Seq(Requests) /\ Owed(r) /\ [Next]_vars
         => Owed(r)'
<1> SUFFICES ASSUME EngineInv, DrainInv, RowFacts, CohortInv, Listed, Owed(r), [Next]_vars,
                    todo \in Seq(Requests)
             PROVE  Owed(r)'
  OBVIOUS
<1>1. CASE finishReason[r] # None
  BY <1>1, ReasonStands DEF Owed
<1>2. CASE finishReason[r] = None
  <2>1. /\ phase[r] = "queued" /\ phase'[r] = "queued"
        /\ stopped /\ epc # "dying" => InList(todo, r) \/ (epc = "finish" /\ current.req = r)
    BY <1>2, QueuedStays DEF Owed
  <2>2. CASE DrainControl \/ Die
    <3>1. todo' = Unserved /\ epc # "planning"
      BY <2>2 DEF DrainControl, Die
    <3>2. InList(Unserved, r)
      BY <2>1, <3>1 DEF Listed, EngineInv
    <3>3. InList(todo, r)'
      BY <3>1, <3>2 DEF InList
    <3>4. QED
      BY <2>1, <3>3 DEF Owed
  <2>3. CASE Close
    <3>1. /\ todo # <<>> /\ todo' = Tail(todo) /\ UNCHANGED stopped /\ epc = "closing"
          /\ IsClosed(Head(todo)) \/ (epc' = "finish" /\ current'.req = Head(todo))
      BY <2>3 DEF Close, flagVars, endVars
    <3>2. InList(todo, r) => Head(todo) = r \/ InList(todo', r)
      <4>1. PICK q \in Seq(Requests) : q = todo
        OBVIOUS
      <4>2. SP!Elems(q) = {Head(q)} \cup SP!Elems(Tail(q))
        BY <3>1, <4>1, SchedulerSetting, SP!HeadTail
      <4>3. QED
        BY <3>1, <4>1, <4>2 DEF SP!Elems, InList
    <3>3. Head(todo) = r => epc' = "finish" /\ current'.req = r
      BY <1>2, <3>1 DEF IsClosed
    <3>4. QED
      BY <2>1, <3>1, <3>2, <3>3 DEF Owed, InList
  <2>4. CASE Finish \/ FinishRaises
    <3>1. /\ finishReason' = [finishReason EXCEPT ![current.req] = current.reason]
          /\ current.reason # None /\ UNCHANGED <<todo, stopped>> /\ epc = "finish"
      BY <2>4 DEF Finish, FinishRaises, CloseRecord, EngineInv, loopVars, flagVars, endVars
    <3>2. CASE current.req = r
      BY <3>1, <3>2 DEF Owed, EngineInv, RecordTypes
    <3>3. CASE current.req # r
      BY <2>1, <3>1, <3>3 DEF Owed, InList
    <3>4. QED
      BY <3>2, <3>3
  <2>5. CASE UNCHANGED <<todo, stopped>> /\ (epc \in {"finish", "dying"} => UNCHANGED <<epc, current>>)
    BY <2>1, <2>5 DEF Owed, InList
  <2>6. \/ DrainControl \/ Die \/ Close \/ Finish \/ FinishRaises
        \/ UNCHANGED <<todo, stopped>> /\ (epc \in {"finish", "dying"} => UNCHANGED <<epc, current>>)
    BY DEF Next, EngineThread, DeadAtStart, HoldOpen, PassWindow, Clear, Wake, Planning, AfterPlan,
       AfterPlanRaises, BeginPrefill, BeginDecode, StepRefused, StepFails, EndStep, DeliverNext,
       DeliverDone, DeliverToken, EmitTerminal, Evict, Exit, vars, SubmitTests, SubmitAppend, Cancel,
       Read, PostStop, ShutdownBackend, Start, WindowPasses, state, loopVars, flagVars, endVars
  <2>7. QED
    BY <2>2, <2>3, <2>4, <2>5, <2>6
<1>3. QED
  BY <1>1, <1>2

\* README.md:46, engine.py:124-126, 280-285: when the engine thread has ended, for the
\* first time or after a restart, every request that was in line, in a cohort or in hand
\* before it was told to stop has been sent its terminal event, has been cut off at a
\* full mailbox, or was left to a callback that raised.
THEOREM NobodyIsForgotten == SafetySpec => NobodyForgotten
<1> SUFFICES ASSUME NEW r \in Requests
             PROVE  SafetySpec => [](Outstanding(r) => [](epc = "exited" => Settled(r)))
  BY DEF NobodyForgotten
<1>1. Outstanding(r) => Owed(r)
  BY DEF Outstanding, Owed
<1>2. Owed(r) /\ AnsweredInv => (epc = "exited" => Settled(r))
  <2> SUFFICES ASSUME Owed(r), AnsweredInv, epc = "exited" PROVE Settled(r)
    OBVIOUS
  <2>1. CASE finishReason[r] # None /\ finishReason[r] # "backpressure" /\ r \notin raised
    BY <2>1 DEF AnsweredInv, Answered, TerminalQueued, Settled
  <2>2. CASE finishReason[r] = None
    BY <2>2 DEF Owed, AnsweredInv, InList, Settled, Abandoned
  <2>3. QED
    BY <2>1, <2>2 DEF Settled, Abandoned
<1>3. SP!SchedInv => RowFacts /\ Listed
  BY SchedulerRows, QueuedIsListed
<1>4. TypeOK => todo \in Seq(Requests)
  BY DEF TypeOK
<1>5. EngineInv /\ DrainInv /\ RowFacts /\ CohortInv /\ Listed /\ todo \in Seq(Requests) /\ Owed(r)
        /\ [Next]_vars => Owed(r)'
  BY OwedNext
<1>6. QED
  BY <1>1, <1>2, <1>3, <1>4, <1>5, AnsweredInvariant, SchedulerKept, EngineInvariant, DrainInvariant,
     CohortInvariant, EngineTypeCorrect, PTL DEF SafetySpec
=============================================================================

-------------------------- MODULE Scheduler_proofs --------------------------
(***************************************************************************)
(* Proofs about Scheduler, for every set of requests, every mix of prompt  *)
(* lengths, budgets and exclusive rows, and every size of the row table.   *)
(***************************************************************************)
EXTENDS Scheduler, SequenceTheorems, FiniteSetTheorems, TLAPS

\* No request occurs twice in a list.
Distinct(q) == \A i, j \in 1 .. Len(q) : q[i] = q[j] => i = j

-----------------------------------------------------------------------------
\* Lists: what popleft, append and extendleft do to the requests in them.

\* A list of requests holds requests.
LEMMA ElemsInRequests ==
    ASSUME NEW q \in Seq(Requests)
    PROVE  Elems(q) \subseteq Requests
BY DEF Elems

\* popleft takes the first element and leaves the others.
LEMMA HeadTail ==
    ASSUME NEW q \in Seq(Requests), q # <<>>
    PROVE  /\ Head(q) \in Requests
           /\ Tail(q) \in Seq(Requests)
           /\ Len(Tail(q)) = Len(q) - 1
           /\ Elems(q) = {Head(q)} \cup Elems(Tail(q))
           /\ Distinct(q) => Distinct(Tail(q)) /\ Head(q) \notin Elems(Tail(q))
<1>1. Len(q) \in Nat \ {0} /\ Head(q) = q[1] /\ Head(q) \in Requests
  OBVIOUS
<1>2. Tail(q) \in Seq(Requests) /\ Len(Tail(q)) = Len(q) - 1
  OBVIOUS
<1>3. \A i \in 1 .. Len(q) - 1 : Tail(q)[i] = q[i + 1]
  OBVIOUS
<1>4. Elems(q) \subseteq {Head(q)} \cup Elems(Tail(q))
  <2> SUFFICES ASSUME NEW i \in 1 .. Len(q), i # 1
               PROVE  q[i] \in Elems(Tail(q))
    BY <1>1 DEF Elems
  <2>1. i - 1 \in 1 .. Len(Tail(q)) /\ Tail(q)[i - 1] = q[i]
    BY <1>1, <1>2, <1>3
  <2> QED  BY <2>1 DEF Elems
<1>5. {Head(q)} \cup Elems(Tail(q)) \subseteq Elems(q)
  <2>1. \A i \in 1 .. Len(Tail(q)) : i + 1 \in 1 .. Len(q) /\ Tail(q)[i] = q[i + 1]
    BY <1>1, <1>2, <1>3
  <2> QED  BY <1>1, <2>1 DEF Elems
<1>6. Distinct(q) => Distinct(Tail(q)) /\ Head(q) \notin Elems(Tail(q))
  BY <1>1, <1>2, <1>3 DEF Distinct, Elems
<1> QED  BY <1>1, <1>2, <1>4, <1>5, <1>6

\* append adds one element at the end.
LEMMA AppendOne ==
    ASSUME NEW q \in Seq(Requests), NEW r \in Requests
    PROVE  /\ Append(q, r) \in Seq(Requests)
           /\ Append(q, r) # <<>>
           /\ Len(Append(q, r)) = Len(q) + 1
           /\ Elems(Append(q, r)) = Elems(q) \cup {r}
           /\ Distinct(q) /\ r \notin Elems(q) => Distinct(Append(q, r))
<1>1. /\ Append(q, r) \in Seq(Requests) /\ Len(q) \in Nat
      /\ Len(Append(q, r)) = Len(q) + 1
      /\ \A i \in 1 .. Len(q) : Append(q, r)[i] = q[i]
      /\ Append(q, r)[Len(q) + 1] = r
  OBVIOUS
<1>2. Elems(Append(q, r)) = Elems(q) \cup {r}
  BY <1>1 DEF Elems
<1>3. Distinct(q) /\ r \notin Elems(q) => Distinct(Append(q, r))
  BY <1>1 DEF Distinct, Elems
<1>4. Append(q, r) # <<>>
  BY <1>1
<1> QED  BY <1>1, <1>2, <1>3, <1>4

\* One list in front of another.
LEMMA Concatenate ==
    ASSUME NEW p \in Seq(Requests), NEW q \in Seq(Requests)
    PROVE  /\ p \o q \in Seq(Requests)
           /\ Elems(p \o q) = Elems(p) \cup Elems(q)
           /\ Distinct(p) /\ Distinct(q) /\ Elems(p) \cap Elems(q) = {} => Distinct(p \o q)
<1>1. /\ p \o q \in Seq(Requests) /\ Len(p) \in Nat /\ Len(q) \in Nat
      /\ Len(p \o q) = Len(p) + Len(q)
      /\ \A i \in 1 .. Len(p) : (p \o q)[i] = p[i]
  OBVIOUS
<1>2. \A i \in 1 .. Len(q) : (p \o q)[Len(p) + i] = q[i]
  OBVIOUS
<1>3. \A k \in 1 .. Len(p \o q) :
        \/ k \in 1 .. Len(p) /\ (p \o q)[k] = p[k]
        \/ k - Len(p) \in 1 .. Len(q) /\ (p \o q)[k] = q[k - Len(p)]
  <2> TAKE k \in 1 .. Len(p \o q)
  <2>1. CASE k <= Len(p)
    BY <1>1, <2>1
  <2>2. CASE k > Len(p)
    <3>1. k - Len(p) \in 1 .. Len(q) /\ k = Len(p) + (k - Len(p))
      BY <1>1, <2>2
    <3> QED  BY <3>1, <1>2
  <2> QED  BY <2>1, <2>2, <1>1
<1>4. Elems(p \o q) \subseteq Elems(p) \cup Elems(q)
  BY <1>3 DEF Elems
<1>5. Elems(p) \cup Elems(q) \subseteq Elems(p \o q)
  <2>1. \A i \in 1 .. Len(p) : i \in 1 .. Len(p \o q)
    BY <1>1
  <2>2. \A i \in 1 .. Len(q) : Len(p) + i \in 1 .. Len(p \o q)
    BY <1>1
  <2> QED  BY <2>1, <2>2, <1>1, <1>2 DEF Elems
<1>6. ASSUME Distinct(p), Distinct(q), Elems(p) \cap Elems(q) = {}
      PROVE  Distinct(p \o q)
  <2> SUFFICES ASSUME NEW i \in 1 .. Len(p \o q), NEW j \in 1 .. Len(p \o q),
                      (p \o q)[i] = (p \o q)[j]
               PROVE  i = j
    BY DEF Distinct
  <2>1. \A k \in 1 .. Len(p) : p[k] \in Elems(p)
    BY DEF Elems
  <2>2. \A k \in 1 .. Len(q) : q[k] \in Elems(q)
    BY DEF Elems
  <2>3. CASE i \in 1 .. Len(p) /\ j \in 1 .. Len(p)
    BY <2>3, <1>1, <1>6 DEF Distinct
  <2>4. CASE i - Len(p) \in 1 .. Len(q) /\ j - Len(p) \in 1 .. Len(q)
    <3>1. q[i - Len(p)] = q[j - Len(p)]
      BY <2>4, <1>1, <1>2
    <3>2. i - Len(p) = j - Len(p)
      BY <3>1, <2>4, <1>6 DEF Distinct
    <3> QED  BY <3>2, <1>1
  <2>5. CASE i \in 1 .. Len(p) /\ j - Len(p) \in 1 .. Len(q)
    <3>1. (p \o q)[i] = p[i] /\ (p \o q)[Len(p) + (j - Len(p))] = q[j - Len(p)]
      BY <2>5, <1>1, <1>2
    <3>2. Len(p) + (j - Len(p)) = j
      BY <1>1
    <3>3. p[i] = q[j - Len(p)]
      BY <3>1, <3>2
    <3> QED  BY <3>3, <2>1, <2>2, <2>5, <1>6
  <2>6. CASE i - Len(p) \in 1 .. Len(q) /\ j \in 1 .. Len(p)
    <3>1. (p \o q)[j] = p[j] /\ (p \o q)[Len(p) + (i - Len(p))] = q[i - Len(p)]
      BY <2>6, <1>1, <1>2
    <3>2. Len(p) + (i - Len(p)) = i
      BY <1>1
    <3>3. p[j] = q[i - Len(p)]
      BY <3>1, <3>2
    <3> QED  BY <3>3, <2>1, <2>2, <2>6, <1>6
  <2> QED  BY <1>3, <2>3, <2>4, <2>5, <2>6
<1> QED  BY <1>1, <1>4, <1>5, <1>6

\* The empty list.
LEMMA NoElems ==
    /\ <<>> \in Seq(Requests)
    /\ Elems(<<>>) = {}
    /\ Distinct(<<>>)
    /\ Len(<<>>) = 0
BY DEF Elems, Distinct

-----------------------------------------------------------------------------
\* The inductive invariant.

\* Which lists are in use, and when the row table is empty, by pc.
Shape ==
    /\ pc \in {"idle", "release", "returned"} =>
          candidates = <<>> /\ cohort = <<>> /\ requeue = <<>>
    /\ pc = "pop" => cohort = <<>> /\ requeue = <<>>
    /\ pc = "publish" => candidates = <<>> /\ requeue = <<>>
    /\ pc \in {"pop", "scan"} => \A s \in Slots : active[s] = None

Queued == {r \in Requests : phase[r] = "queued"}

RowsDistinct ==
    \A s, t \in Slots : active[s] = active[t] /\ active[s] # None => s = t

\* The queued requests are spread over the four lists and the row table, each
\* in one place once.
Partition ==
    /\ Distinct(waiting) /\ Distinct(candidates) /\ Distinct(cohort) /\ Distinct(requeue)
    /\ RowsDistinct
    /\ Elems(waiting) \cap Elems(candidates) = {}
    /\ Elems(waiting) \cap Elems(cohort) = {}
    /\ Elems(waiting) \cap Elems(requeue) = {}
    /\ Elems(candidates) \cap Elems(cohort) = {}
    /\ Elems(candidates) \cap Elems(requeue) = {}
    /\ Elems(cohort) \cap Elems(requeue) = {}
    /\ ActiveReqs \cap (Elems(waiting) \cup Elems(candidates)
                          \cup Elems(cohort) \cup Elems(requeue)) = {}
    /\ Queued = ActiveReqs \cup Elems(waiting) \cup Elems(candidates)
                  \cup Elems(cohort) \cup Elems(requeue)

\* What submission has tested stays true: the budget never changes.
AcceptedFits == \A r \in Requests : phase[r] \in {"checked", "queued"} => Fits(r)

\* The cohort fits the rows that are left: the first k are taken, in order.
Capacity ==
    /\ pc = "scan" => Len(cohort) + Len(candidates) <= MaxRows
    /\ pc = "publish" =>
          \E k \in 0 .. MaxRows :
              /\ k + Len(cohort) <= MaxRows
              /\ \A s \in Slots : owners[s] = None <=> k <= s

\* lo and hi bound the cohort, and lie within the tolerance of each other.
Span ==
    /\ \A r \in CohortReqs : lo <= PromptLen[r] /\ PromptLen[r] <= hi
    /\ CohortReqs # {} => SpreadDen * hi <= SpreadNum * lo

\* During the scan, stop says whether the cohort holds an exclusive request.
StopMeans == pc = "scan" => (stop <=> Elems(cohort) \cap Exclusive # {})

SchedInv ==
    /\ TypeOK
    /\ Shape
    /\ RowsAgree
    /\ Partition
    /\ AcceptedFits
    /\ Capacity
    /\ Span
    /\ ExclusiveAlone
    /\ StopMeans
    /\ HeadNeverPassedOver

\* Store and scheduler mean the same rows by a slot.
LEMMA SameSlots == Store!Slots = Slots
BY DEF Slots, Store!Slots

\* The lists and rows of the initial state are empty.
LEMMA SchedInvInit == Init => SchedInv
<1> SUFFICES ASSUME Init PROVE SchedInv
  OBVIOUS
<1> USE NoElems, SchedulerAssumption
<1>1. \A s \in Slots : active[s] = None /\ owners[s] = None
  BY SameSlots DEF Init, NoRows, Store!StoreInit
<1>2. ActiveReqs = {} /\ CohortReqs = {}
  BY <1>1 DEF ActiveReqs, CohortReqs, Init
<1>3. TypeOK
  <2>1. Store!StoreTypeOK
    BY SameSlots DEF Init, Store!StoreInit, Store!StoreTypeOK
  <2>2. /\ active \in [Slots -> Requests \cup {None}]
        /\ drained \in [Slots -> Requests \cup {None}]
        /\ rowRef \in [Requests -> Store!RowRefs \cup {None}]
        /\ phase \in [Requests -> Phases]
    BY DEF Init, NoRows, Phases
  <2>3. /\ waiting = <<>> /\ candidates = <<>> /\ cohort = <<>> /\ requeue = <<>>
        /\ done = {} /\ pc = "idle" /\ plan = "none"
        /\ lo = 0 /\ hi = 0
    BY DEF Init
  <2>4. Len(candidates) <= MaxRows
    BY <2>3
  <2>5. stop \in BOOLEAN
    BY DEF Init
  <2> QED  BY <2>1, <2>2, <2>3, <2>4, <2>5 DEF TypeOK
<1>4. Partition
  BY <1>1, <1>2 DEF Init, Partition, RowsDistinct, Queued
<1>5. Shape /\ AcceptedFits /\ Capacity /\ Span /\ ExclusiveAlone /\ StopMeans
  BY <1>1, <1>2 DEF Init, Shape, AcceptedFits, Capacity, Span, ExclusiveAlone, StopMeans
<1>6. RowsAgree /\ HeadNeverPassedOver
  BY <1>1 DEF Init, RowsAgree, HeadNeverPassedOver
<1> QED  BY <1>3, <1>4, <1>5, <1>6 DEF SchedInv

\* A step that moves no request keeps every part that speaks of lists and rows.
LEMMA NothingMoves ==
    ASSUME SchedInv,
           UNCHANGED <<waiting, candidates, cohort, requeue, active, owners,
                       generations, rowRef>>,
           Queued' = Queued
    PROVE  /\ Partition' /\ RowsAgree' /\ HeadNeverPassedOver' /\ ExclusiveAlone'
           /\ ActiveReqs' = ActiveReqs /\ CohortReqs' = CohortReqs
<1>1. ActiveReqs' = ActiveReqs
  BY DEF ActiveReqs
<1>2. CohortReqs' = CohortReqs
  BY <1>1 DEF CohortReqs, Elems
<1>3. Partition'
  <2>1. /\ Elems(waiting)' = Elems(waiting) /\ Elems(candidates)' = Elems(candidates)
        /\ Elems(cohort)' = Elems(cohort) /\ Elems(requeue)' = Elems(requeue)
    BY DEF Elems
  <2>2. (/\ Distinct(waiting) /\ Distinct(candidates) /\ Distinct(cohort)
         /\ Distinct(requeue) /\ RowsDistinct)'
    BY DEF SchedInv, Partition, RowsDistinct, Distinct
  <2> QED  BY <1>1, <2>1, <2>2 DEF SchedInv, Partition
<1>4. RowsAgree'
  BY DEF SchedInv, RowsAgree, Store!RefTo
<1> QED
  BY <1>1, <1>2, <1>3, <1>4 DEF SchedInv, HeadNeverPassedOver, ExclusiveAlone

-----------------------------------------------------------------------------
\* The steps that move no request.

\* submit's tests: the request is rejected or goes on to be appended.
LEMMA SubmitTestsStep ==
    ASSUME SchedInv, NEW r \in Requests, SubmitReject(r) \/ SubmitCheck(r)
    PROVE  SchedInv'
<1>1. /\ UNCHANGED <<waiting, rowVars, scanVars, planVars, pc>>
      /\ phase[r] = "new" /\ phase \in [Requests -> Phases]
      /\ \/ phase' = [phase EXCEPT ![r] = "rejected"]
         \/ Fits(r) /\ phase' = [phase EXCEPT ![r] = "checked"]
  BY DEF SubmitReject, SubmitCheck, Acceptable, SchedInv, TypeOK
<1>2. UNCHANGED <<waiting, candidates, cohort, requeue, active, owners, generations, rowRef,
                  done, lo, hi, stop, plan, drained, pc>>
  BY <1>1 DEF rowVars, scanVars, planVars
<1>3. Queued' = Queued
  BY <1>1 DEF Queued
<1>4. phase' \in [Requests -> Phases]
  BY <1>1 DEF Phases
<1>5. TypeOK'
  BY <1>2, <1>4 DEF SchedInv, TypeOK, Store!StoreTypeOK
<1>6. AcceptedFits'
  BY <1>1 DEF SchedInv, AcceptedFits, Fits, Store!CanAdmit
<1>7. /\ Partition' /\ RowsAgree' /\ HeadNeverPassedOver' /\ ExclusiveAlone'
      /\ CohortReqs' = CohortReqs
  BY <1>2, <1>3, NothingMoves
<1>8. Shape' /\ Capacity' /\ Span' /\ StopMeans'
  BY <1>2, <1>7 DEF SchedInv, Shape, Capacity, Span, StopMeans, Elems
<1> QED  BY <1>5, <1>6, <1>7, <1>8 DEF SchedInv

\* The planner's and the caller's bookkeeping: pc, plan, drained, done, and the
\* reset of the scan's locals.
LEMMA QuietStep ==
    ASSUME SchedInv,
           \/ PlanDecode \/ DrainCohort \/ BeginAdmit \/ PopDone \/ PublishDone \/ TakePlan
           \/ (\E r \in Requests : Finish(r)) \/ UNCHANGED vars
    PROVE  SchedInv'
<1> USE DEF queueVars, rowVars, scanVars, planVars
<1>1. UNCHANGED <<waiting, phase, candidates, cohort, requeue, active, owners, generations,
                  rowRef>>
  BY DEF PlanDecode, DrainCohort, BeginAdmit, PopDone, PublishDone, TakePlan, Finish, vars
<1>2. Queued' = Queued
  BY <1>1 DEF Queued
<1>3. /\ Partition' /\ RowsAgree' /\ HeadNeverPassedOver' /\ ExclusiveAlone'
      /\ CohortReqs' = CohortReqs /\ ActiveReqs' = ActiveReqs
  BY <1>1, <1>2, NothingMoves
<1>4. AcceptedFits'
  BY <1>1 DEF SchedInv, AcceptedFits, Fits, Store!CanAdmit
<1>5. ActiveReqs = {} <=> \A s \in Slots : active[s] = None
  BY DEF ActiveReqs
<1>6. NoRows \in [Slots -> Requests \cup {None}]
  BY DEF NoRows
<1>7. ASSUME UNCHANGED <<lo, hi, stop>>,
             \/ pc' = pc
             \/ pc \in {"idle", "publish", "returned"} /\ pc' \in {"idle", "release", "returned"}
                   /\ cohort = <<>>
             \/ pc \in {"idle", "release"} /\ ActiveReqs = {} /\ pc' = "pop"
      PROVE  Shape' /\ Capacity' /\ Span' /\ StopMeans'
  BY <1>1, <1>3, <1>5, <1>7 DEF SchedInv, Shape, Capacity, Span, StopMeans, Elems
<1>8. CASE PlanDecode
  BY <1>1, <1>3, <1>4, <1>7, <1>8 DEF PlanDecode, SchedInv, TypeOK, Store!StoreTypeOK, Shape
<1>9. CASE DrainCohort
  BY <1>1, <1>3, <1>4, <1>7, <1>9 DEF DrainCohort, SchedInv, TypeOK, Store!StoreTypeOK, Shape
<1>10. CASE BeginAdmit
  BY <1>1, <1>3, <1>4, <1>7, <1>10 DEF BeginAdmit, SchedInv, TypeOK, Store!StoreTypeOK
<1>11. CASE PublishDone
  BY <1>1, <1>3, <1>4, <1>7, <1>11 DEF PublishDone, SchedInv, TypeOK, Store!StoreTypeOK
<1>12. CASE TakePlan
  BY <1>1, <1>3, <1>4, <1>6, <1>7, <1>12 DEF TakePlan, SchedInv, TypeOK, Store!StoreTypeOK, Shape
<1>13. CASE \E r \in Requests : Finish(r)
  BY <1>1, <1>3, <1>4, <1>7, <1>13 DEF Finish, SchedInv, TypeOK, Store!StoreTypeOK
<1>14. CASE UNCHANGED vars
  BY <1>1, <1>3, <1>4, <1>7, <1>14 DEF vars, SchedInv, TypeOK, Store!StoreTypeOK
<1>15. CASE PopDone
  <2>1. pc = "pop" /\ pc' = "scan" /\ lo' = 0 /\ hi' = 0 /\ stop' = FALSE
        /\ UNCHANGED <<done, plan, drained>>
    BY <1>15 DEF PopDone
  <2>2. cohort = <<>> /\ (\A s \in Slots : active[s] = None) /\ Elems(cohort) = {}
    BY <2>1, NoElems DEF SchedInv, Shape
  <2>3. CohortReqs = {}
    BY <2>2, <1>5 DEF CohortReqs
  <2>4. Shape' /\ Span'
    BY <1>1, <1>3, <2>1, <2>2, <2>3, SchedulerAssumption DEF Shape, Span
  <2>5. Capacity'
    BY <1>1, <2>1, <2>2, NoElems DEF SchedInv, TypeOK, Capacity
  <2>6. stop' \in BOOLEAN /\ StopMeans'
    BY <1>1, <2>1, <2>2 DEF StopMeans
  <2>7. TypeOK'
    BY <1>1, <2>1, <2>6 DEF SchedInv, TypeOK, Store!StoreTypeOK
  <2> QED  BY <1>3, <1>4, <2>4, <2>5, <2>6, <2>7 DEF SchedInv
<1> QED
  BY <1>8, <1>9, <1>10, <1>11, <1>12, <1>13, <1>14, <1>15

-----------------------------------------------------------------------------
\* The steps that move a request.

\* submit's append: r joins the end of the deque.
LEMMA SubmitAppendStep ==
    ASSUME SchedInv, NEW r \in Requests, SubmitAppend(r)
    PROVE  SchedInv'
<1>1. /\ UNCHANGED <<candidates, cohort, requeue, active, owners, generations, rowRef,
                     done, lo, hi, stop, plan, drained, pc>>
      /\ phase[r] = "checked" /\ phase' = [phase EXCEPT ![r] = "queued"]
      /\ waiting' = Append(waiting, r)
      /\ phase \in [Requests -> Phases] /\ waiting \in Seq(Requests)
  BY DEF SubmitAppend, rowVars, scanVars, planVars, SchedInv, TypeOK
<1>2. Queued' = Queued \cup {r} /\ r \notin Queued
  BY <1>1 DEF Queued
<1>3. /\ ActiveReqs' = ActiveReqs /\ CohortReqs' = CohortReqs
      /\ Elems(candidates)' = Elems(candidates) /\ Elems(cohort)' = Elems(cohort)
      /\ Elems(requeue)' = Elems(requeue)
  BY <1>1 DEF ActiveReqs, CohortReqs, Elems
<1>4. /\ waiting' \in Seq(Requests) /\ Elems(waiting') = Elems(waiting) \cup {r}
      /\ Distinct(waiting) /\ r \notin Elems(waiting) => Distinct(waiting')
  BY <1>1, AppendOne
<1>5. r \notin ActiveReqs \cup Elems(waiting) \cup Elems(candidates)
                 \cup Elems(cohort) \cup Elems(requeue)
  BY <1>2 DEF SchedInv, Partition
<1>6. Partition'
  <2>1. (/\ Distinct(waiting) /\ Distinct(candidates) /\ Distinct(cohort)
         /\ Distinct(requeue) /\ RowsDistinct)'
    BY <1>1, <1>4, <1>5 DEF SchedInv, Partition, RowsDistinct, Distinct
  <2> QED  BY <1>2, <1>3, <1>4, <1>5, <2>1 DEF SchedInv, Partition
<1>7. phase' \in [Requests -> Phases]
  BY <1>1 DEF Phases
<1>8. TypeOK'
  BY <1>1, <1>4, <1>7 DEF SchedInv, TypeOK, Store!StoreTypeOK
<1>9. RowsAgree' /\ HeadNeverPassedOver' /\ ExclusiveAlone'
  BY <1>1, <1>3 DEF SchedInv, RowsAgree, Store!RefTo, HeadNeverPassedOver, ExclusiveAlone
<1>10. AcceptedFits'
  BY <1>1 DEF SchedInv, AcceptedFits, Fits, Store!CanAdmit
<1>11. Shape' /\ Capacity' /\ Span' /\ StopMeans'
  BY <1>1, <1>3 DEF SchedInv, Shape, Capacity, Span, StopMeans
<1> QED  BY <1>6, <1>8, <1>9, <1>10, <1>11 DEF SchedInv

\* popleft: the head of the deque becomes the last candidate.
LEMMA PopStep ==
    ASSUME SchedInv, Pop
    PROVE  SchedInv'
<1> DEFINE h == Head(waiting)
<1>1. /\ UNCHANGED <<phase, cohort, requeue, active, owners, generations, rowRef,
                     done, lo, hi, stop, plan, drained, pc>>
      /\ pc = "pop" /\ waiting # <<>> /\ Len(candidates) < MaxRows
      /\ candidates' = Append(candidates, h) /\ waiting' = Tail(waiting)
      /\ waiting \in Seq(Requests) /\ candidates \in Seq(Requests)
  BY DEF Pop, WantsCandidate, rowVars, planVars, SchedInv, TypeOK
<1>2. /\ ActiveReqs' = ActiveReqs /\ CohortReqs' = CohortReqs /\ Queued' = Queued
      /\ Elems(cohort)' = Elems(cohort) /\ Elems(requeue)' = Elems(requeue)
  BY <1>1 DEF ActiveReqs, CohortReqs, Elems, Queued
<1>3. /\ h \in Requests /\ waiting' \in Seq(Requests)
      /\ Elems(waiting) = {h} \cup Elems(waiting')
      /\ Distinct(waiting) => Distinct(waiting') /\ h \notin Elems(waiting')
  BY <1>1, HeadTail
<1>4. /\ candidates' \in Seq(Requests) /\ Len(candidates') = Len(candidates) + 1
      /\ Elems(candidates') = Elems(candidates) \cup {h}
      /\ Distinct(candidates) /\ h \notin Elems(candidates) => Distinct(candidates')
  BY <1>1, <1>3, AppendOne
<1>5. Partition'
  <2>1. (/\ Distinct(waiting) /\ Distinct(candidates) /\ Distinct(cohort)
         /\ Distinct(requeue) /\ RowsDistinct)'
    BY <1>1, <1>3, <1>4 DEF SchedInv, Partition, RowsDistinct, Distinct
  <2> QED  BY <1>2, <1>3, <1>4, <2>1 DEF SchedInv, Partition
<1>6. Len(candidates') <= MaxRows
  BY <1>1, <1>4, SchedulerAssumption
<1>7. TypeOK'
  BY <1>1, <1>3, <1>4, <1>6 DEF SchedInv, TypeOK, Store!StoreTypeOK
<1>8. RowsAgree' /\ HeadNeverPassedOver' /\ ExclusiveAlone' /\ AcceptedFits'
  BY <1>1, <1>2 DEF SchedInv, RowsAgree, Store!RefTo, HeadNeverPassedOver, ExclusiveAlone,
                    AcceptedFits, Fits, Store!CanAdmit
<1>9. Shape' /\ Capacity' /\ Span' /\ StopMeans'
  BY <1>1, <1>2 DEF SchedInv, Shape, Capacity, Span, StopMeans
<1> QED  BY <1>5, <1>7, <1>8, <1>9 DEF SchedInv

\* A candidate is passed over: only behind an admitted request.
LEMMA ScanRequeueStep ==
    ASSUME SchedInv, ScanRequeue
    PROVE  SchedInv'
<1> DEFINE h == Head(candidates)
<1>1. /\ UNCHANGED <<waiting, phase, cohort, active, owners, generations, rowRef,
                     done, lo, hi, stop, plan, drained, pc>>
      /\ pc = "scan" /\ candidates # <<>> /\ ~Joins(h)
      /\ requeue' = Append(requeue, h) /\ candidates' = Tail(candidates)
      /\ requeue \in Seq(Requests) /\ candidates \in Seq(Requests)
  BY DEF ScanRequeue, queueVars, rowVars, planVars, SchedInv, TypeOK
<1>2. /\ ActiveReqs' = ActiveReqs /\ CohortReqs' = CohortReqs /\ Queued' = Queued
      /\ Elems(cohort)' = Elems(cohort) /\ Elems(waiting)' = Elems(waiting)
  BY <1>1 DEF ActiveReqs, CohortReqs, Elems, Queued
<1>3. /\ h \in Requests /\ candidates' \in Seq(Requests)
      /\ Elems(candidates) = {h} \cup Elems(candidates')
      /\ Len(candidates') = Len(candidates) - 1
      /\ Distinct(candidates) => Distinct(candidates') /\ h \notin Elems(candidates')
  BY <1>1, HeadTail
<1>4. /\ requeue' \in Seq(Requests)
      /\ Elems(requeue') = Elems(requeue) \cup {h}
      /\ Distinct(requeue) /\ h \notin Elems(requeue) => Distinct(requeue')
  BY <1>1, <1>3, AppendOne
<1>5. Partition'
  <2>1. (/\ Distinct(waiting) /\ Distinct(candidates) /\ Distinct(cohort)
         /\ Distinct(requeue) /\ RowsDistinct)'
    BY <1>1, <1>3, <1>4 DEF SchedInv, Partition, RowsDistinct, Distinct
  <2> QED  BY <1>2, <1>3, <1>4, <2>1 DEF SchedInv, Partition
<1>6. Len(candidates') \in Nat /\ Len(candidates') <= MaxRows
  BY <1>1, <1>3, SchedulerAssumption DEF SchedInv, TypeOK
<1>7. TypeOK'
  BY <1>1, <1>3, <1>4, <1>6 DEF SchedInv, TypeOK, Store!StoreTypeOK
<1>8. HeadNeverPassedOver'
  <2> SUFFICES ASSUME cohort = <<>> PROVE FALSE
    BY <1>1 DEF HeadNeverPassedOver
  <2>1. Elems(cohort) = {} /\ ~stop
    BY <1>1, NoElems DEF SchedInv, StopMeans
  <2>2. phase[h] = "queued"
    BY <1>3 DEF SchedInv, Partition, Queued
  <2>3. Fits(h)
    BY <1>3, <2>2 DEF SchedInv, AcceptedFits
  <2> QED  BY <1>1, <2>1, <2>3 DEF Joins, Dissimilar
<1>9. RowsAgree' /\ ExclusiveAlone' /\ AcceptedFits'
  BY <1>1, <1>2 DEF SchedInv, RowsAgree, Store!RefTo, ExclusiveAlone,
                    AcceptedFits, Fits, Store!CanAdmit
<1>10. Capacity'
  <2>1. Len(cohort) \in Nat /\ Len(candidates) \in Nat /\ MaxRows \in Nat
        /\ Len(cohort) + Len(candidates) <= MaxRows
    BY <1>1, SchedulerAssumption DEF SchedInv, TypeOK, Capacity
  <2>2. Len(cohort) + Len(candidates') <= MaxRows
    BY <1>3, <2>1
  <2> QED  BY <1>1, <2>2 DEF Capacity
<1>11. Shape' /\ Span' /\ StopMeans'
  BY <1>1, <1>2 DEF SchedInv, Shape, Span, StopMeans
<1> QED  BY <1>5, <1>7, <1>8, <1>9, <1>10, <1>11 DEF SchedInv

\* extendleft: the requests passed over return to the front of the deque.
LEMMA ScanDoneStep ==
    ASSUME SchedInv, ScanDone
    PROVE  SchedInv'
<1>1. /\ UNCHANGED <<phase, candidates, cohort, active, owners, generations, rowRef,
                     done, lo, hi, stop, drained>>
      /\ pc = "scan" /\ candidates = <<>>
      /\ waiting' = requeue \o waiting /\ requeue' = <<>>
      /\ \/ cohort = <<>> /\ pc' = "returned" /\ plan' = "none"
         \/ cohort # <<>> /\ pc' = "publish" /\ plan' = plan
      /\ requeue \in Seq(Requests) /\ waiting \in Seq(Requests)
  BY DEF ScanDone, Requeued, rowVars, SchedInv, TypeOK
<1>2. /\ ActiveReqs' = ActiveReqs /\ CohortReqs' = CohortReqs /\ Queued' = Queued
      /\ Elems(cohort)' = Elems(cohort) /\ Elems(candidates)' = Elems(candidates)
  BY <1>1 DEF ActiveReqs, CohortReqs, Elems, Queued
<1>3. /\ waiting' \in Seq(Requests) /\ Elems(waiting') = Elems(requeue) \cup Elems(waiting)
      /\ Distinct(waiting')
  BY <1>1, Concatenate DEF SchedInv, Partition
<1>4. requeue' \in Seq(Requests) /\ Elems(requeue') = {} /\ Distinct(requeue')
  BY <1>1, NoElems
<1>5. Partition'
  <2>1. (/\ Distinct(waiting) /\ Distinct(candidates) /\ Distinct(cohort)
         /\ Distinct(requeue) /\ RowsDistinct)'
    BY <1>1, <1>3, <1>4 DEF SchedInv, Partition, RowsDistinct, Distinct
  <2> QED  BY <1>2, <1>3, <1>4, <2>1 DEF SchedInv, Partition
<1>6. TypeOK'
  BY <1>1, <1>3, <1>4 DEF SchedInv, TypeOK, Store!StoreTypeOK
<1>7. RowsAgree' /\ ExclusiveAlone' /\ AcceptedFits' /\ HeadNeverPassedOver'
  BY <1>1, <1>2 DEF SchedInv, RowsAgree, Store!RefTo, ExclusiveAlone, HeadNeverPassedOver,
                    AcceptedFits, Fits, Store!CanAdmit
<1>8. Shape' /\ Span' /\ StopMeans'
  BY <1>1, <1>2 DEF SchedInv, Shape, Span, StopMeans
<1>9. Capacity'
  <2>1. Len(cohort) \in Nat /\ Len(cohort) <= MaxRows
    BY <1>1, NoElems DEF SchedInv, TypeOK, Capacity
  <2>2. \A s \in Slots : owners[s] = None /\ 0 <= s
    BY <1>1 DEF SchedInv, Shape, RowsAgree, Slots
  <2>3. 0 \in 0 .. MaxRows
    BY SchedulerAssumption
  <2> QED  BY <1>1, <2>1, <2>2, <2>3 DEF Capacity
<1> QED  BY <1>5, <1>6, <1>7, <1>8, <1>9 DEF SchedInv

\* A candidate joins the cohort: the span widens within the tolerance, and an
\* exclusive request finds the cohort empty.
LEMMA ScanAcceptStep ==
    ASSUME SchedInv, ScanAccept
    PROVE  SchedInv'
<1> DEFINE h == Head(candidates)
           len == PromptLen[h]
<1>1. /\ UNCHANGED <<waiting, phase, requeue, active, owners, generations, rowRef,
                     done, plan, drained, pc>>
      /\ pc = "scan" /\ candidates # <<>> /\ Joins(h)
      /\ cohort' = Append(cohort, h) /\ candidates' = Tail(candidates)
      /\ lo' = (IF cohort = <<>> THEN len ELSE MinOf(lo, len))
      /\ hi' = (IF cohort = <<>> THEN len ELSE MaxOf(hi, len))
      /\ cohort \in Seq(Requests) /\ candidates \in Seq(Requests)
  BY DEF ScanAccept, queueVars, rowVars, planVars, SchedInv, TypeOK
<1>2. stop' = (stop \/ h \in Exclusive)
  BY DEF ScanAccept
<1>3. /\ ActiveReqs' = {} /\ ActiveReqs = {} /\ Queued' = Queued
      /\ Elems(requeue)' = Elems(requeue) /\ Elems(waiting)' = Elems(waiting)
  BY <1>1 DEF ActiveReqs, Elems, Queued, SchedInv, Shape
<1>4. /\ h \in Requests /\ candidates' \in Seq(Requests)
      /\ Elems(candidates) = {h} \cup Elems(candidates')
      /\ Len(candidates') = Len(candidates) - 1
      /\ Distinct(candidates) => Distinct(candidates') /\ h \notin Elems(candidates')
  BY <1>1, HeadTail
<1>5. /\ cohort' \in Seq(Requests) /\ cohort' # <<>>
      /\ Len(cohort') = Len(cohort) + 1
      /\ Elems(cohort') = Elems(cohort) \cup {h}
      /\ Distinct(cohort) /\ h \notin Elems(cohort) => Distinct(cohort')
  BY <1>1, <1>4, AppendOne
<1>6. CohortReqs = Elems(cohort) /\ CohortReqs' = Elems(cohort) \cup {h}
  BY <1>3, <1>5 DEF CohortReqs, Elems
<1>7. Partition'
  <2>1. (/\ Distinct(waiting) /\ Distinct(candidates) /\ Distinct(cohort)
         /\ Distinct(requeue) /\ RowsDistinct)'
    BY <1>1, <1>4, <1>5 DEF SchedInv, Partition, RowsDistinct, Distinct
  <2> QED  BY <1>3, <1>4, <1>5, <2>1 DEF SchedInv, Partition
<1>8. len \in Nat /\ lo \in Nat /\ hi \in Nat
  BY <1>4, SchedulerAssumption DEF SchedInv, TypeOK
<1>9. lo' \in Nat /\ hi' \in Nat
  BY <1>1, <1>8 DEF MinOf, MaxOf
<1>10. stop' \in BOOLEAN
  BY <1>2
<1>11. Len(candidates') <= MaxRows /\ Len(cohort') + Len(candidates') <= MaxRows
  <2>1. Len(cohort) \in Nat /\ Len(candidates) \in Nat /\ MaxRows \in Nat
    BY SchedulerAssumption DEF SchedInv, TypeOK
  <2>2. Len(cohort) + Len(candidates) <= MaxRows
    BY <1>1 DEF SchedInv, Capacity
  <2> QED  BY <2>1, <2>2, <1>4, <1>5
<1>12. TypeOK'
  BY <1>1, <1>4, <1>5, <1>9, <1>10, <1>11 DEF SchedInv, TypeOK, Store!StoreTypeOK
<1>13. Capacity'
  BY <1>1, <1>11 DEF Capacity
<1>14. Span'
  <2>1. \A r \in Elems(cohort) : PromptLen[r] \in Nat
    BY <1>1, ElemsInRequests, SchedulerAssumption
  <2>2. CASE cohort = <<>>
    <3>1. Elems(cohort) = {} /\ lo' = len /\ hi' = len
      BY <1>1, <2>2, NoElems
    <3>2. SpreadDen * len <= SpreadNum * len
      BY <1>8, SchedulerAssumption
    <3> QED  BY <1>6, <1>8, <3>1, <3>2 DEF Span
  <2>3. CASE cohort # <<>>
    <3>1. lo' = MinOf(lo, len) /\ hi' = MaxOf(hi, len)
      BY <1>1, <2>3
    <3>2. SpreadDen * hi' <= SpreadNum * lo'
      <4>1. ~(SpreadDen * hi' > SpreadNum * lo')
        BY <1>1, <2>3, <3>1 DEF Joins, Dissimilar
      <4>2. SpreadDen * hi' \in Int /\ SpreadNum * lo' \in Int
        BY <1>9, SchedulerAssumption
      <4> QED  BY <4>1, <4>2
    <3>3. \A r \in Elems(cohort) : lo <= PromptLen[r] /\ PromptLen[r] <= hi
      BY <1>6 DEF SchedInv, Span
    <3>4. \A r \in Elems(cohort) \cup {h} : lo' <= PromptLen[r] /\ PromptLen[r] <= hi'
      BY <1>8, <2>1, <3>1, <3>3 DEF MinOf, MaxOf
    <3> QED  BY <1>6, <3>2, <3>4 DEF Span
  <2> QED  BY <2>2, <2>3
<1>15. ~stop /\ Elems(cohort) \cap Exclusive = {}
  BY <1>1 DEF Joins, SchedInv, StopMeans
<1>16. ExclusiveAlone'
  <2>1. h \in Exclusive => Elems(cohort) = {}
    BY <1>1, NoElems DEF Joins
  <2> QED  BY <1>6, <1>15, <2>1 DEF ExclusiveAlone
<1>17. StopMeans'
  BY <1>2, <1>5, <1>15 DEF StopMeans
<1>18. Shape' /\ HeadNeverPassedOver' /\ RowsAgree' /\ AcceptedFits'
  BY <1>1, <1>5 DEF SchedInv, Shape, HeadNeverPassedOver, RowsAgree, Store!RefTo,
                    AcceptedFits, Fits, Store!CanAdmit
<1> QED  BY <1>7, <1>12, <1>13, <1>14, <1>16, <1>17, <1>18 DEF SchedInv

\* alloc and publication of one admitted request, in the lowest free row.
LEMMA PublishStep ==
    ASSUME SchedInv, Publish
    PROVE  SchedInv'
<1> DEFINE h == Head(cohort)
<1>1. PICK s \in Slots :
        /\ Store!FirstFree(s)
        /\ owners' = [owners EXCEPT ![s] = h]
        /\ active' = [active EXCEPT ![s] = h]
        /\ rowRef' = [rowRef EXCEPT ![h] = Store!RefTo(s)]
        /\ generations' = generations
  BY DEF Publish, Store!Alloc
<1>2. /\ UNCHANGED <<waiting, phase, candidates, requeue, done, lo, hi, stop, plan, drained,
                     pc>>
      /\ pc = "publish" /\ cohort # <<>> /\ cohort' = Tail(cohort)
      /\ cohort \in Seq(Requests)
      /\ active \in [Slots -> Requests \cup {None}]
      /\ owners \in [Slots -> Requests \cup {None}]
      /\ generations \in [Slots -> Nat]
      /\ rowRef \in [Requests -> Store!RowRefs \cup {None}]
  BY SameSlots DEF Publish, queueVars, planVars, SchedInv, TypeOK, Store!StoreTypeOK
<1>3. /\ h \in Requests /\ cohort' \in Seq(Requests)
      /\ Elems(cohort) = {h} \cup Elems(cohort')
      /\ Len(cohort') = Len(cohort) - 1
      /\ Distinct(cohort) => Distinct(cohort') /\ h \notin Elems(cohort')
  BY <1>2, HeadTail
<1>4. owners[s] = None /\ active[s] = None /\ h # None /\ h \notin ActiveReqs
  BY <1>1, <1>2, <1>3, SchedulerAssumption
     DEF Store!FirstFree, Store!IsFree, SchedInv, RowsAgree, Partition
<1>5. \A t \in Slots : active'[t] = (IF t = s THEN h ELSE active[t])
                       /\ owners'[t] = (IF t = s THEN h ELSE owners[t])
  BY <1>1, <1>2
<1>6. ActiveReqs' = ActiveReqs \cup {h}
  BY <1>4, <1>5 DEF ActiveReqs
<1>7. CohortReqs' = CohortReqs
  BY <1>3, <1>6 DEF CohortReqs, Elems
<1>8. /\ Queued' = Queued /\ Elems(waiting)' = Elems(waiting)
      /\ Elems(candidates)' = Elems(candidates) /\ Elems(requeue)' = Elems(requeue)
  BY <1>2 DEF Queued, Elems
<1>9. RowsDistinct'
  <2>1. \A t \in Slots : active[t] # h
    BY <1>4 DEF ActiveReqs
  <2> QED  BY <1>4, <1>5, <2>1 DEF SchedInv, Partition, RowsDistinct
<1>10. Partition'
  <2>1. (/\ Distinct(waiting) /\ Distinct(candidates) /\ Distinct(cohort)
         /\ Distinct(requeue))'
    BY <1>2, <1>3 DEF SchedInv, Partition, Distinct
  <2> QED  BY <1>3, <1>4, <1>6, <1>8, <1>9, <2>1 DEF SchedInv, Partition
<1>11. Store!RefTo(s) \in Store!RowRefs
  BY <1>1, <1>2, SameSlots DEF Store!RefTo, Store!RowRefs
<1>12. TypeOK'
  <2>1. owners' \in [Slots -> Requests \cup {None}]
        /\ active' \in [Slots -> Requests \cup {None}]
        /\ rowRef' \in [Requests -> Store!RowRefs \cup {None}]
    BY <1>1, <1>2, <1>3, <1>11
  <2>2. Store!StoreTypeOK'
    BY <1>1, <1>2, <2>1, SameSlots DEF Store!StoreTypeOK
  <2>3. stop' \in BOOLEAN
    BY <1>2 DEF SchedInv, TypeOK
  <2> QED  BY <1>2, <1>3, <2>1, <2>2, <2>3 DEF SchedInv, TypeOK
<1>13. RowsAgree'
  <2> SUFFICES ASSUME NEW t \in Slots
               PROVE  /\ owners'[t] = active'[t]
                      /\ active'[t] # None => rowRef'[active'[t]] = Store!RefTo(t)
    BY <1>1 DEF RowsAgree, Store!RefTo
  <2>1. CASE t = s
    BY <1>1, <1>2, <1>3, <1>5, <2>1
  <2>2. CASE t # s
    <3>1. active[t] # h
      BY <1>4 DEF ActiveReqs
    <3>2. active[t] \in Requests \cup {None} /\ owners[t] = active[t]
          /\ (active[t] # None => rowRef[active[t]] = Store!RefTo(t))
      BY <1>2 DEF SchedInv, RowsAgree
    <3> QED  BY <1>1, <1>2, <1>5, <2>2, <3>1, <3>2
  <2> QED  BY <2>1, <2>2
<1>14. Capacity'
  <2>1. PICK k \in 0 .. MaxRows :
            /\ k + Len(cohort) <= MaxRows
            /\ \A t \in Slots : owners[t] = None <=> k <= t
    BY <1>2 DEF SchedInv, Capacity
  <2>2. Len(cohort) \in Nat \ {0} /\ Len(cohort') = Len(cohort) - 1 /\ MaxRows \in Nat
    BY <1>2, <1>3, SchedulerAssumption
  <2>3. k \in Slots
    BY <2>1, <2>2 DEF Slots
  <2>4. s = k
    <3>1. k <= s
      BY <1>4, <2>1
    <3>2. s <= k
      BY <1>1, <2>1, <2>3, SameSlots DEF Store!FirstFree, Store!IsFree, Slots
    <3> QED  BY <3>1, <3>2, <2>1 DEF Slots
  <2>5. k + 1 \in 0 .. MaxRows /\ (k + 1) + Len(cohort') <= MaxRows
    BY <2>1, <2>2
  <2>6. \A t \in Slots : owners'[t] = None <=> k + 1 <= t
    BY <1>4, <1>5, <2>1, <2>4 DEF Slots
  <2> QED  BY <1>2, <2>5, <2>6 DEF Capacity
<1>15. Shape' /\ Span' /\ StopMeans' /\ ExclusiveAlone' /\ HeadNeverPassedOver' /\ AcceptedFits'
  BY <1>2, <1>7 DEF SchedInv, Shape, Span, StopMeans, ExclusiveAlone, HeadNeverPassedOver,
                    AcceptedFits, Fits, Store!CanAdmit
<1> QED  BY <1>10, <1>12, <1>13, <1>14, <1>15 DEF SchedInv

\* One finished row goes back to the store.
LEMMA ReleaseRowStep ==
    ASSUME SchedInv, NEW s \in Slots, ReleaseRow(s)
    PROVE  SchedInv'
<1> DEFINE r == active[s]
<1>1. /\ UNCHANGED <<waiting, rowRef, candidates, cohort, requeue, lo, hi, stop, plan, drained,
                     pc>>
      /\ pc = "release" /\ r # None
      /\ StoreRelease(s)
      /\ active' = [active EXCEPT ![s] = None]
      /\ done' = done \ {r}
      /\ phase' = [phase EXCEPT ![r] = "released"]
      /\ active \in [Slots -> Requests \cup {None}]
      /\ owners \in [Slots -> Requests \cup {None}]
      /\ generations \in [Slots -> Nat]
      /\ phase \in [Requests -> Phases]
      /\ candidates = <<>> /\ cohort = <<>> /\ requeue = <<>>
  BY SameSlots DEF ReleaseRow, scanVars, planVars, SchedInv, TypeOK, Store!StoreTypeOK, Shape
<1>2. r \in Requests
  BY <1>1
<1>3. owners[s] = r /\ rowRef[r] = [slot |-> s, generation |-> generations[s]]
  BY <1>1 DEF SchedInv, RowsAgree, Store!RefTo
<1>4. /\ owners' = [owners EXCEPT ![s] = None]
      /\ generations' = [generations EXCEPT ![s] = @ + 1]
  BY <1>1, <1>3 DEF StoreRelease, Store!Release, Store!Holds, Store!FreeRow
<1>5. \A t \in Slots : active'[t] = (IF t = s THEN None ELSE active[t])
                       /\ owners'[t] = (IF t = s THEN None ELSE owners[t])
                       /\ (t # s => generations'[t] = generations[t])
  BY <1>1, <1>4
<1>6. \A t \in Slots : t # s => active[t] # r
  BY <1>1 DEF SchedInv, Partition, RowsDistinct
<1>7. ActiveReqs' = ActiveReqs \ {r}
  BY <1>5, <1>6 DEF ActiveReqs
<1>8. r \in ActiveReqs
  BY <1>1 DEF ActiveReqs
<1>9. /\ Elems(waiting)' = Elems(waiting) /\ Elems(candidates)' = Elems(candidates)
      /\ Elems(cohort)' = Elems(cohort) /\ Elems(requeue)' = Elems(requeue)
  BY <1>1 DEF Elems
<1>10. Queued' = Queued \ {r}
  BY <1>1, <1>2 DEF Queued
<1>11. CohortReqs' \subseteq CohortReqs
  BY <1>7, <1>9 DEF CohortReqs
<1>12. RowsDistinct'
  BY <1>5 DEF SchedInv, Partition, RowsDistinct
<1>13. Partition'
  <2>1. (/\ Distinct(waiting) /\ Distinct(candidates) /\ Distinct(cohort)
         /\ Distinct(requeue))'
    BY <1>1 DEF SchedInv, Partition, Distinct
  <2> QED  BY <1>7, <1>8, <1>9, <1>10, <1>12, <2>1 DEF SchedInv, Partition
<1>14. TypeOK'
  <2>1. owners' \in [Slots -> Requests \cup {None}]
        /\ active' \in [Slots -> Requests \cup {None}]
        /\ generations' \in [Slots -> Nat]
        /\ phase' \in [Requests -> Phases]
    BY <1>1, <1>4 DEF Phases
  <2>2. Store!StoreTypeOK'
    BY <2>1, SameSlots DEF Store!StoreTypeOK
  <2>3. stop' \in BOOLEAN /\ done' \subseteq Requests
    BY <1>1 DEF SchedInv, TypeOK
  <2> QED  BY <1>1, <2>1, <2>2, <2>3 DEF SchedInv, TypeOK
<1>15. RowsAgree'
  <2> SUFFICES ASSUME NEW t \in Slots, t # s
               PROVE  /\ owners'[t] = active'[t]
                      /\ active'[t] # None => rowRef'[active'[t]] =
                           [slot |-> t, generation |-> generations'[t]]
    BY <1>5 DEF RowsAgree, Store!RefTo
  <2> QED  BY <1>1, <1>5 DEF SchedInv, RowsAgree, Store!RefTo
<1>16. AcceptedFits'
  BY <1>1, <1>2 DEF SchedInv, AcceptedFits, Fits, Store!CanAdmit
<1>17. Span' /\ ExclusiveAlone'
  BY <1>1, <1>11 DEF SchedInv, Span, ExclusiveAlone
<1>18. Shape' /\ Capacity' /\ StopMeans' /\ HeadNeverPassedOver'
  BY <1>1 DEF SchedInv, Shape, Capacity, StopMeans, HeadNeverPassedOver
<1> QED  BY <1>13, <1>14, <1>15, <1>16, <1>17, <1>18 DEF SchedInv

-----------------------------------------------------------------------------
\* The theorems.

\* The invariant holds in every reachable state.
LEMMA SchedInvariant == SafetySpec => []SchedInv
<1>1. SchedInv /\ [Next]_vars => SchedInv'
  <2> SUFFICES ASSUME SchedInv, [Next]_vars PROVE SchedInv'
    OBVIOUS
  <2>1. ASSUME NEW r \in Requests, Submit(r) PROVE SchedInv'
    BY <2>1, SubmitTestsStep, SubmitAppendStep DEF Submit
  <2>2. ASSUME NEW r \in Requests, Finish(r) PROVE SchedInv'
    BY <2>2, QuietStep
  <2>3. CASE NextPlan
    BY <2>3, QuietStep, ReleaseRowStep, PopStep, ScanAcceptStep, ScanRequeueStep,
       ScanDoneStep, PublishStep DEF NextPlan
  <2>4. CASE TakePlan
    BY <2>4, QuietStep
  <2>5. CASE UNCHANGED vars
    BY <2>5, QuietStep
  <2> QED  BY <2>1, <2>2, <2>3, <2>4, <2>5 DEF Next
<1> QED  BY <1>1, SchedInvInit, PTL DEF SafetySpec

\* The variables keep their types.
THEOREM SchedulerTypeCorrect == SafetySpec => []TypeOK
<1>1. SchedInv => TypeOK
  BY DEF SchedInv
<1> QED  BY <1>1, SchedInvariant, PTL

\* next_plan's rows and the state store never disagree, and no row leaks.
THEOREM RowsAlwaysAgree == SafetySpec => []RowsAgree
<1>1. SchedInv => RowsAgree
  BY DEF SchedInv
<1> QED  BY <1>1, SchedInvariant, PTL

\* An exclusive request shares its cohort with nobody.
THEOREM ExclusiveRunsAlone == SafetySpec => []ExclusiveAlone
<1>1. SchedInv => ExclusiveAlone
  BY DEF SchedInv
<1> QED  BY <1>1, SchedInvariant, PTL

\* A request is passed over only behind an admitted one.
THEOREM HeadAlwaysJoins == SafetySpec => []HeadNeverPassedOver
<1>1. SchedInv => HeadNeverPassedOver
  BY DEF SchedInv
<1> QED  BY <1>1, SchedInvariant, PTL

\* The span bounds every pair of the cohort: one comparison per candidate is
\* enough for the pairwise tolerance.
THEOREM CohortsAreSimilar == SafetySpec => []CohortSimilar
<1>1. SchedInv => CohortSimilar
  <2> SUFFICES ASSUME SchedInv, NEW r \in CohortReqs, NEW q \in CohortReqs
               PROVE  SpreadDen * PromptLen[r] <= SpreadNum * PromptLen[q]
    BY DEF CohortSimilar
  <2>1. CohortReqs \subseteq Requests
    BY ElemsInRequests DEF CohortReqs, ActiveReqs, SchedInv, TypeOK
  <2> DEFINE x == PromptLen[r]
             y == PromptLen[q]
  <2>2. x \in Nat /\ y \in Nat /\ lo \in Nat /\ hi \in Nat
        /\ SpreadNum \in Nat /\ SpreadDen \in Nat
    BY <2>1, SchedulerAssumption DEF SchedInv, TypeOK
  <2>3. x <= hi /\ lo <= y /\ SpreadDen * hi <= SpreadNum * lo
    BY DEF SchedInv, Span
  <2>4. SpreadDen * x <= SpreadDen * hi
    BY <2>2, <2>3
  <2>5. SpreadNum * lo <= SpreadNum * y
    BY <2>2, <2>3
  <2>6. /\ SpreadDen * x \in Int /\ SpreadDen * hi \in Int
        /\ SpreadNum * lo \in Int /\ SpreadNum * y \in Int
    BY <2>2
  <2> HIDE DEF x, y
  <2>7. SpreadDen * x <= SpreadNum * y
    BY <2>3, <2>4, <2>5, <2>6
  <2> QED  BY <2>7 DEF x, y
<1> QED  BY <1>1, SchedInvariant, PTL

\* alloc never raises in the middle of a publication.
THEOREM AllocAlwaysSucceeds == SafetySpec => []AllocNeverFails
<1>1. SchedInv => AllocNeverFails
  <2> SUFFICES ASSUME SchedInv, pc = "publish", cohort # <<>>
               PROVE  \E s \in Slots : owners[s] = None
    BY DEF AllocNeverFails
  <2>1. PICK k \in 0 .. MaxRows :
            /\ k + Len(cohort) <= MaxRows
            /\ \A t \in Slots : owners[t] = None <=> k <= t
    BY DEF SchedInv, Capacity
  <2>2. Len(cohort) \in Nat \ {0} /\ MaxRows \in Nat
    BY SchedulerAssumption DEF SchedInv, TypeOK
  <2>3. k \in Slots /\ k <= k
    BY <2>1, <2>2 DEF Slots
  <2> QED  BY <2>1, <2>3
<1> QED  BY <1>1, SchedInvariant, PTL

\* No admission loses or duplicates a request.
THEOREM NoRequestIsLost == SafetySpec => []NoRequestLost
<1>1. SchedInv => NoRequestLost
  <2> SUFFICES ASSUME SchedInv PROVE NoRequestLost
    OBVIOUS
  <2>1. /\ waiting \in Seq(Requests) /\ candidates \in Seq(Requests)
        /\ cohort \in Seq(Requests) /\ requeue \in Seq(Requests)
    BY DEF SchedInv, TypeOK
  <2> DEFINE front == requeue \o candidates
             line  == front \o waiting
             all   == line \o cohort
  <2>2. /\ front \in Seq(Requests) /\ Distinct(front)
        /\ Elems(front) = Elems(requeue) \cup Elems(candidates)
    BY <2>1, Concatenate DEF SchedInv, Partition
  <2>3. /\ line \in Seq(Requests) /\ Distinct(line)
        /\ Elems(line) = Elems(front) \cup Elems(waiting)
    <3> HIDE DEF front
    <3>1. Elems(front) \cap Elems(waiting) = {} /\ Distinct(waiting)
      BY <2>2 DEF SchedInv, Partition
    <3> QED  BY <2>1, <2>2, <3>1, Concatenate
  <2>4. /\ all \in Seq(Requests) /\ Distinct(all)
        /\ Elems(all) = Elems(line) \cup Elems(cohort)
    <3> HIDE DEF front, line
    <3>1. Elems(line) \cap Elems(cohort) = {} /\ Distinct(cohort)
      BY <2>2, <2>3 DEF SchedInv, Partition
    <3> QED  BY <2>1, <2>3, <3>1, Concatenate
  <2>5. all = Line \o cohort
    BY DEF Line
  <2> HIDE DEF front, line, all
  <2>6. Elems(all) \cap ActiveReqs = {} /\ Elems(all) \cup ActiveReqs = Queued
    BY <2>2, <2>3, <2>4 DEF SchedInv, Partition
  <2>7. RowsDistinct
    BY DEF SchedInv, Partition
  <2> QED  BY <2>4, <2>5, <2>6, <2>7 DEF NoRequestLost, Distinct, RowsDistinct, Queued
<1> QED  BY <1>1, SchedInvariant, PTL

-----------------------------------------------------------------------------
\* The order of the line.

\* The line position by position: requeued, candidates, waiting.
LEMMA LinePositions ==
    ASSUME NEW a \in Seq(Requests), NEW b \in Seq(Requests), NEW c \in Seq(Requests)
    PROVE  /\ a \o b \o c \in Seq(Requests)
           /\ Len(a \o b \o c) = Len(a) + Len(b) + Len(c)
           /\ \A i \in 1 .. Len(a) + Len(b) + Len(c) :
                (a \o b \o c)[i] = IF i <= Len(a) THEN a[i]
                                   ELSE IF i <= Len(a) + Len(b) THEN b[i - Len(a)]
                                   ELSE c[i - (Len(a) + Len(b))]
<1> DEFINE ab == a \o b
<1>1. /\ Len(a) \in Nat /\ Len(b) \in Nat /\ Len(c) \in Nat
      /\ ab \in Seq(Requests) /\ Len(ab) = Len(a) + Len(b)
      /\ \A i \in 1 .. Len(a) + Len(b) : ab[i] = IF i <= Len(a) THEN a[i] ELSE b[i - Len(a)]
  BY ConcatProperties
<1> HIDE DEF ab
<1>2. /\ ab \o c \in Seq(Requests) /\ Len(ab \o c) = Len(ab) + Len(c)
      /\ \A i \in 1 .. Len(ab) + Len(c) : (ab \o c)[i] = IF i <= Len(ab) THEN ab[i]
                                                        ELSE c[i - Len(ab)]
  <2>1. \A p, q \in Seq(Requests) :
          /\ p \o q \in Seq(Requests) /\ Len(p \o q) = Len(p) + Len(q)
          /\ \A i \in 1 .. Len(p) + Len(q) : (p \o q)[i] = IF i <= Len(p) THEN p[i]
                                                          ELSE q[i - Len(p)]
    BY ConcatProperties
  <2> QED  BY <1>1, <2>1
<1>3. \A i \in 1 .. Len(a) + Len(b) + Len(c) :
        (ab \o c)[i] = IF i <= Len(a) THEN a[i]
                       ELSE IF i <= Len(a) + Len(b) THEN b[i - Len(a)]
                       ELSE c[i - (Len(a) + Len(b))]
  BY <1>1, <1>2
<1> QED  BY <1>1, <1>2, <1>3 DEF ab

\* Nobody stands in line twice.
LEMMA LineDistinct ==
    ASSUME SchedInv
    PROVE  Line \in Seq(Requests) /\ Distinct(Line) /\ Elems(Line) \subseteq Queued
<1>1. /\ waiting \in Seq(Requests) /\ candidates \in Seq(Requests) /\ requeue \in Seq(Requests)
  BY DEF SchedInv, TypeOK
<1> DEFINE front == requeue \o candidates
<1>2. /\ front \in Seq(Requests) /\ Distinct(front)
      /\ Elems(front) = Elems(requeue) \cup Elems(candidates)
  BY <1>1, Concatenate DEF SchedInv, Partition
<1> HIDE DEF front
<1>3. Elems(front) \cap Elems(waiting) = {} /\ Distinct(waiting)
  BY <1>2 DEF SchedInv, Partition
<1>4. /\ front \o waiting \in Seq(Requests) /\ Distinct(front \o waiting)
      /\ Elems(front \o waiting) = Elems(front) \cup Elems(waiting)
  BY <1>1, <1>2, <1>3, Concatenate
<1>5. Elems(front \o waiting) \subseteq Queued
  BY <1>2, <1>4 DEF SchedInv, Partition
<1> QED  BY <1>4, <1>5 DEF front, Line

\* What a step may do to the line: leave it, add one at its end, or take one
\* out at some position m.
LineStep ==
    \/ Line' = Line
    \/ \E r \in Requests \ Elems(Line) : Line' = Append(Line, r)
    \/ \E m \in 1 .. Len(Line) :
          /\ Len(Line') = Len(Line) - 1
          /\ \A k \in 1 .. Len(Line) - 1 : Line'[k] = IF k < m THEN Line[k] ELSE Line[k + 1]

\* A submission goes to the end of the line.
LEMMA AppendsToLine ==
    ASSUME SchedInv, NEW r \in Requests, SubmitAppend(r)
    PROVE  Line' = Append(Line, r) /\ r \notin Elems(Line)
<1>1. /\ waiting \in Seq(Requests) /\ candidates \in Seq(Requests) /\ requeue \in Seq(Requests)
  BY DEF SchedInv, TypeOK
<1>2. /\ waiting' = Append(waiting, r) /\ UNCHANGED <<requeue, candidates>>
      /\ phase[r] = "checked"
  BY DEF SubmitAppend, scanVars
<1> DEFINE front == requeue \o candidates
<1>3. front \in Seq(Requests)
  BY <1>1
<1> HIDE DEF front
<1>4. front \o Append(waiting, r) = Append(front \o waiting, r)
  <2>1. \A q \in Seq(Requests) : Append(q, r) = q \o <<r>> /\ <<r>> \in Seq(Requests)
    OBVIOUS
  <2> QED  BY <1>1, <1>3, <2>1, ConcatAssociative, ConcatProperties
<1>5. Line' = Append(Line, r)
  BY <1>2, <1>4 DEF Line, front
<1> QED  BY <1>2, <1>5, LineDistinct DEF Queued

\* Popping, requeueing and the end of the scan leave the line as it was.
LEMMA SameLine ==
    ASSUME SchedInv, Pop \/ ScanRequeue \/ ScanDone
    PROVE  Line' = Line
<1>1. /\ waiting \in Seq(Requests) /\ candidates \in Seq(Requests) /\ requeue \in Seq(Requests)
  BY DEF SchedInv, TypeOK
<1>2. \A p, q \in Seq(Requests) :
        q # <<>> => /\ Append(p, Head(q)) \in Seq(Requests) /\ Tail(q) \in Seq(Requests)
                    /\ Append(p, Head(q)) \o Tail(q) = p \o q
  <2> TAKE p, q \in Seq(Requests)
  <2> HAVE q # <<>>
  <2>1. /\ Head(q) \in Requests /\ Tail(q) \in Seq(Requests) /\ q = <<Head(q)>> \o Tail(q)
        /\ <<Head(q)>> \in Seq(Requests) /\ Append(p, Head(q)) = p \o <<Head(q)>>
        /\ Append(p, Head(q)) \in Seq(Requests)
    OBVIOUS
  <2> QED  BY <2>1, ConcatAssociative
<1>3. CASE Pop
  <2>1. /\ waiting # <<>> /\ candidates' = Append(candidates, Head(waiting))
        /\ waiting' = Tail(waiting) /\ requeue' = requeue
    BY <1>3 DEF Pop, WantsCandidate
  <2>2. requeue \o candidates' \o waiting' = requeue \o (candidates' \o waiting')
    <3>1. candidates' \in Seq(Requests) /\ waiting' \in Seq(Requests)
      BY <1>1, <1>2, <2>1
    <3> QED  BY <1>1, <3>1, ConcatAssociative
  <2>3. requeue \o (candidates \o waiting) = requeue \o candidates \o waiting
    BY <1>1, ConcatAssociative
  <2> QED  BY <1>1, <1>2, <2>1, <2>2, <2>3 DEF Line
<1>4. CASE ScanRequeue
  <2>1. /\ candidates # <<>> /\ requeue' = Append(requeue, Head(candidates))
        /\ candidates' = Tail(candidates) /\ waiting' = waiting
    BY <1>4 DEF ScanRequeue, queueVars
  <2> QED  BY <1>1, <1>2, <2>1 DEF Line
<1>5. CASE ScanDone
  <2>1. /\ candidates = <<>> /\ candidates' = <<>> /\ requeue' = <<>> /\ waiting' = requeue \o waiting
    BY <1>5 DEF ScanDone, Requeued
  <2>2. requeue \o <<>> = requeue /\ <<>> \o <<>> = <<>> /\ requeue \o waiting \in Seq(Requests)
    BY <1>1
  <2>3. <<>> \o (requeue \o waiting) = requeue \o waiting
    BY <2>2, ConcatEmptySeq
  <2> QED  BY <2>1, <2>2, <2>3 DEF Line
<1> QED  BY <1>3, <1>4, <1>5

\* A candidate that joins leaves the line where it stood.
LEMMA JoiningLeaves ==
    ASSUME SchedInv, ScanAccept
    PROVE  LineStep
<1>1. /\ waiting \in Seq(Requests) /\ candidates \in Seq(Requests) /\ requeue \in Seq(Requests)
  BY DEF SchedInv, TypeOK
<1>2. /\ candidates # <<>> /\ candidates' = Tail(candidates)
      /\ UNCHANGED <<waiting, requeue>>
  BY DEF ScanAccept, queueVars
<1>3. /\ Tail(candidates) \in Seq(Requests) /\ Len(Tail(candidates)) = Len(candidates) - 1
      /\ Len(candidates) \in Nat \ {0} /\ Len(requeue) \in Nat /\ Len(waiting) \in Nat
      /\ \A i \in 1 .. Len(candidates) - 1 : Tail(candidates)[i] = candidates[i + 1]
  BY <1>1, <1>2
<1> DEFINE m == Len(requeue) + 1
<1>4. m \in 1 .. Len(Line) /\ Len(Line') = Len(Line) - 1
  BY <1>1, <1>2, <1>3, LinePositions DEF Line
<1>5. ASSUME NEW k \in 1 .. Len(Line) - 1
      PROVE  Line'[k] = IF k < m THEN Line[k] ELSE Line[k + 1]
  <2>1. /\ Len(Line) = Len(requeue) + Len(candidates) + Len(waiting)
        /\ \A i \in 1 .. Len(Line) :
             Line[i] = IF i <= Len(requeue) THEN requeue[i]
                       ELSE IF i <= Len(requeue) + Len(candidates) THEN candidates[i - Len(requeue)]
                       ELSE waiting[i - (Len(requeue) + Len(candidates))]
    BY <1>1, LinePositions DEF Line
  <2>2. \A i \in 1 .. Len(Line) - 1 :
             Line'[i] = IF i <= Len(requeue) THEN requeue[i]
                        ELSE IF i <= Len(requeue) + Len(candidates) - 1
                        THEN Tail(candidates)[i - Len(requeue)]
                        ELSE waiting[i - (Len(requeue) + Len(candidates) - 1)]
    <3>1. Line' = requeue \o Tail(candidates) \o waiting
      BY <1>2 DEF Line
    <3> QED  BY <1>1, <1>3, <2>1, <3>1, LinePositions
  <2>3. CASE k <= Len(requeue)
    BY <1>3, <1>5, <2>1, <2>2, <2>3
  <2>4. CASE k > Len(requeue) /\ k <= Len(requeue) + Len(candidates) - 1
    <3>1. /\ Line'[k] = Tail(candidates)[k - Len(requeue)]
          /\ Line[k + 1] = candidates[(k + 1) - Len(requeue)]
      BY <1>3, <1>5, <2>1, <2>2, <2>4
    <3>2. k - Len(requeue) \in 1 .. Len(candidates) - 1
          /\ (k + 1) - Len(requeue) = (k - Len(requeue)) + 1
      BY <1>3, <1>5, <2>4
    <3> QED  BY <1>3, <2>4, <3>1, <3>2
  <2>5. CASE k > Len(requeue) + Len(candidates) - 1
    <3>1. /\ Line'[k] = waiting[k - (Len(requeue) + Len(candidates) - 1)]
          /\ Line[k + 1] = waiting[(k + 1) - (Len(requeue) + Len(candidates))]
      BY <1>3, <1>5, <2>1, <2>2, <2>5
    <3>2. (k + 1) - (Len(requeue) + Len(candidates)) = k - (Len(requeue) + Len(candidates) - 1)
      BY <1>3, <1>5
    <3> QED  BY <1>3, <2>5, <3>1, <3>2
  <2> QED  BY <1>3, <1>5, <2>3, <2>4, <2>5
<1> QED  BY <1>4, <1>5 DEF LineStep

\* Two requests in line never change places, through popping, requeueing and
\* concurrent appends: the admission preserves the order of submission.
THEOREM OrderIsKept == SafetySpec => QueueOrder
<1> DEFINE Kept == \A i, j \in 1 .. Len(Line) : i < j =>
                     ~ \E k, l \in 1 .. Len(Line') :
                          l < k /\ Line'[k] = Line[i] /\ Line'[l] = Line[j]
<1>1. SchedInv /\ [Next]_vars => LineStep
  <2> SUFFICES ASSUME SchedInv, [Next]_vars PROVE LineStep
    OBVIOUS
  <2>1. ASSUME UNCHANGED <<waiting, candidates, requeue>> PROVE LineStep
    BY <2>1 DEF LineStep, Line
  <2>2. ASSUME NEW r \in Requests, SubmitAppend(r) PROVE LineStep
    BY <2>2, AppendsToLine DEF LineStep
  <2>3. CASE Pop \/ ScanRequeue \/ ScanDone
    BY <2>3, SameLine DEF LineStep
  <2>4. CASE ScanAccept
    BY <2>4, JoiningLeaves
  <2>5. CASE \/ \E r \in Requests : SubmitReject(r) \/ SubmitCheck(r) \/ Finish(r)
             \/ PlanDecode \/ DrainCohort \/ (\E s \in Slots : ReleaseRow(s))
             \/ BeginAdmit \/ PopDone \/ Publish \/ PublishDone \/ TakePlan \/ UNCHANGED vars
    BY <2>1, <2>5 DEF SubmitReject, SubmitCheck, Finish, PlanDecode, DrainCohort, ReleaseRow,
       BeginAdmit, PopDone, Publish, PublishDone, TakePlan, vars, queueVars, scanVars
  <2> QED  BY <2>2, <2>3, <2>4, <2>5 DEF Next, Submit, NextPlan
<1>2. ASSUME SchedInv, LineStep PROVE Kept
  <2> SUFFICES ASSUME NEW i \in 1 .. Len(Line), NEW j \in 1 .. Len(Line), i < j,
                      NEW k \in 1 .. Len(Line'), NEW l \in 1 .. Len(Line'),
                      Line'[k] = Line[i], Line'[l] = Line[j]
               PROVE  k < l
    OBVIOUS
  <2>1. /\ Line \in Seq(Requests) /\ Len(Line) \in Nat
        /\ \A a, b \in 1 .. Len(Line) : Line[a] = Line[b] => a = b
    BY <1>2, LineDistinct DEF Distinct
  <2>2. CASE Line' = Line
    <3>1. k = i /\ l = j
      BY <2>1, <2>2
    <3> QED  BY <3>1
  <2>3. ASSUME NEW r \in Requests \ Elems(Line), Line' = Append(Line, r) PROVE k < l
    <3>1. /\ Len(Line') = Len(Line) + 1 /\ Line'[Len(Line) + 1] = r
          /\ \A a \in 1 .. Len(Line) : Line'[a] = Line[a] /\ Line[a] # r
      BY <2>1, <2>3 DEF Elems
    <3>2. k \in 1 .. Len(Line) /\ l \in 1 .. Len(Line)
      BY <2>1, <3>1
    <3>3. k = i /\ l = j
      BY <2>1, <3>1, <3>2
    <3> QED  BY <3>3
  <2>4. ASSUME NEW m \in 1 .. Len(Line), Len(Line') = Len(Line) - 1,
               \A a \in 1 .. Len(Line) - 1 : Line'[a] = IF a < m THEN Line[a] ELSE Line[a + 1]
        PROVE  k < l
    <3>1. i = IF k < m THEN k ELSE k + 1
      BY <2>1, <2>4
    <3>2. j = IF l < m THEN l ELSE l + 1
      BY <2>1, <2>4
    <3> QED  BY <2>1, <2>4, <3>1, <3>2
  <2> QED  BY <1>2, <2>2, <2>3, <2>4 DEF LineStep
<1>3. SchedInv /\ [Next]_vars => [Kept]_vars
  BY <1>1, <1>2
<1>4. SafetySpec => [][Kept]_vars
  BY <1>3, SchedInvariant, PTL DEF SafetySpec
<1> QED  BY <1>4 DEF QueueOrder

-----------------------------------------------------------------------------
\* The length of the queue.

\* The requests taken off the queue that may still come back, with those that
\* joined the cohort since.
Popped == Len(candidates) + Len(requeue) + (IF pc = "scan" THEN Len(cohort) ELSE 0)

\* What the queue could grow to without another test.
Pressure == Len(waiting) + Popped + Cardinality(Submitting)

\* With never more than k threads between test and append; one less while
\* nothing is popped, because a scan that requeues has admitted its first.
QueueInv(k) ==
    /\ IsFiniteSet(Submitting)
    /\ Popped <= MaxRows
    /\ Pressure <= MaxPending + MaxRows + k - 1
    /\ Popped = 0 => Pressure <= MaxPending + MaxRows + k - 2

\* The lengths are numbers.
LEMMA QueueLengths ==
  ASSUME SchedInv, IsFiniteSet(Submitting)
  PROVE  /\ Len(waiting) \in Nat /\ Len(candidates) \in Nat /\ Len(requeue) \in Nat
         /\ Len(cohort) \in Nat /\ Cardinality(Submitting) \in Nat /\ MaxRows \in Nat \ {0}
         /\ Popped \in Nat
<1>1. /\ Len(waiting) \in Nat /\ Len(candidates) \in Nat /\ Len(requeue) \in Nat
      /\ Len(cohort) \in Nat
  BY DEF SchedInv, TypeOK
<1>2. Cardinality(Submitting) \in Nat
  BY FS_CardinalityType
<1>3. \A a, b, c \in Nat : a + b + c \in Nat
  OBVIOUS
<1>4. Popped \in Nat
  <2>1. CASE pc = "scan"
    BY <1>1, <1>3, <2>1 DEF Popped
  <2>2. CASE pc # "scan"
    BY <1>1, <1>3, <2>2 DEF Popped
  <2>3. QED
    BY <2>1, <2>2
<1>5. MaxRows \in Nat \ {0}
  BY SchedulerAssumption
<1>6. QED
  BY <1>1, <1>2, <1>4, <1>5

\* A step that keeps each request where it was, in line, popped or before its append.
LEMMA QueueInvFrame ==
  ASSUME NEW k \in Nat, SchedInv, QueueInv(k), Submitting' = Submitting,
         Pressure' = Pressure, Popped' = Popped
  PROVE  QueueInv(k)'
BY DEF QueueInv

LEMMA QueueInvSubmit ==
  ASSUME NEW k \in Nat, SchedInv, QueueInv(k), Cardinality(Submitting') <= k,
         NEW r \in Requests, Submit(r)
  PROVE  QueueInv(k)'
<1>1. /\ UNCHANGED <<candidates, requeue, cohort, pc>> /\ phase \in [Requests -> Phases]
      /\ Popped' = Popped
  BY DEF Submit, SubmitReject, SubmitCheck, SubmitAppend, scanVars, SchedInv, TypeOK, Popped
<1>2. CASE SubmitReject(r)
  <2>1. Submitting' = Submitting /\ UNCHANGED waiting
    BY <1>1, <1>2 DEF SubmitReject, Submitting
  <2>2. QED
    BY <1>1, <2>1, QueueInvFrame DEF Pressure
<1>3. CASE SubmitCheck(r)
  <2>1. /\ Submitting' = Submitting \cup {r} /\ UNCHANGED waiting
        /\ Len(waiting) < MaxPending
    BY <1>1, <1>3 DEF SubmitCheck, Submitting, Acceptable
  <2>2. IsFiniteSet(Submitting')
    BY <2>1, FS_AddElement DEF QueueInv
  <2>3. Cardinality(Submitting') \in Nat
    BY <2>2, FS_CardinalityType
  <2>4. Pressure' = Len(waiting) + Popped + Cardinality(Submitting')
    BY <1>1, <2>1 DEF Pressure
  <2>5. Pressure' <= MaxPending - 1 + Popped + k
    <3>1. /\ Len(waiting) \in Nat /\ Popped \in Nat /\ MaxPending \in Nat
          /\ Cardinality(Submitting') \in Nat /\ Cardinality(Submitting') <= k
      BY <2>3, QueueLengths, SchedulerAssumption DEF QueueInv
    <3>2. QED
      BY <2>1, <2>4, <3>1
  <2>6. Pressure' \in Nat
    BY <2>3, <2>4, QueueLengths DEF QueueInv
  <2>7. QED
    BY <1>1, <2>2, <2>5, <2>6, QueueLengths, SchedulerAssumption DEF QueueInv
<1>4. CASE SubmitAppend(r)
  <2>1. /\ Submitting' = Submitting \ {r} /\ r \in Submitting /\ waiting' = Append(waiting, r)
    BY <1>1, <1>4 DEF SubmitAppend, Submitting
  <2>2. IsFiniteSet(Submitting') /\ Cardinality(Submitting') = Cardinality(Submitting) - 1
    BY <2>1, FS_RemoveElement DEF QueueInv
  <2>3. Len(waiting') = Len(waiting) + 1
    BY <2>1 DEF SchedInv, TypeOK
  <2>4. Pressure' = Pressure
    BY <1>1, <2>2, <2>3, QueueLengths DEF Pressure, QueueInv
  <2>5. QED
    BY <1>1, <2>2, <2>4 DEF QueueInv
<1>5. QED
  BY <1>2, <1>3, <1>4 DEF Submit

\* The loop pops; the scan sorts what was popped; the rest goes back.
LEMMA QueueInvScan ==
  ASSUME NEW k \in Nat, SchedInv, QueueInv(k),
         Pop \/ PopDone \/ ScanAccept \/ ScanRequeue \/ ScanDone
  PROVE  QueueInv(k)'
<1>0. /\ waiting \in Seq(Requests) /\ candidates \in Seq(Requests) /\ requeue \in Seq(Requests)
      /\ cohort \in Seq(Requests) /\ IsFiniteSet(Submitting)
  BY DEF SchedInv, TypeOK, QueueInv
<1>1. Submitting' = Submitting
  BY DEF Pop, PopDone, ScanAccept, ScanRequeue, ScanDone, queueVars, Submitting
<1>2. CASE Pop
  <2>1. /\ pc = "pop" /\ UNCHANGED <<pc, cohort, requeue>> /\ requeue = <<>>
        /\ waiting # <<>> /\ Len(candidates) < MaxRows
        /\ candidates' = Append(candidates, Head(waiting)) /\ waiting' = Tail(waiting)
    BY <1>2 DEF Pop, WantsCandidate, SchedInv, Shape
  <2>2. Len(candidates') = Len(candidates) + 1 /\ Len(waiting') = Len(waiting) - 1
    BY <1>0, <2>1
  <2>3. Popped' = Popped + 1 /\ Pressure' = Pressure /\ Popped' <= MaxRows
    BY <1>0, <1>1, <2>1, <2>2, QueueLengths DEF Popped, Pressure
  <2>4. QED
    BY <1>0, <1>1, <2>3, QueueLengths DEF QueueInv
<1>3. CASE PopDone
  <2>1. /\ pc = "pop" /\ UNCHANGED <<waiting, candidates, cohort, requeue>> /\ Len(cohort) = 0
    BY <1>3 DEF PopDone, queueVars, SchedInv, Shape
  <2>2. Popped' = Popped
    BY <2>1, QueueLengths, <1>0 DEF Popped
  <2>3. QED
    BY <1>1, <2>1, <2>2, QueueInvFrame DEF Pressure
<1>4. CASE ScanAccept \/ ScanRequeue
  <2>1. /\ pc = "scan" /\ UNCHANGED <<pc, waiting>> /\ candidates # <<>>
        /\ candidates' = Tail(candidates)
        /\ \/ cohort' = Append(cohort, Head(candidates)) /\ UNCHANGED requeue
           \/ requeue' = Append(requeue, Head(candidates)) /\ UNCHANGED cohort
    BY <1>4 DEF ScanAccept, ScanRequeue, queueVars
  <2>2. /\ Len(candidates') = Len(candidates) - 1
        /\ \/ Len(cohort') = Len(cohort) + 1 /\ Len(requeue') = Len(requeue)
           \/ Len(requeue') = Len(requeue) + 1 /\ Len(cohort') = Len(cohort)
    BY <1>0, <2>1
  <2>3. /\ Popped = Len(candidates) + Len(requeue) + Len(cohort)
        /\ Popped' = Len(candidates') + Len(requeue') + Len(cohort')
    BY <2>1 DEF Popped
  <2>4. Len(candidates) \in Nat /\ Len(requeue) \in Nat /\ Len(cohort) \in Nat
    BY <1>0
  <2>5. Popped' = Popped
    BY <2>2, <2>3, <2>4
  <2>6. QED
    BY <1>1, <2>1, <2>5, QueueInvFrame DEF Pressure
<1>5. CASE ScanDone
  <2>1. /\ pc = "scan" /\ pc' # "scan" /\ candidates = <<>> /\ UNCHANGED <<candidates, cohort>>
        /\ waiting' = requeue \o waiting /\ requeue' = <<>>
    BY <1>5 DEF ScanDone, Requeued
  <2>2. Len(waiting') = Len(requeue) + Len(waiting) /\ Len(candidates) = 0 /\ Len(requeue') = 0
    BY <1>0, <2>1, ConcatProperties
  <2>3. Popped' = 0 /\ Popped = Len(requeue) + Len(cohort) /\ Pressure' = Pressure - Len(cohort)
    BY <1>0, <1>1, <2>1, <2>2, QueueLengths DEF Popped, Pressure
  <2>4. Len(cohort) = 0 => Popped = 0
    <3>1. Len(cohort) = 0 => cohort = <<>>
      BY <1>0
    <3>2. cohort = <<>> => requeue = <<>>
      BY DEF SchedInv, HeadNeverPassedOver
    <3>3. QED
      BY <2>3, <3>1, <3>2
  <2>5. Pressure \in Nat /\ Len(cohort) \in Nat /\ MaxPending \in Nat /\ MaxRows \in Nat
    BY <1>0, QueueLengths, SchedulerAssumption DEF Pressure
  <2>6. QED
    BY <1>0, <1>1, <2>3, <2>4, <2>5 DEF QueueInv
<1>6. QED
  BY <1>2, <1>3, <1>4, <1>5

LEMMA QueueInvNext ==
  ASSUME NEW k \in Nat
  PROVE  SchedInv /\ QueueInv(k) /\ Cardinality(Submitting') <= k /\ [Next]_vars => QueueInv(k)'
<1> SUFFICES ASSUME SchedInv, QueueInv(k), Cardinality(Submitting') <= k, [Next]_vars
             PROVE  QueueInv(k)'
  OBVIOUS
<1>1. ASSUME UNCHANGED <<waiting, candidates, requeue>>, Submitting' = Submitting,
             pc' # "scan" /\ pc # "scan"
      PROVE  QueueInv(k)'
  <2>1. Popped' = Popped /\ Pressure' = Pressure
    BY <1>1 DEF Popped, Pressure
  <2>2. QED
    BY <1>1, <2>1, QueueInvFrame
<1>2. CASE UNCHANGED vars
  <2>1. Popped' = Popped /\ Pressure' = Pressure /\ Submitting' = Submitting
    BY <1>2 DEF Popped, Pressure, Submitting, vars, queueVars, scanVars
  <2>2. QED
    BY <2>1, QueueInvFrame
<1>3. CASE \E s \in Slots : ReleaseRow(s)
  <2>1. PICK s \in Slots : ReleaseRow(s)
    BY <1>3
  <2>2. /\ UNCHANGED <<waiting, candidates, requeue, pc>> /\ pc = "release"
        /\ active[s] # None /\ phase' = [phase EXCEPT ![active[s]] = "released"]
    BY <2>1 DEF ReleaseRow, scanVars
  <2>3. active[s] \in Queued
    BY <2>2 DEF SchedInv, Partition, ActiveReqs
  <2>4. Submitting' = Submitting
    BY <2>2, <2>3 DEF Queued, Submitting, SchedInv, TypeOK
  <2>5. QED
    BY <1>1, <2>2, <2>4
<1>4. CASE \/ PlanDecode \/ DrainCohort \/ BeginAdmit \/ Publish \/ PublishDone \/ TakePlan
           \/ \E r \in Requests : Finish(r)
  <2>1. /\ UNCHANGED <<waiting, phase, candidates, requeue>> /\ pc # "scan" /\ pc' # "scan"
    BY <1>4 DEF PlanDecode, DrainCohort, BeginAdmit, Publish, PublishDone, TakePlan, Finish,
       queueVars, scanVars
  <2>2. QED
    BY <1>1, <2>1 DEF Submitting
<1>5. QED
  BY <1>2, <1>3, <1>4, QueueInvSubmit, QueueInvScan DEF Next, NextPlan

\* engine.py:92-102, scheduler.py:82-84, 116-117: the limit on pending requests is not
\* exact, but the overshoot is bounded: with never more than k submissions between test
\* and append, the queue holds at most max_pending_requests + max_active_sequences + k - 2.
THEOREM QueueStaysBounded == SafetySpec => QueueBounded
<1> SUFFICES ASSUME NEW k \in 1 .. Cardinality(Requests)
             PROVE  SafetySpec => ([](Cardinality(Submitting) <= k)
                                     => [](Len(waiting) <= MaxPending + MaxRows + k - 2))
  BY DEF QueueBounded
<1>0. k \in Nat \ {0}
  OBVIOUS
<1>1. Init => QueueInv(k)
  <2> SUFFICES ASSUME Init PROVE QueueInv(k)
    OBVIOUS
  <2>1. Submitting = {} /\ Len(waiting) = 0 /\ Popped = 0
    BY NoElems DEF Init, Submitting, Popped
  <2>2. IsFiniteSet(Submitting) /\ Cardinality(Submitting) = 0
    BY <2>1, FS_EmptySet
  <2>3. QED
    BY <1>0, <2>1, <2>2, SchedulerAssumption DEF QueueInv, Pressure
<1>2. SchedInv /\ QueueInv(k) => Len(waiting) <= MaxPending + MaxRows + k - 2
  BY <1>0, QueueLengths, SchedulerAssumption DEF QueueInv, Pressure
<1>3. SchedInv /\ QueueInv(k) /\ (Cardinality(Submitting) <= k)' /\ [Next]_vars => QueueInv(k)'
  BY <1>0, QueueInvNext
<1>4. QED
  BY <1>1, <1>2, <1>3, SchedInvariant, PTL DEF SafetySpec
=============================================================================

------------------------------ MODULE Scheduler ------------------------------
(***************************************************************************)
(* scheduler/scheduler.py with the submission side of engine/engine.py:    *)
(* static cohorts drawn from a shared wait queue.                          *)
(*                                                                         *)
(* Every API thread runs `submit` (check, then append); the engine thread  *)
(* runs `next_plan`, one step per deque operation, candidate and row, so   *)
(* submissions interleave with an admission at each of them.  Between two  *)
(* calls the caller may finish active requests (`done`); it takes a plan   *)
(* and the drained rows with TakePlan.                                     *)
(*                                                                         *)
(* Abstracted: token ids, sampling parameters and `meta` (only the prompt  *)
(* length, the budget and `exclusive` steer the scheduler).  The plan's    *)
(* rows are the rows of `active`, in slot order.                           *)
(***************************************************************************)
EXTENDS Integers, Sequences, FiniteSets

CONSTANTS
    Requests,            \* every request a client may submit
    None,                \* Python's None
    PromptLen,           \* request -> len(prompt_tokens)
    MaxNewTokens,        \* request -> params.max_new_tokens
    Exclusive,           \* requests with exclusive=True
    MaxRows,             \* config.max_active_sequences, and the rows of the store
    MaxContextTokens,    \* config.max_context_tokens
    MaxPending,          \* config.max_pending_requests
    SpreadNum, SpreadDen \* 1 + config.cohort_bucket_tolerance, as a fraction

ASSUME SchedulerAssumption ==
    /\ None \notin Requests
    /\ PromptLen \in [Requests -> Nat]
    /\ MaxNewTokens \in [Requests -> Nat]
    /\ Exclusive \subseteq Requests
    /\ MaxRows \in Nat \ {0}
    /\ MaxContextTokens \in Nat
    /\ MaxPending \in Nat
    /\ SpreadDen \in Nat \ {0}
    /\ SpreadNum \in Nat
    /\ SpreadNum >= SpreadDen

VARIABLES
    waiting,       \* the shared deque of submitted requests
    active,        \* slot -> request, or None
    owners,        \* the state store
    generations,
    rowRef,        \* request -> req.row_ref, None before admission
    done,          \* the active requests that carry a finish reason
    phase,         \* request -> how far its submission and life got
    pc,            \* where the engine thread is in next_plan
    candidates,    \* locals of _admit, as lists
    cohort,
    requeue,
    lo, hi,        \* prompt-length span of the cohort
    stop,          \* an exclusive row was admitted
    plan,          \* op of the last plan: "none", "prefill", "decode"
    drained        \* scheduler.drained: slot -> request, or None

Store == INSTANCE StateStore WITH ReqIds <- Requests, NoOwner <- None

queueVars == <<waiting, phase>>
rowVars   == <<active, owners, generations, rowRef, done>>
scanVars  == <<candidates, cohort, requeue, lo, hi, stop>>
planVars  == <<plan, drained>>
vars      == <<queueVars, rowVars, scanVars, planVars, pc>>

Slots == 0 .. MaxRows - 1
NoRows == [s \in Slots |-> None]
ActiveReqs == {active[s] : s \in Slots} \ {None}
Elems(q) == {q[i] : i \in 1 .. Len(q)}

MaxOf(a, b) == IF a >= b THEN a ELSE b
MinOf(a, b) == IF a <= b THEN a ELSE b

Phases == {"new", "checked", "queued", "rejected", "released"}

TypeOK ==
    /\ Store!StoreTypeOK
    /\ waiting \in Seq(Requests)
    /\ candidates \in Seq(Requests) /\ Len(candidates) <= MaxRows
    /\ cohort \in Seq(Requests)
    /\ requeue \in Seq(Requests)
    /\ active \in [Slots -> Requests \cup {None}]
    /\ drained \in [Slots -> Requests \cup {None}]
    /\ rowRef \in [Requests -> Store!RowRefs \cup {None}]
    /\ done \subseteq Requests
    /\ phase \in [Requests -> Phases]
    /\ pc \in {"idle", "release", "pop", "scan", "publish", "returned"}
    /\ plan \in {"none", "prefill", "decode"}
    /\ lo \in Nat /\ hi \in Nat /\ stop \in BOOLEAN

Init ==
    /\ Store!StoreInit
    /\ waiting = <<>> /\ phase = [r \in Requests |-> "new"]
    /\ active = NoRows /\ rowRef = [r \in Requests |-> None] /\ done = {}
    /\ pc = "idle"
    /\ candidates = <<>> /\ cohort = <<>> /\ requeue = <<>>
    /\ lo = 0 /\ hi = 0 /\ stop = FALSE
    /\ plan = "none" /\ drained = NoRows

-----------------------------------------------------------------------------
\* LLMEngine.submit, on the thread of r's client.

\* Mutated form: the context budget is not checked at submission.
AcceptableAnyLength(r) == Len(waiting) < MaxPending

Fits(r) == Store!CanAdmit(PromptLen[r], MaxNewTokens[r])

\* Mutated form: the queue's length is not tested.
AcceptableAnyQueue(r) == Fits(r)

Acceptable(r) == Len(waiting) < MaxPending /\ Fits(r)

\* OverloadedError or ValueError.
SubmitReject(r) ==
    /\ phase[r] = "new" /\ ~Acceptable(r)
    /\ phase' = [phase EXCEPT ![r] = "rejected"]
    /\ UNCHANGED <<waiting, rowVars, scanVars, planVars, pc>>

\* The tests pass; the append comes later, with no lock held in between.
SubmitCheck(r) ==
    /\ phase[r] = "new" /\ Acceptable(r)
    /\ phase' = [phase EXCEPT ![r] = "checked"]
    /\ UNCHANGED <<waiting, rowVars, scanVars, planVars, pc>>

SubmitAppend(r) ==
    /\ phase[r] = "checked"
    /\ phase' = [phase EXCEPT ![r] = "queued"]
    /\ waiting' = Append(waiting, r)
    /\ UNCHANGED <<rowVars, scanVars, planVars, pc>>

Submit(r) == SubmitReject(r) \/ SubmitCheck(r) \/ SubmitAppend(r)

-----------------------------------------------------------------------------
\* next_plan, on the engine thread.

\* An active row is unfinished: the fixed cohort decodes on.
PlanDecode ==
    /\ pc = "idle" /\ ~(ActiveReqs \subseteq done)
    /\ plan' = "decode" /\ pc' = "returned"
    /\ UNCHANGED <<queueVars, rowVars, scanVars, drained>>

\* The cohort drained: hand its rows over and release them.
DrainCohort ==
    /\ pc = "idle" /\ ActiveReqs # {} /\ ActiveReqs \subseteq done
    /\ drained' = active
    /\ pc' = "release"
    /\ UNCHANGED <<queueVars, rowVars, scanVars, plan>>

\* Mutated form: the rows leave `active` and stay owned in the store.
ReleaseNothing(s) == UNCHANGED <<owners, generations>>

StoreRelease(s) ==
    Store!Release([slot |-> s, generation |-> rowRef[active[s]].generation], active[s])

ReleaseRow(s) ==
    /\ pc = "release" /\ active[s] # None
    /\ StoreRelease(s)
    /\ active' = [active EXCEPT ![s] = None]
    /\ done' = done \ {active[s]}
    /\ phase' = [phase EXCEPT ![active[s]] = "released"]
    /\ UNCHANGED <<waiting, rowRef, scanVars, planVars, pc>>

BeginAdmit ==
    /\ \/ pc = "idle" /\ ActiveReqs = {}
       \/ pc = "release" /\ ActiveReqs = {}
    /\ pc' = "pop"
    /\ UNCHANGED <<queueVars, rowVars, scanVars, planVars>>

\* Mutated form: one candidate more than the cohort may have.
WantsCandidateTooMany == waiting # <<>> /\ Len(candidates) <= MaxRows

WantsCandidate == waiting # <<>> /\ Len(candidates) < MaxRows

Pop ==
    /\ pc = "pop" /\ WantsCandidate
    /\ candidates' = Append(candidates, Head(waiting))
    /\ waiting' = Tail(waiting)
    /\ UNCHANGED <<phase, rowVars, cohort, requeue, lo, hi, stop, planVars, pc>>

\* Also the early return on an empty queue: nothing to scan, no plan.
PopDone ==
    /\ pc = "pop" /\ ~WantsCandidate
    /\ lo' = 0 /\ hi' = 0 /\ stop' = FALSE
    /\ pc' = "scan"
    /\ UNCHANGED <<queueVars, rowVars, candidates, cohort, requeue, planVars>>

\* Mutated form: only a longer prompt is compared with the shortest.
DissimilarOneSided(r) ==
    cohort # <<>> /\ SpreadDen * PromptLen[r] > SpreadNum * lo

Dissimilar(r) ==
    /\ cohort # <<>>
    /\ SpreadDen * MaxOf(hi, PromptLen[r]) > SpreadNum * MinOf(lo, PromptLen[r])

\* Mutated form: an exclusive row does not stop the scan.
JoinsAnyTime(r) ==
    ~Dissimilar(r) /\ Fits(r) /\ ~(r \in Exclusive /\ cohort # <<>>)

Joins(r) ==
    ~stop /\ ~Dissimilar(r) /\ Fits(r) /\ ~(r \in Exclusive /\ cohort # <<>>)

ScanAccept ==
    /\ pc = "scan" /\ candidates # <<>> /\ Joins(Head(candidates))
    /\ LET r == Head(candidates)
           len == PromptLen[r]
       IN  /\ cohort' = Append(cohort, r)
           /\ lo' = IF cohort = <<>> THEN len ELSE MinOf(lo, len)
           /\ hi' = IF cohort = <<>> THEN len ELSE MaxOf(hi, len)
           /\ stop' = (stop \/ r \in Exclusive)
    /\ candidates' = Tail(candidates)
    /\ UNCHANGED <<queueVars, rowVars, requeue, planVars, pc>>

ScanRequeue ==
    /\ pc = "scan" /\ candidates # <<>> /\ ~Joins(Head(candidates))
    /\ requeue' = Append(requeue, Head(candidates))
    /\ candidates' = Tail(candidates)
    /\ UNCHANGED <<queueVars, rowVars, cohort, lo, hi, stop, planVars, pc>>

\* Mutated forms: extendleft without `reversed`, and no extendleft at all.
RequeuedReversed ==
    [i \in 1 .. Len(requeue) |-> requeue[Len(requeue) + 1 - i]] \o waiting
RequeuedNowhere == waiting

\* waiting.extendleft(reversed(requeue))
Requeued == requeue \o waiting

ScanDone ==
    /\ pc = "scan" /\ candidates = <<>>
    /\ waiting' = Requeued /\ requeue' = <<>>
    /\ IF cohort = <<>> THEN pc' = "returned" /\ plan' = "none"
                        ELSE pc' = "publish" /\ UNCHANGED plan
    /\ UNCHANGED <<phase, rowVars, candidates, cohort, lo, hi, stop, drained>>

\* One row of the admitted cohort: alloc, row_ref, active[slot].
Publish ==
    /\ pc = "publish" /\ cohort # <<>>
    /\ \E s \in Slots :
        /\ Store!Alloc(Head(cohort), s)
        /\ active' = [active EXCEPT ![s] = Head(cohort)]
        /\ rowRef' = [rowRef EXCEPT ![Head(cohort)] = Store!RefTo(s)]
    /\ cohort' = Tail(cohort)
    /\ UNCHANGED <<queueVars, done, candidates, requeue, lo, hi, stop, planVars, pc>>

PublishDone ==
    /\ pc = "publish" /\ cohort = <<>>
    /\ plan' = "prefill" /\ pc' = "returned"
    /\ UNCHANGED <<queueVars, rowVars, scanVars, drained>>

NextPlan ==
    \/ PlanDecode \/ DrainCohort \/ (\E s \in Slots : ReleaseRow(s))
    \/ BeginAdmit \/ Pop \/ PopDone \/ ScanAccept \/ ScanRequeue \/ ScanDone
    \/ Publish \/ PublishDone

-----------------------------------------------------------------------------
\* The caller, between two calls of next_plan.

\* The engine reads the plan, and reads and clears `drained`.
TakePlan ==
    /\ pc = "returned"
    /\ pc' = "idle" /\ drained' = NoRows
    /\ UNCHANGED <<queueVars, rowVars, scanVars, plan>>

\* The engine gives an active request its finish reason.
Finish(r) ==
    /\ pc = "idle" /\ r \in ActiveReqs \ done
    /\ done' = done \cup {r}
    /\ UNCHANGED <<queueVars, active, owners, generations, rowRef, scanVars, planVars, pc>>

Next ==
    \/ \E r \in Requests : Submit(r) \/ Finish(r)
    \/ NextPlan
    \/ TakePlan

SafetySpec == Init /\ [][Next]_vars

\* The engine keeps calling, started submissions append, and while an active
\* request can finish, some active request eventually does.
Spec ==
    /\ SafetySpec
    /\ WF_vars(NextPlan \/ TakePlan)
    /\ WF_vars(\E r \in Requests : SubmitAppend(r))
    /\ SF_vars(\E r \in Requests : Finish(r))

-----------------------------------------------------------------------------
\* Properties.

\* The requests still in line, in service order: already passed over in this
\* scan, not yet scanned, not yet popped.
Line == requeue \o candidates \o waiting

\* The requests of the cohort being admitted or run.
CohortReqs == ActiveReqs \cup Elems(cohort)

\* Prompt lengths in a cohort lie pairwise within the tolerance, in both
\* directions (scheduler.py:44-46, 87-89).
CohortSimilar ==
    \A r, q \in CohortReqs : SpreadDen * PromptLen[r] <= SpreadNum * PromptLen[q]

\* An exclusive request shares its cohort with nobody, whether it comes first,
\* in the middle or last in the queue (scheduler.py:106-115, request.py:72-73).
ExclusiveAlone ==
    \A r \in CohortReqs \cap Exclusive : CohortReqs = {r}

\* Every accepted request that has not been released is in exactly one place
\* exactly once: in line, in the cohort being published, or in a row.  No step
\* of an admission loses or duplicates one while others submit.
NoRequestLost ==
    LET line == Line \o cohort
    IN  /\ \A i, j \in 1 .. Len(line) : line[i] = line[j] => i = j
        /\ \A s, t \in Slots : active[s] = active[t] /\ active[s] # None => s = t
        /\ Elems(line) \cap ActiveReqs = {}
        /\ Elems(line) \cup ActiveReqs = {r \in Requests : phase[r] = "queued"}

\* The submissions between their tests and their append.
Submitting == {r \in Requests : phase[r] = "checked"}

\* The limit on the queue (engine.py:92-94) is tested by one thread and overrun by
\* others, and by candidates that come back: with never more than k threads between
\* test and append, by at most their number and the rows of one admission, two less.
QueueBounded ==
    \A k \in 1 .. Cardinality(Requests) :
        [](Cardinality(Submitting) <= k)
          => [](Len(waiting) <= MaxPending + MaxRows + k - 2)

\* Two requests in line never change places, through popping, requeueing and
\* concurrent appends (scheduler.py:117 "preserve original queue order").
QueueOrder ==
    [][\A i, j \in 1 .. Len(Line) : i < j =>
         ~ \E k, l \in 1 .. Len(Line') :
              l < k /\ Line'[k] = Line[i] /\ Line'[l] = Line[j]]_vars

\* The head of the queue always joins the cohort: a request is passed over only
\* behind one that was admitted, so next_plan never answers "nothing" to a
\* queue it found occupied.
HeadNeverPassedOver == requeue # <<>> => cohort # <<>>

\* alloc finds a free row for every request of an admitted cohort (slots.py:57
\* would raise in the middle of the publication).
AllocNeverFails ==
    pc = "publish" /\ cohort # <<>> => \E s \in Slots : owners[s] = None

\* The scheduler's rows and the store agree: no row leaks when a cohort is
\* released, and each request's reference is the current one of its row.
RowsAgree ==
    \A s \in Slots :
        /\ owners[s] = active[s]
        /\ active[s] # None => rowRef[active[s]] = Store!RefTo(s)

\* No request waits for ever, whatever joins the queue around it: not an
\* exclusive one, and not one of an unlike length.
EventuallyAdmitted ==
    \A r \in Requests : phase[r] = "queued" ~> r \in ActiveReqs
=============================================================================

------------------------------- MODULE Engine -------------------------------
(***************************************************************************)
(* engine/engine.py and engine/request.py: one thread owns the scheduler   *)
(* and the backend; API threads submit, cancel, read their mailbox and     *)
(* shut the engine down.                                                   *)
(*                                                                         *)
(* Composes Scheduler (next_plan, submit) and ReferenceBackend (prefill,   *)
(* decode) with the engine thread's loop.  `epc` is where that thread is;  *)
(* a step ends wherever another thread's action can make a difference: at  *)
(* each mailbox operation, each read of the cancellation flag, each queue  *)
(* operation and on both sides of a backend call.                          *)
(*                                                                         *)
(* Abstracted: token values (whether a token is EOS is a choice) and time  *)
(* (a wait for a few milliseconds may end at any moment; the admission     *)
(* window is running or over).                                             *)
(***************************************************************************)
EXTENDS Positions

CONSTANTS
    Requests, None, PromptLen, MaxNewTokens, Exclusive, SharedLen,
    MaxRows, MaxContextTokens, MaxPending, SpreadNum, SpreadDen,
    MailboxCap,      \* capacity of a request's mailbox (4096 in the code)
    Cancellable,     \* requests whose client may call cancel()
    Stalled,         \* requests whose client is gone and never reads
    AdmitWindow,          \* DS41F_ADMIT_WINDOW_MS is set
    MayStop,         \* shutdown() may be called
    MayTimeOut,      \* its join may time out
    MayRestart,      \* start() may be called after the thread has ended
    MayFail,         \* a backend step may raise
    MayRaise         \* on_finish and on_drain may raise

Reasons == {"length", "stop", "cancelled", "backpressure"}

\* Prompts are not empty and a prefix hit lies inside its prompt.
ASSUME EngineAssumption ==
    /\ PromptLen \in [Requests -> Nat \ {0}]
    /\ MaxNewTokens \in [Requests -> Nat] /\ Exclusive \subseteq Requests
    /\ MaxRows \in Nat \ {0} /\ MaxContextTokens \in Nat /\ MaxPending \in Nat
    /\ SpreadDen \in Nat \ {0} /\ SpreadNum \in Nat /\ SpreadNum >= SpreadDen
    /\ SharedLen \in [Requests -> Nat \cup {None}]
    /\ \A r \in Requests : SharedLen[r] # None => SharedLen[r] <= PromptLen[r]
    /\ MailboxCap \in Nat \ {0} /\ None \notin Reasons /\ None \notin Requests
    /\ Cancellable \subseteq Requests
    /\ Stalled \subseteq Requests
    /\ {AdmitWindow, MayStop, MayTimeOut, MayRestart, MayFail, MayRaise} \subseteq BOOLEAN

VARIABLES
    waiting, active, owners, generations, rowRef, phase,   \* as in Scheduler
    spc, candidates, cohort, requeue, lo, hi, stop, plan, drained,
    reqIds, cursor, total, filled, staged,                 \* as in ReferenceBackend
    epc,            \* where the engine thread is
    results,        \* step results not yet delivered
    todo,           \* outstanding requests still to fail, once closing
    current,        \* the request being finished, and its finish reason
    lastCohort,     \* _last_cohort
    finishReason, terminalSent, completion,   \* fields of _Request
    cancel,         \* requests with cancel_requested set
    mailbox,        \* request -> its bounded queue of events
    received,       \* request -> what its reader has taken out, in order
    stopPosted,     \* "stop" is in the control queue
    stopped, dead,  \* _stopped, _dead
    wakeup,         \* _wakeup
    deadline,       \* _admit_deadline: "none", "running" or "passed"
    captured,       \* history: on_drain fired since the last prefill
    raised          \* history: requests whose callbacks raised in _finish

Done == {r \in Requests : finishReason[r] # None /\ \E s \in 0 .. MaxRows - 1 : active[s] = r}

Sched == INSTANCE Scheduler WITH pc <- spc, done <- Done
Back  == INSTANCE ReferenceBackend

Promise == INSTANCE RequestStream
             WITH produced <- completion, reason <- finishReason, unread <- mailbox,
                  read <- received

schedVars  == <<waiting, active, owners, generations, rowRef, phase, spc,
                candidates, cohort, requeue, lo, hi, stop, plan, drained>>
backVars   == <<reqIds, cursor, total, filled, staged>>
loopVars   == <<results, todo, current, lastCohort, captured>>
clientVars == <<cancel, mailbox, received, stopPosted>>
recordVars == <<finishReason, terminalSent, completion>>
endVars    == <<stopped, dead, raised>>
flagVars   == <<endVars, wakeup, deadline>>
state == <<schedVars, backVars, loopVars, clientVars, recordVars, flagVars>>
vars == <<state, epc>>

Token(n) == [kind |-> "token", position |-> n, reason |-> None]
Terminal(reason, n) == [kind |-> "terminal", position |-> n, reason |-> reason]
IsTerminal(e) == e.kind = "terminal"

\* Everything the reader of r has been sent that it has read or can still read.
Stream(r) == received[r] \o mailbox[r]

\* The active requests in slot order.
RowsOf(table) ==
    LET slots == InOrder({s \in Sched!Slots : table[s] # None})
    IN  [k \in 1 .. Len(slots) |-> table[slots[k]]]

\* Mutated form: only the rows, not the queue.
UnservedRows == RowsOf(active)

\* What the closing loops go through.
Unserved == RowsOf(active) \o waiting

EnginePoints == {"top", "planning", "clear", "asleep", "step", "running", "deliver", "token", "finish",
                 "terminal", "evict", "dying", "closing", "exited"}

TypeOK ==
    /\ Sched!TypeOK
    /\ Back!BackendTypeOK
    /\ epc \in EnginePoints
    /\ results \in Seq([req : Requests, emits : BOOLEAN])
    /\ todo \in Seq(Requests) /\ lastCohort \in Seq(Requests)
    /\ current \in [req : Requests \cup {None}, reason : Reasons \cup {None}]
    /\ finishReason \in [Requests -> Reasons \cup {None}]
    /\ terminalSent \in [Requests -> BOOLEAN]
    /\ completion \in [Requests -> Nat]
    /\ cancel \subseteq Requests
    /\ \A r \in Requests : Len(mailbox[r]) <= MailboxCap
    /\ {stopPosted, stopped, dead, wakeup, captured} \subseteq BOOLEAN
    /\ deadline \in {"none", "running", "passed"} /\ raised \subseteq Requests

Init ==
    /\ Back!BackendInit
    /\ epc = "top" /\ results = <<>> /\ todo = <<>> /\ lastCohort = <<>>
    /\ current = [req |-> None, reason |-> None]
    /\ finishReason = [r \in Requests |-> None]
    /\ terminalSent = [r \in Requests |-> FALSE]
    /\ completion = [r \in Requests |-> 0]
    /\ cancel = {}
    /\ mailbox = [r \in Requests |-> <<>>] /\ received = [r \in Requests |-> <<>>]
    /\ stopPosted = FALSE /\ stopped = FALSE /\ dead = FALSE
    /\ wakeup = FALSE /\ deadline = "none"
    /\ captured = FALSE /\ raised = {}
    /\ Sched!Init

-----------------------------------------------------------------------------
\* API threads.

\* submit: a dead engine refuses; the tests and the append are two steps.
SubmitTests(r) ==
    /\ ~dead
    /\ UNCHANGED <<backVars, loopVars, clientVars, recordVars, flagVars, epc>>
    /\ Sched!SubmitReject(r) \/ Sched!SubmitCheck(r)

SubmitAppend(r) ==
    /\ wakeup' = TRUE
    /\ UNCHANGED <<backVars, loopVars, clientVars, recordVars, endVars, deadline, epc>>
    /\ Sched!SubmitAppend(r)

HasHandle(r) == phase[r] \in {"queued", "released"}

Cancel(r) ==
    /\ r \in Cancellable \ cancel /\ HasHandle(r)
    /\ cancel' = cancel \cup {r}
    /\ UNCHANGED <<schedVars, backVars, loopVars, mailbox, received, stopPosted,
                   recordVars, flagVars, epc>>

\* events() and result(): take the next event; stop after the terminal.
Read(r) ==
    /\ r \notin Stalled /\ mailbox[r] # <<>>
    /\ ~ \E i \in 1 .. Len(received[r]) : IsTerminal(received[r][i])
    /\ received' = [received EXCEPT ![r] = Append(@, Head(mailbox[r]))]
    /\ mailbox' = [mailbox EXCEPT ![r] = Tail(@)]
    /\ UNCHANGED <<schedVars, backVars, loopVars, cancel, stopPosted,
                   recordVars, flagVars, epc>>

\* shutdown, up to the join.
PostStop ==
    /\ MayStop /\ ~stopPosted
    /\ stopPosted' = TRUE /\ wakeup' = TRUE
    /\ UNCHANGED <<schedVars, backVars, loopVars, cancel, mailbox, received,
                   recordVars, endVars, deadline, epc>>

\* shutdown, after the join: the thread is gone or the timeout passed.
ShutdownBackend ==
    /\ stopPosted /\ reqIds # <<>>
    /\ epc = "exited" \/ MayTimeOut
    /\ Back!Reset
    /\ UNCHANGED <<schedVars, loopVars, clientVars, recordVars, flagVars, epc>>

\* start, once there is no live thread; nothing clears _stopped or _dead.
Start ==
    /\ MayRestart /\ epc = "exited"
    /\ epc' = "top"
    /\ UNCHANGED state

-----------------------------------------------------------------------------
\* The engine thread: the loop of _run_inner.

\* The thread of a restarted engine that had died.
DeadAtStart ==
    /\ epc = "top" /\ dead
    /\ epc' = "exited"
    /\ UNCHANGED state

DrainControl ==
    /\ epc = "top" /\ ~dead /\ stopPosted
    /\ stopped' = TRUE /\ epc' = "closing"
    /\ todo' = Unserved
    /\ UNCHANGED <<schedVars, backVars, results, current, lastCohort, captured,
                   clientVars, recordVars, dead, wakeup, deadline, raised>>

\* Mutated form: the window also opens while a cohort runs.
HoldsAnyTime == AdmitWindow /\ waiting # <<>> /\ Len(waiting) < MaxRows

\* A fresh cohort with rows to spare.
Holds == AdmitWindow /\ Sched!ActiveReqs = {} /\ waiting # <<>> /\ Len(waiting) < MaxRows

\* The cohort is held open until the deadline, set on the first look at it.
HoldOpen ==
    /\ epc = "top" /\ ~dead /\ ~stopPosted /\ Holds /\ deadline # "passed"
    /\ deadline' = "running" /\ epc' = "clear"
    /\ UNCHANGED <<schedVars, backVars, loopVars, clientVars, recordVars, endVars, wakeup>>

PassWindow ==
    /\ epc = "top" /\ ~dead /\ ~stopPosted /\ ~(Holds /\ deadline # "passed")
    /\ deadline' = (IF Holds THEN deadline ELSE "none") /\ epc' = "planning"
    /\ UNCHANGED <<schedVars, backVars, loopVars, clientVars, recordVars, endVars, wakeup>>

\* The monotonic clock reaches the deadline.
WindowPasses ==
    /\ deadline = "running" /\ deadline' = "passed"
    /\ UNCHANGED <<schedVars, backVars, loopVars, clientVars, recordVars, endVars, wakeup,
                   epc>>

\* _wakeup.clear(): a signal sent since the engine last looked is lost.
Clear ==
    /\ epc = "clear"
    /\ wakeup' = FALSE /\ epc' = "asleep"
    /\ UNCHANGED <<schedVars, backVars, loopVars, clientVars, recordVars, endVars, deadline>>

\* Mutated form: waits without a timeout.
OnlyOnSignal == wakeup

\* A wait ends on a signal or with its timeout: the rest of the window, or a few
\* milliseconds.
WaitOver == wakeup \/ deadline # "running"

Wake ==
    /\ epc = "asleep" /\ WaitOver
    /\ epc' = "top"
    /\ UNCHANGED state

Planning ==
    /\ epc = "planning"
    /\ UNCHANGED <<backVars, loopVars, clientVars, recordVars, flagVars, epc>>
    /\ Sched!NextPlan

\* Every request of the last cohort has a finish reason in `reasons`.
CohortDone(reasons) == \A i \in 1 .. Len(lastCohort) : reasons[lastCohort[i]] # None

\* Mutated form: the rows the scheduler hands over are not looked at.
CapturesNoDrained == FALSE

\* The plan is in hand.  on_drain fires for the rows the scheduler drained, and
\* for a last cohort that is done while nothing is active.
CapturesDrained == drained # Sched!NoRows
CapturesIdle == lastCohort # <<>> /\ Sched!ActiveReqs = {} /\ CohortDone(finishReason)

AfterPlan ==
    /\ epc = "planning"
    /\ UNCHANGED <<backVars, results, todo, current, clientVars, recordVars, flagVars>>
    /\ Sched!TakePlan
    /\ captured' = (captured \/ CapturesDrained \/ CapturesIdle)
    /\ lastCohort' = IF CapturesIdle THEN <<>> ELSE lastCohort
    /\ epc' = IF plan = "none" THEN "clear" ELSE "step"

\* on_drain raises; the plan in hand is lost.
AfterPlanRaises ==
    /\ epc = "planning" /\ MayRaise
    /\ CapturesDrained \/ CapturesIdle
    /\ UNCHANGED <<backVars, loopVars, clientVars, recordVars, flagVars>>
    /\ Sched!TakePlan
    /\ epc' = "dying"

\* backend.enqueue.  A prefill makes the active rows the last cohort.
BeginPrefill ==
    /\ epc = "step" /\ plan = "prefill"
    /\ Back!Prefill(RowsOf(active))
    /\ lastCohort' = RowsOf(active)
    /\ captured' = FALSE
    /\ epc' = "running"
    /\ UNCHANGED <<schedVars, results, todo, current, clientVars, recordVars, flagVars>>

BeginDecode ==
    /\ epc = "step" /\ plan = "decode"
    /\ Back!Decode(RowsOf(active))
    /\ epc' = "running"
    /\ UNCHANGED <<schedVars, loopVars, clientVars, recordVars, flagVars>>

\* enqueue raises, before or after it has overwritten the rows' caches.
StepRefused ==
    /\ epc = "step"
    /\ \/ plan = "prefill" /\ Back!PrefillRefused(RowsOf(active))
       \/ plan = "decode" /\ Back!DecodeRefused(RowsOf(active))
    /\ epc' = "dying"
    /\ UNCHANGED state

StepFails ==
    /\ epc = "step" /\ MayFail
    /\ \/ UNCHANGED <<backVars, captured>>
       \/ plan = "prefill" /\ Back!Prefill(RowsOf(active)) /\ captured' = FALSE
    /\ epc' = "dying"
    /\ UNCHANGED <<schedVars, results, todo, current, lastCohort, clientVars,
                   recordVars, flagVars>>

\* backend.resolve; a reset from shutdown may have hit the step half-way.
EndStep ==
    /\ epc = "running"
    /\ \/ results' = staged /\ epc' = "deliver"
       \/ (MayFail \/ reqIds = <<>>) /\ epc' = "dying" /\ UNCHANGED results
    /\ UNCHANGED <<schedVars, backVars, todo, current, lastCohort, captured,
                   clientVars, recordVars, flagVars>>

-----------------------------------------------------------------------------
\* _deliver.

\* Mutated form: a finished row's results are delivered like any other.
SkipsNothing(r) == FALSE

\* The row the store says r owns holds another request, or r is already done.
Skips(r) ==
    (\A s \in Sched!Store!OwnedBy(r) : active[s] # r) \/ finishReason[r] # None

DeliverNext ==
    /\ epc = "deliver" /\ results # <<>>
    /\ LET res == Head(results)
       IN  IF Skips(res.req)
           THEN results' = Tail(results) /\ UNCHANGED <<current, epc>>
           ELSE /\ \E reason \in IF res.req \in cancel THEN {"cancelled"}
                                                     ELSE Back!Reported(res.emits) :
                       current' = [req |-> res.req, reason |-> reason]
                /\ epc' = "token" /\ UNCHANGED results
    /\ UNCHANGED <<schedVars, backVars, todo, lastCohort, captured, clientVars,
                   recordVars, flagVars>>

DeliverDone ==
    /\ epc = "deliver" /\ results = <<>>
    /\ epc' = "top"
    /\ UNCHANGED state

\* Mutated form: one event more than the queue's maxsize.
HasRoomForOneMore(r) == Len(mailbox[r]) <= MailboxCap

HasRoom(r) == Len(mailbox[r]) < MailboxCap

\* Mutated forms: the event carries the count instead of the index; a full
\* mailbox loses the token and nothing else.
EmitTokenOffByOne(r) ==
    /\ completion' = [completion EXCEPT ![r] = @ + 1]
    /\ IF HasRoom(r)
       THEN mailbox' = [mailbox EXCEPT ![r] = Append(@, Token(completion'[r]))]
       ELSE UNCHANGED mailbox
    /\ UNCHANGED <<cancel, finishReason>>
EmitTokenLossy(r) ==
    /\ completion' = [completion EXCEPT ![r] = @ + 1]
    /\ IF HasRoom(r)
       THEN mailbox' = [mailbox EXCEPT ![r] = Append(@, Token(completion[r]))]
       ELSE UNCHANGED mailbox
    /\ UNCHANGED <<cancel, finishReason>>

\* completion.append and _emit of the token: at a full mailbox the token is
\* dropped and the request ends, cancelled for back pressure.
EmitToken(r) ==
    /\ completion' = [completion EXCEPT ![r] = @ + 1]
    /\ IF HasRoom(r)
       THEN /\ mailbox' = [mailbox EXCEPT ![r] = Append(@, Token(completion[r]))]
            /\ UNCHANGED <<cancel, finishReason>>
       ELSE /\ cancel' = cancel \cup {r}
            /\ finishReason' = [finishReason EXCEPT ![r] = "backpressure"]
            /\ UNCHANGED mailbox

BudgetSpent(r, n) == n >= MaxNewTokens[r]

\* The token, unless cancellation arrived since DeliverNext, then the budget.
DeliverToken ==
    /\ epc = "token"
    /\ LET r == current.req
           emits == Head(results).emits /\ finishReason[r] = None /\ r \notin cancel
           reason == IF current.reason = None /\ BudgetSpent(r, completion'[r])
                     THEN "length" ELSE current.reason
       IN  /\ IF emits THEN EmitToken(r)
                       ELSE UNCHANGED <<completion, mailbox, cancel, finishReason>>
           /\ current' = [req |-> r, reason |-> reason]
           /\ IF reason = None THEN epc' = "deliver" /\ results' = Tail(results)
                               ELSE epc' = "finish" /\ UNCHANGED results
    /\ UNCHANGED <<schedVars, backVars, todo, lastCohort, captured, received, stopPosted,
                   terminalSent, flagVars>>

-----------------------------------------------------------------------------
\* _finish, with _emit of the terminal event.

\* Mutated form: the row is freed as soon as its request finishes.
RowFreedAtOnce ==
    /\ owners' = [owners EXCEPT ![rowRef[current.req].slot] = None]
    /\ UNCHANGED <<waiting, active, generations, rowRef, phase, spc, candidates, cohort,
                   requeue, lo, hi, stop, plan, drained>>

\* The row stays in the fixed cohort until the scheduler drains it.
RowStays == UNCHANGED schedVars

\* Mutated form: the cohort is tested before the record is closed.
DrainsBefore == lastCohort # <<>> /\ CohortDone(finishReason)

\* This finish was the cohort's last.
Drains == lastCohort # <<>> /\ CohortDone(finishReason')

\* The record is closed and the callbacks run before the event is queued.  The
\* code asserts ~terminalSent[current.req] here (FinishedOnce).
CloseRecord ==
    /\ finishReason' = [finishReason EXCEPT ![current.req] = current.reason]
    /\ terminalSent' = [terminalSent EXCEPT ![current.req] = TRUE]

Finish ==
    /\ epc = "finish" /\ CloseRecord
    /\ captured' = (captured \/ Drains)
    /\ lastCohort' = IF Drains THEN <<>> ELSE lastCohort
    /\ epc' = "terminal"
    /\ RowStays
    /\ UNCHANGED <<backVars, results, todo, current, clientVars, completion, flagVars>>

\* A callback raises: the terminal is not queued, and the engine dies, or ends
\* here when it is its handler that was closing records.
FinishRaises ==
    /\ epc = "finish" /\ MayRaise /\ CloseRecord
    /\ Drains \/ \E i \in 1 .. Len(lastCohort) : lastCohort[i] = current.req
    /\ raised' = raised \cup {current.req}
    /\ epc' = IF dead THEN "exited" ELSE "dying"
    /\ UNCHANGED <<schedVars, backVars, loopVars, clientVars, completion, stopped, dead,
                   wakeup, deadline>>

\* Back to the loop _finish was called from.
FinishReturns ==
    IF results # <<>> THEN results' = Tail(results) /\ epc' = "deliver"
                      ELSE UNCHANGED results /\ epc' = "closing"

PutTerminal(r) ==
    mailbox' = [mailbox EXCEPT ![r] =
                  Append(@, Terminal(current.reason, completion[r]))]

EmitTerminal ==
    /\ epc = "terminal"
    /\ IF HasRoom(current.req) THEN PutTerminal(current.req) /\ FinishReturns
                               ELSE epc' = "evict" /\ UNCHANGED <<mailbox, results>>
    /\ UNCHANGED <<schedVars, backVars, todo, current, lastCohort, captured, cancel,
                   received, stopPosted, recordVars, flagVars>>

\* The mailbox was full: unread tokens are taken out one at a time, against a
\* reader that may be doing the same, and the terminal goes into the empty box.
Evict ==
    /\ epc = "evict"
    /\ IF mailbox[current.req] = <<>>
       THEN PutTerminal(current.req) /\ FinishReturns
       ELSE /\ mailbox' = [mailbox EXCEPT ![current.req] = Tail(@)]
            /\ UNCHANGED <<results, epc>>
    /\ UNCHANGED <<schedVars, backVars, todo, current, lastCohort, captured, cancel,
                   received, stopPosted, recordVars, flagVars>>

-----------------------------------------------------------------------------
\* The end of the thread: _fail_remaining, or the handler of _run.

\* The list of outstanding requests is taken once.
Die ==
    /\ epc = "dying"
    /\ dead' = TRUE /\ stopped' = TRUE
    /\ todo' = Unserved
    /\ results' = <<>>
    /\ epc' = "closing"
    /\ UNCHANGED <<schedVars, backVars, current, lastCohort, captured, clientVars,
                   recordVars, wakeup, deadline, raised>>

\* Mutated form: records already closed are closed again.
NoneClosed(r) == FALSE

IsClosed(r) == finishReason[r] # None

Close ==
    /\ epc = "closing" /\ todo # <<>>
    /\ todo' = Tail(todo)
    /\ IF IsClosed(Head(todo))
       THEN UNCHANGED <<current, epc>>
       ELSE /\ current' = [req |-> Head(todo), reason |-> "cancelled"]
            /\ epc' = "finish"
    /\ UNCHANGED <<schedVars, backVars, results, lastCohort, captured, clientVars,
                   recordVars, flagVars>>

Exit ==
    /\ epc = "closing" /\ todo = <<>>
    /\ epc' = "exited"
    /\ UNCHANGED state

EngineThread ==
    \/ DeadAtStart \/ DrainControl \/ HoldOpen \/ PassWindow \/ Clear \/ Wake
    \/ Planning \/ AfterPlan \/ AfterPlanRaises
    \/ BeginPrefill \/ BeginDecode \/ StepRefused \/ StepFails \/ EndStep
    \/ DeliverNext \/ DeliverDone \/ DeliverToken
    \/ Finish \/ FinishRaises \/ EmitTerminal \/ Evict
    \/ Die \/ Close \/ Exit

Next ==
    \/ EngineThread
    \/ \E r \in Requests : SubmitTests(r) \/ SubmitAppend(r) \/ Cancel(r) \/ Read(r)
    \/ PostStop
    \/ ShutdownBackend
    \/ Start
    \/ WindowPasses

SafetySpec == Init /\ [][Next]_vars

\* The engine thread runs; the clock does; a submission that was checked is
\* appended; readers that are not gone read.
Spec ==
    /\ SafetySpec
    /\ WF_vars(EngineThread)
    /\ WF_vars(WindowPasses)
    /\ WF_vars(\E r \in Requests : SubmitAppend(r))
    /\ \A r \in Requests : WF_vars(Read(r))

-----------------------------------------------------------------------------
\* Properties.

\* The assertion of _finish (engine.py:248): a request is finished once,
\* whoever gets there first of delivery, cancellation and the closing loops.
FinishedOnce == \A r \in Requests : epc = "finish" /\ current.req = r => ~terminalSent[r]

TokensUpTo(n) == [i \in 1 .. n |-> Token(i - 1)]
TerminalQueued(r) ==
    /\ terminalSent[r] /\ r \notin raised
    /\ ~(epc \in {"terminal", "evict"} /\ current.req = r)

\* README.md:46, request.py:46-48, 131-135: a request whose output fits its
\* mailbox is sent exactly its tokens in order and then one terminal event,
\* last, that counts them, under every race of cancel, stop, failure and read.
StreamExact ==
    \A r \in Requests :
        completion[r] < MailboxCap =>
            Stream(r) = TokensUpTo(completion[r])
                          \o (IF TerminalQueued(r)
                              THEN <<Terminal(finishReason[r], completion[r])>> ELSE <<>>)

\* README.md:46, request.py:131-135, 139-150: to its reader each request is a
\* RequestStream, outputs that overflow their mailbox and requests that are never
\* answered included: what ends is ended once, for a reason that then stands, and
\* by an event after which there is none.
StreamsRefined == Promise!Spec

\* Until its terminal is decided no request's stream has a gap: a token is lost
\* only at a full mailbox, and then it is the last one (request.py:139-150).
NoGapBeforeEnd ==
    \A r \in Requests :
        ~terminalSent[r] =>
            Stream(r) = TokensUpTo(IF finishReason[r] = "backpressure"
                                   THEN completion[r] - 1 ELSE completion[r])

\* reference.py:209-214: every decode step finds the cohort it prefilled and a
\* column left to consume, whatever mix of prompts, budgets and cancellations,
\* unless shutdown has reset the backend.
BufferSuffices ==
    epc = "step" /\ plan = "decode" =>
        reqIds = <<>> \/ ~Back!DecodeRefused(RowsOf(active))

\* reference.py:376-378 "only already-filled positions are ever passed to the
\* model": a decode step consumes a column every row has filled.
ConsumesFilled ==
    epc = "step" /\ plan = "decode" /\ ~Back!DecodeRefused(RowsOf(active)) =>
        \A i \in 1 .. Len(reqIds) : cursor \in filled[i]

\* The caches of r's row represent its prompt and all but its last token (after
\* a reset the backend no longer says).
AtBoundary(r) ==
    reqIds = <<>> \/ \A i \in 1 .. Len(lastCohort) :
        lastCohort[i] = r => /\ reqIds[i] = r
                             /\ cursor = PromptLen[r] + completion[r] - 1

Finishing(r) == terminalSent'[r] /\ ~terminalSent[r]

\* engine.py:73-75, 269-273: on_finish for a request that ran to its end and was
\* not cancelled fires at the exact boundary its caches represent, with the
\* index of its batch row.
FinishAtBoundary ==
    [][\A r \in Requests :
         Finishing(r) /\ finishReason'[r] \in {"length", "stop"} /\ r \notin cancel
            => AtBoundary(r)]_vars

\* scheduler.py:53-55, engine.py:161-166: no prefill overwrites a cohort that
\* on_drain has not been given, stalled readers and back pressure included.
DrainBeforeOverwrite ==
    [][reqIds # <<>> /\ reqIds' # reqIds /\ reqIds' # <<>> => captured]_vars

HasTerminal(r) == \E i \in 1 .. Len(Stream(r)) : IsTerminal(Stream(r)[i])

\* engine.py:254-255: when the clients of a cohort can all see their terminal,
\* on_drain has fired.
DrainBeforeLastTerminal ==
    reqIds # <<>> /\ ~dead /\ (\A i \in 1 .. Len(reqIds) : HasTerminal(reqIds[i]))
        => captured

\* The engine drives the scheduler as Scheduler assumes: records close only
\* between two calls of next_plan, and rows change only inside one.
SchedulerRefined == Sched!SafetySpec

Outstanding(r) == phase[r] = "queued" /\ ~stopped

\* A callback raised for r, or in the handler of _run before r's turn came.
Abandoned(r) == r \in raised \/ (epc = "exited" /\ \E i \in 1 .. Len(todo) : todo[i] = r)

\* r was answered, or is known not to be: its mailbox overflowed, or a callback raised.
Settled(r) == HasTerminal(r) \/ finishReason[r] = "backpressure" \/ Abandoned(r)

\* README.md:46, engine.py:124-126 "fail every outstanding handle exactly once": when
\* the engine thread is gone, for the first time or after a restart, it has left
\* nobody behind who was in line, in a cohort or in hand before it was told to stop.
NobodyForgotten ==
    \A r \in Requests : [](Outstanding(r) => [](epc = "exited" => Settled(r)))

\* README.md:46 for requests whose output fits the mailbox: each one accepted
\* before the engine stopped or died gets its terminal, whatever signal is lost
\* and even when the readers of others have stalled, unless a callback raises at
\* its own finish or on the way out.
NeighboursAnswered ==
    \A r \in Requests :
        MaxNewTokens[r] < MailboxCap => Outstanding(r) ~> HasTerminal(r) \/ Abandoned(r)

\* engine.py:52-54: neither the admission window nor an idle wait holds up a
\* batch that has a request to serve.
NoWaitWhileServing == epc \in {"clear", "asleep"} => Sched!ActiveReqs \subseteq Done

\* README.md:46 as written, for requests accepted before the stop.
EveryoneAnswered == \A r \in Requests : Outstanding(r) ~> HasTerminal(r)

\* README.md:46 for every submission that was accepted.
EveryAcceptedAnswered == \A r \in Requests : phase[r] = "queued" ~> HasTerminal(r)

\* request.py:131-135: only a reader that is stalled or gone misses tokens; one
\* that reads the terminal has read every token it counts.
ReaderMissesNothing ==
    \A r \in Requests \ Stalled : \A i \in 1 .. Len(received[r]) :
        IsTerminal(received[r][i]) => i = received[r][i].position + 1
=============================================================================

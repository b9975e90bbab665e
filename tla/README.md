# DS41F in TLA+

A model of the serving engine in `src/src/ds41f`, checked with TLC on small
instances, and, but for liveness and one bound, proved with TLAPS for every value of the constants.
Paths below are relative to `src/src/ds41f` unless they name the repository's
`README.md`.

## The system

One engine thread owns the scheduler, the row table and the backend. API
threads submit, cancel, read and stop. They share with it one deque, one flag
per request, one mailbox per request and a control queue; no lock spans two
operations on any of them.

| Component | State | Operations | Hard because | What makes it correct | Modules |
| --- | --- | --- | --- | --- | --- |
| State rows, `state/slots.py` | owner and generation per slot | `alloc`, `release`, `can_admit`, `owned_by` | references outlive the occupancy they name | no stale release harms a later owner; rows are private | `StateStore`, `SlotClients` |
| Scheduler and submission, `scheduler/scheduler.py`, `LLMEngine.submit` | wait deque, active rows, the locals of `_admit` | `submit`, `next_plan` | API threads append between any two deque operations of an admission | nothing lost, duplicated or reordered; cohorts similar, exclusive, within the rows; nobody starves | `Scheduler` |
| Engine, `engine/engine.py`, `engine/request.py` | request records, mailboxes, last cohort, stop and death flags | the loop, `_deliver`, `_finish`, `_emit`, `cancel`, `events`, `shutdown`, closing loops | cancel, read, stop, timeout and failure race with delivery | exact streams, one terminal, callbacks at the promised moments, everyone answered | `Engine` |
| Reference backend, `backend/reference.py`, `backend/base.py` | batch, shared cursor, token buffer; pinned buffers, reads in flight | prefill (bulk or from a snapshot), decode, batched sampling, enqueue and resolve, reset | rows of unlike length share a cursor and a width fixed at prefill; a device copies late into reused buffers | the buffer suffices; only filled columns are consumed; a handle answers with its own step's tokens | `ReferenceBackend`, `StagedReads`, `StepContract` |
| Prefix store, `state/prefix.py` | ordered dictionary, byte count, generation | `put`, `lookup`, `invalidate` | running count, recency and longest match over long histories | a byte-bounded LRU cache | `PrefixStore`, `PrefixCache` |
| Expert placement, `backend/expert_placement.py` | bins of the planner; gates and experts per rank and layer, buffers in exchange | `greedy_placement`, `new_to_old_from_assign`, `maybe_apply`, `apply` with its audit | a collective per layer, between ranks that read their own environment and find out for themselves that a file is bad | the same function in every layer on every rank; balanced bins; nobody alone in a collective | `GreedyPlacement`, `ExpertPlacement` |
| Fake backend, `backend/fake.py` | executed plans | `execute` | | a test double: its results are a case of `ReferenceBackend`'s | not modelled |
| `manifest.py`, `api/models.py` | none | file I/O, data classes | | | not modelled |
| HTTP server, model, kernels | outside the repository | | | | environment |

## Modules

```text
          StateStore                 StepContract (promise)   PrefixCache (promise)
         /          \                      ^ refinement          ^ refinement
 SlotClients      Scheduler            StagedReads            PrefixStore
                      ^ refinement         |
                      |                    |
                    Engine -------- ReferenceBackend       GreedyPlacement
                      | refinement                               |
                      v                                    ExpertPlacement
                RequestStream (promise)
```

`Positions`, which most of them extend, turns a finite set of slots or indices into the
ascending list that `sorted()` and `nonzero()` give. The theorems about a module `M` are in
`M_proofs`; those about the engine and its backend together are in `EngineBuffer_proofs`, and
the lemmas about lists of positions, sums and induction in `Positions_proofs`.

`StateStore` is the table and its operations; who calls them is said by its two
users. `SlotClients` gives it clients that may release with any reference ever
issued, at any time, any number of times; `issued` is the log of what `alloc` returned, one
entry per occupancy, so that a reference returned twice would show although the same request
got it. `Scheduler` instantiates it as
`Store` and calls it the way `next_plan` does.

`Scheduler` is `submit` and `next_plan`. `pc` is the engine thread's place in
`next_plan`: idle, `release` (one row a step), `pop` (one `popleft` a step),
`scan` (one candidate a step), `publish` (one row a step), `returned`.
`SubmitCheck` and `SubmitAppend` are the two halves of `submit`, which holds no
lock, so a submission falls between any two steps of an admission. The lists
`candidates`, `cohort`, `requeue` are the locals of `_admit`; `lo`, `hi` and
`stop` too. A prompt is its length, a plan its operation: the plan's rows are
those of `active` in slot order. The float `1 + cohort_bucket_tolerance` is the
fraction `SpreadNum / SpreadDen`.

`ReferenceBackend` keeps, for each row, the set of columns of the token buffer
that hold a token, and the shared cursor. `_collect` and `_stake` are
`Collect`: which rows emit, and which columns they fill. Token values are
left out; whether an emitted token is EOS is a choice (`Reported`).

`StagedReads` extends it with the split step: one batch of sampling over the emitting
rows, the copy of the tokens into one of two pinned buffers that the device
does later, `resolve`, and the reset of `shutdown`. A token is the number of the
draw it came from and whether the distribution was cut at its `top_p`, which is
what the three index spaces of `_sample_batch` (cohort rows, emitting rows,
stochastic rows) can get wrong. `StepContract` is what the protocol promises:
each emitting row gets the per-row sampler's token, and a handle is answered with
its own step's results whenever it is resolved.

`Engine` composes scheduler and backend by `INSTANCE`, with the scheduler's `done` defined
from the request records. `epc` is the engine thread's place; a step ends where
another thread can make a difference: each queue and mailbox operation, each
read of the cancel flag, both sides of a backend call. `DeliverNext` reads the
flag once, `DeliverToken` again, as `_deliver` does. `_finish` is two steps,
closing the record with its callbacks and queueing the terminal; a full mailbox
is emptied one event a step (`Evict`) against a reader that may be taking events
too. `Die` is the handler of `_run`, and `Close` the loop it shares in form
with `_fail_remaining`. `captured` is a history variable: whether `on_drain` has
fired since the last prefill.

`RequestStream` is what the engine promises one reader: tokens in order, a reason that
stands once it is given, a terminal once the reason that it carries has been given
(`Decided`), and one. It has no rows, cohorts or threads and does not say who
ends a request. `StreamsRefined` maps the record's completion and reason, the mailbox and what was
read to it. It gives way where the code does: back pressure may turn into another
reason, and tokens may be discarded between the reason and the terminal, once there were
enough of them to fill the mailbox. That a terminal comes at all is not part of it; the runs
`backpressure` and `late_submit` show when it does not, `NeighboursAnswered` when it does under
fairness, and `NobodyForgotten` what is left when the thread has ended (`Settled`): of the requests
accepted before the stop, each has its terminal, or was cut off at a full mailbox, or was left to
a callback that raised. `Unserved` is `_fail_remaining`'s list: the active rows, then the queue.

The waits are two places: `clear`, before `_wakeup.clear()`, and `asleep`. `wakeup` is
the event, and a signal set between the look at the queue and `clear` is lost.
`HoldOpen` and `PassWindow` are the admission window, `deadline` its deadline (none,
running, passed), which `WindowPasses` lets expire. `Start` runs the loop again after the
thread has ended; nothing clears `stopped` or `dead`. `AfterPlanRaises` and
`FinishRaises` are callbacks that raise: the plan in hand, or the terminal of the
record being closed, is lost and the thread dies. The history variable `raised` has
the requests whose terminal was lost so.

`GreedyPlacement` deals one layer's experts to the ranks one a step and turns the
result into a permutation of the slots. `ExpertPlacement` runs it for
every layer of a calibration, saves the file, and deploys that file or a foreign one
to ranks whose environments may name it, pin another hash, or name none. An
expert's weights are its number in the checkpoint. A rank permutes its gate and packs
(`Send`), the collective is one step of all ranks (`AllToAll`, `Gather`), and `Unpack`
fills its slots. A rank that skips or refuses leaves the others where they are. With the audit
on, `Send` first copies the gate and the hashes of the rank's own experts (`copies`); `Gather`
publishes them, and `Verdict` compares gate and slots with copies, its own and the others'.

`PrefixStore` is the ordered dictionary; each method holds its lock throughout
and is one step. Its byte count is compared with the sum over the snapshots it holds.
`PrefixCache` is what the docstrings promise, with recency as
a relation and no order of storage.

Definitions named as a mutated form of the next one (`AcceptableAnyLength`,
`HoldsAnyGeneration`, ...) are faults of a plausible kind. No specification uses
them; substituted for the definition they precede, each makes TLC refute the
property it is paired with in `PROJECT.json`, which shows that the property
depends on that code.

## Runs

| Run | Instance | Shows |
| --- | --- | --- |
| `store` | 3 requests, 2 rows, 4 generations | stale, late and repeated releases are harmless, no reference is returned twice |
| `scheduler` | 5 requests, 3 rows, queue bound 1; one exclusive, one over budget | admission under interleaved submissions, how far the queue outgrows its bound, and that everyone accepted is admitted |
| `engine` | 3 requests, 2 rows, mailbox of 2; cancellation, 2 stalled readers, failing steps | that each stream implements RequestStream and the engine Scheduler; callbacks and buffer, over two cohorts, no hit as long as its prompt |
| `engine_closing` | 2 requests; the admission window, stop, join timeout, restart, failing steps, raising callbacks, cancellation, a stalled neighbour | streams at the end; no wait while serving; nobody outstanding is left behind; and that a request accepted before the end is answered although signals are lost, unless a callback raises |
| `prefix` | 4 nested and branching keys, 3 sizes (one over the budget), one invalidation | the store implements the cache |
| `placement` | 3 ranks of 3 experts; a dense layer between two with experts; 34 load vectors in the first; 5 foreign files; 5 settings | the plan is balanced and its busiest rank within 4/3 - 1/(3 World) of the best assignment's, the exchange keeps function and experts, the audit passes exactly when the layer is whole, no rank is let through alone, none is stranded |
| `staging` | 4 requests in 3 cohorts, 6 steps, CUDA or not, one shutdown and more | the split step implements the contract |
| `backpressure` | 2 requests, one output larger than its mailbox | a request ended by back pressure gets no terminal |
| `full_mailbox` | output as large as the mailbox, a live reader | the reader loses tokens of a normal completion |
| `late_submit` | a stop | a request accepted too late is never answered |
| `unsorted_placement` | as `placement` | a file whose rows do not ascend within a rank puts experts into each other's slots |
| `full_hit` | a prefix hit as long as its prompt | a decode step consumes an unfilled column |

The last five are expected violations: the property is a sentence of the
repository, quoted under `findings` in `PROJECT.json` with the line of code that
falsifies it.

**Bounds.** Three rows and five requests give a cohort, requests passed over in
front of it and behind it, an exclusive one among them and a second cohort made
of what was requeued. Prompt lengths are chosen so that a longer and a shorter
candidate both fail the tolerance and a pair within it exists. A queue bound of one is small
enough for four requests to outgrow it, and still lets cohorts of three form, because threads may
pass the length test together. A mailbox of two
is smaller than one request's output and larger than another's, so both a full
and a sufficient mailbox occur in one cohort; the code's 4096 changes only how
long that takes. In `engine` a prompt one longer than its neighbour's gives a
row that is forced through its tail while the other emits; the prefix hit
runs second and overwrites the first cohort's caches. In `placement` three ranks make a pair that is neither sender nor receiver of a
transfer, and three slots a rank are the fewest for which the greedy plan can miss the
best assignment (with two it pairs heaviest with lightest, which is best). The load vectors
are chosen for that: it is best for some, 13 against 12, 25 against 22 and 11 against 9 for
others, and the last, 11/9, is the factor `NearBest` allows; some have equal loads, in some one
expert outweighs all others, and each is tried from several or all starting experts. The dense
layer makes file rows that are not used. The foreign files turn bad at a later layer after an
earlier one moved experts, are too short, belong to a larger model, do not ascend, or move
nothing. In `staging` the number of tokens a step
reads grows from one to three, so that a pinned buffer must be replaced while an
older read is in flight, and six steps use each buffer three times. `MaxSteps` there
and `MaxGeneration` in `SlotClients` and `PrefixStore` are the only counters cut by a guard.

**Fairness.** `Scheduler`: the engine keeps calling `next_plan` (its loop
has no other exit while running, and each of its waits has a timeout),
a submission that passed its tests appends (the next statements of the same
thread), and an active request eventually finishes. The last is strong because
the opportunity comes and goes with each call; it is the finite token budget,
which `Engine` models. The instance has finitely many requests,
so `EventuallyAdmitted` does not speak of arrivals that never end; that these cannot starve
anybody follows from `HeadNeverPassedOver`, every admission takes the first in line, and
`QueueOrder`, nobody gets in front of those who wait.
`Engine`: the engine thread runs, the clock reaches a deadline
that was set, such submissions append, and a reader that has not stalled reads. A wait
without a signal ends because each has a timeout. Nothing is assumed of clients that cancel,
stop or restart, of failures and raising callbacks, of stalled readers.
`ExpertPlacement`: the planner finishes, each rank's loader runs, and a
collective that all ranks have entered completes; nothing makes a rank enter one.

**Deadlock** is checked in `store`, `scheduler` and `prefix`. The other systems stop:
an engine whose thread has exited and whose events are read, ranks that have loaded or
refused, a `staging` run that has used its steps.

## Proofs

Every safety property that a passing run checks is also a theorem, for every value of the
constants, except `NearBest`. The hypotheses are the named assumptions of the modules and,
where a theorem says so, one more; each is named below.

**Rows.** `SlotClients_proofs`: type correctness, no stolen row, unique references, private
rows. The invariant adds two parts. `RefsBehind`: no issued reference is ahead of its
row's generation, and one level with it is the row's current occupancy; without
it a stale reference could become current again. It is also why `alloc` returns no reference
twice, to another request or to the same one (`RefsUnique`): a free row's is ahead of all. `OwnedIsLive`: an owned row's
current occupancy is a live handle.

**Scheduler.** `Scheduler_proofs`, from `SchedulerAssumption` only (natural bounds, a
tolerance of at least one), under `SafetySpec`. The inductive invariant `SchedInv` has these
parts:

- `Partition`: the queued requests are spread over the four lists and the rows,
  each in one place once. `NoRequestLost` speaks of the concatenated line and
  follows with the list lemmas (`HeadTail`, `AppendOne`, `Concatenate`).
- `Span`: `lo` and `hi` bound the cohort and lie within the tolerance of each
  other. `CohortSimilar` is about pairs and not inductive by itself, since the code
  never compares two members; it follows because
  `Den * x <= Den * hi <= Num * lo <= Num * y`.
- `StopMeans`: during the scan `stop` says whether the cohort holds an
  exclusive request, which is what makes the two tests on `exclusive` enough.
- `AcceptedFits`: what submission tested stays true, so the budget test of the scan
  never requeues. With `StopMeans` it gives `HeadNeverPassedOver`.
- `Capacity`: during the scan cohort and candidates fit the table, and
  during publication the rows taken are the first `k` and the rest of the
  cohort fits after them. The first free row is then row `k`, so `alloc` succeeds.
- `Shape`: which lists are empty, and when the table is, by `pc`.

Each action has a lemma; steps that move no request share `NothingMoves`. `QueueOrder` is an
action property about pairs of requests. `LineStep` says what a step does to the
line as a whole: nothing, one request more at its end, or one less at some place. Each of the
three keeps every pair's order.

`QueueBounded` says by how much the queue can outgrow `max_pending_requests`, if never more
than `k` submissions are between their test and their append. The length itself is not
inductive, since an admission takes candidates off the queue, which makes room for new ones, and puts
them back. `QueueInv` bounds what the queue could grow to without another test (`Pressure`): its
length, the submissions past their test, and the candidates popped, those that joined the cohort
included (`Popped`). While something is popped that is the limit, the rows and `k`, less one for
the test; when a scan ends, `HeadNeverPassedOver` says that one candidate was admitted if any was
put back, which is the second one less. TLC finds the bound reached for `k = 1`.

**Engine.** `Engine_proofs`: for every set of requests, prompts, budgets, mailbox size and every
choice of what may fail, raise, stop, restart or stall, from `EngineAssumption`
(prompts not empty, hits inside their prompt, a mailbox that holds something), four
arguments over `SafetySpec`.

- `EngineInv` gives `StreamExact`, `NoGapBeforeEnd` and `FinishedOnce`. What those
  need beyond themselves is `AtHand`, about the record the thread is working on: open
  until it is closed, closed under the reason at hand while its terminal is on the way, and
  evicted from only when its output filled the mailbox, because an open stream of `n`
  tokens has `n` events read and unread (`OpenStream`). `RaisedIsClosed` keeps a
  record whose terminal was lost from being taken up again. `RecordStep` reduces a
  step to the one record it works on.
- `StreamsAreRefined` is about outputs of any length, where `StreamExact` asks for one that
  fits its mailbox. `StreamInv` adds to `EngineInv` what each step of the promise needs:
  a record that is neither closed nor about to be (`Unfinished`) has budget left, since every
  token is followed by a look at the budget before the next; a stream with a terminal in it
  belongs to a record closed for good; the reason at hand is one the budget allows
  (`ReasonGiven`). `Evict` is `Discard` only because a mailbox found full had that
  many tokens produced for it. `StreamStep` maps an engine step to the one request whose
  stream it moves; all others are stutters. `TerminalIsLast` then follows from the promise
  alone (`OrderlyNext`): with overflow and eviction too, tokens ascend without
  repetition, and a terminal is the last event and counts what was produced.
- `SchedulerIsRefined`: steps that touch neither the scheduler nor a finish reason
  are stutters, calls of `next_plan` and `submit` are its own steps, and
  a reason is given only with the scheduler idle and is then its `Finish`, or nothing if
  the request is not active or had one (back pressure, then `_finish`). So what
  `Scheduler_proofs` shows of Scheduler's behaviours holds of the engine's.
- `WaitInv` and `DrainInv` are about one thread's control: an admission begins with
  no active row; a cohort that `on_drain` has not been given is still active or in
  `scheduler.drained`, and is there for certain once an admission has begun. The
  first gives `NoWaitWhileServing`, the second `DrainBeforeOverwrite`.

**Engine and backend.** `EngineBuffer_proofs` is about the width that a prefill fixes for a
cohort whose rows end at different times, are cancelled at any moment, and are decoded until
the last of them is finished. The scheduler's theorems enter through `SchedulerKept`, which
uses the refinement. The invariants build on each other:

- `BackInv`, of the backend alone: `RowInv` says how wide the buffer is and which
  of a row's columns are filled, in terms of the cursor, and `Emitted`, how many tokens a row has
  been staged, is a function of the cursor too. `ConsumesFilled` follows where no prefix hit is
  as long as its prompt (`NoFullHits`); the run `full_hit` shows that it fails otherwise.
- `ResultsInv`: the results not yet delivered are the tail of what the backend staged, the
  record in hand is the first of them or one that a closing loop took up, and a stopped loop
  has none left.
- `CohortInv`: the backend's rows are the scheduler's active rows whenever it may be called
  (`Held`), a row not finished is active, a decode is planned only if some row is not
  finished (`WorkLeft`), and a request with tokens has had its prefill (`Started`).
- `CountInv`: a row that is open has been given, counting the result on its way, just as many
  tokens as were staged for it, one fewer if a cancellation came between the two reads of the
  flag. Since an open row is within its budget, the row that is still open when a decode
  is planned bounds the cursor: `BufferSuffices`, with any prefix hits. A row that closes
  for length or EOS has been given all: `FinishAtBoundary`, for budgets of at least one (see
  the observations) and, like `ConsumesFilled`, where no prefix hit is as long as its prompt
  (`NoFullHits`). The code allows such hits; for them it is false, since the cursor is then at
  prompt + completion, one column further.
- `EndInv`: when all records of a cohort are closed it has been captured, and a record whose
  callbacks raised has sent no terminal: `DrainBeforeLastTerminal`.

`NobodyForgotten` is about all the places a request can be in when the end comes. `AnsweredInv`:
a record closed for good has its terminal in the stream unless its mailbox was full or its callback
raised. `Owed`, from the moment a request is outstanding: it has a reason, or it is queued and, once the
thread has been told to stop, on the list being closed or the record in hand. When that list is made
nobody may be missing from it: `QueuedIsListed` takes from `Partition` that outside `next_plan` rows
and deque are all the places there are.

`LoopTypes` and `FlagTypes` complete `TypeOK`: a mailbox is never over its capacity because a
terminal is only put after room was seen, and nobody else puts.

**Split step.** `StagedReads_proofs`: `Recent`, `Apart`, `PinsFree` and `Underway` say that
only the last two steps are outstanding, never in the same buffer, that the buffer to be used
next is not awaited, and that a copy still to be done belongs to a handle. They give the
refinement of `StepContract` step by step: a copy stutters, and `Staging` is the promise being
made. `SamplesPerRow` shows that gathering the emitting rows, sampling the stochastic ones
among them and scattering back gives each row its own draw and its own cut, since the
number of members up to one is its place in the list (`CountThrough`).

**Prefix store.** `PrefixStore_proofs`: `Distinct` (one entry per key), the byte count as
a sum, and the refinement of `PrefixCache`. The loops of the code are recursive functions in the
model: `EvictionsFacts` characterises the number of evictions as the least that fits,
`BestMatchFacts` the scan's result as a longest match, which is the only one, since two
prefixes of one query that are equally long are equal. `SizeSince` and `SurvivorsKept` turn positions in the dictionary into the
recency relation of the promise.

**Expert placement.** `ExpertPlacement_proofs`: for every number of ranks, experts and layers,
any set of foreign files and settings, with and without audit.

- The planner: `Balanced`, that no rank is ahead of another by more than one expert's load. The
  textbook argument, that a rank only gets an expert while it is the lightest, fails because
  the cap closes full ranks. The invariant `Ahead` repairs it: while `q` has at least as many
  experts as `r`, the gap is smaller than one expert by the load of a remaining expert for each
  one that `q` has more; so when `q` is full, what `r` still gets is paid for. It needs loads that are
  not negative, as the docstring says ("loads: [n_experts] non-negative").
- How good the plan is: `PlanWithinTwice`, that its busiest rank carries at most `2 - 1/World`
  of what the best assignment gives its own. With the gap of `Ahead` in place of the textbook's,
  the argument is Graham's: all shares add up to the load of all experts (`SharesAddUp`), which no
  assignment can spread more thinly than evenly, and some rank has the heaviest expert.
- The exchange: each pair of ranks sends and unpacks the same set of experts whatever the row,
  in some order (`RankOnto`, `ExchangeKeepsAll`): nothing is lost. That each expert also lands
  in its own slot is `PackMeetsUnpack`: where a row ascends within a rank, the sender's order by
  old slot and the receiver's by new slot agree, since the number of experts before a slot
  is the same on both sides. The invariant adds `InStep` (no rank is past an exchange that
  another has not been in), `AtLayer` and `Undeployed` (what each point of a loader says of its
  layer), `GatePermuted`, `HeldMoved` (a slot holds what its place in the sender's buffer held)
  and `BufferPacked`. `FunctionPreserved`, `NoExpertLost`, `ExchangeAgrees` and `AllOrNone`
  (in a model with experts) follow.
- The audit: `CopiesInv`, that what a rank copies and publishes is the layer as it was loaded,
  because nobody can have exchanged it when the copies are taken; and `AuditInv`, that a verdict
  is about the layer as the exchange left it, and that the layer has not changed since. They give
  `AuditMeansWhole`: all ranks' audits of a layer pass exactly when every gate scores what its
  slots hold. This is more than that no expert is lost, which holds for files whose audit fails
  as well (`ExpertsAreKept`).
- End to end: `OwnFilesWork`. `FunctionPreserved` has the hypothesis that the file's rows
  ascend within a rank. The planner's own rows do (`NewToOldIsGood`), so with its file no
  layer is refused, every gate scores its experts and every slot holds the one the file names;
  what `unsorted_placement` shows is confined to foreign files.

**Induction.** The library's induction theorems take an operator, which the provers cannot
match. `UpTo` and `SubsetBySubset` in `Positions_proofs` take instead the set of the
numbers, or of the subsets, that have the property. With them recursive functions and sums
over finite sets are reasoned about like anything else (`FoldUnique`, `SumTake`, `SumUnion`,
`SumRenamed`).

**Only model-checked.** `NearBest`, that the busiest rank carries at most 4/3 - 1/(3 World) of what
the best assignment would give it: the known proofs of that factor are by cases on the optimal
schedule, and for a cap on the experts of a rank we have none. `PlanWithinTwice` is what is proved
in general.
The liveness properties `EventuallyAdmitted`, `NeighboursAnswered` and `NobodyStranded`, which
rest on fairness and `ENABLED`, out of the prover's reach.

## Not modelled

The timeout of `result()`: the tokens it drops are locals of the caller, and nothing says
what a second call should return. Two threads in `start()` at once. The clients of the
prefix store, which capture at `on_finish` and restore later: they are in a server outside
the repository, so what happens to a snapshot across `invalidate` cannot be translated. The
model's forward, the arithmetic of sampling, models that sample for themselves, images and
token types. `PlanRow.positions`, which only the fake backend reads; the fake backend;
`manifest.py`; the statistics that `report()` prints. The two tests of `submit` and its look at
`_dead` are one step; the gap that matters, between them and the append, is there.

## Observations without a run

- Submissions that pass the length test together, and candidates that `_admit` puts back,
  take the wait queue past `max_pending_requests`; `QueueBounded` says how far.
- A wait of the admission window can lose the signal of the submission that fills the
  cohort, which then waits out the window.
- `on_finish` of a request that was cancelled between the two reads of its flag fires one
  column past its last token; `FinishAtBoundary` is about requests not cancelled.
- Nothing in the engine refuses `max_new_tokens = 0` (the type's default is 128). Such a request
  gets one token when its row emits, and in a cohort where that is later than its prompt's end
  it can be closed for length off the column that `FinishAtBoundary` names; the theorem
  about it assumes budgets of at least one.
- A callback that raises in the handler of `_run` ends the loop there: the requests
  after it are left unanswered (`Abandoned`).
- The greedy plan can be worse than no placement: loads 5, 4, 0, 5, 4, 0, 3, 3, 3 on three ranks
  of three give its busiest rank 11, where contiguous ownership has 9 on each. These loads are
  in `placement` (`Worst`); no instance checked loses more (`NearBest`), and in general it is
  less than the double.
- `new_to_old_from_assign` says "heaviest expert first" (`backend/expert_placement.py:79`)
  and emits ascending expert numbers, which `exchange_plan` relies on.

## Plan

Done: the core (rows, scheduler, engine, backend, prefix store), the engine's waits, window,
restart and raising callbacks, each stream against its promise, the split step against its contract, expert placement from
planner to exchange, and a proof of every safety property but `NearBest`. Next:

1. Clients of the prefix store across `invalidate`, once their code is in the repository.
2. `NearBest` for all instances, or one that refutes it.

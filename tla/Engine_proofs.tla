---------------------------- MODULE Engine_proofs ----------------------------
(***************************************************************************)
(* Proofs about Engine, for every set of requests, every mix of prompts,   *)
(* budgets and mailbox sizes, and every choice of what clients, readers,   *)
(* steps and callbacks may do: streams are exact, a request is finished    *)
(* once, and the engine drives the scheduler as Scheduler assumes.         *)
(***************************************************************************)
EXTENDS Engine, SequenceTheorems, TLAPS

Events == [kind : {"token", "terminal"}, position : Nat, reason : Reasons \cup {None}]

-----------------------------------------------------------------------------
\* Streams as sequences.

\* The next token extends the list of those so far.
LEMMA TokensGrow ==
  ASSUME NEW n \in Nat
  PROVE  /\ TokensUpTo(n) \in Seq(Events) /\ Len(TokensUpTo(n)) = n
         /\ Token(n) \in Events
         /\ TokensUpTo(n + 1) = Append(TokensUpTo(n), Token(n))
<1>1. \A k \in Nat : Token(k) \in Events
  BY DEF Token, Events
<1>2. \A k \in Nat : TokensUpTo(k) \in Seq(Events) /\ Len(TokensUpTo(k)) = k
  <2> TAKE k \in Nat
  <2>1. \A i \in 1 .. k : Token(i - 1) \in Events
    BY <1>1
  <2>2. QED
    BY <2>1 DEF TokensUpTo
<1>3. TokensUpTo(n + 1) = Append(TokensUpTo(n), Token(n))
  <2>1. Append(TokensUpTo(n), Token(n)) \in Seq(Events)
    BY <1>1, <1>2
  <2>2. Len(Append(TokensUpTo(n), Token(n))) = n + 1
    BY <1>1, <1>2
  <2>3. \A i \in 1 .. n + 1 : TokensUpTo(n + 1)[i] = Append(TokensUpTo(n), Token(n))[i]
    BY <1>1, <1>2 DEF TokensUpTo
  <2>4. TokensUpTo(n + 1) \in Seq(Events) /\ Len(TokensUpTo(n + 1)) = n + 1
    BY <1>2
  <2>5. QED
    BY <2>1, <2>2, <2>3, <2>4, SeqEqual
<1>4. QED
  BY <1>1, <1>2, <1>3

\* An event put into the mailbox is the last of the stream.
LEMMA PutExtends ==
  ASSUME NEW x \in Seq(Events), NEW m \in Seq(Events), NEW e \in Events
  PROVE  x \o Append(m, e) = Append(x \o m, e)
<1>1. <<e>> \in Seq(Events) /\ x \o m \in Seq(Events)
  OBVIOUS
<1>2. x \o (m \o <<e>>) = (x \o m) \o <<e>>
  BY <1>1, ConcatAssociative
<1>3. QED
  BY <1>1, <1>2, AppendIsConcat

\* Reading moves the boundary between what is read and what is not.
LEMMA ReadMoves ==
  ASSUME NEW x \in Seq(Events), NEW m \in Seq(Events), m # <<>>
  PROVE  Append(x, Head(m)) \o Tail(m) = x \o m
<1>1. Head(m) \in Events /\ Tail(m) \in Seq(Events) /\ <<Head(m)>> \in Seq(Events)
  OBVIOUS
<1>2. m = <<Head(m)>> \o Tail(m)
  BY <1>1, SeqEqual, ConcatProperties, HeadTailProperties
<1>3. (x \o <<Head(m)>>) \o Tail(m) = x \o (<<Head(m)>> \o Tail(m))
  BY <1>1, ConcatAssociative
<1>4. QED
  BY <1>1, <1>2, <1>3, AppendIsConcat

-----------------------------------------------------------------------------
\* The inductive invariant.

RecordTypes ==
    /\ finishReason \in [Requests -> Reasons \cup {None}]
    /\ terminalSent \in [Requests -> BOOLEAN]
    /\ completion \in [Requests -> Nat]
    /\ mailbox \in [Requests -> Seq(Events)]
    /\ received \in [Requests -> Seq(Events)]
    /\ current.reason \in Reasons \cup {None}

\* Where the engine thread works on the record in current.
Busy == {"token", "finish", "terminal", "evict"}

\* A closed record has a finish reason.
ClosedHasReason == \A r \in Requests : terminalSent[r] => finishReason[r] # None

\* The record at hand: open until it is finished, closed while its terminal is
\* on the way, and evicted only when it filled its mailbox.
AtHand(r) ==
    current.req = r =>
        /\ epc \in {"token", "finish"} => ~terminalSent[r]
        /\ epc \in {"terminal", "evict"} =>
             terminalSent[r] /\ r \notin raised /\ finishReason[r] = current.reason
        /\ epc = "evict" => completion[r] >= MailboxCap

\* Only a record that was closed without its callbacks has lost its terminal.
RaisedIsClosed == \A r \in Requests : r \in raised => terminalSent[r]

EngineInv ==
    /\ RecordTypes
    /\ epc # "planning" => spc = "idle"
    /\ epc \in {"finish", "terminal", "evict"} => current.reason # None
    /\ ClosedHasReason /\ RaisedIsClosed
    /\ \A r \in Requests : AtHand(r)
    /\ StreamExact
    /\ NoGapBeforeEnd

\* What the stream of r depends on.
recordOf(r) == <<finishReason[r], terminalSent[r], completion[r], mailbox[r], received[r]>>
streamVars == <<finishReason, terminalSent, completion, mailbox, received, raised>>

LEMMA EngineInvInit == Init => EngineInv
<1> SUFFICES ASSUME Init PROVE EngineInv
  OBVIOUS
<1>1. RecordTypes /\ epc = "top" /\ spc = "idle"
  BY DEF Init, RecordTypes, Sched!Init
<1>2. \A r \in Requests : Stream(r) = <<>> /\ TokensUpTo(0) = <<>> /\ ~TerminalQueued(r)
  BY DEF Init, Stream, TokensUpTo, TerminalQueued
<1>3. StreamExact /\ NoGapBeforeEnd
  <2>1. <<>> \o <<>> = <<>>
    OBVIOUS
  <2>2. \A r \in Requests : completion[r] = 0 /\ (finishReason[r] = "backpressure" => FALSE)
    BY EngineAssumption DEF Init, Reasons
  <2>3. StreamExact
    BY <1>2, <2>1, <2>2 DEF StreamExact
  <2>4. NoGapBeforeEnd
    BY <1>2, <2>2 DEF NoGapBeforeEnd
  <2>5. QED
    BY <2>3, <2>4
<1>4. QED
  BY <1>1, <1>3 DEF Init, EngineInv, ClosedHasReason, RaisedIsClosed, AtHand

\* A step that touches no record, and does not enter or leave one.
LEMMA QuietStep ==
  ASSUME EngineInv, UNCHANGED <<streamVars, current>>,
         epc' = epc \/ (epc \notin Busy /\ epc' \notin Busy),
         epc' # "planning" => spc' = "idle"
  PROVE  EngineInv'
<1>1. \A r \in Requests : Stream(r)' = Stream(r) /\ (TerminalQueued(r)' <=> TerminalQueued(r))
  BY DEF streamVars, Stream, TerminalQueued, Busy
<1>2. StreamExact' /\ NoGapBeforeEnd'
  BY <1>1 DEF EngineInv, StreamExact, NoGapBeforeEnd, streamVars
<1>3. QED
  BY <1>2 DEF EngineInv, RecordTypes, ClosedHasReason, RaisedIsClosed, AtHand, streamVars, Busy

-----------------------------------------------------------------------------
\* The steps.

\* The steps of API threads other than reading are quiet.
LEMMA ClientStep ==
  ASSUME EngineInv,
         \/ \E r \in Requests : SubmitTests(r) \/ SubmitAppend(r) \/ Cancel(r)
         \/ PostStop \/ ShutdownBackend \/ Start \/ WindowPasses
  PROVE  EngineInv'
<1>1. UNCHANGED <<streamVars, current>>
  BY DEF SubmitTests, SubmitAppend, Cancel, PostStop, ShutdownBackend, Start, WindowPasses,
         streamVars, state, loopVars, clientVars, recordVars, flagVars, endVars
<1>2. epc' = epc \/ (epc = "exited" /\ epc' = "top")
  BY DEF SubmitTests, SubmitAppend, Cancel, PostStop, ShutdownBackend, Start, WindowPasses
<1>3. spc' = spc
  BY DEF SubmitTests, SubmitAppend, Cancel, PostStop, ShutdownBackend, Start, WindowPasses,
         state, schedVars, Sched!SubmitReject, Sched!SubmitCheck, Sched!SubmitAppend
<1>4. QED
  BY <1>1, <1>2, <1>3, QuietStep DEF EngineInv, Busy

\* So are the engine thread's steps that work on no record.
LoopStep ==
    \/ DeadAtStart \/ DrainControl \/ HoldOpen \/ PassWindow \/ Clear \/ Wake
    \/ BeginPrefill \/ BeginDecode \/ StepRefused \/ StepFails \/ EndStep
    \/ DeliverDone \/ Die \/ Exit

LEMMA LoopStepQuiet == ASSUME EngineInv, LoopStep PROVE EngineInv'
<1>1. UNCHANGED <<streamVars, current, schedVars>>
  BY DEF LoopStep, DeadAtStart, DrainControl, HoldOpen, PassWindow, Clear, Wake, BeginPrefill,
         BeginDecode, StepRefused, StepFails, EndStep, DeliverDone, Die, Exit, streamVars,
         state, loopVars, clientVars, recordVars, flagVars, endVars
<1>2. epc # "planning" /\ epc \notin Busy /\ epc' \notin Busy
  BY DEF LoopStep, DeadAtStart, DrainControl, HoldOpen, PassWindow, Clear, Wake, BeginPrefill,
         BeginDecode, StepRefused, StepFails, EndStep, DeliverDone, Die, Exit, Busy
<1>3. spc' = spc
  BY <1>1 DEF schedVars
<1>4. QED
  BY <1>1, <1>2, <1>3, QuietStep DEF EngineInv

\* And its calls of the scheduler.
LEMMA PlanStepQuiet ==
  ASSUME EngineInv, Planning \/ AfterPlan \/ AfterPlanRaises
  PROVE  EngineInv'
<1>1. UNCHANGED <<streamVars, current>>
  BY DEF Planning, AfterPlan, AfterPlanRaises, streamVars, loopVars, clientVars, recordVars,
         flagVars, endVars
<1>2. epc = "planning" /\ epc' \in {"planning", "clear", "step", "dying"}
  BY DEF Planning, AfterPlan, AfterPlanRaises
<1>3. epc' # "planning" => spc' = "idle"
  BY DEF Planning, AfterPlan, AfterPlanRaises, Sched!TakePlan
<1>4. QED
  BY <1>1, <1>2, <1>3, QuietStep DEF Busy

\* A step that works on the record of one request: what it must show for that
\* request, when it leaves the records of the others alone.
LEMMA RecordStep ==
  ASSUME EngineInv, NEW q, UNCHANGED spc, epc # "planning", epc' # "planning",
         RecordTypes', current.req = q \/ epc \notin Busy, current'.req = q \/ epc' \notin Busy,
         epc' \in {"finish", "terminal", "evict"} => current'.reason # None,
         \A r \in Requests \ {q} : UNCHANGED recordOf(r) /\ (r \in raised' <=> r \in raised),
         ASSUME q \in Requests
         PROVE  /\ terminalSent'[q] => finishReason'[q] # None
                /\ q \in raised' => terminalSent'[q]
                /\ AtHand(q)'
                /\ completion'[q] < MailboxCap =>
                     Stream(q)' = TokensUpTo(completion'[q])
                                    \o (IF TerminalQueued(q)'
                                        THEN <<Terminal(finishReason'[q], completion'[q])>>
                                        ELSE <<>>)
                /\ ~terminalSent'[q] =>
                     Stream(q)' = TokensUpTo(IF finishReason'[q] = "backpressure"
                                             THEN completion'[q] - 1 ELSE completion'[q])
  PROVE  EngineInv'
<1>1. ASSUME NEW r \in Requests, r # q
      PROVE  /\ Stream(r)' = Stream(r) /\ (TerminalQueued(r)' <=> TerminalQueued(r))
             /\ AtHand(r)'
  <2>1. UNCHANGED recordOf(r) /\ (r \in raised' <=> r \in raised)
    BY <1>1
  <2>2. current.req # r \/ epc \notin Busy
    BY <1>1
  <2>3. current'.req # r \/ epc' \notin Busy
    BY <1>1
  <2>4. Stream(r)' = Stream(r) /\ (TerminalQueued(r)' <=> TerminalQueued(r))
    BY <2>1, <2>2, <2>3 DEF recordOf, Stream, TerminalQueued, Busy
  <2>5. AtHand(r)'
    BY <2>3 DEF AtHand, Busy
  <2>6. QED
    BY <2>4, <2>5
<1>2. StreamExact'
  BY <1>1 DEF EngineInv, StreamExact, recordOf
<1>3. NoGapBeforeEnd'
  BY <1>1 DEF EngineInv, NoGapBeforeEnd, recordOf
<1>4. ClosedHasReason' /\ RaisedIsClosed'
  BY DEF EngineInv, ClosedHasReason, RaisedIsClosed, recordOf
<1>5. \A r \in Requests : AtHand(r)'
  BY <1>1
<1>6. QED
  BY <1>2, <1>3, <1>4, <1>5 DEF EngineInv

\* A reader takes the next event.
LEMMA ReadStep == ASSUME EngineInv, NEW q \in Requests, Read(q) PROVE EngineInv'
<1>1. /\ UNCHANGED <<finishReason, terminalSent, completion, raised, current, epc, spc>>
      /\ mailbox[q] # <<>> /\ mailbox[q] \in Seq(Events) /\ received[q] \in Seq(Events)
      /\ mailbox' = [mailbox EXCEPT ![q] = Tail(@)]
      /\ received' = [received EXCEPT ![q] = Append(@, Head(mailbox[q]))]
  BY DEF Read, EngineInv, RecordTypes, schedVars, loopVars, recordVars, flagVars, endVars
<1>2. RecordTypes'
  <2>1. Tail(mailbox[q]) \in Seq(Events) /\ Append(received[q], Head(mailbox[q])) \in Seq(Events)
    BY <1>1
  <2>2. QED
    BY <1>1, <2>1 DEF EngineInv, RecordTypes
<1>3. \A r \in Requests : Stream(r)' = Stream(r) /\ (TerminalQueued(r)' <=> TerminalQueued(r))
  <2>1. Stream(q)' = Stream(q)
    BY <1>1, ReadMoves DEF Stream, EngineInv, RecordTypes
  <2>2. \A r \in Requests \ {q} : Stream(r)' = Stream(r)
    BY <1>1 DEF Stream, EngineInv, RecordTypes
  <2>3. QED
    BY <1>1, <2>1, <2>2 DEF TerminalQueued
<1>4. StreamExact' /\ NoGapBeforeEnd'
  BY <1>1, <1>3 DEF EngineInv, StreamExact, NoGapBeforeEnd
<1>5. QED
  BY <1>1, <1>2, <1>4 DEF EngineInv, ClosedHasReason, RaisedIsClosed, AtHand

\* A record is taken in hand, by delivery or by a closing loop, only while open.
LEMMA TakeInHand ==
  ASSUME EngineInv, NEW q, UNCHANGED <<streamVars, spc>>, epc \notin Busy, epc # "planning",
         epc' \in {"token", "finish"}, current'.req = q,
         current'.reason \in Reasons \cup {None}, epc' = "finish" => current'.reason # None,
         q \in Requests => finishReason[q] = None
  PROVE  EngineInv'
<1>1. \A r \in Requests : Stream(r)' = Stream(r) /\ (TerminalQueued(r)' <=> TerminalQueued(r))
  BY DEF streamVars, Stream, TerminalQueued, Busy
<1>2. StreamExact' /\ NoGapBeforeEnd'
  BY <1>1 DEF EngineInv, StreamExact, NoGapBeforeEnd, streamVars
<1>3. RecordTypes' /\ ClosedHasReason' /\ RaisedIsClosed'
  BY DEF EngineInv, RecordTypes, ClosedHasReason, RaisedIsClosed, streamVars
<1>4. \A r \in Requests : AtHand(r)'
  <2> TAKE r \in Requests
  <2>1. current'.req = r => ~terminalSent'[r]
    BY DEF EngineInv, ClosedHasReason, streamVars
  <2>2. QED
    BY <2>1 DEF AtHand
<1>5. QED
  BY <1>2, <1>3, <1>4 DEF EngineInv

LEMMA DeliverNextStep == ASSUME EngineInv, DeliverNext PROVE EngineInv'
<1> DEFINE q == Head(results).req
<1>1. /\ UNCHANGED <<streamVars, spc>> /\ epc = "deliver"
      /\ \/ UNCHANGED <<current, epc>>
         \/ /\ ~Skips(q) /\ epc' = "token"
            /\ \E reason \in IF q \in cancel THEN {"cancelled"}
                                             ELSE Back!Reported(Head(results).emits) :
                 current' = [req |-> q, reason |-> reason]
  BY DEF DeliverNext, streamVars, recordVars, clientVars, flagVars, endVars, schedVars
<1>2. CASE UNCHANGED <<current, epc>>
  BY <1>1, <1>2, QuietStep DEF EngineInv
<1>3. CASE /\ ~Skips(q) /\ epc' = "token"
           /\ \E reason \in IF q \in cancel THEN {"cancelled"}
                                            ELSE Back!Reported(Head(results).emits) :
                current' = [req |-> q, reason |-> reason]
  <2>1. current'.req = q /\ current'.reason \in Reasons \cup {None}
    BY <1>3 DEF Back!Reported, Reasons
  <2>2. finishReason[q] = None
    BY <1>3 DEF Skips
  <2>3. QED
    BY <1>1, <1>3, <2>1, <2>2, TakeInHand DEF Busy
<1>4. QED
  BY <1>1, <1>2, <1>3

LEMMA CloseStep == ASSUME EngineInv, Close PROVE EngineInv'
<1> DEFINE q == Head(todo)
<1>1. /\ UNCHANGED <<streamVars, spc>> /\ epc = "closing"
      /\ \/ UNCHANGED <<current, epc>>
         \/ /\ ~IsClosed(q) /\ epc' = "finish"
            /\ current' = [req |-> q, reason |-> "cancelled"]
  BY DEF Close, streamVars, recordVars, clientVars, flagVars, endVars, schedVars
<1>2. CASE UNCHANGED <<current, epc>>
  BY <1>1, <1>2, QuietStep DEF EngineInv
<1>3. CASE ~IsClosed(q) /\ epc' = "finish" /\ current' = [req |-> q, reason |-> "cancelled"]
  BY <1>1, <1>3, EngineAssumption, TakeInHand DEF Busy, Reasons, IsClosed
<1>4. QED
  BY <1>1, <1>2, <1>3

\* An open record whose stream is not at its end: the tokens so far, no terminal.
LEMMA OpenStream ==
  ASSUME EngineInv, NEW q \in Requests, ~terminalSent[q], finishReason[q] # "backpressure"
  PROVE  /\ Stream(q) = TokensUpTo(completion[q]) /\ completion[q] \in Nat
         /\ ~HasRoom(q) => completion[q] >= MailboxCap
<1>1. /\ Stream(q) = TokensUpTo(completion[q]) /\ completion[q] \in Nat
      /\ mailbox[q] \in Seq(Events) /\ received[q] \in Seq(Events)
  BY DEF EngineInv, NoGapBeforeEnd, RecordTypes
<1>2. Len(Stream(q)) = Len(received[q]) + Len(mailbox[q])
  BY <1>1, ConcatProperties DEF Stream
<1>3. Len(Stream(q)) = completion[q]
  BY <1>1, TokensGrow
<1>4. Len(mailbox[q]) \in Nat /\ Len(received[q]) \in Nat
  BY <1>1
<1>5. completion[q] >= Len(mailbox[q])
  <2>1. completion[q] = Len(received[q]) + Len(mailbox[q])
    BY <1>2, <1>3
  <2>2. \A x, y \in Nat : x + y >= y
    OBVIOUS
  <2>3. QED
    BY <1>4, <2>1, <2>2
<1>6. ~HasRoom(q) => completion[q] >= MailboxCap
  BY <1>1, <1>4, <1>5, EngineAssumption DEF HasRoom
<1>7. QED
  BY <1>1, <1>6

LEMMA DeliverTokenStep == ASSUME EngineInv, DeliverToken PROVE EngineInv'
<1> DEFINE q == current.req
           emits == Head(results).emits /\ finishReason[q] = None /\ q \notin cancel
           c == completion[q]
<1>1. /\ UNCHANGED <<terminalSent, received, raised, spc>> /\ epc = "token"
      /\ epc' \in {"deliver", "finish"} /\ current'.req = q
      /\ current'.reason \in {current.reason, "length"}
      /\ epc' = "finish" => current'.reason # None
  BY DEF DeliverToken, schedVars, flagVars, endVars
<1>2. \/ UNCHANGED <<completion, mailbox, finishReason>>
      \/ EmitToken(q) /\ finishReason[q] = None
  BY DEF DeliverToken
<1>3. CASE UNCHANGED <<completion, mailbox, finishReason>>
  <2>1. RecordTypes'
    BY <1>1, <1>3 DEF EngineInv, RecordTypes, Reasons
  <2>2. ASSUME NEW r \in Requests
        PROVE  UNCHANGED recordOf(r) /\ Stream(r)' = Stream(r)
                 /\ (TerminalQueued(r)' <=> TerminalQueued(r))
    BY <1>1, <1>3 DEF recordOf, Stream, TerminalQueued
  <2>3. ASSUME q \in Requests PROVE AtHand(q)' /\ ~terminalSent[q]
    BY <1>1, <2>3 DEF EngineInv, AtHand
  <2>4. StreamExact' /\ NoGapBeforeEnd'
    BY <1>1, <1>3, <2>2 DEF EngineInv, StreamExact, NoGapBeforeEnd
  <2>5. \A r \in Requests : AtHand(r)'
    BY <1>1, <2>3 DEF AtHand
  <2>6. QED
    BY <1>1, <1>3, <2>1, <2>4, <2>5 DEF EngineInv, ClosedHasReason, RaisedIsClosed
<1>4. CASE EmitToken(q) /\ finishReason[q] = None
  <2>1. ASSUME q \in Requests
        PROVE  /\ ~terminalSent[q] /\ Stream(q) = TokensUpTo(c) /\ c \in Nat
               /\ ~HasRoom(q) => c >= MailboxCap
               /\ mailbox[q] \in Seq(Events) /\ received[q] \in Seq(Events)
    <3>1. ~terminalSent[q] /\ finishReason[q] # "backpressure"
      BY <1>1, <1>4, <2>1, EngineAssumption DEF EngineInv, AtHand, Reasons
    <3>2. QED
      BY <2>1, <3>1, OpenStream DEF EngineInv, RecordTypes
  <2>2. ASSUME NEW r \in Requests \ {q} PROVE UNCHANGED recordOf(r)
    BY <1>1, <1>4 DEF EmitToken, recordOf, EngineInv, RecordTypes
  <2>3. CASE HasRoom(q)
    <3>1. /\ completion' = [completion EXCEPT ![q] = @ + 1] /\ UNCHANGED finishReason
          /\ mailbox' = [mailbox EXCEPT ![q] = Append(@, Token(c))]
      BY <1>4, <2>3 DEF EmitToken
    <3>2. RecordTypes'
      <4>1. CASE q \in Requests
        <5>1. Append(mailbox[q], Token(c)) \in Seq(Events) /\ c + 1 \in Nat
          BY <2>1, <4>1, TokensGrow
        <5>2. QED
          BY <1>1, <3>1, <5>1 DEF EngineInv, RecordTypes, Reasons
      <4>2. CASE q \notin Requests
        BY <1>1, <3>1, <4>2 DEF EngineInv, RecordTypes, Reasons
      <4>3. QED
        BY <4>1, <4>2
    <3>3. ASSUME q \in Requests
          PROVE  /\ Stream(q)' = TokensUpTo(c + 1) /\ completion'[q] = c + 1
                 /\ TokensUpTo(c + 1) \o <<>> = TokensUpTo(c + 1)
      <4>1. mailbox'[q] = Append(mailbox[q], Token(c)) /\ completion'[q] = c + 1
        BY <3>1, <3>3 DEF EngineInv, RecordTypes
      <4>2. Stream(q)' = Append(Stream(q), Token(c))
        <5>1. received[q] \o Append(mailbox[q], Token(c)) = Append(received[q] \o mailbox[q], Token(c))
          BY <2>1, <3>3, PutExtends, TokensGrow
        <5>2. QED
          BY <1>1, <4>1, <5>1 DEF Stream
      <4>3. c + 1 \in Nat
        BY <2>1, <3>3
      <4>4. QED
        BY <2>1, <3>3, <4>1, <4>2, <4>3, TokensGrow, ConcatEmptySeq
    <3>4. ASSUME q \in Requests
          PROVE  /\ terminalSent'[q] => finishReason'[q] # None
                 /\ q \in raised' => terminalSent'[q]
                 /\ AtHand(q)' /\ ~terminalSent'[q] /\ ~TerminalQueued(q)'
                 /\ finishReason'[q] # "backpressure"
      BY <1>1, <1>4, <2>1, <3>1, <3>4, EngineAssumption
      DEF EngineInv, RaisedIsClosed, AtHand, TerminalQueued, Reasons
    <3>5. QED
      BY <1>1, <2>2, <3>2, <3>3, <3>4, RecordStep DEF Busy
  <2>4. CASE ~HasRoom(q)
    <3>1. /\ completion' = [completion EXCEPT ![q] = @ + 1] /\ UNCHANGED mailbox
          /\ finishReason' = [finishReason EXCEPT ![q] = "backpressure"]
      BY <1>4, <2>4 DEF EmitToken
    <3>2. RecordTypes'
      <4>1. finishReason' \in [Requests -> Reasons \cup {None}]
        BY <3>1 DEF EngineInv, RecordTypes, Reasons
      <4>2. completion' \in [Requests -> Nat]
        <5>1. CASE q \in Requests
          BY <2>1, <3>1, <5>1 DEF EngineInv, RecordTypes
        <5>2. CASE q \notin Requests
          BY <3>1, <5>2 DEF EngineInv, RecordTypes
        <5>3. QED
          BY <5>1, <5>2
      <4>3. QED
        BY <1>1, <3>1, <4>1, <4>2 DEF EngineInv, RecordTypes, Reasons
    <3>3. ASSUME q \in Requests
          PROVE  /\ Stream(q)' = TokensUpTo(completion'[q] - 1)
                 /\ ~(completion'[q] < MailboxCap)
      <4>1. completion'[q] = c + 1 /\ mailbox'[q] = mailbox[q]
        BY <3>1, <3>3 DEF EngineInv, RecordTypes
      <4>2. c + 1 - 1 = c /\ ~(c + 1 < MailboxCap)
        BY <2>1, <2>4, <3>3, EngineAssumption
      <4>3. Stream(q)' = Stream(q)
        BY <1>1, <4>1 DEF Stream
      <4>4. QED
        BY <2>1, <3>3, <4>1, <4>2, <4>3
    <3>4. ASSUME q \in Requests
          PROVE  /\ terminalSent'[q] => finishReason'[q] # None
                 /\ q \in raised' => terminalSent'[q]
                 /\ AtHand(q)' /\ finishReason'[q] = "backpressure"
      BY <1>1, <2>1, <3>1, <3>4
      DEF EngineInv, RaisedIsClosed, AtHand, RecordTypes
    <3>5. QED
      BY <1>1, <2>2, <3>2, <3>3, <3>4, RecordStep DEF Busy
  <2>5. QED
    BY <2>3, <2>4
<1>5. QED
  BY <1>2, <1>3, <1>4

\* _finish closes a record that was open: its stream has every token so far,
\* and its terminal is on the way.
LEMMA FinishStep == ASSUME EngineInv, Finish PROVE EngineInv'
<1> DEFINE q == current.req
<1>1. /\ epc = "finish" /\ epc' = "terminal" /\ current.reason # None
      /\ UNCHANGED <<completion, mailbox, received, raised, current, spc>>
      /\ finishReason' = [finishReason EXCEPT ![q] = current.reason]
      /\ terminalSent' = [terminalSent EXCEPT ![q] = TRUE]
  BY DEF Finish, CloseRecord, RowStays, schedVars, clientVars, flagVars, endVars, EngineInv
<1>2. RecordTypes'
  BY <1>1 DEF EngineInv, RecordTypes
<1>3. ASSUME NEW r \in Requests \ {q} PROVE UNCHANGED recordOf(r)
  BY <1>1 DEF recordOf, EngineInv, RecordTypes
<1>4. ASSUME q \in Requests
      PROVE  /\ terminalSent'[q] /\ finishReason'[q] = current.reason
             /\ q \notin raised' /\ ~TerminalQueued(q)' /\ AtHand(q)'
             /\ completion'[q] < MailboxCap => Stream(q)' = TokensUpTo(completion'[q]) \o <<>>
  <2>1. ~terminalSent[q] /\ q \notin raised /\ ~TerminalQueued(q)
    BY <1>1, <1>4 DEF EngineInv, AtHand, RaisedIsClosed, TerminalQueued
  <2>2. terminalSent'[q] /\ finishReason'[q] = current.reason
    BY <1>1, <1>4 DEF EngineInv, RecordTypes
  <2>3. q \notin raised' /\ ~TerminalQueued(q)' /\ AtHand(q)'
    BY <1>1, <2>1, <2>2 DEF TerminalQueued, AtHand
  <2>4. completion[q] < MailboxCap => Stream(q) = TokensUpTo(completion[q]) \o <<>>
    BY <1>4, <2>1 DEF EngineInv, StreamExact
  <2>5. Stream(q)' = Stream(q)
    BY <1>1 DEF Stream
  <2>6. QED
    BY <1>1, <2>2, <2>3, <2>4, <2>5
<1>5. QED
  BY <1>1, <1>2, <1>3, <1>4, RecordStep

\* A record whose callbacks raise is closed and will get no terminal.
LEMMA FinishRaisesStep == ASSUME EngineInv, FinishRaises PROVE EngineInv'
<1> DEFINE q == current.req
<1>1. /\ epc = "finish" /\ epc' \in {"exited", "dying"} /\ current.reason # None
      /\ UNCHANGED <<completion, mailbox, received, current, spc>>
      /\ raised' = raised \cup {q}
      /\ finishReason' = [finishReason EXCEPT ![q] = current.reason]
      /\ terminalSent' = [terminalSent EXCEPT ![q] = TRUE]
  BY DEF FinishRaises, CloseRecord, schedVars, loopVars, clientVars, EngineInv
<1>2. RecordTypes'
  BY <1>1 DEF EngineInv, RecordTypes
<1>3. ASSUME NEW r \in Requests \ {q} PROVE UNCHANGED recordOf(r) /\ (r \in raised' <=> r \in raised)
  BY <1>1 DEF recordOf, EngineInv, RecordTypes
<1>4. ASSUME q \in Requests
      PROVE  /\ terminalSent'[q] /\ finishReason'[q] = current.reason
             /\ ~TerminalQueued(q)' /\ AtHand(q)'
             /\ completion'[q] < MailboxCap => Stream(q)' = TokensUpTo(completion'[q]) \o <<>>
  <2>1. ~TerminalQueued(q)
    BY <1>1, <1>4 DEF EngineInv, AtHand, TerminalQueued
  <2>2. terminalSent'[q] /\ finishReason'[q] = current.reason
    BY <1>1, <1>4 DEF EngineInv, RecordTypes
  <2>3. ~TerminalQueued(q)' /\ AtHand(q)'
    BY <1>1 DEF TerminalQueued, AtHand
  <2>4. completion[q] < MailboxCap => Stream(q) = TokensUpTo(completion[q]) \o <<>>
    BY <1>4, <2>1 DEF EngineInv, StreamExact
  <2>5. Stream(q)' = Stream(q)
    BY <1>1 DEF Stream
  <2>6. QED
    BY <1>1, <2>2, <2>3, <2>4, <2>5
<1>5. QED
  BY <1>1, <1>2, <1>3, <1>4, RecordStep DEF Busy

\* Putting into or taking from one mailbox keeps all of them mailboxes.
LEMMA BoxesStay ==
  ASSUME mailbox \in [Requests -> Seq(Events)], NEW q, NEW m, q \in Requests => m \in Seq(Events),
         mailbox' = [mailbox EXCEPT ![q] = m]
  PROVE  mailbox' \in [Requests -> Seq(Events)]
<1>1. CASE q \in Requests
  BY <1>1
<1>2. CASE q \notin Requests
  BY <1>2
<1>3. QED
  BY <1>1, <1>2

\* Where _finish returns to, no record is at hand.
LEMMA ReturnsToLoop == FinishReturns => epc' \in {"deliver", "closing"}
BY DEF FinishReturns

\* The terminal is put after the tokens, if there is room; if not, the stream
\* has filled its mailbox.
LEMMA EmitTerminalStep == ASSUME EngineInv, EmitTerminal PROVE EngineInv'
<1> DEFINE q == current.req
           end == Terminal(current.reason, completion[q])
<1>1. /\ epc = "terminal" /\ current.reason # None
      /\ UNCHANGED <<finishReason, terminalSent, completion, received, raised, current, spc>>
      /\ \/ HasRoom(q) /\ PutTerminal(q) /\ epc' \in {"deliver", "closing"}
         \/ ~HasRoom(q) /\ epc' = "evict" /\ UNCHANGED mailbox
  BY ReturnsToLoop DEF EmitTerminal, schedVars, recordVars, flagVars, endVars, EngineInv
<1>2. ASSUME q \in Requests
      PROVE  /\ terminalSent[q] /\ finishReason[q] = current.reason /\ q \notin raised
             /\ ~TerminalQueued(q)
             /\ completion[q] < MailboxCap => Stream(q) = TokensUpTo(completion[q]) \o <<>>
             /\ completion[q] \in Nat /\ mailbox[q] \in Seq(Events) /\ received[q] \in Seq(Events)
             /\ end \in Events
  <2>1. terminalSent[q] /\ finishReason[q] = current.reason /\ q \notin raised
    BY <1>1, <1>2 DEF EngineInv, AtHand
  <2>2. ~TerminalQueued(q)
    BY <1>1 DEF TerminalQueued
  <2>3. completion[q] < MailboxCap => Stream(q) = TokensUpTo(completion[q]) \o <<>>
    BY <1>2, <2>2 DEF EngineInv, StreamExact
  <2>4. completion[q] \in Nat /\ mailbox[q] \in Seq(Events) /\ received[q] \in Seq(Events)
    BY <1>2 DEF EngineInv, RecordTypes
  <2>5. end \in Events
    BY <2>4 DEF Terminal, Events, EngineInv, RecordTypes
  <2>6. QED
    BY <2>1, <2>2, <2>3, <2>4, <2>5
<1>3. CASE HasRoom(q) /\ PutTerminal(q) /\ epc' \in {"deliver", "closing"}
  <2>1. mailbox' = [mailbox EXCEPT ![q] = Append(@, end)]
    BY <1>3 DEF PutTerminal
  <2>2. RecordTypes'
    <3>1. q \in Requests => Append(mailbox[q], end) \in Seq(Events)
      BY <1>2
    <3>2. mailbox' \in [Requests -> Seq(Events)]
      BY <2>1, <3>1, BoxesStay DEF EngineInv, RecordTypes
    <3>3. QED
      BY <1>1, <3>2 DEF EngineInv, RecordTypes
  <2>3. ASSUME NEW r \in Requests \ {q} PROVE UNCHANGED recordOf(r)
    BY <1>1, <2>1 DEF recordOf, EngineInv, RecordTypes
  <2>4. ASSUME q \in Requests
        PROVE  /\ TerminalQueued(q)' /\ AtHand(q)'
               /\ completion'[q] < MailboxCap =>
                    Stream(q)' = TokensUpTo(completion'[q])
                                   \o <<Terminal(finishReason'[q], completion'[q])>>
    <3>1. TerminalQueued(q)' /\ AtHand(q)'
      BY <1>1, <1>2, <1>3, <2>4 DEF TerminalQueued, AtHand
    <3>2. mailbox'[q] = Append(mailbox[q], end)
      BY <2>1, <2>4 DEF EngineInv, RecordTypes
    <3>3. Stream(q)' = Append(Stream(q), end)
      BY <1>1, <1>2, <2>4, <3>2, PutExtends DEF Stream
    <3>4. ASSUME completion[q] < MailboxCap
          PROVE  Append(Stream(q), end) = TokensUpTo(completion[q]) \o <<end>>
      <4>1. TokensUpTo(completion[q]) \in Seq(Events)
        BY <1>2, <2>4, TokensGrow
      <4>2. Stream(q) = TokensUpTo(completion[q])
        BY <1>2, <2>4, <3>4, <4>1, ConcatEmptySeq
      <4>3. QED
        BY <1>2, <2>4, <4>1, <4>2, AppendIsConcat
    <3>5. QED
      BY <1>1, <1>2, <2>4, <3>1, <3>3, <3>4
  <2>5. ASSUME q \in Requests
        PROVE  finishReason'[q] # None /\ q \notin raised' /\ terminalSent'[q]
    BY <1>1, <1>2, <2>5
  <2>6. QED
    BY <1>1, <1>3, <2>2, <2>3, <2>4, <2>5, RecordStep DEF Busy
<1>4. CASE ~HasRoom(q) /\ epc' = "evict" /\ UNCHANGED mailbox
  <2>1. RecordTypes'
    BY <1>1, <1>4 DEF EngineInv, RecordTypes
  <2>2. ASSUME NEW r \in Requests PROVE UNCHANGED recordOf(r)
    BY <1>1, <1>4 DEF recordOf
  <2>3. ASSUME q \in Requests
        PROVE  completion[q] >= MailboxCap
    <3>1. SUFFICES ASSUME completion[q] < MailboxCap PROVE FALSE
      BY <1>2, <2>3, EngineAssumption
    <3>2. /\ TokensUpTo(completion[q]) \in Seq(Events)
          /\ Len(TokensUpTo(completion[q])) = completion[q]
      BY <1>2, <2>3, TokensGrow
    <3>3. Stream(q) = TokensUpTo(completion[q])
      BY <1>2, <2>3, <3>1, <3>2, ConcatEmptySeq
    <3>4. Len(Stream(q)) = Len(received[q]) + Len(mailbox[q])
      BY <1>2, <2>3, ConcatProperties DEF Stream
    <3>5. Len(received[q]) \in Nat /\ Len(mailbox[q]) \in Nat /\ Len(mailbox[q]) >= MailboxCap
      BY <1>2, <1>4, <2>3, EngineAssumption DEF HasRoom
    <3>6. completion[q] = Len(received[q]) + Len(mailbox[q])
      BY <3>2, <3>3, <3>4
    <3>7. \A x, y, cap \in Nat : y >= cap => ~(x + y < cap)
      OBVIOUS
    <3>8. MailboxCap \in Nat
      BY EngineAssumption
    <3>9. QED
      BY <3>1, <3>5, <3>6, <3>7, <3>8
  <2>4. ASSUME q \in Requests
        PROVE  /\ terminalSent'[q] /\ finishReason'[q] # None /\ q \notin raised'
               /\ ~TerminalQueued(q)' /\ AtHand(q)'
               /\ ~(completion'[q] < MailboxCap)
    BY <1>1, <1>2, <1>4, <2>3, <2>4, EngineAssumption DEF TerminalQueued, AtHand
  <2>5. QED
    BY <1>1, <1>4, <2>1, <2>2, <2>4, RecordStep DEF Busy
<1>5. QED
  BY <1>1, <1>3, <1>4

\* Only the stream of a request that filled its mailbox loses anything here.
LEMMA EvictStep == ASSUME EngineInv, Evict PROVE EngineInv'
<1> DEFINE q == current.req
           end == Terminal(current.reason, completion[q])
<1>1. /\ epc = "evict" /\ current.reason # None
      /\ UNCHANGED <<finishReason, terminalSent, completion, received, raised, current, spc>>
      /\ \/ PutTerminal(q) /\ epc' \in {"deliver", "closing"}
         \/ mailbox[q] # <<>> /\ mailbox' = [mailbox EXCEPT ![q] = Tail(@)] /\ epc' = "evict"
  BY ReturnsToLoop DEF Evict, schedVars, recordVars, flagVars, endVars, EngineInv
<1>2. ASSUME q \in Requests
      PROVE  /\ terminalSent[q] /\ finishReason[q] = current.reason /\ q \notin raised
             /\ completion[q] \in Nat /\ ~(completion[q] < MailboxCap)
             /\ mailbox[q] \in Seq(Events) /\ end \in Events
  <2>1. /\ terminalSent[q] /\ finishReason[q] = current.reason /\ q \notin raised
        /\ completion[q] >= MailboxCap
    BY <1>1, <1>2 DEF EngineInv, AtHand
  <2>2. completion[q] \in Nat /\ mailbox[q] \in Seq(Events)
    BY <1>2 DEF EngineInv, RecordTypes
  <2>3. end \in Events
    BY <2>2 DEF Terminal, Events, EngineInv, RecordTypes
  <2>4. QED
    BY <2>1, <2>2, <2>3, EngineAssumption
<1>3. RecordTypes'
  <2>1. mailbox' \in [Requests -> Seq(Events)]
    <3>1. CASE PutTerminal(q)
      <4>1. q \in Requests => Append(mailbox[q], end) \in Seq(Events)
        BY <1>2
      <4>2. QED
        BY <3>1, <4>1, BoxesStay DEF EngineInv, RecordTypes, PutTerminal
    <3>2. CASE mailbox[q] # <<>> /\ mailbox' = [mailbox EXCEPT ![q] = Tail(@)]
      <4>1. q \in Requests => Tail(mailbox[q]) \in Seq(Events)
        BY <1>2, <3>2
      <4>2. QED
        BY <3>2, <4>1, BoxesStay DEF EngineInv, RecordTypes
    <3>3. QED
      BY <1>1, <3>1, <3>2
  <2>2. QED
    BY <1>1, <2>1 DEF EngineInv, RecordTypes
<1>4. ASSUME NEW r \in Requests \ {q} PROVE UNCHANGED recordOf(r)
  BY <1>1 DEF recordOf, EngineInv, RecordTypes, PutTerminal
<1>5. ASSUME q \in Requests
      PROVE  /\ terminalSent'[q] /\ finishReason'[q] # None /\ q \notin raised'
             /\ ~(completion'[q] < MailboxCap) /\ AtHand(q)'
  BY <1>1, <1>2, <1>5, EngineAssumption DEF AtHand
<1>6. QED
  BY <1>1, <1>3, <1>4, <1>5, RecordStep DEF Busy

-----------------------------------------------------------------------------
\* The theorems.

LEMMA EngineInvNext == EngineInv /\ [Next]_vars => EngineInv'
<1> SUFFICES ASSUME EngineInv, [Next]_vars PROVE EngineInv'
  OBVIOUS
<1>1. CASE UNCHANGED vars
  <2>1. UNCHANGED <<streamVars, current, epc, spc>>
    BY <1>1 DEF vars, state, streamVars, schedVars, loopVars, clientVars, recordVars,
                flagVars, endVars
  <2>2. QED
    BY <2>1, QuietStep DEF EngineInv
<1>2. CASE EngineThread
  BY <1>2, LoopStepQuiet, PlanStepQuiet, DeliverNextStep, DeliverTokenStep, FinishStep,
     FinishRaisesStep, EmitTerminalStep, EvictStep, CloseStep DEF EngineThread, LoopStep
<1>3. CASE \E r \in Requests : Read(r)
  BY <1>3, ReadStep
<1>4. CASE \/ \E r \in Requests : SubmitTests(r) \/ SubmitAppend(r) \/ Cancel(r)
           \/ PostStop \/ ShutdownBackend \/ Start \/ WindowPasses
  BY <1>4, ClientStep
<1>5. QED
  BY <1>1, <1>2, <1>3, <1>4 DEF Next

LEMMA EngineInvariant == SafetySpec => []EngineInv
BY EngineInvInit, EngineInvNext, PTL DEF SafetySpec

\* README.md:46 and request.py:46-48, 131-135: a request whose output fits its
\* mailbox is sent exactly its tokens and one terminal that counts them, in
\* every interleaving of delivery, cancellation, stop, failure and reading.
THEOREM StreamsAreExact == SafetySpec => []StreamExact
<1>1. EngineInv => StreamExact
  BY DEF EngineInv
<1>2. QED
  BY <1>1, EngineInvariant, PTL

\* request.py:139-150: an open stream has no gap; the one token that a full
\* mailbox drops is its last.
THEOREM OpenStreamsHaveNoGap == SafetySpec => []NoGapBeforeEnd
<1>1. EngineInv => NoGapBeforeEnd
  BY DEF EngineInv
<1>2. QED
  BY <1>1, EngineInvariant, PTL

\* The assertion of _finish (engine.py:248) never fails: delivery and the two
\* closing loops never take up a record that is closed.
THEOREM NoSecondFinish == SafetySpec => []FinishedOnce
<1>1. EngineInv => FinishedOnce
  BY DEF EngineInv, AtHand, FinishedOnce
<1>2. QED
  BY <1>1, EngineInvariant, PTL

-----------------------------------------------------------------------------
\* The scheduler inside the engine.

\* A step that leaves the scheduler and every finish reason alone is one it
\* does not see.
LEMMA UnseenStep ==
  ASSUME UNCHANGED <<schedVars, finishReason>>
  PROVE  UNCHANGED Sched!vars
<1>1. Done' = Done
  BY DEF Done, schedVars
<1>2. QED
  BY <1>1 DEF schedVars, Sched!vars, Sched!queueVars, Sched!rowVars, Sched!scanVars, Sched!planVars

\* Between two calls of next_plan, closing a record is Scheduler's Finish or,
\* when its request is not active or was done, nothing it sees.
LEMMA ReasonStep ==
  ASSUME finishReason \in [Requests -> Reasons \cup {None}], spc = "idle", UNCHANGED schedVars,
         NEW q, NEW reason, reason # None,
         finishReason' = [finishReason EXCEPT ![q] = reason]
  PROVE  [Sched!Next]_(Sched!vars)
<1>1. CASE q \in Requests \ Done /\ \E s \in 0 .. MaxRows - 1 : active[s] = q
  <2>1. Done' = Done \cup {q}
    BY <1>1 DEF Done, schedVars
  <2>2. q \in Sched!ActiveReqs \ Done
    BY <1>1, EngineAssumption DEF Sched!ActiveReqs, Sched!Slots
  <2>3. Sched!Finish(q)
    BY <2>1, <2>2 DEF Sched!Finish, schedVars, Sched!queueVars, Sched!scanVars, Sched!planVars
  <2>4. QED
    BY <1>1, <2>3 DEF Sched!Next
<1>2. CASE ~(q \in Requests \ Done /\ \E s \in 0 .. MaxRows - 1 : active[s] = q)
  <2>1. Done' = Done
    BY <1>2 DEF Done, schedVars
  <2>2. QED
    BY <2>1 DEF schedVars, Sched!vars, Sched!queueVars, Sched!rowVars, Sched!scanVars, Sched!planVars
<1>3. QED
  BY <1>1, <1>2

LEMMA SchedulerStep == EngineInv /\ [Next]_vars => [Sched!Next]_(Sched!vars)
<1> SUFFICES ASSUME EngineInv, [Next]_vars PROVE [Sched!Next]_(Sched!vars)
  OBVIOUS
<1>1. ASSUME UNCHANGED <<schedVars, finishReason>> PROVE [Sched!Next]_(Sched!vars)
  BY <1>1, UnseenStep
<1>2. CASE UNCHANGED vars
  BY <1>1, <1>2 DEF vars, state, recordVars
<1>3. CASE Planning \/ AfterPlan \/ AfterPlanRaises
  BY <1>3 DEF Planning, AfterPlan, AfterPlanRaises, Sched!Next
<1>4. CASE \E r \in Requests : SubmitTests(r) \/ SubmitAppend(r)
  BY <1>4 DEF SubmitTests, SubmitAppend, Sched!Next, Sched!Submit
<1>5. CASE DeliverToken
  <2>1. UNCHANGED schedVars /\ spc = "idle"
    BY <1>5 DEF DeliverToken, EngineInv
  <2>2. \/ UNCHANGED finishReason
        \/ finishReason' = [finishReason EXCEPT ![current.req] = "backpressure"]
    BY <1>5 DEF DeliverToken, EmitToken
  <2>3. "backpressure" # None
    BY EngineAssumption DEF Reasons
  <2>4. QED
    BY <1>1, <2>1, <2>2, <2>3, ReasonStep DEF EngineInv, RecordTypes
<1>6. CASE Finish \/ FinishRaises
  <2>1. UNCHANGED schedVars /\ spc = "idle" /\ current.reason # None
    BY <1>6 DEF Finish, FinishRaises, RowStays, EngineInv
  <2>2. finishReason' = [finishReason EXCEPT ![current.req] = current.reason]
    BY <1>6 DEF Finish, FinishRaises, CloseRecord
  <2>3. QED
    BY <2>1, <2>2, ReasonStep DEF EngineInv, RecordTypes
<1>7. CASE \/ LoopStep \/ DeliverNext \/ EmitTerminal \/ Evict \/ Close
           \/ \E r \in Requests : Cancel(r) \/ Read(r)
           \/ PostStop \/ ShutdownBackend \/ Start \/ WindowPasses
  <2>1. UNCHANGED <<schedVars, finishReason>>
    BY <1>7 DEF LoopStep, DeadAtStart, DrainControl, HoldOpen, PassWindow, Clear, Wake,
       BeginPrefill, BeginDecode, StepRefused, StepFails, EndStep, DeliverDone, Die, Exit,
       DeliverNext, EmitTerminal, Evict, Close, Cancel, Read, PostStop, ShutdownBackend,
       Start, WindowPasses, state, recordVars
  <2>2. QED
    BY <1>1, <2>1
<1>8. QED
  BY <1>2, <1>3, <1>4, <1>5, <1>6, <1>7 DEF Next, EngineThread, LoopStep

\* The engine drives the scheduler as Scheduler assumes (engine.py:160, 225-275):
\* a request gets its finish reason only between two calls of next_plan, and
\* rows change only inside one.
THEOREM SchedulerIsRefined == SafetySpec => SchedulerRefined
<1>1. Init => Sched!Init
  BY DEF Init
<1>2. QED
  BY <1>1, SchedulerStep, EngineInvariant, PTL DEF SafetySpec, SchedulerRefined, Sched!SafetySpec

-----------------------------------------------------------------------------
\* Waiting.

\* An admission begins with no active row, and one that admits nobody ends so.
NoneActive ==
    \/ spc \in {"pop", "scan"}
    \/ spc = "returned" /\ plan = "none"
    \/ epc \in {"clear", "asleep"}

WaitInv == NoneActive => Sched!ActiveReqs = {}

LEMMA WaitInvNext == EngineInv /\ WaitInv /\ [Next]_vars => WaitInv'
<1> SUFFICES ASSUME EngineInv, WaitInv, [Next]_vars PROVE WaitInv'
  OBVIOUS
<1>1. ASSUME UNCHANGED <<active, spc, plan>>,
             epc' \in {"clear", "asleep"} => epc \in {"clear", "asleep"}
      PROVE  WaitInv'
  BY <1>1 DEF WaitInv, NoneActive, Sched!ActiveReqs
<1>2. CASE UNCHANGED vars
  BY <1>1, <1>2 DEF vars, state, schedVars
<1>3. CASE Planning
  <2>1. epc = "planning" /\ epc' = "planning" /\ Sched!NextPlan
    BY <1>3 DEF Planning
  <2>2. CASE Sched!PlanDecode \/ Sched!DrainCohort \/ (\E s \in Sched!Slots : Sched!ReleaseRow(s))
             \/ Sched!Publish \/ Sched!PublishDone
    BY <2>1, <2>2 DEF WaitInv, NoneActive, Sched!PlanDecode, Sched!DrainCohort,
       Sched!ReleaseRow, Sched!Publish, Sched!PublishDone
  <2>3. CASE Sched!BeginAdmit
    BY <2>1, <2>3 DEF WaitInv, Sched!ActiveReqs, Sched!BeginAdmit, Sched!rowVars
  <2>4. CASE Sched!Pop \/ Sched!PopDone \/ Sched!ScanAccept \/ Sched!ScanRequeue \/ Sched!ScanDone
    <3>1. spc \in {"pop", "scan"} /\ UNCHANGED active
      BY <2>4 DEF Sched!Pop, Sched!PopDone, Sched!ScanAccept, Sched!ScanRequeue,
         Sched!ScanDone, Sched!rowVars
    <3>2. QED
      BY <3>1 DEF WaitInv, NoneActive, Sched!ActiveReqs
  <2>5. QED
    BY <2>1, <2>2, <2>3, <2>4 DEF Sched!NextPlan
<1>4. CASE AfterPlan \/ AfterPlanRaises
  <2>1. /\ spc = "returned" /\ spc' = "idle" /\ UNCHANGED active
        /\ epc' \in {"clear", "asleep"} => plan = "none"
    BY <1>4 DEF AfterPlan, AfterPlanRaises, Sched!TakePlan, Sched!rowVars
  <2>2. QED
    BY <2>1 DEF WaitInv, NoneActive, Sched!ActiveReqs
<1>5. CASE HoldOpen
  <2>1. Sched!ActiveReqs = {} /\ UNCHANGED active
    BY <1>5 DEF HoldOpen, Holds, schedVars
  <2>2. QED
    BY <2>1 DEF WaitInv, Sched!ActiveReqs
<1>6. CASE \E r \in Requests : SubmitTests(r) \/ SubmitAppend(r)
  <2>1. UNCHANGED <<active, spc, plan, epc>>
    BY <1>6 DEF SubmitTests, SubmitAppend, Sched!SubmitReject, Sched!SubmitCheck,
       Sched!SubmitAppend, Sched!rowVars, Sched!planVars
  <2>2. QED
    BY <1>1, <2>1
<1>7. CASE \/ DeliverToken \/ Finish \/ FinishRaises \/ EmitTerminal \/ Evict
           \/ \E r \in Requests : Cancel(r) \/ Read(r)
           \/ PostStop \/ ShutdownBackend \/ Start \/ WindowPasses
  <2>1. UNCHANGED schedVars
    BY <1>7 DEF DeliverToken, Finish, FinishRaises, RowStays, EmitTerminal, Evict, Cancel,
       Read, PostStop, ShutdownBackend, Start, WindowPasses, state
  <2>2. epc' = epc \/ epc' \notin {"clear", "asleep"}
    BY <1>7, ReturnsToLoop DEF DeliverToken, Finish, FinishRaises, EmitTerminal, Evict,
       Cancel, Read, PostStop, ShutdownBackend, Start, WindowPasses
  <2>3. QED
    BY <1>1, <2>1, <2>2 DEF schedVars
<1>8. CASE \/ DeadAtStart \/ DrainControl \/ PassWindow \/ Clear \/ Wake
           \/ BeginPrefill \/ BeginDecode \/ StepRefused \/ StepFails \/ EndStep
           \/ DeliverNext \/ DeliverDone \/ Die \/ Close \/ Exit
  <2>1. UNCHANGED schedVars
    BY <1>8 DEF DeadAtStart, DrainControl, PassWindow, Clear, Wake, BeginPrefill, BeginDecode,
       StepRefused, StepFails, EndStep, DeliverNext, DeliverDone, Die, Close, Exit, state
  <2>2. epc' \in {"clear", "asleep"} => epc \in {"clear", "asleep"}
    BY <1>8 DEF DeadAtStart, DrainControl, PassWindow, Clear, Wake, BeginPrefill, BeginDecode,
       StepRefused, StepFails, EndStep, DeliverNext, DeliverDone, Die, Close, Exit
  <2>3. QED
    BY <1>1, <2>1, <2>2 DEF schedVars
<1>9. QED
  BY <1>2, <1>3, <1>4, <1>5, <1>6, <1>7, <1>8 DEF Next, EngineThread

\* engine.py:52-54, 144-159, 178-185: the engine thread waits, for the admission window
\* or for work, only when no request is being served.
THEOREM WaitsServeNobody == SafetySpec => []NoWaitWhileServing
<1>1. Init => WaitInv
  BY DEF Init, WaitInv, NoneActive, Sched!Init
<1>2. WaitInv => NoWaitWhileServing
  BY DEF WaitInv, NoneActive, NoWaitWhileServing
<1>3. QED
  BY <1>1, <1>2, WaitInvNext, EngineInvariant, PTL DEF SafetySpec

-----------------------------------------------------------------------------
\* Drain capture.

QueueTypes ==
    /\ {waiting, candidates, cohort, requeue} \subseteq Seq(Requests)
    /\ active \in [Sched!Slots -> Requests \cup {None}]

\* A dead engine never comes back to the loop.
DeadEnds ==
    dead => results = <<>>
            /\ epc \in {"top", "closing", "finish", "terminal", "evict", "exited"}

Admitting  == spc \in {"pop", "scan", "publish"} \/ (spc = "returned" /\ plan = "prefill")
Prefilling == epc = "step" /\ plan = "prefill"

\* The backend holds a cohort that on_drain has not been given.
Uncaptured == reqIds # <<>> /\ ~captured

\* Such a cohort is still active or is in scheduler.drained, and is there for
\* certain once an admission has begun.
CohortInReach ==
    ~dead /\ epc # "dying" /\ Uncaptured =>
        /\ Sched!ActiveReqs # {} \/ drained # Sched!NoRows
        /\ Admitting => drained # Sched!NoRows
        /\ ~Prefilling

\* An admission that made a plan has filled rows.
PlanHasRows ==
    /\ spc = "publish" => cohort # <<>> \/ Sched!ActiveReqs # {}
    /\ spc = "returned" /\ plan = "prefill" => Sched!ActiveReqs # {}
    /\ Prefilling => Sched!ActiveReqs # {}

DrainInv ==
    /\ QueueTypes /\ DeadEnds /\ CohortInReach /\ PlanHasRows
    /\ spc = "release" => drained # Sched!NoRows

\* A call of next_plan.
LEMMA PlanningKeepsReach == ASSUME EngineInv, DrainInv, Planning PROVE DrainInv'
<1>1. /\ epc = "planning" /\ epc' = "planning" /\ Sched!NextPlan
      /\ UNCHANGED <<reqIds, captured, dead, results>>
  BY DEF Planning, backVars, loopVars, flagVars, endVars
<1>2. /\ DeadEnds' /\ ~dead /\ ~dead' /\ (Uncaptured' <=> Uncaptured) /\ ~Prefilling'
      /\ QueueTypes /\ {waiting, candidates, cohort, requeue} \subseteq Seq(Requests)
  BY <1>1 DEF DrainInv, DeadEnds, Uncaptured, Prefilling, QueueTypes
<1>3. CASE Sched!PlanDecode
  BY <1>1, <1>2, <1>3 DEF DrainInv, QueueTypes, CohortInReach, PlanHasRows, Admitting,
     Sched!ActiveReqs, Sched!NoRows, Sched!PlanDecode, Sched!queueVars, Sched!rowVars, Sched!scanVars
<1>4. CASE Sched!DrainCohort
  <2>1. spc' = "release" /\ drained' = active /\ Sched!ActiveReqs # {}
        /\ UNCHANGED <<waiting, candidates, cohort, requeue, active>>
    BY <1>4 DEF Sched!DrainCohort, Sched!queueVars, Sched!rowVars, Sched!scanVars
  <2>2. drained' # Sched!NoRows
    BY <2>1 DEF Sched!ActiveReqs, Sched!NoRows
  <2>3. QED
    BY <1>1, <1>2, <2>1, <2>2
    DEF DrainInv, QueueTypes, CohortInReach, PlanHasRows, Admitting, Sched!NoRows, Sched!Slots
<1>5. CASE \E s \in Sched!Slots : Sched!ReleaseRow(s)
  <2>1. /\ spc = "release" /\ UNCHANGED <<spc, drained, plan, waiting, candidates, cohort, requeue>>
        /\ \E s \in Sched!Slots : active' = [active EXCEPT ![s] = None]
    BY <1>5 DEF Sched!ReleaseRow, Sched!scanVars, Sched!planVars
  <2>2. QueueTypes'
    BY <1>2, <2>1 DEF QueueTypes, Sched!Slots
  <2>3. QED
    BY <1>1, <1>2, <2>1, <2>2
    DEF DrainInv, CohortInReach, PlanHasRows, Admitting, Sched!NoRows, Sched!Slots
<1>6. CASE Sched!BeginAdmit
  <2>1. /\ Sched!ActiveReqs = {} /\ spc' = "pop"
        /\ UNCHANGED <<drained, plan, waiting, candidates, cohort, requeue, active>>
    BY <1>6 DEF Sched!BeginAdmit, Sched!queueVars, Sched!rowVars, Sched!scanVars, Sched!planVars
  <2>2. Uncaptured => drained # Sched!NoRows
    BY <1>1, <1>2, <2>1 DEF DrainInv, CohortInReach
  <2>3. QED
    BY <1>1, <1>2, <2>1, <2>2
    DEF DrainInv, QueueTypes, CohortInReach, PlanHasRows, Admitting, Sched!NoRows, Sched!Slots
<1>7. CASE Sched!Pop \/ Sched!PopDone \/ Sched!ScanAccept \/ Sched!ScanRequeue
  <2>1. /\ spc \in {"pop", "scan"} /\ spc' \in {"pop", "scan"}
        /\ UNCHANGED <<drained, plan, active>>
    BY <1>7 DEF Sched!Pop, Sched!PopDone, Sched!ScanAccept, Sched!ScanRequeue, Sched!planVars,
       Sched!rowVars
  <2>2. {waiting', candidates', cohort', requeue'} \subseteq Seq(Requests)
    <3>1. CASE Sched!Pop
      <4>1. waiting # <<>> /\ UNCHANGED <<cohort, requeue>> /\ waiting' = Tail(waiting)
            /\ candidates' = Append(candidates, Head(waiting))
        BY <3>1 DEF Sched!Pop, Sched!WantsCandidate
      <4>2. QED
        BY <1>2, <4>1
    <3>2. CASE Sched!PopDone
      BY <1>2, <3>2 DEF Sched!PopDone, Sched!queueVars
    <3>3. CASE Sched!ScanAccept
      <4>1. candidates # <<>> /\ UNCHANGED <<waiting, requeue>> /\ candidates' = Tail(candidates)
            /\ cohort' = Append(cohort, Head(candidates))
        BY <3>3 DEF Sched!ScanAccept, Sched!queueVars
      <4>2. QED
        BY <1>2, <4>1
    <3>4. CASE Sched!ScanRequeue
      <4>1. candidates # <<>> /\ UNCHANGED <<waiting, cohort>> /\ candidates' = Tail(candidates)
            /\ requeue' = Append(requeue, Head(candidates))
        BY <3>4 DEF Sched!ScanRequeue, Sched!queueVars
      <4>2. QED
        BY <1>2, <4>1
    <3>5. QED
      BY <1>7, <3>1, <3>2, <3>3, <3>4
  <2>3. QED
    BY <1>1, <1>2, <2>1, <2>2
    DEF DrainInv, QueueTypes, CohortInReach, PlanHasRows, Admitting, Sched!NoRows, Sched!Slots
<1>8. CASE Sched!ScanDone
  <2>1. /\ spc = "scan" /\ UNCHANGED <<drained, cohort, candidates, active>>
        /\ requeue' = <<>> /\ waiting' = requeue \o waiting
        /\ \/ spc' = "returned" /\ plan' = "none"
           \/ spc' = "publish" /\ plan' = plan /\ cohort # <<>>
    BY <1>8 DEF Sched!ScanDone, Sched!Requeued, Sched!rowVars
  <2>2. requeue \o waiting \in Seq(Requests)
    BY <1>2
  <2>3. QED
    BY <1>1, <1>2, <2>1, <2>2
    DEF DrainInv, QueueTypes, CohortInReach, PlanHasRows, Admitting, Sched!NoRows, Sched!Slots
<1>9. CASE Sched!Publish
  <2>1. /\ spc = "publish" /\ spc' = "publish" /\ cohort # <<>> /\ cohort' = Tail(cohort)
        /\ UNCHANGED <<drained, plan, waiting, candidates, requeue>>
    BY <1>9 DEF Sched!Publish, Sched!queueVars, Sched!planVars
  <2>2. Head(cohort) \in Requests /\ Tail(cohort) \in Seq(Requests)
    BY <1>2, <2>1
  <2>3. PICK s \in Sched!Slots : active' = [active EXCEPT ![s] = Head(cohort)]
    BY <1>9 DEF Sched!Publish
  <2>4. QueueTypes'
    BY <1>2, <2>1, <2>2, <2>3 DEF QueueTypes, Sched!Slots
  <2>5. active'[s] = Head(cohort) /\ Head(cohort) # None
    BY <1>2, <2>2, <2>3, EngineAssumption DEF QueueTypes
  <2>6. Sched!ActiveReqs' # {}
    BY <2>5 DEF Sched!ActiveReqs, Sched!Slots
  <2>7. QED
    BY <1>1, <1>2, <2>1, <2>4, <2>6
    DEF DrainInv, CohortInReach, PlanHasRows, Admitting, Sched!NoRows, Sched!Slots
<1>10. CASE Sched!PublishDone
  BY <1>1, <1>2, <1>10 DEF DrainInv, QueueTypes, CohortInReach, PlanHasRows, Admitting,
     Sched!ActiveReqs, Sched!NoRows, Sched!PublishDone, Sched!queueVars, Sched!rowVars, Sched!scanVars
<1>11. QED
  BY <1>1, <1>3, <1>4, <1>5, <1>6, <1>7, <1>8, <1>9, <1>10 DEF Sched!NextPlan

\* The engine takes the plan: a drained cohort is captured here, or the engine dies.
LEMMA TakingKeepsReach == ASSUME EngineInv, DrainInv, AfterPlan \/ AfterPlanRaises PROVE DrainInv'
<1>1. /\ epc = "planning" /\ spc = "returned" /\ spc' = "idle" /\ drained' = Sched!NoRows
      /\ UNCHANGED <<waiting, candidates, cohort, requeue, active, plan, reqIds, dead, results>>
      /\ Sched!ActiveReqs' = Sched!ActiveReqs
  BY DEF AfterPlan, AfterPlanRaises, Sched!TakePlan, Sched!queueVars, Sched!rowVars,
     Sched!scanVars, backVars, loopVars, flagVars, endVars, Sched!ActiveReqs
<1>2. \/ epc' = "dying"
      \/ /\ epc' = IF plan = "none" THEN "clear" ELSE "step"
         /\ captured' = (captured \/ drained # Sched!NoRows \/ CapturesIdle)
  BY DEF AfterPlan, AfterPlanRaises, CapturesDrained
<1>3. QueueTypes' /\ DeadEnds'
  BY <1>1 DEF DrainInv, QueueTypes, DeadEnds
<1>4. PlanHasRows'
  BY <1>1 DEF DrainInv, PlanHasRows, Prefilling
<1>5. CohortInReach'
  BY <1>1, <1>2 DEF DrainInv, CohortInReach, Uncaptured, Admitting, Prefilling, DeadEnds
<1>6. QED
  BY <1>1, <1>3, <1>4, <1>5 DEF DrainInv

\* A step that leaves the scheduler alone and loses no capture.
LEMMA OtherKeepsReach ==
  ASSUME EngineInv, DrainInv, UNCHANGED <<active, spc, plan, drained, candidates, cohort, requeue>>,
         waiting' \in Seq(Requests), reqIds' \in {reqIds, <<>>}, captured => captured',
         epc' = "step" => epc = "step", DeadEnds', dead => dead', epc = "dying" => dead'
  PROVE  DrainInv'
<1>1. Sched!ActiveReqs' = Sched!ActiveReqs /\ (Uncaptured' => Uncaptured)
  BY DEF Sched!ActiveReqs, Uncaptured
<1>2. CohortInReach'
  BY <1>1 DEF DrainInv, CohortInReach, Admitting, Prefilling, Sched!NoRows, Sched!Slots
<1>3. PlanHasRows'
  BY <1>1 DEF DrainInv, PlanHasRows, Prefilling
<1>4. QED
  BY <1>2, <1>3 DEF DrainInv, QueueTypes, Sched!NoRows, Sched!Slots

\* The engine thread between and after plans.
LEMMA LoopKeepsReach ==
  ASSUME EngineInv, DrainInv,
         \/ DeadAtStart \/ DrainControl \/ HoldOpen \/ PassWindow \/ Clear \/ Wake
         \/ BeginDecode \/ StepRefused \/ EndStep \/ DeliverNext \/ DeliverDone
         \/ Die \/ Close \/ Exit
  PROVE  DrainInv'
<1>1. UNCHANGED <<schedVars, captured, reqIds>> /\ (epc' = "step" => FALSE) /\ (dead => dead')
      /\ (epc = "dying" => dead')
  BY DEF DeadAtStart, DrainControl, HoldOpen, PassWindow, Clear, Wake, BeginDecode, StepRefused,
     EndStep, DeliverNext, DeliverDone, Die, Close, Exit, state, backVars, loopVars, flagVars,
     endVars, Back!Decode
<1>2. DeadEnds'
  BY DEF DrainInv, DeadEnds, DeadAtStart, DrainControl, HoldOpen, PassWindow, Clear, Wake,
     BeginDecode, StepRefused, EndStep, DeliverNext, DeliverDone, Die, Close, Exit, state,
     loopVars, flagVars, endVars
<1>3. waiting' \in Seq(Requests)
  BY <1>1 DEF DrainInv, QueueTypes, schedVars
<1>4. QED
  BY <1>1, <1>2, <1>3, OtherKeepsReach DEF schedVars

\* The engine thread at work on one record.
LEMMA RecordKeepsReach ==
  ASSUME EngineInv, DrainInv, DeliverToken \/ Finish \/ FinishRaises \/ EmitTerminal \/ Evict
  PROVE  DrainInv'
<1>1. /\ UNCHANGED <<schedVars, reqIds, dead>> /\ epc' # "step" /\ epc # "dying"
      /\ captured => captured'
  <2>1. UNCHANGED <<schedVars, reqIds, dead>>
    BY DEF DeliverToken, Finish, FinishRaises, RowStays, EmitTerminal, Evict, backVars,
       flagVars, endVars
  <2>2. epc' # "step" /\ epc # "dying"
    BY ReturnsToLoop DEF DeliverToken, Finish, FinishRaises, EmitTerminal, Evict
  <2>3. captured => captured'
    BY DEF DeliverToken, Finish, FinishRaises, EmitTerminal, Evict, loopVars
  <2>4. QED
    BY <2>1, <2>2, <2>3
<1>2. DeadEnds'
  BY DEF DrainInv, DeadEnds, DeliverToken, Finish, FinishRaises, EmitTerminal, Evict,
     FinishReturns, loopVars, flagVars, endVars
<1>3. waiting' \in Seq(Requests)
  BY <1>1 DEF DrainInv, QueueTypes, schedVars
<1>4. QED
  BY <1>1, <1>2, <1>3, OtherKeepsReach DEF schedVars

\* API threads.
LEMMA ClientKeepsReach ==
  ASSUME EngineInv, DrainInv,
         \/ \E r \in Requests : SubmitTests(r) \/ SubmitAppend(r) \/ Cancel(r) \/ Read(r)
         \/ PostStop \/ ShutdownBackend \/ Start \/ WindowPasses
  PROVE  DrainInv'
<1>1. /\ UNCHANGED <<active, spc, plan, drained, candidates, cohort, requeue>>
      /\ UNCHANGED <<captured, dead, results>> /\ reqIds' \in {reqIds, <<>>}
  BY DEF SubmitTests, SubmitAppend, Cancel, Read, PostStop, ShutdownBackend, Start, WindowPasses,
     Sched!SubmitReject, Sched!SubmitCheck, Sched!SubmitAppend, Sched!rowVars, Sched!scanVars,
     Sched!planVars, state, schedVars, backVars, loopVars, flagVars, endVars, Back!Reset
<1>2. epc' = epc \/ (epc = "exited" /\ epc' = "top")
  BY DEF SubmitTests, SubmitAppend, Cancel, Read, PostStop, ShutdownBackend, Start, WindowPasses
<1>3. waiting' = waiting \/ \E r \in Requests : waiting' = Append(waiting, r)
  BY DEF SubmitTests, SubmitAppend, Cancel, Read, PostStop, ShutdownBackend, Start, WindowPasses,
     Sched!SubmitReject, Sched!SubmitCheck, Sched!SubmitAppend, state, schedVars
<1>4. waiting' \in Seq(Requests)
  <2>1. waiting \in Seq(Requests)
    BY DEF DrainInv, QueueTypes
  <2>2. \A r \in Requests : Append(waiting, r) \in Seq(Requests)
    BY <2>1
  <2>3. QED
    BY <1>3, <2>1, <2>2
<1>5. CohortInReach' /\ PlanHasRows' /\ DeadEnds'
  <2>1. Sched!ActiveReqs' = Sched!ActiveReqs /\ (Uncaptured' => Uncaptured)
    BY <1>1 DEF Sched!ActiveReqs, Uncaptured
  <2>2. QED
    BY <1>1, <1>2, <2>1 DEF DrainInv, CohortInReach, PlanHasRows, DeadEnds, Admitting,
       Prefilling, Sched!NoRows, Sched!Slots
<1>6. QED
  BY <1>1, <1>4, <1>5 DEF DrainInv, QueueTypes, Sched!NoRows, Sched!Slots

\* A prefill overwrites only what on_drain has been given, and leaves an active
\* cohort; a step that fails is the engine's last.
LEMMA PrefillKeepsReach ==
  ASSUME EngineInv, DrainInv, BeginPrefill \/ StepFails
  PROVE  DrainInv' /\ (reqIds # <<>> /\ reqIds' # reqIds => captured)
<1>1. /\ epc = "step" /\ epc' \in {"running", "dying"} /\ UNCHANGED <<schedVars, dead, results>>
      /\ reqIds' # reqIds => Prefilling
      /\ StepFails => epc' = "dying"
  BY DEF BeginPrefill, StepFails, backVars, flagVars, endVars, Prefilling
<1>2. ~dead
  BY <1>1 DEF DrainInv, DeadEnds
<1>3. reqIds # <<>> /\ reqIds' # reqIds => captured
  BY <1>1, <1>2 DEF DrainInv, CohortInReach, Uncaptured
<1>4. BeginPrefill => Sched!ActiveReqs # {}
  BY DEF BeginPrefill, DrainInv, PlanHasRows, Prefilling
<1>5. Sched!ActiveReqs' = Sched!ActiveReqs /\ ~Prefilling' /\ spc = "idle"
  BY <1>1 DEF Sched!ActiveReqs, schedVars, Prefilling, EngineInv
<1>6. CohortInReach'
  BY <1>1, <1>4, <1>5 DEF CohortInReach, Admitting, schedVars
<1>7. QED
  BY <1>1, <1>2, <1>3, <1>5, <1>6
  DEF DrainInv, QueueTypes, DeadEnds, PlanHasRows, schedVars, Sched!NoRows, Sched!Slots

LEMMA DrainInvInit == Init => DrainInv
BY DEF Init, DrainInv, QueueTypes, DeadEnds, CohortInReach, Uncaptured, PlanHasRows, Prefilling,
   Sched!Init, Sched!NoRows, Sched!Slots, Back!BackendInit

LEMMA DrainInvNext ==
  EngineInv /\ DrainInv /\ [Next]_vars
    => DrainInv' /\ (reqIds # <<>> /\ reqIds' # reqIds /\ reqIds' # <<>> => captured)
<1> SUFFICES ASSUME EngineInv, DrainInv, [Next]_vars
             PROVE  DrainInv' /\ (reqIds # <<>> /\ reqIds' # reqIds /\ reqIds' # <<>> => captured)
  OBVIOUS
<1>1. CASE UNCHANGED vars
  <2>1. UNCHANGED <<schedVars, reqIds, captured, dead, results, epc>>
    BY <1>1 DEF vars, state, backVars, loopVars, flagVars, endVars
  <2>2. QED
    BY <2>1 DEF DrainInv, QueueTypes, DeadEnds, CohortInReach, Uncaptured, PlanHasRows, Prefilling,
       Admitting, schedVars, Sched!NoRows, Sched!Slots, Sched!ActiveReqs
<1>2. CASE BeginPrefill \/ StepFails
  BY <1>2, PrefillKeepsReach
<1>3. CASE Planning \/ AfterPlan \/ AfterPlanRaises
  <2>1. UNCHANGED reqIds
    BY <1>3 DEF Planning, AfterPlan, AfterPlanRaises, backVars, loopVars
  <2>2. QED
    BY <1>3, <2>1, PlanningKeepsReach, TakingKeepsReach
<1>4. CASE \/ DeadAtStart \/ DrainControl \/ HoldOpen \/ PassWindow \/ Clear \/ Wake
           \/ BeginDecode \/ StepRefused \/ EndStep \/ DeliverNext \/ DeliverDone
           \/ Die \/ Close \/ Exit
  <2>1. UNCHANGED reqIds
    BY <1>4 DEF DeadAtStart, DrainControl, HoldOpen, PassWindow, Clear, Wake, BeginDecode,
       StepRefused, EndStep, DeliverNext, DeliverDone, Die, Close, Exit, state, backVars,
       Back!Decode
  <2>2. QED
    BY <1>4, <2>1, LoopKeepsReach
<1>5. CASE DeliverToken \/ Finish \/ FinishRaises \/ EmitTerminal \/ Evict
  <2>1. UNCHANGED reqIds
    BY <1>5 DEF DeliverToken, Finish, FinishRaises, EmitTerminal, Evict, backVars
  <2>2. QED
    BY <1>5, <2>1, RecordKeepsReach
<1>6. CASE \/ \E r \in Requests : SubmitTests(r) \/ SubmitAppend(r) \/ Cancel(r) \/ Read(r)
           \/ PostStop \/ ShutdownBackend \/ Start \/ WindowPasses
  <2>1. reqIds' \in {reqIds, <<>>}
    BY <1>6 DEF SubmitTests, SubmitAppend, Cancel, Read, PostStop, ShutdownBackend, Start,
       WindowPasses, state, backVars, Back!Reset
  <2>2. QED
    BY <1>6, <2>1, ClientKeepsReach
<1>7. QED
  BY <1>1, <1>2, <1>3, <1>4, <1>5, <1>6 DEF Next, EngineThread

LEMMA DrainInvariant == SafetySpec => []DrainInv
<1>1. EngineInv /\ DrainInv /\ [Next]_vars => DrainInv'
  BY DrainInvNext
<1>2. QED
  BY <1>1, DrainInvInit, EngineInvariant, PTL DEF SafetySpec

\* scheduler.py:53-55, engine.py:161-177: no prefill overwrites the caches of a
\* cohort that on_drain has not been given, whatever ends the requests.
THEOREM CapturedBeforeOverwrite == SafetySpec => DrainBeforeOverwrite
<1>1. EngineInv /\ DrainInv /\ [Next]_vars
        => [reqIds # <<>> /\ reqIds' # reqIds /\ reqIds' # <<>> => captured]_vars
  BY DrainInvNext
<1>2. QED
  BY <1>1, DrainInvariant, EngineInvariant, PTL DEF SafetySpec, DrainBeforeOverwrite

-----------------------------------------------------------------------------
\* One request's stream, as its reader sees it.

\* The record at hand is finished once, for a reason of a delivery or a closing
\* loop, and for its length when its budget is spent.
ReasonGiven(r) ==
    current.req = r =>
        /\ epc \in Busy => current.reason # "backpressure"
        /\ epc \in {"token", "finish"} =>
             /\ finishReason[r] \in {None, "backpressure"}
             /\ current.reason = "length" => epc = "finish" /\ completion[r] >= MaxNewTokens[r]

\* r is neither finished nor about to be.
Unfinished(r) == finishReason[r] = None /\ ~(epc = "finish" /\ current.req = r)

\* A terminal is sent for a record closed for good, and tokens within the budget.
StreamOf(r) ==
    /\ HasTerminal(r) => TerminalQueued(r)
    /\ ReasonGiven(r)
    /\ Unfinished(r) => completion[r] = 0 \/ completion[r] < MaxNewTokens[r]

StreamInv == \A r \in Requests : StreamOf(r)

\* The promise speaks of the same events.
LEMMA SameStream ==
  /\ \A r : Promise!Sent(r) = Stream(r) /\ (Promise!Ended(r) <=> HasTerminal(r))
  /\ \A n : Promise!Token(n) = Token(n)
  /\ \A n, reason : Promise!Terminal(reason, n) = Terminal(reason, n)
  /\ \A e : Promise!IsTerminal(e) <=> IsTerminal(e)
BY DEF Promise!Sent, Promise!Ended, Promise!Token, Promise!Terminal, Promise!IsTerminal,
       Stream, HasTerminal, Token, Terminal, IsTerminal

\* A terminal is in a stream if it is read or unread.
TerminalIn(s) == \E i \in 1 .. Len(s) : IsTerminal(s[i])

LEMMA TerminalInBoth ==
  ASSUME NEW x \in Seq(Events), NEW m \in Seq(Events)
  PROVE  TerminalIn(x \o m) <=> TerminalIn(x) \/ TerminalIn(m)
<1>1. /\ Len(x \o m) = Len(x) + Len(m) /\ Len(x) \in Nat /\ Len(m) \in Nat
      /\ \A i \in 1 .. Len(x) : (x \o m)[i] = x[i]
      /\ \A i \in 1 .. Len(m) : (x \o m)[Len(x) + i] = m[i]
  BY ConcatProperties
<1>2. ASSUME TerminalIn(x) PROVE TerminalIn(x \o m)
  BY <1>1, <1>2 DEF TerminalIn
<1>3. ASSUME TerminalIn(m) PROVE TerminalIn(x \o m)
  <2>1. PICK i \in 1 .. Len(m) : IsTerminal(m[i])
    BY <1>3 DEF TerminalIn
  <2>2. Len(x) + i \in 1 .. Len(x \o m)
    BY <1>1
  <2>3. QED
    BY <1>1, <2>1, <2>2 DEF TerminalIn
<1>4. ASSUME NEW i \in 1 .. Len(x \o m), IsTerminal((x \o m)[i])
      PROVE  TerminalIn(x) \/ TerminalIn(m)
  <2>1. CASE i \in 1 .. Len(x)
    BY <1>1, <1>4, <2>1 DEF TerminalIn
  <2>2. CASE i \notin 1 .. Len(x)
    <3>1. i - Len(x) \in 1 .. Len(m) /\ Len(x) + (i - Len(x)) = i
      BY <1>1, <2>2
    <3>2. QED
      BY <1>1, <1>4, <3>1 DEF TerminalIn
  <2>3. QED
    BY <2>1, <2>2
<1>5. QED
  BY <1>2, <1>3, <1>4 DEF TerminalIn

\* Putting an event, taking the first one.
LEMMA TerminalMoves ==
  ASSUME NEW m \in Seq(Events), NEW e \in Events
  PROVE  /\ TerminalIn(Append(m, e)) <=> TerminalIn(m) \/ IsTerminal(e)
         /\ m # <<>> => (TerminalIn(Tail(m)) => TerminalIn(m))
<1>1. /\ Len(m) \in Nat /\ Len(Append(m, e)) = Len(m) + 1 /\ Append(m, e)[Len(m) + 1] = e
      /\ \A i \in 1 .. Len(m) : Append(m, e)[i] = m[i]
  OBVIOUS
<1>2. \A i \in 1 .. Len(m) + 1 : i \in 1 .. Len(m) \/ i = Len(m) + 1
  BY <1>1
<1>3. Len(m) + 1 \in 1 .. Len(m) + 1 /\ \A i \in 1 .. Len(m) : i \in 1 .. Len(m) + 1
  BY <1>1
<1>4. TerminalIn(Append(m, e)) <=> TerminalIn(m) \/ IsTerminal(e)
  BY <1>1, <1>2, <1>3 DEF TerminalIn
<1>5. ASSUME m # <<>>, TerminalIn(Tail(m)) PROVE TerminalIn(m)
  <2>1. Len(Tail(m)) = Len(m) - 1 /\ \A i \in 1 .. Len(m) - 1 : Tail(m)[i] = m[i + 1]
    BY <1>5
  <2>2. PICK i \in 1 .. Len(m) - 1 : IsTerminal(m[i + 1])
    BY <1>5, <2>1 DEF TerminalIn
  <2>3. i + 1 \in 1 .. Len(m)
    BY <1>1
  <2>4. QED
    BY <2>2, <2>3 DEF TerminalIn
<1>6. QED
  BY <1>4, <1>5

LEMMA HasTerminalIs ==
  ASSUME EngineInv, NEW r \in Requests
  PROVE  HasTerminal(r) <=> TerminalIn(received[r]) \/ TerminalIn(mailbox[r])
<1>1. received[r] \in Seq(Events) /\ mailbox[r] \in Seq(Events)
  BY DEF EngineInv, RecordTypes
<1>2. HasTerminal(r) <=> TerminalIn(received[r] \o mailbox[r])
  BY DEF HasTerminal, TerminalIn, Stream
<1>3. QED
  BY <1>1, <1>2, TerminalInBoth

-----------------------------------------------------------------------------
\* The steps, as the promise sees them.

\* A step that touches no record; it may take up an open one.
LEMMA StreamsStay ==
  ASSUME EngineInv, StreamInv, UNCHANGED streamVars,
         \A r \in Requests : TerminalQueued(r) => TerminalQueued(r)',
         \A r \in Requests : ReasonGiven(r)' /\ (Unfinished(r)' => Unfinished(r))
  PROVE  StreamInv' /\ UNCHANGED Promise!vars
<1>1. \A r \in Requests : HasTerminal(r)' <=> HasTerminal(r)
  BY DEF streamVars, HasTerminal, Stream
<1>2. \A r \in Requests : StreamOf(r)'
  BY <1>1 DEF StreamInv, StreamOf, streamVars
<1>3. QED
  BY <1>2 DEF StreamInv, Promise!vars, streamVars

LEMMA StreamsQuiet ==
  ASSUME EngineInv, StreamInv, UNCHANGED <<streamVars, current>>,
         epc' = epc \/ (epc \notin Busy /\ epc' \notin Busy)
  PROVE  StreamInv' /\ UNCHANGED Promise!vars
<1>1. \A r \in Requests : TerminalQueued(r) => TerminalQueued(r)'
  BY DEF TerminalQueued, streamVars, Busy
<1>2. \A r \in Requests : ReasonGiven(r)' /\ (Unfinished(r)' => Unfinished(r))
  BY DEF StreamInv, StreamOf, ReasonGiven, Unfinished, streamVars, Busy
<1>3. QED
  BY <1>1, <1>2, StreamsStay

\* A record is taken in hand.
LEMMA StreamsTaken ==
  ASSUME EngineInv, StreamInv, NEW q, NEW reason, UNCHANGED streamVars, epc \notin Busy,
         epc' \in {"token", "finish"}, current' = [req |-> q, reason |-> reason],
         reason \notin {"backpressure", "length"}, q \in Requests => finishReason[q] = None
  PROVE  StreamInv' /\ UNCHANGED Promise!vars
<1>1. \A r \in Requests : TerminalQueued(r) => TerminalQueued(r)'
  BY DEF TerminalQueued, streamVars
<1>2. \A r \in Requests : ReasonGiven(r)' /\ (Unfinished(r)' => Unfinished(r))
  BY DEF ReasonGiven, Unfinished, streamVars, Busy
<1>3. QED
  BY <1>1, <1>2, StreamsStay

\* A step that works on one record leaves the other streams as they are.
LEMMA StreamStep ==
  ASSUME EngineInv, StreamInv, NEW q, current.req = q, current'.req = q,
         \A r \in Requests \ {q} : UNCHANGED recordOf(r) /\ (r \in raised' <=> r \in raised),
         q \in Requests => StreamOf(q)'
  PROVE  StreamInv'
<1>1. ASSUME NEW r \in Requests, r # q PROVE StreamOf(r)'
  <2>1. UNCHANGED recordOf(r) /\ (r \in raised' <=> r \in raised) /\ StreamOf(r)
    BY <1>1 DEF StreamInv
  <2>2. (HasTerminal(r)' <=> HasTerminal(r)) /\ (TerminalQueued(r)' <=> TerminalQueued(r))
    BY <1>1, <2>1 DEF recordOf, HasTerminal, Stream, TerminalQueued
  <2>3. ReasonGiven(r)' /\ (Unfinished(r)' => Unfinished(r)) /\ completion'[r] = completion[r]
    BY <1>1, <2>1 DEF recordOf, ReasonGiven, Unfinished
  <2>4. QED
    BY <2>1, <2>2, <2>3 DEF StreamOf
<1>2. QED
  BY <1>1 DEF StreamInv

LEMMA ReadKept ==
  ASSUME EngineInv, StreamInv, NEW q \in Requests, Read(q)
  PROVE  StreamInv' /\ Promise!Read(q)
<1>1. /\ UNCHANGED <<finishReason, terminalSent, completion, raised, current, epc>>
      /\ mailbox[q] # <<>> /\ mailbox[q] \in Seq(Events) /\ received[q] \in Seq(Events)
      /\ ~ \E i \in 1 .. Len(received[q]) : IsTerminal(received[q][i])
      /\ mailbox' = [mailbox EXCEPT ![q] = Tail(@)]
      /\ received' = [received EXCEPT ![q] = Append(@, Head(mailbox[q]))]
  BY DEF Read, EngineInv, RecordTypes, schedVars, loopVars, recordVars, flagVars, endVars
<1>2. \A r \in Requests : Stream(r)' = Stream(r)
  BY <1>1, ReadMoves DEF Stream, EngineInv, RecordTypes
<1>3. \A r \in Requests : StreamOf(r)'
  BY <1>1, <1>2 DEF StreamInv, StreamOf, HasTerminal, TerminalQueued, ReasonGiven, Unfinished
<1>4. Promise!Read(q)
  BY <1>1, SameStream DEF Promise!Read
<1>5. QED
  BY <1>3, <1>4 DEF StreamInv

LEMMA DeliverTokenKept ==
  ASSUME EngineInv, StreamInv, DeliverToken
  PROVE  StreamInv' /\ [Promise!Next]_(Promise!vars)
<1>0. PICK q : q = current.req
  OBVIOUS
<1> DEFINE c == completion[q]
<1>1. /\ UNCHANGED <<terminalSent, received, raised>> /\ epc = "token"
      /\ epc' \in {"deliver", "finish"} /\ current'.req = q
      /\ epc' = "deliver" => ~BudgetSpent(q, completion'[q])
      /\ current'.reason = "length" => current.reason = "length" \/ BudgetSpent(q, completion'[q])
      /\ current'.reason \in {current.reason, "length"}
  <2> DEFINE reason == IF current.reason = None /\ BudgetSpent(q, completion'[q])
                       THEN "length" ELSE current.reason
  <2>1. /\ current' = [req |-> q, reason |-> reason]
        /\ reason = None => epc' = "deliver"
        /\ reason # None => epc' = "finish"
    BY <1>0 DEF DeliverToken
  <2>2. UNCHANGED <<terminalSent, received, raised>> /\ epc = "token"
    BY DEF DeliverToken, flagVars, endVars
  <2>3. "length" # None
    BY EngineAssumption DEF Reasons
  <2>4. QED
    BY <2>1, <2>2, <2>3
<1>2. \/ UNCHANGED <<completion, mailbox, finishReason>>
      \/ EmitToken(q) /\ finishReason[q] = None
  BY <1>0 DEF DeliverToken
<1>3. ASSUME q \in Requests
      PROVE  /\ ~terminalSent[q] /\ ~HasTerminal(q)
             /\ current.reason \notin {"backpressure", "length"}
             /\ finishReason[q] \in {None, "backpressure"}
             /\ finishReason[q] = None => c = 0 \/ c < MaxNewTokens[q]
             /\ c \in Nat /\ MaxNewTokens[q] \in Nat
             /\ mailbox[q] \in Seq(Events) /\ received[q] \in Seq(Events)
  <2>1. ~terminalSent[q]
    BY <1>0, <1>1, <1>3 DEF EngineInv, AtHand
  <2>2. StreamOf(q) /\ ~TerminalQueued(q)
    BY <1>3, <2>1 DEF StreamInv, TerminalQueued
  <2>3. QED
    BY <1>0, <1>1, <1>3, <2>1, <2>2, EngineAssumption
    DEF StreamOf, ReasonGiven, Busy, Unfinished, EngineInv, RecordTypes
<1>4. ASSUME q \in Requests, finishReason'[q] \in {None, "backpressure"}
      PROVE  ReasonGiven(q)'
  BY <1>0, <1>1, <1>3, <1>4 DEF ReasonGiven, BudgetSpent
<1>5. CASE UNCHANGED <<completion, mailbox, finishReason>>
  <2>1. ASSUME NEW r \in Requests PROVE UNCHANGED recordOf(r)
    BY <1>1, <1>5 DEF recordOf
  <2>2. q \in Requests => StreamOf(q)'
    BY <1>0, <1>1, <1>3, <1>4, <1>5 DEF StreamOf, HasTerminal, Stream, Unfinished
  <2>3. UNCHANGED Promise!vars
    BY <1>1, <1>5 DEF Promise!vars
  <2>4. QED
    BY <1>1, <2>1, <2>2, <2>3, <1>0, StreamStep
<1>6. CASE EmitToken(q) /\ finishReason[q] = None /\ q \notin Requests
  <2>1. UNCHANGED <<completion, mailbox, finishReason>>
    BY <1>6 DEF EmitToken, EngineInv, RecordTypes
  <2>2. QED
    BY <1>5, <2>1
<1>7. CASE EmitToken(q) /\ finishReason[q] = None /\ HasRoom(q) /\ q \in Requests
  <2>1. /\ completion' = [completion EXCEPT ![q] = @ + 1] /\ UNCHANGED finishReason
        /\ mailbox' = [mailbox EXCEPT ![q] = Append(@, Token(c))]
    BY <1>7 DEF EmitToken
  <2>2. completion'[q] = c + 1 /\ mailbox'[q] = Append(mailbox[q], Token(c)) /\ finishReason'[q] = None
    BY <1>7, <2>1 DEF EngineInv, RecordTypes
  <2>3. ~HasTerminal(q)'
    <3>1. Token(c) \in Events /\ ~IsTerminal(Token(c))
      BY <1>3, <1>7, TokensGrow DEF Token, IsTerminal
    <3>2. ~TerminalIn(received[q]) /\ ~TerminalIn(mailbox[q])
      BY <1>3, <1>7, HasTerminalIs
    <3>3. mailbox'[q] \in Seq(Events) /\ ~TerminalIn(mailbox'[q])
      BY <1>3, <1>7, <2>2, <3>1, <3>2, TerminalMoves
    <3>4. ~TerminalIn(received[q] \o mailbox'[q])
      <4> DEFINE x == received[q]
                 m == mailbox'[q]
      <4> HIDE DEF x, m
      <4>1. x \in Seq(Events) /\ m \in Seq(Events) /\ ~TerminalIn(x) /\ ~TerminalIn(m)
        BY <1>3, <1>7, <3>2, <3>3 DEF x, m
      <4>2. ~TerminalIn(x \o m)
        BY <4>1, TerminalInBoth
      <4>3. QED
        BY <4>2 DEF x, m
    <3>5. QED
      BY <1>1, <3>4 DEF HasTerminal, Stream, TerminalIn
  <2>4. Unfinished(q)' => completion'[q] < MaxNewTokens[q]
    BY <1>1, <1>3, <1>7, <2>2 DEF Unfinished, BudgetSpent
  <2>5. StreamOf(q)'
    <3>1. ReasonGiven(q)'
      BY <1>4, <1>7, <2>2
    <3>2. QED
      BY <2>3, <2>4, <3>1 DEF StreamOf
  <2>6. ASSUME NEW r \in Requests \ {q} PROVE UNCHANGED recordOf(r)
    BY <1>1, <2>1 DEF recordOf, EngineInv, RecordTypes
  <2>7. Promise!Produce(q)
    <3>1. ~Promise!Full(q) /\ Promise!WithinBudget(q)
      BY <1>3, <1>7, EngineAssumption DEF Promise!Full, Promise!WithinBudget, HasRoom
    <3>2. QED
      BY <1>1, <1>7, <2>1, <3>1, SameStream DEF Promise!Produce
  <2>8. QED
    BY <1>1, <1>7, <2>5, <2>6, <2>7, <1>0, StreamStep DEF Promise!Next
<1>8. CASE EmitToken(q) /\ finishReason[q] = None /\ ~HasRoom(q) /\ q \in Requests
  <2>1. /\ completion' = [completion EXCEPT ![q] = @ + 1] /\ UNCHANGED mailbox
        /\ finishReason' = [finishReason EXCEPT ![q] = "backpressure"]
    BY <1>8 DEF EmitToken
  <2>2. finishReason'[q] = "backpressure" /\ "backpressure" # None
    BY <1>8, <2>1, EngineAssumption DEF EngineInv, RecordTypes, Reasons
  <2>3. ~HasTerminal(q)'
    BY <1>1, <1>3, <1>8, <2>1 DEF HasTerminal, Stream
  <2>4. StreamOf(q)'
    <3>1. ReasonGiven(q)' /\ ~Unfinished(q)'
      BY <1>4, <1>8, <2>2 DEF Unfinished
    <3>2. QED
      BY <2>3, <3>1 DEF StreamOf
  <2>5. ASSUME NEW r \in Requests \ {q} PROVE UNCHANGED recordOf(r)
    BY <1>1, <2>1 DEF recordOf, EngineInv, RecordTypes
  <2>6. Promise!Overflow(q)
    <3>1. Promise!Full(q) /\ Promise!WithinBudget(q)
      BY <1>3, <1>8, EngineAssumption DEF Promise!Full, Promise!WithinBudget, HasRoom
    <3>2. QED
      BY <1>1, <1>8, <2>1, <3>1 DEF Promise!Overflow
  <2>7. QED
    BY <1>1, <1>8, <2>4, <2>5, <2>6, <1>0, StreamStep DEF Promise!Next
<1>9. QED
  BY <1>2, <1>5, <1>6, <1>7, <1>8

\* A record is closed, whether its callbacks return or raise.
LEMMA FinishKept ==
  ASSUME EngineInv, StreamInv, Finish \/ FinishRaises
  PROVE  StreamInv' /\ [Promise!Next]_(Promise!vars)
<1> DEFINE q == current.req
<1>1. /\ epc = "finish" /\ epc' \notin {"token", "finish"}
      /\ UNCHANGED <<completion, mailbox, received, current>> /\ raised' \in {raised, raised \cup {q}}
      /\ finishReason' = [finishReason EXCEPT ![q] = current.reason]
      /\ terminalSent' = [terminalSent EXCEPT ![q] = TRUE]
      /\ current.reason \in Reasons
  BY DEF Finish, FinishRaises, CloseRecord, RowStays, loopVars, clientVars, flagVars, endVars,
         EngineInv, RecordTypes
<1>2. ASSUME NEW r \in Requests \ {q} PROVE UNCHANGED recordOf(r) /\ (r \in raised' <=> r \in raised)
  BY <1>1 DEF recordOf, EngineInv, RecordTypes
<1>3. CASE q \notin Requests
  <2>1. UNCHANGED Promise!vars
    BY <1>1, <1>3 DEF Promise!vars, EngineInv, RecordTypes
  <2>2. QED
    BY <1>1, <1>2, <1>3, <2>1, StreamStep
<1>4. CASE q \in Requests
  <2>1. ~terminalSent[q] /\ ~TerminalQueued(q) /\ StreamOf(q)
    BY <1>1, <1>4 DEF EngineInv, AtHand, TerminalQueued, StreamInv
  <2>2. /\ ~HasTerminal(q) /\ finishReason[q] \in {None, "backpressure"}
        /\ current.reason # "backpressure"
        /\ current.reason = "length" => completion[q] >= MaxNewTokens[q]
    BY <1>1, <2>1 DEF StreamOf, ReasonGiven, Busy
  <2>3. finishReason'[q] # None /\ ~HasTerminal(q)'
    BY <1>1, <1>4, <2>2, EngineAssumption DEF EngineInv, RecordTypes, HasTerminal, Stream
  <2>4. StreamOf(q)'
    BY <1>1, <2>2, <2>3 DEF StreamOf, ReasonGiven, Busy, Unfinished
  <2>5. Promise!Decide(q, current.reason)
    BY <1>1, <2>2, SameStream DEF Promise!Decide, Promise!Decided
  <2>6. QED
    BY <1>1, <1>2, <1>4, <2>2, <2>4, <2>5, StreamStep DEF Promise!Next
<1>5. QED
  BY <1>3, <1>4

\* The terminal is put, or an event evicted for it.
LEMMA TerminalKept ==
  ASSUME EngineInv, StreamInv, EmitTerminal \/ Evict
  PROVE  StreamInv' /\ [Promise!Next]_(Promise!vars)
<1> DEFINE q == current.req
           end == Terminal(current.reason, completion[q])
<1>1. /\ epc \in {"terminal", "evict"}
      /\ UNCHANGED <<finishReason, terminalSent, completion, received, raised, current>>
      /\ \/ /\ HasRoom(q) \/ mailbox[q] = <<>>
            /\ PutTerminal(q) /\ epc' \in {"deliver", "closing"}
         \/ UNCHANGED mailbox /\ epc' = "evict"
         \/ /\ mailbox[q] # <<>> /\ mailbox' = [mailbox EXCEPT ![q] = Tail(@)]
            /\ epc = "evict" /\ epc' = "evict"
  BY ReturnsToLoop DEF EmitTerminal, Evict, recordVars, flagVars, endVars
<1>2. ASSUME q \in Requests
      PROVE  /\ terminalSent[q] /\ finishReason[q] = current.reason /\ q \notin raised
             /\ finishReason[q] \notin {None, "backpressure"} /\ ~HasTerminal(q)
             /\ ~TerminalIn(received[q]) /\ ~TerminalIn(mailbox[q])
             /\ epc = "evict" => completion[q] >= MailboxCap
             /\ completion[q] \in Nat /\ mailbox[q] \in Seq(Events) /\ received[q] \in Seq(Events)
             /\ end \in Events /\ IsTerminal(end)
  <2>1. /\ terminalSent[q] /\ finishReason[q] = current.reason /\ q \notin raised
        /\ epc = "evict" => completion[q] >= MailboxCap
    BY <1>1, <1>2 DEF EngineInv, AtHand
  <2>2. finishReason[q] \notin {None, "backpressure"} /\ ~TerminalQueued(q) /\ StreamOf(q)
    BY <1>1, <1>2, <2>1
       DEF EngineInv, ClosedHasReason, TerminalQueued, StreamInv, StreamOf, ReasonGiven, Busy
  <2>3. completion[q] \in Nat /\ mailbox[q] \in Seq(Events) /\ received[q] \in Seq(Events)
    BY <1>2 DEF EngineInv, RecordTypes
  <2>4. end \in Events /\ IsTerminal(end)
    BY <2>3 DEF Terminal, Events, IsTerminal, EngineInv, RecordTypes
  <2>5. ~HasTerminal(q)
    BY <2>2 DEF StreamOf
  <2>6. QED
    BY <1>2, <2>1, <2>2, <2>3, <2>4, <2>5, HasTerminalIs
<1>3. ASSUME NEW r \in Requests \ {q} PROVE UNCHANGED recordOf(r)
  BY <1>1 DEF recordOf, EngineInv, RecordTypes, PutTerminal
<1>4. ASSUME q \in Requests PROVE ReasonGiven(q)' /\ ~Unfinished(q)'
  BY <1>1, <1>2, <1>4 DEF ReasonGiven, Unfinished, Busy
<1>5. CASE q \notin Requests
  <2>1. UNCHANGED Promise!vars
    BY <1>1, <1>5 DEF Promise!vars, PutTerminal, EngineInv, RecordTypes
  <2>2. QED
    BY <1>1, <1>3, <1>5, <2>1, StreamStep
<1>6. CASE /\ HasRoom(q) \/ mailbox[q] = <<>>
           /\ PutTerminal(q) /\ epc' \in {"deliver", "closing"} /\ q \in Requests
  <2>1. TerminalQueued(q)'
    BY <1>1, <1>2, <1>6 DEF TerminalQueued
  <2>2. StreamOf(q)'
    BY <1>4, <1>6, <2>1 DEF StreamOf
  <2>3. Promise!End(q)
    <3>1. ~Promise!Full(q)
      <4>1. Len(<<>>) = 0
        OBVIOUS
      <4>2. QED
        BY <1>2, <1>6, <4>1, EngineAssumption DEF Promise!Full, HasRoom
    <3>2. mailbox' = [mailbox EXCEPT ![q] = Append(@, Promise!Terminal(finishReason[q], completion[q]))]
      BY <1>2, <1>6, SameStream DEF PutTerminal
    <3>3. QED
      BY <1>1, <1>2, <1>6, <3>1, <3>2, SameStream DEF Promise!End, Promise!Decided
  <2>4. QED
    BY <1>1, <1>3, <1>6, <2>2, <2>3, StreamStep DEF Promise!Next
<1>7. CASE UNCHANGED mailbox /\ q \in Requests
  <2>1. StreamOf(q)'
    BY <1>1, <1>2, <1>4, <1>7 DEF StreamOf, HasTerminal, Stream
  <2>2. UNCHANGED Promise!vars
    BY <1>1, <1>7 DEF Promise!vars
  <2>3. QED
    BY <1>1, <1>3, <2>1, <2>2, StreamStep
<1>8. CASE /\ mailbox[q] # <<>> /\ mailbox' = [mailbox EXCEPT ![q] = Tail(@)]
           /\ epc = "evict" /\ q \in Requests
  <2>1. mailbox'[q] = Tail(mailbox[q]) /\ Tail(mailbox[q]) \in Seq(Events)
    BY <1>2, <1>8 DEF EngineInv, RecordTypes
  <2>2. ~TerminalIn(received[q] \o mailbox'[q])
    <3> DEFINE x == received[q]
               m == mailbox'[q]
    <3>1. ~TerminalIn(m)
      BY <1>2, <1>8, <2>1, TerminalMoves
    <3> HIDE DEF x, m
    <3>2. x \in Seq(Events) /\ m \in Seq(Events) /\ ~TerminalIn(x)
      BY <1>2, <1>8, <2>1 DEF x, m
    <3>3. ~TerminalIn(x \o m)
      BY <3>1, <3>2, TerminalInBoth
    <3>4. QED
      BY <3>3 DEF x, m
  <2>3. ~HasTerminal(q)'
    BY <1>1, <2>2 DEF HasTerminal, Stream, TerminalIn
  <2>4. StreamOf(q)'
    BY <1>4, <1>8, <2>3 DEF StreamOf
  <2>5. Promise!Discard(q)
    BY <1>1, <1>2, <1>8, SameStream DEF Promise!Discard, Promise!Decided
  <2>6. QED
    BY <1>1, <1>3, <1>8, <2>4, <2>5, StreamStep DEF Promise!Next
<1>9. QED
  BY <1>1, <1>5, <1>6, <1>7, <1>8

LEMMA StreamInvNext ==
  EngineInv /\ StreamInv /\ [Next]_vars => StreamInv' /\ [Promise!Next]_(Promise!vars)
<1> SUFFICES ASSUME EngineInv, StreamInv, [Next]_vars
             PROVE  StreamInv' /\ [Promise!Next]_(Promise!vars)
  OBVIOUS
<1>1. CASE \E r \in Requests : Read(r)
  BY <1>1, ReadKept DEF Promise!Next
<1>2. CASE DeliverToken \/ Finish \/ FinishRaises \/ EmitTerminal \/ Evict
  BY <1>2, DeliverTokenKept, FinishKept, TerminalKept
<1>3. CASE DeliverNext
  <2> DEFINE q == Head(results).req
  <2>1. /\ UNCHANGED streamVars /\ epc = "deliver"
        /\ \/ UNCHANGED <<current, epc>>
           \/ /\ ~Skips(q) /\ epc' = "token"
              /\ \E reason \in IF q \in cancel THEN {"cancelled"}
                                               ELSE Back!Reported(Head(results).emits) :
                   current' = [req |-> q, reason |-> reason]
    BY <1>3 DEF DeliverNext, streamVars, recordVars, clientVars, flagVars, endVars
  <2>2. CASE UNCHANGED <<current, epc>>
    BY <2>1, <2>2, StreamsQuiet
  <2>3. CASE ~UNCHANGED <<current, epc>>
    <3>1. PICK reason \in {"cancelled", "stop", None} : current' = [req |-> q, reason |-> reason]
      BY <2>1, <2>3 DEF Back!Reported
    <3>2. reason \notin {"backpressure", "length"}
      BY <3>1, EngineAssumption DEF Reasons
    <3>3. finishReason[q] = None
      BY <2>1, <2>3 DEF Skips
    <3>4. QED
      BY <2>1, <2>3, <3>1, <3>2, <3>3, StreamsTaken DEF Busy
  <2>4. QED
    BY <2>2, <2>3
<1>4. CASE Close
  <2> DEFINE q == Head(todo)
  <2>1. /\ UNCHANGED streamVars /\ epc = "closing"
        /\ \/ UNCHANGED <<current, epc>>
           \/ /\ finishReason[q] = None /\ epc' = "finish"
              /\ current' = [req |-> q, reason |-> "cancelled"]
    BY <1>4 DEF Close, IsClosed, streamVars, recordVars, clientVars, flagVars, endVars
  <2>2. QED
    BY <2>1, StreamsQuiet, StreamsTaken DEF Busy
<1>5. CASE \/ LoopStep \/ Planning \/ AfterPlan \/ AfterPlanRaises \/ UNCHANGED vars
           \/ \E r \in Requests : SubmitTests(r) \/ SubmitAppend(r) \/ Cancel(r)
           \/ PostStop \/ ShutdownBackend \/ Start \/ WindowPasses
  <2>1. UNCHANGED <<streamVars, current>>
    BY <1>5 DEF LoopStep, DeadAtStart, DrainControl, HoldOpen, PassWindow, Clear, Wake,
       BeginPrefill, BeginDecode, StepRefused, StepFails, EndStep, DeliverDone, Die, Exit,
       Planning, AfterPlan, AfterPlanRaises, vars, SubmitTests, SubmitAppend, Cancel, PostStop,
       ShutdownBackend, Start, WindowPasses, streamVars, state, loopVars, clientVars, recordVars,
       flagVars, endVars
  <2>2. epc' = epc \/ (epc \notin Busy /\ epc' \notin Busy)
    BY <1>5 DEF LoopStep, DeadAtStart, DrainControl, HoldOpen, PassWindow, Clear, Wake,
       BeginPrefill, BeginDecode, StepRefused, StepFails, EndStep, DeliverDone, Die, Exit,
       Planning, AfterPlan, AfterPlanRaises, vars, SubmitTests, SubmitAppend, Cancel, PostStop,
       ShutdownBackend, Start, WindowPasses, Busy
  <2>3. QED
    BY <2>1, <2>2, StreamsQuiet
<1>6. QED
  BY <1>1, <1>2, <1>3, <1>4, <1>5 DEF Next, EngineThread, LoopStep

LEMMA StreamInvInit == Init => StreamInv /\ Promise!Init
<1> SUFFICES ASSUME Init PROVE StreamInv /\ Promise!Init
  OBVIOUS
<1>1. \A r \in Requests : ~HasTerminal(r)
  <2>1. \A r \in Requests : Stream(r) = <<>> \o <<>>
    BY DEF Init, Stream
  <2>2. <<>> \o <<>> = <<>> /\ Len(<<>>) = 0
    OBVIOUS
  <2>3. QED
    BY <2>1, <2>2 DEF HasTerminal
<1>2. StreamInv
  BY <1>1 DEF StreamInv, StreamOf, ReasonGiven, Busy, Init
<1>3. QED
  BY <1>2 DEF Init, Promise!Init

LEMMA StreamInvariant == SafetySpec => []StreamInv
BY StreamInvInit, StreamInvNext, EngineInvariant, PTL DEF SafetySpec

\* README.md:46, request.py:131-135, 139-150: to its reader each request is a
\* RequestStream, in every interleaving and with outputs of any length: tokens
\* within the budget, one decision that stands, one terminal, nothing after it,
\* and nothing thrown away unless the output filled the mailbox.
THEOREM StreamsAreRefined == SafetySpec => StreamsRefined
BY StreamInvInit, StreamInvNext, EngineInvariant, PTL
   DEF SafetySpec, StreamsRefined, Promise!Spec

-----------------------------------------------------------------------------
\* What every such stream is like.

\* The events of a request that has produced n tokens and ended for `why`.
InOrderUpTo(s, n, why) ==
    \A i \in 1 .. Len(s) :
        IF IsTerminal(s[i])
        THEN i = Len(s) /\ s[i] = Terminal(why, n)
        ELSE s[i].position < n /\ \A j \in 1 .. i - 1 : s[j].position < s[i].position

LEMMA OrderlyIs ==
  Promise!Orderly <=> \A r \in Requests : InOrderUpTo(Stream(r), completion[r], finishReason[r])
BY SameStream DEF Promise!Orderly, InOrderUpTo

LEMMA OpenEvents ==
  ASSUME NEW s \in Seq(Events), ~TerminalIn(s)
  PROVE  \A i \in 1 .. Len(s) : s[i].position \in Nat /\ ~IsTerminal(s[i])
<1>1. \A i \in 1 .. Len(s) : s[i] \in Events
  OBVIOUS
<1>2. \A e \in Events : e.position \in Nat
  BY DEF Events
<1>3. \A i \in 1 .. Len(s) : ~IsTerminal(s[i])
  BY DEF TerminalIn
<1>4. QED
  BY <1>1, <1>2, <1>3

\* While there is no terminal the reason does not matter, and more may come.
LEMMA OpenInOrder ==
  ASSUME NEW s \in Seq(Events), NEW n \in Nat, NEW why, NEW other, InOrderUpTo(s, n, why),
         ~TerminalIn(s)
  PROVE  InOrderUpTo(s, n, other) /\ InOrderUpTo(s, n + 1, other)
<1>1. \A i \in 1 .. Len(s) : s[i].position \in Nat /\ ~IsTerminal(s[i])
  BY OpenEvents
<1>2. \A x \in Nat : x < n => x < n + 1
  OBVIOUS
<1>3. QED
  BY <1>1, <1>2 DEF InOrderUpTo

LEMMA PutInOrder ==
  ASSUME NEW s \in Seq(Events), NEW n \in Nat, NEW why, InOrderUpTo(s, n, why), ~TerminalIn(s)
  PROVE  /\ InOrderUpTo(Append(s, Token(n)), n + 1, why)
         /\ Terminal(why, n) \in Events => InOrderUpTo(Append(s, Terminal(why, n)), n, why)
<1>1. ASSUME NEW e \in Events PROVE
        /\ Len(Append(s, e)) = Len(s) + 1 /\ Append(s, e)[Len(s) + 1] = e
        /\ \A i \in 1 .. Len(s) : Append(s, e)[i] = s[i]
        /\ \A i \in 1 .. Len(s) + 1 : i = Len(s) + 1 \/ i \in 1 .. Len(s)
        /\ \A i \in 1 .. Len(s) : \A j \in 1 .. i - 1 : j \in 1 .. Len(s)
        /\ \A j \in 1 .. Len(s) + 1 - 1 : j \in 1 .. Len(s)
  OBVIOUS
<1>2. \A i \in 1 .. Len(s) : /\ ~IsTerminal(s[i]) /\ s[i].position < n /\ s[i].position < n + 1
                             /\ \A j \in 1 .. i - 1 : s[j].position < s[i].position
  <2>1. \A i \in 1 .. Len(s) : s[i].position \in Nat /\ ~IsTerminal(s[i])
    BY OpenEvents
  <2>2. \A x \in Nat : x < n => x < n + 1
    OBVIOUS
  <2>3. QED
    BY <2>1, <2>2 DEF InOrderUpTo
<1>3. InOrderUpTo(Append(s, Token(n)), n + 1, why)
  <2>1. Token(n) \in Events /\ ~IsTerminal(Token(n)) /\ Token(n).position = n /\ n < n + 1
    BY TokensGrow DEF Token, IsTerminal
  <2>2. PICK e \in Events : e = Token(n)
    BY <2>1
  <2>3. ASSUME NEW i \in 1 .. Len(s) + 1
        PROVE  /\ ~IsTerminal(Append(s, e)[i]) /\ Append(s, e)[i].position < n + 1
               /\ \A j \in 1 .. i - 1 : Append(s, e)[j].position < Append(s, e)[i].position
    <3>1. CASE i = Len(s) + 1
      BY <1>1, <1>2, <2>1, <2>2, <3>1
    <3>2. CASE i \in 1 .. Len(s)
      BY <1>1, <1>2, <3>2
    <3>3. QED
      BY <1>1, <3>1, <3>2
  <2>4. QED
    BY <1>1, <2>2, <2>3 DEF InOrderUpTo
<1>4. ASSUME Terminal(why, n) \in Events PROVE InOrderUpTo(Append(s, Terminal(why, n)), n, why)
  <2>1. IsTerminal(Terminal(why, n))
    BY DEF Terminal, IsTerminal
  <2>2. PICK e \in Events : e = Terminal(why, n)
    BY <1>4
  <2>3. ASSUME NEW i \in 1 .. Len(s) + 1
        PROVE  IF IsTerminal(Append(s, e)[i])
               THEN i = Len(s) + 1 /\ Append(s, e)[i] = e
               ELSE /\ Append(s, e)[i].position < n
                    /\ \A j \in 1 .. i - 1 : Append(s, e)[j].position < Append(s, e)[i].position
    <3>1. CASE i = Len(s) + 1
      BY <1>1, <2>1, <2>2, <3>1
    <3>2. CASE i \in 1 .. Len(s)
      BY <1>1, <1>2, <3>2
    <3>3. QED
      BY <1>1, <3>1, <3>2
  <2>4. QED
    BY <1>1, <2>2, <2>3 DEF InOrderUpTo
<1>5. QED
  BY <1>3, <1>4

\* What is thrown away leaves the rest in order.
LEMMA RestInOrder ==
  ASSUME NEW x \in Seq(Events), NEW m \in Seq(Events), m # <<>>, NEW n \in Nat, NEW why,
         InOrderUpTo(x \o m, n, why), ~TerminalIn(x \o m)
  PROVE  InOrderUpTo(x \o Tail(m), n, why)
<1> DEFINE s == x \o m
           t == x \o Tail(m)
           At(i) == IF i <= Len(x) THEN i ELSE i + 1
<1>1. /\ Len(x) \in Nat /\ Len(m) \in Nat /\ Len(m) > 0 /\ Tail(m) \in Seq(Events)
      /\ Len(Tail(m)) = Len(m) - 1 /\ \A k \in 1 .. Len(m) - 1 : Tail(m)[k] = m[k + 1]
  OBVIOUS
<1>2. /\ Len(s) = Len(x) + Len(m)
      /\ \A i \in 1 .. Len(x) : s[i] = x[i]
      /\ \A k \in 1 .. Len(m) : s[Len(x) + k] = m[k]
  BY ConcatProperties
<1>3. /\ Len(t) = Len(x) + Len(Tail(m))
      /\ \A i \in 1 .. Len(x) : t[i] = x[i]
      /\ \A k \in 1 .. Len(Tail(m)) : t[Len(x) + k] = Tail(m)[k]
  BY <1>1, ConcatProperties
<1> HIDE DEF s, t
<1>4. ASSUME NEW i \in 1 .. Len(t) PROVE t[i] = s[At(i)] /\ At(i) \in 1 .. Len(s)
  <2>1. CASE i <= Len(x)
    BY <1>1, <1>2, <1>3, <2>1
  <2>2. CASE ~(i <= Len(x))
    <3>1. PICK k : k = i - Len(x)
      OBVIOUS
    <3>2. k \in 1 .. Len(m) - 1 /\ k \in 1 .. Len(Tail(m)) /\ k + 1 \in 1 .. Len(m)
          /\ Len(x) + k = i /\ Len(x) + (k + 1) = i + 1
      BY <1>1, <1>3, <2>2, <3>1
    <3>3. t[i] = Tail(m)[k] /\ Tail(m)[k] = m[k + 1] /\ s[i + 1] = m[k + 1]
      BY <1>1, <1>2, <1>3, <3>2
    <3>4. i + 1 \in 1 .. Len(s)
      BY <1>1, <1>2, <1>3, <2>2
    <3>5. QED
      BY <2>2, <3>3, <3>4
  <2>3. QED
    BY <2>1, <2>2
<1>5. ASSUME NEW i \in 1 .. Len(t), NEW j \in 1 .. i - 1
      PROVE  j \in 1 .. Len(t) /\ At(j) \in 1 .. At(i) - 1
  BY <1>1, <1>3
<1>6. \A i \in 1 .. Len(s) : /\ ~IsTerminal(s[i]) /\ s[i].position < n
                             /\ \A j \in 1 .. i - 1 : s[j].position < s[i].position
  BY DEF InOrderUpTo, TerminalIn, s
<1> HIDE DEF At
<1>7. \A i \in 1 .. Len(t) : /\ ~IsTerminal(t[i]) /\ t[i].position < n
                             /\ \A j \in 1 .. i - 1 : t[j].position < t[i].position
  BY <1>4, <1>5, <1>6
<1>8. QED
  BY <1>7 DEF InOrderUpTo, t

LEMMA OrderlyNext ==
  EngineInv /\ StreamInv /\ Promise!Orderly /\ [Promise!Next]_(Promise!vars) => Promise!Orderly'
<1> SUFFICES ASSUME EngineInv, StreamInv, Promise!Orderly, [Promise!Next]_(Promise!vars)
             PROVE  \A r \in Requests : InOrderUpTo(Stream(r), completion[r], finishReason[r])'
  BY SameStream DEF Promise!Orderly, InOrderUpTo, Promise!Sent, Promise!IsTerminal,
     Promise!Terminal, Stream, IsTerminal, Terminal
<1>1. ASSUME NEW r \in Requests
      PROVE  /\ InOrderUpTo(Stream(r), completion[r], finishReason[r])
             /\ completion[r] \in Nat /\ finishReason[r] \in Reasons \cup {None}
             /\ mailbox[r] \in Seq(Events) /\ received[r] \in Seq(Events)
             /\ Stream(r) \in Seq(Events) /\ (HasTerminal(r) <=> TerminalIn(Stream(r)))
             /\ finishReason[r] = None => ~HasTerminal(r)
  <2>1. /\ completion[r] \in Nat /\ finishReason[r] \in Reasons \cup {None}
        /\ mailbox[r] \in Seq(Events) /\ received[r] \in Seq(Events)
    BY <1>1 DEF EngineInv, RecordTypes
  <2>2. finishReason[r] = None => ~HasTerminal(r)
    BY <1>1 DEF EngineInv, ClosedHasReason, StreamInv, StreamOf, TerminalQueued
  <2>3. InOrderUpTo(Stream(r), completion[r], finishReason[r])
    BY <1>1, OrderlyIs
  <2>4. Stream(r) \in Seq(Events)
    BY <2>1 DEF Stream
  <2>5. HasTerminal(r) <=> TerminalIn(Stream(r))
    BY DEF HasTerminal, TerminalIn
  <2>6. QED
    BY <2>1, <2>2, <2>3, <2>4, <2>5
<1>2. ASSUME NEW q \in Requests, NEW r \in Requests, r # q,
             Promise!Produce(q) \/ Promise!Overflow(q) \/ Promise!Discard(q) \/ Promise!End(q)
               \/ Promise!Read(q) \/ \E why \in Reasons : Promise!Decide(q, why)
      PROVE  InOrderUpTo(Stream(r), completion[r], finishReason[r])'
  <2>1. UNCHANGED <<completion[r], finishReason[r], mailbox[r], received[r]>>
    BY <1>2 DEF Promise!Produce, Promise!Overflow, Promise!Discard, Promise!End, Promise!Read,
       Promise!Decide, EngineInv, RecordTypes
  <2>2. QED
    BY <1>1, <2>1 DEF Stream, InOrderUpTo
<1>3. ASSUME NEW q \in Requests, Promise!Produce(q)
      PROVE  InOrderUpTo(Stream(q), completion[q], finishReason[q])'
  <2>1. /\ completion'[q] = completion[q] + 1 /\ finishReason'[q] = finishReason[q]
        /\ mailbox'[q] = Append(mailbox[q], Token(completion[q])) /\ received'[q] = received[q]
        /\ finishReason[q] = None
    BY <1>3, SameStream DEF Promise!Produce, EngineInv, RecordTypes
  <2>2. Stream(q)' = Append(Stream(q), Token(completion[q]))
    <3>1. Token(completion[q]) \in Events
      BY <1>1, <1>3, TokensGrow
    <3>2. QED
      BY <1>1, <1>3, <2>1, <3>1, PutExtends DEF Stream
  <2>3. InOrderUpTo(Append(Stream(q), Token(completion[q])), completion[q] + 1, finishReason[q])
    BY <1>1, <1>3, <2>1, PutInOrder
  <2>4. QED
    BY <2>1, <2>2, <2>3 DEF InOrderUpTo
<1>4. ASSUME NEW q \in Requests, Promise!Overflow(q) \/ \E why \in Reasons : Promise!Decide(q, why)
      PROVE  InOrderUpTo(Stream(q), completion[q], finishReason[q])'
  <2>1. /\ completion'[q] \in {completion[q], completion[q] + 1} /\ ~HasTerminal(q)
        /\ mailbox'[q] = mailbox[q] /\ received'[q] = received[q]
    BY <1>1, <1>4, SameStream DEF Promise!Overflow, Promise!Decide, EngineInv, RecordTypes
  <2>2. Stream(q)' = Stream(q)
    BY <2>1 DEF Stream
  <2>3. PICK why : why = finishReason'[q]
    OBVIOUS
  <2>4. InOrderUpTo(Stream(q), completion[q], why) /\ InOrderUpTo(Stream(q), completion[q] + 1, why)
    BY <1>1, <1>4, <2>1, OpenInOrder
  <2>5. QED
    BY <2>1, <2>2, <2>3, <2>4 DEF InOrderUpTo
<1>5. ASSUME NEW q \in Requests, Promise!End(q)
      PROVE  InOrderUpTo(Stream(q), completion[q], finishReason[q])'
  <2> DEFINE end == Terminal(finishReason[q], completion[q])
  <2>1. /\ completion'[q] = completion[q] /\ finishReason'[q] = finishReason[q]
        /\ mailbox'[q] = Append(mailbox[q], end) /\ received'[q] = received[q]
        /\ ~HasTerminal(q)
    BY <1>5, SameStream DEF Promise!End, EngineInv, RecordTypes
  <2>2. end \in Events
    BY <1>1, <1>5 DEF Terminal, Events
  <2>3. Stream(q)' = Append(Stream(q), end)
    BY <1>1, <1>5, <2>1, <2>2, PutExtends DEF Stream
  <2>4. InOrderUpTo(Append(Stream(q), end), completion[q], finishReason[q])
    BY <1>1, <1>5, <2>1, <2>2, PutInOrder
  <2>5. QED
    BY <2>1, <2>3, <2>4 DEF InOrderUpTo
<1>6. ASSUME NEW q \in Requests, Promise!Discard(q)
      PROVE  InOrderUpTo(Stream(q), completion[q], finishReason[q])'
  <2>1. /\ completion'[q] = completion[q] /\ finishReason'[q] = finishReason[q]
        /\ mailbox'[q] = Tail(mailbox[q]) /\ received'[q] = received[q]
        /\ ~HasTerminal(q) /\ mailbox[q] # <<>>
    BY <1>6, SameStream DEF Promise!Discard, EngineInv, RecordTypes
  <2>2. InOrderUpTo(received[q] \o Tail(mailbox[q]), completion[q], finishReason[q])
    BY <1>1, <1>6, <2>1, RestInOrder DEF Stream
  <2>3. QED
    BY <2>1, <2>2 DEF InOrderUpTo, Stream
<1>7. ASSUME NEW q \in Requests, Promise!Read(q)
      PROVE  InOrderUpTo(Stream(q), completion[q], finishReason[q])'
  <2>1. /\ completion'[q] = completion[q] /\ finishReason'[q] = finishReason[q]
        /\ mailbox'[q] = Tail(mailbox[q]) /\ received'[q] = Append(received[q], Head(mailbox[q]))
        /\ mailbox[q] # <<>>
    BY <1>7 DEF Promise!Read, EngineInv, RecordTypes
  <2>2. Stream(q)' = Stream(q)
    BY <1>1, <1>7, <2>1, ReadMoves DEF Stream
  <2>3. QED
    BY <1>1, <2>1, <2>2 DEF InOrderUpTo
<1>8. CASE UNCHANGED Promise!vars
  BY <1>1, <1>8 DEF Promise!vars, InOrderUpTo, Stream
<1>9. QED
  BY <1>2, <1>3, <1>4, <1>5, <1>6, <1>7, <1>8 DEF Promise!Next

\* README.md:46 "exactly one terminal event, last on its queue", for outputs of any
\* length: a terminal is the last event of its stream, so there is one at most, with
\* the reason and the count of the record; the tokens before it ascend, also where
\* some were discarded, so none comes twice.
THEOREM TerminalIsLast == SafetySpec => []Promise!Orderly
<1>1. Init => Promise!Orderly
  <2>1. SUFFICES ASSUME Init PROVE \A r \in Requests : Len(Stream(r)) = 0
    BY OrderlyIs DEF InOrderUpTo
  <2>2. \A r \in Requests : Stream(r) = <<>> \o <<>>
    BY <2>1 DEF Init, Stream
  <2>3. <<>> \o <<>> = <<>> /\ Len(<<>>) = 0
    OBVIOUS
  <2>4. QED
    BY <2>2, <2>3
<1>2. QED
  BY <1>1, StreamInvNext, OrderlyNext, EngineInvariant, StreamInvariant, PTL DEF SafetySpec
=============================================================================

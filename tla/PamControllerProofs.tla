------------------------- MODULE PamControllerProofs -------------------------
(***************************************************************************)
(* Proofs about PamController, for every value of its constants: its       *)
(* invariants, that its events are delivered in order, and that it         *)
(* implements AuthSession.                                                 *)
(***************************************************************************)
EXTENDS PamController, SequenceTheorems, WellFoundedInduction, TLAPS

-----------------------------------------------------------------------------
(* The event queue *)

\* Every event the code constructs has the type of an event.
LEMMA EventType ==
    ASSUME NEW type \in EventTypes, NEW t \in Nat, NEW p \in Nat,
           NEW echo_on \in BOOLEAN, NEW is_error \in BOOLEAN
    PROVE  Event(type, t, p, echo_on, is_error) \in Events
BY DEF Event, Events

LEMMA EventTypesAre ==
    EventTypes = {"READY", "STATUS", "PROMPT", "SUCCESS", "FAILURE",
                  "CANCELLED", "FATAL"}
BY DEF EventTypes, TerminalTypes

\* A nonempty set of natural numbers has a least element.
LEMMA LeastExists ==
    ASSUME NEW S \in SUBSET Nat, S # {}
    PROVE  \E i \in S : \A j \in S : i <= j
<1>1. \E i \in S : \A j \in S : ~(<<j, i>> \in OpToRel(<, Nat))
  BY WFMin, NatLessThanWellFounded, Zenon
<1>2. PICK i \in S : \A j \in S : ~(<<j, i>> \in OpToRel(<, Nat))
  BY <1>1
<1>3. ASSUME NEW j \in S PROVE i <= j
  <2>1. ~(<<j, i>> \in OpToRel(<, Nat))
    BY <1>2
  <2>2. ~(j < i)
    BY <2>1 DEF OpToRel
  <2> QED BY <2>2
<1> QED BY <1>3

\* Of a full queue, the dropped event is one of the queue's.
LEMMA DropIndexInQueue ==
    ASSUME NEW q \in Seq(Events), Len(q) >= MaxEvents, NEW e,
           Victims(q, e) # {}
    PROVE  /\ DropIndex(q, e) \in 1..Len(q)
           /\ DropIndex(q, e) \in Victims(q, e)
           /\ \A j \in Victims(q, e) : DropIndex(q, e) <= j
<1>1. Len(q) \in Nat /\ DOMAIN q = 1..Len(q)
  BY LenProperties
<1>2. 1 \in 1..Len(q)
  BY <1>1, ConstantsAssumption
<1>3. Victims(q, e) \subseteq 1..Len(q)
  BY <1>1, <1>2 DEF Victims, IndicesOf
<1>4. \E i \in Victims(q, e) : \A j \in Victims(q, e) : i <= j
  <2>1. Victims(q, e) \in SUBSET Nat
    BY <1>1, <1>3
  <2> QED BY <2>1, LeastExists, Zenon
<1> QED
  BY <1>3, <1>4 DEF DropIndex

\* What RemoveAt leaves: the elements before i, and those after i moved down.
LEMMA RemoveAtProperties ==
    ASSUME NEW q \in Seq(Events), NEW i \in 1..Len(q)
    PROVE  /\ RemoveAt(q, i) \in Seq(Events)
           /\ Len(RemoveAt(q, i)) = Len(q) - 1
           /\ \A k \in 1..(Len(q) - 1) :
                 RemoveAt(q, i)[k] = IF k < i THEN q[k] ELSE q[k + 1]
<1> DEFINE a == SubSeq(q, 1, i - 1)
           b == SubSeq(q, i + 1, Len(q))
<1>1. Len(q) \in Nat /\ \A k \in 1..Len(q) : q[k] \in Events
  BY LenProperties, ElementOfSeq
<1>2. /\ a \in Seq(Events) /\ Len(a) = i - 1
      /\ \A k \in 1..(i - 1) : a[k] = q[k]
  <2>1. 1 \in Int /\ i - 1 \in Int /\ \A k \in 1..(i - 1) : q[k] \in Events
    BY <1>1
  <2>2. /\ a \in Seq(Events)
        /\ Len(a) = IF 1 <= i - 1 THEN (i - 1) - 1 + 1 ELSE 0
        /\ \A k \in 1..((i - 1) - 1 + 1) : a[k] = q[1 + k - 1]
    BY <2>1, SubSeqProperties
  <2> QED BY <2>2, <1>1
<1>3. /\ b \in Seq(Events) /\ Len(b) = Len(q) - i
      /\ \A k \in 1..(Len(q) - i) : b[k] = q[i + k]
  <2>1. /\ i + 1 \in Int /\ Len(q) \in Int
        /\ \A k \in (i + 1)..Len(q) : q[k] \in Events
    BY <1>1
  <2>2. /\ b \in Seq(Events)
        /\ Len(b) = IF i + 1 <= Len(q) THEN Len(q) - (i + 1) + 1 ELSE 0
        /\ \A k \in 1..(Len(q) - (i + 1) + 1) : b[k] = q[(i + 1) + k - 1]
    BY <2>1, SubSeqProperties
  <2> QED BY <2>2, <1>1
<1>4. RemoveAt(q, i) = a \o b
  BY DEF RemoveAt
<1>5. /\ a \o b \in Seq(Events)
      /\ Len(a \o b) = Len(a) + Len(b)
      /\ \A k \in 1..(Len(a) + Len(b)) :
            (a \o b)[k] = IF k <= Len(a) THEN a[k] ELSE b[k - Len(a)]
  BY <1>2, <1>3, ConcatProperties
<1> HIDE DEF a, b
<1>6. ASSUME NEW k \in 1..(Len(q) - 1)
      PROVE  (a \o b)[k] = IF k < i THEN q[k] ELSE q[k + 1]
  <2>1. k \in 1..(Len(a) + Len(b)) /\ (k <= Len(a) <=> k < i)
    BY <1>1, <1>2, <1>3
  <2>2. (a \o b)[k] = IF k <= Len(a) THEN a[k] ELSE b[k - Len(a)]
    BY <1>5, <2>1
  <2>3. CASE k < i
    <3>1. k \in 1..(i - 1)
      BY <2>3
    <3> QED BY <2>1, <2>2, <2>3, <3>1, <1>2
  <2>4. CASE ~(k < i)
    <3>1. k - (i - 1) \in 1..(Len(q) - i) /\ i + (k - (i - 1)) = k + 1
      BY <2>4, <1>1
    <3>2. b[k - (i - 1)] = q[k + 1]
      BY <3>1, <1>3
    <3> QED BY <2>1, <2>2, <2>4, <3>2, <1>2
  <2> QED BY <2>3, <2>4
<1> QED BY <1>1, <1>2, <1>3, <1>4, <1>5, <1>6

\* Only of a one-element sequence nothing is left.
LEMMA TailIsEmpty ==
    ASSUME NEW q \in Seq(Events), q # << >>
    PROVE  Tail(q) = << >> <=> Len(q) = 1
<1>1. Tail(q) \in Seq(Events) /\ Len(Tail(q)) = Len(q) - 1
  BY HeadTailProperties
<1>2. Len(q) \in Nat
  BY LenProperties
<1>3. Tail(q) = << >> <=> Len(Tail(q)) = 0
  BY <1>1, EmptySeq
<1> QED BY <1>1, <1>2, <1>3

\* Posting keeps the queue a sequence of events within its capacity.
LEMMA EnqueueType ==
    ASSUME NEW q \in Seq(Events), Len(q) <= MaxEvents, NEW e \in Events
    PROVE  /\ Enqueue(q, e) \in Seq(Events)
           /\ Len(Enqueue(q, e)) <= MaxEvents
<1>1. CASE Len(q) < MaxEvents
  BY <1>1, LenProperties, ConstantsAssumption DEF Enqueue
<1>2. CASE Len(q) >= MaxEvents /\ Victims(q, e) # {}
  <2> DEFINE r == RemoveAt(q, DropIndex(q, e))
  <2>1. r \in Seq(Events) /\ Len(r) = Len(q) - 1
    BY <1>2, DropIndexInQueue, RemoveAtProperties
  <2>2. Enqueue(q, e) = Append(r, e)
    BY <1>2, LenProperties, ConstantsAssumption DEF Enqueue
  <2> HIDE DEF r
  <2>3. Append(r, e) \in Seq(Events) /\ Len(Append(r, e)) = Len(r) + 1
    BY <2>1
  <2> QED BY <2>1, <2>2, <2>3, LenProperties, ConstantsAssumption
<1>3. CASE Len(q) >= MaxEvents /\ Victims(q, e) = {}
  BY <1>3, LenProperties, ConstantsAssumption DEF Enqueue
<1> QED
  BY <1>1, <1>2, <1>3, LenProperties, ConstantsAssumption

\* A post leaves the queue typed and the pipe within its capacity.
LEMMA PostEventType ==
    ASSUME TypeOK, NEW e \in Events, PostEvent(e)
    PROVE  /\ events' \in Seq(Events) /\ Len(events') <= MaxEvents
           /\ pipe' \in 0..PipeCapacity
<1>1. events' \in Seq(Events) /\ Len(events') <= MaxEvents
  BY EnqueueType DEF PostEvent, TypeOK, QueueTypeOK
<1>2. pipe' \in 0..PipeCapacity
  BY ConstantsAssumption DEF PostEvent, PipeWrite, TypeOK, QueueTypeOK
<1> QED BY <1>1, <1>2

-----------------------------------------------------------------------------
(* The steps of the worker that touch neither the struct ctrl nor the main  *)
(* thread: PAM's, the locked reads, and the ways out of the conversation.   *)

USE DEF queue, command, exchange, secrets, ids, terminal, frame, locals, ui,
        ctrl, worker, vars

Quiet ==
    \/ Pam \/ CallConv \/ AcctCheck \/ SetcredCheck \/ SpuriousWakeup
    \/ ConvAborted \/ ConvUnknownStyle \/ AnswerNotYet

Threads == ThreadTypeOK /\ PlacesAgree

LEMMA PlaceSets ==
    /\ PamCalls \subseteq Running /\ Running \subseteq Pcs
    /\ "conv" \in Running /\ "await_answer" \in Running
    /\ PamCalls \cap {"conv", "await_answer"} = {}
    /\ Running \cap {"start", "idle", "await_ack", "exited"} = {}
    /\ Pcs = Running \cup {"start", "idle", "await_ack", "exited"}
BY DEF PamCalls, Running, Pcs

\* The ways on from a message of the conversation: to the PAM call that began
\* it, or to the next message.
LEMMA ReturnFromConvThreads ==
    ASSUME Threads, pc \in {"conv", "await_answer"}, ReturnFromConv,
           UNCHANGED <<locals, ui>>
    PROVE  Threads' /\ pc' \in PamCalls
<1>1. caller \in PamCalls
  BY DEF Threads, ThreadTypeOK, PlacesAgree
<1>2. /\ pc' = caller /\ caller' = "none" /\ msgs_left' = 0 /\ asleep' = FALSE
      /\ UNCHANGED <<txn, ret, main, snapshot>>
  BY DEF ReturnFromConv
<1>3. pc' \in PamCalls
  BY <1>1, <1>2
<1>4. ThreadTypeOK'
  <2>1. msgs_left' \in 0..MaxMessages
    BY <1>2, ConstantsAssumption
  <2>2. pc' \in Pcs
    BY <1>3, PlaceSets
  <2> QED BY <1>2, <2>1, <2>2 DEF Threads, ThreadTypeOK
<1>5. PlacesAgree'
  BY <1>2, <1>3 DEF Threads, PlacesAgree, PamCalls
<1> QED BY <1>3, <1>4, <1>5 DEF Threads

LEMMA NextMessageThreads ==
    ASSUME Threads, pc \in {"conv", "await_answer"},
           NextMessage \/ ReturnFromConv, UNCHANGED <<locals, ui>>
    PROVE  Threads' /\ pc' \in PamCalls \cup {"conv"}
<1>1. CASE ReturnFromConv
  BY <1>1, ReturnFromConvThreads
<1>2. CASE NextMessage /\ ~ReturnFromConv
  <2>1. /\ msgs_left > 1 /\ msgs_left' = msgs_left - 1
        /\ pc' = "conv" /\ asleep' = FALSE
        /\ UNCHANGED <<caller, txn, ret, main, snapshot>>
    BY <1>2 DEF NextMessage
  <2>2. ThreadTypeOK'
    <3>1. msgs_left' \in 0..MaxMessages
      BY <2>1, ConstantsAssumption DEF Threads, ThreadTypeOK
    <3>2. pc' \in Pcs
      BY <2>1, PlaceSets
    <3> QED BY <2>1, <3>1, <3>2 DEF Threads, ThreadTypeOK
  <2>3. PlacesAgree'
    BY <2>1 DEF Threads, ThreadTypeOK, PlacesAgree
  <2> QED BY <2>1, <2>2, <2>3 DEF Threads
<1> QED BY <1>1, <1>2

\* They keep the worker where it is, or move it between places of a running
\* transaction at which it does not wait.
LEMMA QuietSteps ==
    ASSUME Threads, Quiet
    PROVE  /\ UNCHANGED <<ctrl, ui, txn>>
           /\ \/ pc' = pc
              \/ pc \in Running \ {"await_answer"} /\ pc' \in Running \ {"await_answer"}
           /\ Threads'
<1> USE DEF Threads, ThreadTypeOK, PlacesAgree, Pcs, Running, ReturnsTo
<1>1. CASE Pam
  BY <1>1 DEF Pam, PamStart, PamAuthenticate, PamAcctMgmt, PamSetcred, Results
<1>2. CASE CallConv
  BY <1>2, ConstantsAssumption DEF CallConv, PamCalls
<1>3. CASE AcctCheck \/ SetcredCheck
  BY <1>3 DEF AcctCheck, SetcredCheck
<1>4. CASE SpuriousWakeup \/ AnswerNotYet
  BY <1>4 DEF SpuriousWakeup, AnswerNotYet, Sleep
<1>5. CASE ConvAborted \/ ConvUnknownStyle
  <2>1. pc = "conv" /\ ReturnFromConv /\ UNCHANGED <<ctrl, locals, ui>>
    BY <1>5 DEF ConvAborted, ConvUnknownStyle
  <2>2. Threads' /\ pc' \in PamCalls
    BY <2>1, ReturnFromConvThreads
  <2> QED BY <2>1, <2>2 DEF PamCalls
<1> QED BY <1>1, <1>2, <1>3, <1>4, <1>5 DEF Quiet

-----------------------------------------------------------------------------
(* Type correctness *)

\* The queues stay sequences of events within their capacity.
LEMMA QueueTypeStep ==
    ASSUME TypeOK, PlacesAgree, [Next]_vars
    PROVE  QueueTypeOK'
<1> DEFINE Posted == /\ events' \in Seq(Events) /\ Len(events') <= MaxEvents
                     /\ pipe' \in 0..PipeCapacity
                     /\ UNCHANGED snapshot
<1>1. ASSUME Posted PROVE QueueTypeOK'
  BY <1>1 DEF TypeOK, QueueTypeOK
<1>2. ASSUME UNCHANGED <<events, pipe, snapshot>> PROVE QueueTypeOK'
  BY <1>2 DEF TypeOK, QueueTypeOK
<1>3. CASE Quiet
  BY <1>2, <1>3, QuietSteps DEF Threads, TypeOK
<1>4. CASE WorkerStarts
  <2>1. Event("READY", 0, 0, FALSE, FALSE) \in Events
    BY EventType, EventTypesAre
  <2> QED BY <1>1, <1>4, <2>1, PostEventType DEF WorkerStarts, RequestLoop
<1>5. CASE ConvStatus
  <2>1. Event("STATUS", active_transaction_id, 0, FALSE, FALSE) \in Events
    BY EventType, EventTypesAre DEF TypeOK, FlagTypeOK, NumberTypeOK
  <2> QED BY <1>1, <1>5, <2>1, PostEventType DEF ConvStatus
<1>6. ASSUME NEW echo_on \in BOOLEAN, ConvPrompt(echo_on) PROVE QueueTypeOK'
  <2>1. Event("PROMPT", active_transaction_id, next_prompt_id, echo_on, FALSE)
           \in Events
    BY EventType, EventTypesAre DEF TypeOK, FlagTypeOK, NumberTypeOK
  <2> QED BY <1>1, <1>6, <2>1, PostEventType DEF ConvPrompt
<1>7. CASE EndTransaction
  <2>1. Outcome \in EventTypes
    BY EventTypesAre DEF Outcome
  <2>2. TerminalEvent \in Events
    BY <2>1, EventType DEF TerminalEvent, TypeOK, ThreadTypeOK
  <2> QED BY <1>1, <1>7, <2>2, PostEventType DEF EndTransaction
<1>8. CASE DrainPipe
  BY <1>8, ConstantsAssumption DEF DrainPipe, TypeOK, QueueTypeOK
<1>9. CASE TakeEvents
  BY <1>9, ConstantsAssumption DEF TakeEvents, TypeOK, QueueTypeOK
<1>10. CASE ClientHandlesEvent
  <2>1. UNCHANGED <<events, pipe>>
    BY <1>10 DEF ClientHandlesEvent, AckTerminal
  <2>2. Tail(snapshot) \in Seq(Events) /\ Len(Tail(snapshot)) <= MaxEvents
    BY <1>10, HeadTailProperties, LenProperties, ConstantsAssumption
    DEF ClientHandlesEvent, EventHandled, PlacesAgree, TypeOK, QueueTypeOK
  <2> QED BY <1>10, <2>1, <2>2
          DEF ClientHandlesEvent, EventHandled, TypeOK, QueueTypeOK
<1>11. CASE Join
  BY <1>11, ConstantsAssumption DEF Join, TypeOK, QueueTypeOK
<1>12. CASE \/ WorkerIdle \/ AwaitAck \/ ConvDeferred \/ AnswerAborted
            \/ AnswerTaken
  BY <1>2, <1>12 DEF WorkerIdle, AwaitAck, RequestLoop, ConvDeferred,
     AnswerAborted, AnswerTaken
<1>13. CASE \/ ClientStartAuth \/ ClientSubmitAnswer \/ ClientCancelAuth
            \/ RequestShutdown \/ UNCHANGED vars
  BY <1>2, <1>13 DEF ClientStartAuth, StartAuth, ClientSubmitAnswer,
     SubmitAnswer, ClientCancelAuth, CancelAuth, RequestShutdown
<1> QED
  BY <1>3, <1>4, <1>5, <1>6, <1>7, <1>8, <1>9, <1>10, <1>11, <1>12, <1>13
  DEF Next, WorkerStep, Drain, Client, Finished, Quiet

\* The flags of the struct stay Boolean.
LEMMA FlagTypeStep ==
    ASSUME TypeOK, PlacesAgree, [Next]_vars
    PROVE  FlagTypeOK'
<1> USE DEF TypeOK, FlagTypeOK
<1>1. ASSUME UNCHANGED <<command, exchange, secrets, prompts_seen, ids, terminal>>
      PROVE  FlagTypeOK'
  BY <1>1
<1>2. CASE Quiet
  BY <1>1, <1>2, QuietSteps DEF Threads
<1>3. ASSUME NEW b \in BOOLEAN, RequestLoop(b) PROVE FlagTypeOK'
  BY <1>3 DEF RequestLoop, LoopExit, LoopWait, LoopPickUp, ClearExchange
<1>4. CASE WorkerStarts \/ WorkerIdle \/ AwaitAck
  BY <1>1, <1>3, <1>4 DEF WorkerStarts, WorkerIdle, AwaitAck
<1>5. CASE ConvStatus \/ DrainPipe \/ TakeEvents \/ UNCHANGED vars
  BY <1>1, <1>5 DEF ConvStatus, DrainPipe, TakeEvents
<1>6. CASE ConvDeferred
  BY <1>6 DEF ConvDeferred, WipeDeferredInput
<1>7. ASSUME NEW echo_on \in BOOLEAN, ConvPrompt(echo_on) PROVE FlagTypeOK'
  BY <1>7 DEF ConvPrompt, WipeDeferredInput, ClearExchange
<1>8. CASE AnswerAborted \/ AnswerTaken
  BY <1>8 DEF AnswerAborted, AnswerTaken, ClearExchange
<1>9. CASE EndTransaction
  BY <1>9 DEF EndTransaction, WipeDeferredInput, ClearExchange, ThreadTypeOK
<1>10. CASE ClientStartAuth
  BY <1>10 DEF ClientStartAuth, StartAuth, ClearExchange
<1>11. CASE ClientSubmitAnswer
  BY <1>11 DEF ClientSubmitAnswer, SubmitAnswer, Prompts
<1>12. CASE ClientCancelAuth
  BY <1>12 DEF ClientCancelAuth, CancelAuth, ClearTerminal, WipeDeferredInput
<1>13. CASE ClientHandlesEvent
  BY <1>13 DEF ClientHandlesEvent, AckTerminal, ClearTerminal
<1>14. CASE RequestShutdown
  BY <1>14 DEF RequestShutdown
<1>15. CASE Join
  BY <1>15 DEF Join
<1> QED
  BY <1>2, <1>4, <1>5, <1>6, <1>7, <1>8, <1>9, <1>10, <1>11, <1>12, <1>13,
     <1>14, <1>15
  DEF Next, WorkerStep, Drain, Client, Finished, Quiet

\* Its identifiers and counters stay natural numbers.
LEMMA NumberTypeStep ==
    ASSUME TypeOK, PlacesAgree, [Next]_vars
    PROVE  NumberTypeOK'
<1> USE DEF TypeOK, NumberTypeOK
<1>1. ASSUME UNCHANGED <<command, exchange, secrets, prompts_seen, ids, terminal>>
      PROVE  NumberTypeOK'
  BY <1>1
<1>2. CASE Quiet
  BY <1>1, <1>2, QuietSteps DEF Threads
<1>3. ASSUME NEW b \in BOOLEAN, RequestLoop(b) PROVE NumberTypeOK'
  BY <1>3 DEF RequestLoop, LoopExit, LoopWait, LoopPickUp, ClearExchange
<1>4. CASE WorkerStarts \/ WorkerIdle \/ AwaitAck
  <2>1. CASE WorkerStarts \/ WorkerIdle
    <3>1. RequestLoop(auth_in_progress)
      BY <2>1 DEF WorkerStarts, WorkerIdle
    <3> QED BY <1>3, <3>1 DEF FlagTypeOK
  <2>2. CASE RequestLoop(auth_in_progress /\ shutdown_requested)
    BY <1>3, <2>2 DEF FlagTypeOK
  <2>3. CASE AwaitAck /\ UNCHANGED ctrl
    BY <1>1, <2>3
  <2> QED BY <1>4, <2>1, <2>2, <2>3 DEF AwaitAck
<1>5. CASE ConvStatus \/ DrainPipe \/ TakeEvents \/ UNCHANGED vars
  BY <1>1, <1>5 DEF ConvStatus, DrainPipe, TakeEvents
<1>6. CASE ConvDeferred
  BY <1>6 DEF ConvDeferred, WipeDeferredInput
<1>7. ASSUME NEW echo_on \in BOOLEAN, ConvPrompt(echo_on) PROVE NumberTypeOK'
  <2>1. /\ prompts_seen' = prompts_seen + 1 /\ deferred_input' = 0
        /\ next_prompt_id' = next_prompt_id + 1
        /\ UNCHANGED <<pending_response, next_transaction_id,
                       active_transaction_id, terminal>>
    BY <1>7 DEF ConvPrompt, WipeDeferredInput
  <2>2. waiting_prompt_id' \in {next_prompt_id, 0}
    BY <1>7 DEF ConvPrompt, ClearExchange
  <2> QED BY <2>1, <2>2
<1>8. CASE AnswerAborted \/ AnswerTaken
  BY <1>8 DEF AnswerAborted, AnswerTaken, ClearExchange
<1>9. CASE EndTransaction
  BY <1>9 DEF EndTransaction, WipeDeferredInput, ClearExchange, ThreadTypeOK
<1>10. CASE ClientStartAuth
  BY <1>10 DEF ClientStartAuth, StartAuth, ClearExchange
<1>11. CASE ClientSubmitAnswer
  BY <1>11 DEF ClientSubmitAnswer, SubmitAnswer, Prompts
<1>12. CASE ClientCancelAuth
  BY <1>12 DEF ClientCancelAuth, CancelAuth, ClearTerminal, WipeDeferredInput
<1>13. CASE ClientHandlesEvent
  BY <1>13 DEF ClientHandlesEvent, AckTerminal, ClearTerminal
<1>14. CASE RequestShutdown
  BY <1>14 DEF RequestShutdown
<1>15. CASE Join
  BY <1>15 DEF Join
<1> QED
  BY <1>2, <1>4, <1>5, <1>6, <1>7, <1>8, <1>9, <1>10, <1>11, <1>12, <1>13,
     <1>14, <1>15
  DEF Next, WorkerStep, Drain, Client, Finished, Quiet

\* Each thread moves between its places with the data that belong there.
LEMMA ThreadsStep ==
    ASSUME TypeOK, PlacesAgree, [Next]_vars
    PROVE  Threads'
<1> USE DEF TypeOK, Threads, ThreadTypeOK, PlacesAgree
<1>1. ASSUME UNCHANGED <<pc, frame, locals, ui>>, asleep' \in BOOLEAN,
             asleep' => asleep
      PROVE  Threads'
  BY <1>1
<1>2. CASE Quiet
  BY <1>2, QuietSteps
<1>3. ASSUME NEW b \in BOOLEAN, RequestLoop(b),
             pc \in {"start", "idle", "await_ack"}, ~asleep
      PROVE  Threads'
  <2>1. caller = "none" /\ msgs_left = 0
    BY <1>3
  <2>2. UNCHANGED <<frame, ret, ui>>
    BY <1>3 DEF RequestLoop
  <2>3. CASE LoopExit(b)
    BY <2>1, <2>2, <2>3, <1>3 DEF LoopExit, Pcs
  <2>4. CASE LoopWait(b)
    BY <2>1, <2>2, <2>4, <1>3 DEF LoopWait, Pcs, Sleep
  <2>5. CASE LoopPickUp
    BY <2>1, <2>2, <2>5, <1>3 DEF LoopPickUp, Pcs, Running, FlagTypeOK, NumberTypeOK
  <2> QED BY <1>3, <2>3, <2>4, <2>5 DEF RequestLoop
<1>4. CASE WorkerStarts \/ WorkerIdle
  <2>1. ~asleep /\ pc \in {"start", "idle"}
    BY <1>4 DEF WorkerStarts, WorkerIdle
  <2> QED BY <1>3, <1>4, <2>1 DEF WorkerStarts, WorkerIdle, FlagTypeOK, NumberTypeOK
<1>5. CASE AwaitAck
  <2>1. CASE RequestLoop(auth_in_progress /\ shutdown_requested)
    BY <1>3, <1>5, <2>1 DEF AwaitAck
  <2>2. CASE Sleep /\ UNCHANGED <<ctrl, pc, frame, locals, ui>>
    BY <1>5, <2>2 DEF AwaitAck, Sleep
  <2> QED BY <1>5, <2>1, <2>2 DEF AwaitAck
<1>6. CASE ConvStatus \/ ConvDeferred \/ AnswerTaken
  <2>1. /\ pc \in {"conv", "await_answer"}
        /\ NextMessage \/ ReturnFromConv
        /\ UNCHANGED <<locals, ui>>
    BY <1>6 DEF ConvStatus, ConvDeferred, AnswerTaken, ReplyOrFail
  <2> QED BY <2>1, NextMessageThreads
<1>7. CASE AnswerAborted
  BY <1>7, ReturnFromConvThreads DEF AnswerAborted
<1>8. ASSUME NEW echo_on \in BOOLEAN, ConvPrompt(echo_on) PROVE Threads'
  <2>1. pc = "conv" /\ UNCHANGED <<locals, ui>>
    BY <1>8 DEF ConvPrompt
  <2>2. CASE ReturnFromConv
    BY <2>1, <2>2, ReturnFromConvThreads
  <2>3. CASE pc' = "await_answer" /\ Sleep /\ UNCHANGED frame
    BY <2>1, <2>3, PlaceSets DEF Sleep
  <2> QED BY <1>8, <2>2, <2>3 DEF ConvPrompt
<1>9. CASE EndTransaction
  BY <1>9 DEF EndTransaction, Pcs, FlagTypeOK, NumberTypeOK
<1>10. CASE ClientStartAuth
  BY <1>1, <1>10 DEF ClientStartAuth, StartAuth, Signal
<1>11. CASE ClientSubmitAnswer
  BY <1>1, <1>11 DEF ClientSubmitAnswer, SubmitAnswer, Signal
<1>12. CASE ClientCancelAuth
  BY <1>1, <1>12 DEF ClientCancelAuth, CancelAuth, SignalIf
<1>13. CASE DrainPipe
  BY <1>13 DEF DrainPipe
<1>14. CASE TakeEvents
  BY <1>14 DEF TakeEvents
<1>15. CASE ClientHandlesEvent
  <2>1. /\ main = "events" /\ snapshot' = Tail(snapshot)
        /\ main' = IF Len(snapshot) = 1 THEN "loop" ELSE "events"
    BY <1>15 DEF ClientHandlesEvent, EventHandled
  <2>2. snapshot \in Seq(Events) /\ snapshot # << >>
    BY <2>1 DEF QueueTypeOK
  <2>3. main' = "events" <=> snapshot' # << >>
    BY <2>1, <2>2, TailIsEmpty
  <2>4. /\ UNCHANGED <<pc, frame, locals>>
        /\ asleep' \in BOOLEAN /\ (asleep' => asleep)
    <3>1. CASE AckTerminal(Head(snapshot).transaction_id)
      BY <3>1 DEF AckTerminal, SignalIf
    <3>2. CASE UNCHANGED <<ctrl, worker>>
      BY <3>2
    <3> QED BY <1>15, <3>1, <3>2 DEF ClientHandlesEvent
  <2>5. main' \in {"loop", "events"}
    BY <2>1
  <2> QED BY <2>3, <2>4, <2>5
<1>16. CASE RequestShutdown
  BY <1>16 DEF RequestShutdown, Signal
<1>17. CASE Join
  BY <1>17 DEF Join
<1>18. CASE UNCHANGED vars
  BY <1>18
<1> QED
  BY <1>2, <1>4, <1>5, <1>6, <1>7, <1>8, <1>9, <1>10, <1>11, <1>12, <1>13,
     <1>14, <1>15, <1>16, <1>17, <1>18
  DEF Next, WorkerStep, Drain, Client, Finished, Quiet

Typed == TypeOK /\ PlacesAgree

LEMMA TypedInit == Init => Typed
<1> SUFFICES ASSUME Init PROVE Typed
  OBVIOUS
<1>1. << >> \in Seq(Events) /\ Len(<< >>) = 0
  BY EmptySeq
<1>2. QueueTypeOK
  BY <1>1, ConstantsAssumption DEF Init, QueueTypeOK
<1>3. FlagTypeOK
  BY DEF Init, FlagTypeOK
<1>4. NumberTypeOK
  BY DEF Init, NumberTypeOK
<1>5. ThreadTypeOK
  <2>1. 0 \in 0..MaxMessages
    BY ConstantsAssumption
  <2>2. "start" \in Pcs
    BY PlaceSets
  <2> QED BY <2>1, <2>2 DEF Init, ThreadTypeOK, Results
<1>6. PlacesAgree
  BY DEF Init, PlacesAgree
<1> QED BY <1>2, <1>3, <1>4, <1>5, <1>6 DEF Typed, TypeOK

LEMMA TypedStep == Typed /\ [Next]_vars => Typed'
<1> SUFFICES ASSUME Typed, [Next]_vars PROVE Typed'
  OBVIOUS
<1>1. TypeOK /\ PlacesAgree
  BY DEF Typed
<1>2. QueueTypeOK'
  BY <1>1, QueueTypeStep
<1>3. FlagTypeOK'
  BY <1>1, FlagTypeStep
<1>4. NumberTypeOK'
  BY <1>1, NumberTypeStep
<1>5. ThreadTypeOK' /\ PlacesAgree'
  BY <1>1, ThreadsStep DEF Threads
<1> QED BY <1>2, <1>3, <1>4, <1>5 DEF Typed, TypeOK

LEMMA TypedInvariant == Spec => []Typed
<1>1. Init => Typed
  BY TypedInit
<1>2. Typed /\ [Next]_vars => Typed'
  BY TypedStep
<1> HIDE DEF vars, ctrl, worker, ui
<1> QED BY <1>1, <1>2, PTL DEF Spec

\* Type correctness: whatever the capacities, the queue never holds more than
\* MAX_EVENTS events (post_event_locked), the pipe never more bytes than it
\* can, and the flags and identifiers of `ctrl' and the places of both threads
\* stay in their ranges.
THEOREM TypeCorrect == Spec => []TypeOK
<1>1. Typed => TypeOK
  BY DEF Typed
<1> QED BY <1>1, TypedInvariant, PTL

-----------------------------------------------------------------------------
(* The transaction slot *)

Slot == RunsActiveTransaction /\ SlotAgrees

\* A locked section at the head of the worker's loop keeps the slot: the loop
\* is reached with nothing in progress, but on the way out.
LEMMA RequestLoopSlot ==
    ASSUME Typed, Slot, NEW b \in BOOLEAN, RequestLoop(b),
           pc \in {"start", "idle", "await_ack"},
           b => auth_in_progress /\ shutdown_requested,
           auth_in_progress /\ shutdown_requested => b,
           terminal_ack_pending => shutdown_requested
    PROVE  Slot'
<1> USE DEF Slot, RunsActiveTransaction, SlotAgrees, Typed, TypeOK, FlagTypeOK
<1>1. UNCHANGED <<shutdown_requested, ids, terminal>>
  BY DEF RequestLoop
<1>2. CASE LoopExit(b)
  BY <1>1, <1>2, PlaceSets DEF LoopExit
<1>3. CASE LoopWait(b)
  BY <1>1, <1>3, PlaceSets DEF LoopWait
<1>4. CASE LoopPickUp
  BY <1>1, <1>4, PlaceSets DEF LoopPickUp, Running
<1> QED BY <1>2, <1>3, <1>4 DEF RequestLoop

\* start_auth is refused while a transaction runs or awaits its
\* acknowledgement, and only the end of a transaction asks for one.
LEMMA SlotStep ==
    ASSUME Typed, Slot, [Next]_vars
    PROVE  Slot'
<1> USE DEF Slot, RunsActiveTransaction, SlotAgrees, Typed, TypeOK, FlagTypeOK
<1>1. ASSUME UNCHANGED <<auth_requested, auth_in_progress, ids, terminal, txn>>,
             pc' = pc \/ (pc \in Running /\ pc' \in Running)
      PROVE  Slot'
  BY <1>1, PlaceSets
<1>2. CASE Quiet
  BY <1>1, <1>2, QuietSteps DEF Threads
<1>3. CASE WorkerStarts \/ WorkerIdle
  <2>1. /\ RequestLoop(auth_in_progress) /\ pc \in {"start", "idle"}
    BY <1>3 DEF WorkerStarts, WorkerIdle
  <2>2. ~auth_in_progress /\ ~terminal_ack_pending
    BY <2>1, PlaceSets
  <2> QED BY <2>1, <2>2, RequestLoopSlot
<1>4. CASE AwaitAck
  <2>1. CASE UNCHANGED <<ctrl, pc, txn>>
    BY <1>1, <2>1
  <2>2. CASE /\ RequestLoop(auth_in_progress /\ shutdown_requested)
             /\ ~terminal_ack_pending \/ shutdown_requested
    <3>1. pc = "await_ack"
      BY <1>4 DEF AwaitAck
    <3> QED BY <2>2, <3>1, RequestLoopSlot
  <2> QED BY <1>4, <2>1, <2>2 DEF AwaitAck
<1>5. CASE ConvStatus \/ ConvDeferred \/ AnswerTaken \/ AnswerAborted
  <2>1. /\ pc \in {"conv", "await_answer"}
        /\ NextMessage \/ ReturnFromConv
        /\ UNCHANGED <<locals, ui>>
    BY <1>5 DEF ConvStatus, ConvDeferred, AnswerTaken, AnswerAborted, ReplyOrFail
  <2>2. pc' \in PamCalls \cup {"conv"}
    BY <2>1, NextMessageThreads DEF Threads
  <2>3. UNCHANGED <<auth_requested, auth_in_progress, ids, terminal, txn>>
    BY <1>5 DEF ConvStatus, ConvDeferred, AnswerTaken, AnswerAborted
  <2> QED BY <1>1, <2>1, <2>2, <2>3, PlaceSets
<1>6. ASSUME NEW echo_on \in BOOLEAN, ConvPrompt(echo_on) PROVE Slot'
  <2>1. /\ pc = "conv"
        /\ UNCHANGED <<auth_requested, auth_in_progress, locals, ui,
                       active_transaction_id, terminal>>
    BY <1>6 DEF ConvPrompt
  <2>2. pc' = "await_answer" \/ ReturnFromConv
    BY <1>6 DEF ConvPrompt
  <2>3. pc' \in Running
    BY <2>1, <2>2, ReturnFromConvThreads, PlaceSets DEF Threads
  <2> QED BY <2>1, <2>3, PlaceSets
<1>7. CASE EndTransaction
  <2>1. /\ pc = "pam_end" /\ pc' \in {"exited", "await_ack"}
        /\ terminal_ack_pending' = TRUE /\ terminal_transaction_id' = txn
        /\ UNCHANGED <<auth_requested, auth_in_progress, locals>>
    BY <1>7 DEF EndTransaction
  <2>2. auth_in_progress /\ ~auth_requested
    BY <2>1 DEF Running
  <2> QED BY <2>1, <2>2, PlaceSets
<1>8. CASE ClientStartAuth
  BY <1>8, PlaceSets DEF ClientStartAuth, StartAuth, StartAuthAccepted
<1>9. CASE ClientCancelAuth
  <2>1. PICK t \in Transactions : CancelAuth(t)
    BY <1>9 DEF ClientCancelAuth
  <2>2. /\ UNCHANGED <<pc, txn, active_transaction_id>>
        /\ auth_requested' => auth_requested
        /\ \/ ~terminal_ack_pending' /\ ~auth_in_progress' /\ terminal_ack_pending
           \/ UNCHANGED <<terminal, auth_in_progress>>
    BY <2>1 DEF CancelAuth, ClearTerminal, TerminalAwaits
  <2>3. RunsActiveTransaction'
    <3>1. CASE pc \in Running
      <4>1. ~terminal_ack_pending /\ ~auth_requested
        BY <3>1
      <4>2. UNCHANGED <<terminal, auth_in_progress>> /\ ~auth_requested'
        BY <2>2, <4>1
      <4> QED BY <2>2, <3>1, <4>1, <4>2
    <3>2. CASE pc \notin Running
      BY <2>2, <3>2
    <3> QED BY <3>1, <3>2
  <2>4. SlotAgrees'
    BY <2>2, PlaceSets
  <2> QED BY <2>3, <2>4
<1>10. CASE ClientHandlesEvent
  <2>1. /\ UNCHANGED <<pc, txn, active_transaction_id, auth_requested>>
        /\ \/ ~terminal_ack_pending' /\ ~auth_in_progress' /\ terminal_ack_pending
           \/ UNCHANGED <<terminal, auth_in_progress>>
    BY <1>10 DEF ClientHandlesEvent, AckTerminal, ClearTerminal, TerminalAwaits
  <2> QED BY <2>1, PlaceSets
<1>11. CASE \/ DrainPipe \/ TakeEvents \/ ClientSubmitAnswer \/ RequestShutdown
            \/ Join \/ UNCHANGED vars
  BY <1>1, <1>11
  DEF DrainPipe, TakeEvents, ClientSubmitAnswer, SubmitAnswer, RequestShutdown, Join
<1> QED
  BY <1>2, <1>3, <1>4, <1>5, <1>6, <1>7, <1>8, <1>9, <1>10, <1>11
  DEF Next, WorkerStep, Drain, Client, Finished, Quiet

-----------------------------------------------------------------------------
(* The conversation and its credentials *)

\* The waiting flags are set when the worker goes to wait for an answer, and
\* cleared on each of its ways on from there.
LEMMA WaitingStep ==
    ASSUME Typed, Slot, WaitingIsReal, [Next]_vars
    PROVE  WaitingIsReal'
<1> USE DEF WaitingIsReal
<1>1. ASSUME UNCHANGED exchange,
             pc' = pc \/ (pc # "await_answer" /\ pc' # "await_answer")
      PROVE  WaitingIsReal'
  BY <1>1
<1>2. ASSUME ClearExchange, pc' # "await_answer" PROVE WaitingIsReal'
  BY <1>2 DEF ClearExchange
<1>3. CASE Quiet
  BY <1>1, <1>3, QuietSteps DEF Threads, Typed, TypeOK
<1>4. ASSUME NEW b, RequestLoop(b), pc \in {"start", "idle", "await_ack"}
      PROVE  WaitingIsReal'
  BY <1>1, <1>2, <1>4 DEF RequestLoop, LoopExit, LoopWait, LoopPickUp
<1>5. CASE WorkerStarts \/ WorkerIdle \/ AwaitAck
  BY <1>1, <1>4, <1>5 DEF WorkerStarts, WorkerIdle, AwaitAck
<1>6. CASE ConvStatus \/ ConvDeferred \/ AnswerTaken \/ AnswerAborted
  <2>1. /\ pc \in {"conv", "await_answer"}
        /\ NextMessage \/ ReturnFromConv
        /\ UNCHANGED <<locals, ui>>
    BY <1>6 DEF ConvStatus, ConvDeferred, AnswerTaken, AnswerAborted, ReplyOrFail
  <2>2. pc' # "await_answer"
    BY <2>1, NextMessageThreads DEF Threads, PamCalls, Typed, TypeOK
  <2>3. CASE ConvStatus \/ ConvDeferred
    BY <1>1, <2>2, <2>3 DEF ConvStatus, ConvDeferred
  <2>4. CASE AnswerTaken \/ AnswerAborted
    BY <1>2, <2>2, <2>4 DEF AnswerTaken, AnswerAborted
  <2> QED BY <1>6, <2>3, <2>4
<1>7. ASSUME NEW echo_on \in BOOLEAN, ConvPrompt(echo_on) PROVE WaitingIsReal'
  <2>1. pc = "conv" /\ UNCHANGED <<locals, ui>>
    BY <1>7 DEF ConvPrompt
  <2>2. CASE ClearExchange /\ ReturnFromConv
    <3>1. pc' # "await_answer"
      BY <2>1, <2>2, ReturnFromConvThreads DEF Threads, PamCalls, Typed, TypeOK
    <3> QED BY <1>2, <2>2, <3>1
  <2>3. CASE /\ waiting_for_answer' = TRUE /\ answer_submitted' = FALSE
             /\ waiting_prompt_id' = next_prompt_id /\ pc' = "await_answer"
    BY <2>3 DEF Typed, TypeOK, NumberTypeOK
  <2> QED BY <1>7, <2>2, <2>3 DEF ConvPrompt
<1>8. CASE EndTransaction
  BY <1>2, <1>8 DEF EndTransaction
<1>9. CASE ClientStartAuth
  <2>1. pc' = pc /\ pc \notin Running /\ ClearExchange
    BY <1>9 DEF ClientStartAuth, StartAuth, StartAuthAccepted, Slot,
       RunsActiveTransaction
  <2> QED BY <1>2, <2>1, PlaceSets
<1>10. CASE ClientSubmitAnswer
  BY <1>10 DEF ClientSubmitAnswer, SubmitAnswer, SubmitAnswerAccepted
<1>11. CASE \/ DrainPipe \/ TakeEvents \/ ClientHandlesEvent
            \/ ClientCancelAuth \/ RequestShutdown \/ Join \/ UNCHANGED vars
  BY <1>1, <1>11 DEF DrainPipe, TakeEvents, ClientHandlesEvent, AckTerminal,
     ClientCancelAuth, CancelAuth, RequestShutdown, Join
<1> QED
  BY <1>3, <1>5, <1>6, <1>7, <1>8, <1>9, <1>10, <1>11
  DEF Next, WorkerStep, Drain, Client, Finished, Quiet

\* Every way out of the conversation or the transaction wipes what was typed
\* for it, and an answer is stored only for the prompt that waits.
LEMMA CredentialsStep ==
    ASSUME Typed, Slot, WaitingIsReal, CredentialsScoped, [Next]_vars
    PROVE  CredentialsScoped'
<1> USE DEF CredentialsScoped
<1>1. ASSUME UNCHANGED <<secrets, exchange, cancellation_requested, ids, main,
                         auth_requested>>,
             \/ pc' = pc
             \/ pc # "await_answer" /\ pc' # "await_answer"
                /\ (pc \in Running => pc' \in Running)
      PROVE  CredentialsScoped'
  BY <1>1
<1>2. ASSUME WipeDeferredInput, pending_response' = 0, pc' # "await_answer"
      PROVE  CredentialsScoped'
  BY <1>2 DEF WipeDeferredInput
<1>3. CASE Quiet
  BY <1>1, <1>3, QuietSteps DEF Threads, Typed, TypeOK
<1>4. ASSUME NEW b, RequestLoop(b), pc \in {"start", "idle", "await_ack"}
      PROVE  CredentialsScoped'
  <2>1. /\ UNCHANGED <<secrets, ids, main>> /\ pc \notin Running
        /\ pc # "await_answer" /\ pending_response = 0
    BY <1>4, PlaceSets DEF RequestLoop
  <2>2. CASE LoopExit(b) \/ LoopWait(b)
    BY <1>1, <2>1, <2>2 DEF LoopExit, LoopWait
  <2>3. CASE LoopPickUp
    BY <2>1, <2>3 DEF LoopPickUp, Running
  <2> QED BY <1>4, <2>2, <2>3 DEF RequestLoop
<1>5. CASE WorkerStarts \/ WorkerIdle \/ AwaitAck
  BY <1>1, <1>4, <1>5 DEF WorkerStarts, WorkerIdle, AwaitAck
<1>6. CASE ConvStatus \/ ConvDeferred \/ AnswerTaken \/ AnswerAborted
  <2>1. /\ pc \in {"conv", "await_answer"}
        /\ NextMessage \/ ReturnFromConv
        /\ UNCHANGED <<locals, ui>>
    BY <1>6 DEF ConvStatus, ConvDeferred, AnswerTaken, AnswerAborted, ReplyOrFail
  <2>2. pc' # "await_answer" /\ pc' \in Running
    BY <2>1, NextMessageThreads, PlaceSets DEF Threads, Typed, TypeOK
  <2>3. CASE ConvStatus
    BY <1>1, <2>2, <2>3 DEF ConvStatus
  <2>4. CASE ConvDeferred
    <3>1. pending_response = 0
      BY <2>4 DEF ConvDeferred
    <3> QED BY <1>2, <2>2, <2>4, <3>1 DEF ConvDeferred
  <2>5. CASE AnswerTaken \/ AnswerAborted
    <3>1. /\ pending_response' = 0 /\ pc \in Running
          /\ UNCHANGED <<deferred_input_submitted, deferred_input, ids, main>>
      BY <2>5, PlaceSets DEF AnswerTaken, AnswerAborted
    <3> QED BY <2>2, <3>1
  <2> QED BY <1>6, <2>3, <2>4, <2>5
<1>7. ASSUME NEW echo_on \in BOOLEAN, ConvPrompt(echo_on)
      PROVE  CredentialsScoped'
  <2>1. /\ pc = "conv" /\ WipeDeferredInput /\ UNCHANGED pending_response
        /\ answer_submitted' = FALSE
    BY <1>7 DEF ConvPrompt, ClearExchange
  <2> QED BY <2>1 DEF WipeDeferredInput
<1>8. CASE EndTransaction
  BY <1>2, <1>8 DEF EndTransaction
<1>9. CASE ClientStartAuth
  <2>1. pc' = pc /\ pc \notin Running
    BY <1>9 DEF ClientStartAuth, StartAuth, StartAuthAccepted, Slot,
       RunsActiveTransaction
  <2>2. /\ deferred_input' = next_transaction_id
        /\ active_transaction_id' = next_transaction_id
        /\ deferred_input_submitted' /\ auth_requested'
        /\ UNCHANGED pending_response
    BY <1>9 DEF ClientStartAuth, StartAuth
  <2>3. pc # "await_answer" /\ next_transaction_id # 0
    BY <2>1, PlaceSets DEF Typed, TypeOK, NumberTypeOK
  <2> QED BY <2>1, <2>2, <2>3
<1>10. CASE ClientSubmitAnswer
  <2>1. PICK t \in Transactions, p \in Prompts : SubmitAnswer(t, p)
    BY <1>10 DEF ClientSubmitAnswer
  <2>2. waiting_for_answer /\ waiting_prompt_id = p
    BY <2>1 DEF SubmitAnswer, SubmitAnswerAccepted
  <2>3. pc = "await_answer"
    BY <2>2 DEF WaitingIsReal
  <2>4. /\ pending_response' = p /\ answer_submitted' = TRUE
        /\ UNCHANGED <<pc, waiting_prompt_id, deferred_input, auth_requested,
                       deferred_input_submitted, ids, cancellation_requested>>
    BY <2>1 DEF SubmitAnswer
  <2>5. UNCHANGED ui
    BY <1>10 DEF ClientSubmitAnswer
  <2> QED BY <2>2, <2>3, <2>4, <2>5
<1>11. CASE ClientCancelAuth
  <2>1. PICK t \in Transactions : CancelAuth(t)
    BY <1>11 DEF ClientCancelAuth
  <2>2. UNCHANGED <<pc, exchange, ids, main>>
    BY <1>11, <2>1 DEF ClientCancelAuth, CancelAuth
  <2>3. CASE UNCHANGED <<cancellation_requested, auth_requested, secrets>>
    BY <1>1, <2>2, <2>3
  <2>4. CASE /\ cancellation_requested' = TRUE /\ WipeDeferredInput
             /\ pending_response' = 0
    BY <2>4 DEF WipeDeferredInput
  <2> QED BY <2>1, <2>3, <2>4 DEF CancelAuth
<1>12. CASE \/ DrainPipe \/ TakeEvents \/ ClientHandlesEvent \/ RequestShutdown
  <2>1. /\ UNCHANGED <<secrets, exchange, cancellation_requested, ids, pc,
                       auth_requested>>
        /\ main # "done"
    BY <1>12 DEF DrainPipe, TakeEvents, ClientHandlesEvent, EventHandled,
       AckTerminal, RequestShutdown
  <2> QED BY <2>1
<1>13. CASE Join
  BY <1>13 DEF Join
<1>14. CASE UNCHANGED vars
  BY <1>14
<1> QED
  BY <1>3, <1>5, <1>6, <1>7, <1>8, <1>9, <1>10, <1>11, <1>12, <1>13, <1>14
  DEF Next, WorkerStep, Drain, Client, Finished, Quiet

-----------------------------------------------------------------------------
(* Wake-ups and terminal events *)

\* Whatever is queued comes with a byte in the pipe, and the pipe is emptied
\* only by a main thread that goes on to take the queue.
LEMMA WakeStep ==
    ASSUME Typed, QueuedEventsWakeMain, [Next]_vars
    PROVE  QueuedEventsWakeMain'
<1> USE DEF QueuedEventsWakeMain
<1>1. ASSUME NEW e, PostEvent(e), UNCHANGED ui
      PROVE  QueuedEventsWakeMain'
  <2>1. CASE Fits(events, e)
    <3>1. pipe' > 0
      BY <1>1, <2>1, ConstantsAssumption
      DEF PostEvent, PipeWrite, Typed, TypeOK, QueueTypeOK
    <3> QED BY <3>1
  <2>2. CASE ~Fits(events, e)
    BY <1>1, <2>2 DEF PostEvent, Enqueue, Fits
  <2> QED BY <2>1, <2>2
<1>2. ASSUME UNCHANGED <<events, pipe>>,
             main' = main \/ main # "drain"
      PROVE  QueuedEventsWakeMain' \/ main = "done"
  BY <1>2
<1>3. CASE Quiet
  BY <1>3, QuietSteps DEF Threads, Typed, TypeOK
<1>4. CASE WorkerStarts
  BY <1>1, <1>4 DEF WorkerStarts, RequestLoop
<1>5. CASE ConvStatus
  BY <1>1, <1>5 DEF ConvStatus
<1>6. ASSUME NEW echo_on \in BOOLEAN, ConvPrompt(echo_on)
      PROVE  QueuedEventsWakeMain'
  BY <1>1, <1>6 DEF ConvPrompt
<1>7. CASE EndTransaction
  BY <1>1, <1>7 DEF EndTransaction
<1>8. CASE \/ WorkerIdle \/ AwaitAck \/ ConvDeferred \/ AnswerTaken
           \/ AnswerAborted \/ UNCHANGED vars
  BY <1>8 DEF WorkerIdle, AwaitAck, RequestLoop, ConvDeferred, AnswerTaken,
     AnswerAborted
<1>9. CASE \/ ClientStartAuth \/ ClientSubmitAnswer \/ ClientCancelAuth
  BY <1>9 DEF ClientStartAuth, StartAuth, ClientSubmitAnswer, SubmitAnswer,
     ClientCancelAuth, CancelAuth
<1>10. CASE ClientHandlesEvent \/ RequestShutdown
  <2>1. UNCHANGED <<events, pipe>> /\ main \in {"loop", "events"}
    BY <1>10 DEF ClientHandlesEvent, EventHandled, AckTerminal, RequestShutdown
  <2> QED BY <2>1
<1>11. CASE DrainPipe
  BY <1>11 DEF DrainPipe
<1>12. CASE TakeEvents
  BY <1>12 DEF TakeEvents
<1>13. CASE Join
  BY <1>13 DEF Join
<1> QED
  BY <1>3, <1>4, <1>5, <1>6, <1>7, <1>8, <1>9, <1>10, <1>11, <1>12, <1>13
  DEF Next, WorkerStep, Drain, Client, Finished, Quiet

\* The sequence q brings the terminal event of transaction t.
Delivers(q, t) ==
    \E i \in 1..Len(q) : EventIsTerminal(q[i]) /\ q[i].transaction_id = t

LEMMA DeliversConcat ==
    ASSUME NEW q \in Seq(Events), NEW r \in Seq(Events), NEW t
    PROVE  Delivers(q \o r, t) <=> Delivers(q, t) \/ Delivers(r, t)
<1>1. /\ Len(q \o r) = Len(q) + Len(r)
      /\ \A i \in 1..(Len(q) + Len(r)) :
            (q \o r)[i] = IF i <= Len(q) THEN q[i] ELSE r[i - Len(q)]
      /\ Len(q) \in Nat /\ Len(r) \in Nat
  BY ConcatProperties, LenProperties
<1> DEFINE is(e) == EventIsTerminal(e) /\ e.transaction_id = t
<1>2. ASSUME Delivers(q \o r, t) PROVE Delivers(q, t) \/ Delivers(r, t)
  <2>1. PICK i \in 1..Len(q \o r) : is((q \o r)[i])
    BY <1>2 DEF Delivers
  <2> HIDE DEF is
  <2>2. CASE i <= Len(q)
    <3>1. i \in 1..Len(q) /\ is(q[i])
      BY <1>1, <2>1, <2>2
    <3> QED BY <3>1 DEF Delivers, is
  <2>3. CASE i > Len(q)
    <3>1. i - Len(q) \in 1..Len(r) /\ is(r[i - Len(q)])
      BY <1>1, <2>1, <2>3
    <3> QED BY <3>1 DEF Delivers, is
  <2> QED BY <1>1, <2>1, <2>2, <2>3
<1>3. ASSUME Delivers(q, t) PROVE Delivers(q \o r, t)
  <2>1. PICK i \in 1..Len(q) : is(q[i])
    BY <1>3 DEF Delivers
  <2> HIDE DEF is
  <2>2. i \in 1..Len(q \o r) /\ is((q \o r)[i])
    BY <1>1, <2>1
  <2> QED BY <2>2 DEF Delivers, is
<1>4. ASSUME Delivers(r, t) PROVE Delivers(q \o r, t)
  <2>1. PICK i \in 1..Len(r) : is(r[i])
    BY <1>4 DEF Delivers
  <2> HIDE DEF is
  <2>2. /\ i + Len(q) \in 1..Len(q \o r)
        /\ ~(i + Len(q) <= Len(q)) /\ (i + Len(q)) - Len(q) = i
    BY <1>1, <2>1
  <2>3. is((q \o r)[i + Len(q)])
    BY <1>1, <2>1, <2>2
  <2> QED BY <2>2, <2>3 DEF Delivers, is
<1> QED BY <1>2, <1>3, <1>4

\* Only the handled event leaves the snapshot.
LEMMA DeliversTail ==
    ASSUME NEW q \in Seq(Events), q # << >>, NEW t, Delivers(q, t),
           ~(EventIsTerminal(Head(q)) /\ Head(q).transaction_id = t)
    PROVE  Delivers(Tail(q), t)
<1>1. /\ Len(q) \in Nat /\ Len(Tail(q)) = Len(q) - 1
      /\ \A i \in 1..Len(Tail(q)) : Tail(q)[i] = q[i + 1]
  BY HeadTailProperties, LenProperties
<1>2. PICK i \in 1..Len(q) : EventIsTerminal(q[i]) /\ q[i].transaction_id = t
  BY DEF Delivers
<1>3. i # 1
  <2>1. Head(q) = q[1]
    OBVIOUS
  <2> QED BY <1>2, <2>1
<1>4. i - 1 \in 1..Len(Tail(q)) /\ (i - 1) + 1 = i
  BY <1>1, <1>3
<1>5. Tail(q)[i - 1] = q[i]
  BY <1>1, <1>4
<1> QED BY <1>2, <1>4, <1>5 DEF Delivers

\* A terminal event always gets a place in the queue.
LEMMA TerminalIsEnqueued ==
    ASSUME NEW q \in Seq(Events), Len(q) <= MaxEvents, NEW e \in Events,
           EventIsTerminal(e)
    PROVE  Delivers(Enqueue(q, e), e.transaction_id)
<1>1. ASSUME NEW r \in Seq(Events) PROVE Delivers(Append(r, e), e.transaction_id)
  <2>1. /\ Len(r) \in Nat /\ Len(Append(r, e)) = Len(r) + 1
        /\ Append(r, e)[Len(r) + 1] = e
    BY LenProperties, AppendProperties
  <2>2. Len(r) + 1 \in 1..Len(Append(r, e))
    BY <2>1
  <2> QED BY <2>1, <2>2 DEF Delivers
<1>2. CASE Len(q) < MaxEvents
  BY <1>1, <1>2 DEF Enqueue
<1>3. CASE ~(Len(q) < MaxEvents)
  <2>1. Len(q) >= MaxEvents
    BY <1>3, LenProperties, ConstantsAssumption
  <2>2. Victims(q, e) # {}
    BY DEF Victims
  <2>3. RemoveAt(q, DropIndex(q, e)) \in Seq(Events)
    BY <2>1, <2>2, DropIndexInQueue, RemoveAtProperties
  <2>4. Enqueue(q, e) = Append(RemoveAt(q, DropIndex(q, e)), e)
    BY <1>3, <2>2 DEF Enqueue
  <2> QED BY <1>1, <2>3, <2>4
<1> QED BY <1>2, <1>3

\* The property in terms of Delivers.
PendingIsDelivered ==
    terminal_ack_pending /\ main # "done" =>
        \/ Delivers(snapshot, terminal_transaction_id)
        \/ Delivers(events, terminal_transaction_id)

LEMMA PendingIsDelivers ==
    QueueTypeOK => (PendingTerminalDelivered <=> PendingIsDelivered)
<1> SUFFICES ASSUME QueueTypeOK
             PROVE  PendingTerminalDelivered <=> PendingIsDelivered
  OBVIOUS
<1> USE DEF QueueTypeOK, PendingIsDelivered
<1>1. Undelivered \in Seq(Events)
  BY ConcatProperties DEF Undelivered
<1>2. DOMAIN Undelivered = 1..Len(Undelivered)
  BY <1>1, LenProperties
<1>3. Delivers(Undelivered, terminal_transaction_id) <=>
        \/ Delivers(snapshot, terminal_transaction_id)
        \/ Delivers(events, terminal_transaction_id)
  BY DeliversConcat DEF Undelivered
<1>4. Delivers(Undelivered, terminal_transaction_id) <=>
        \E i \in DOMAIN Undelivered :
            /\ EventIsTerminal(Undelivered[i])
            /\ Undelivered[i].transaction_id = terminal_transaction_id
  BY <1>2 DEF Delivers
<1> QED BY <1>3, <1>4 DEF PendingTerminalDelivered

\* The terminal event stays on its way until it is handled: while one is to be
\* acknowledged nothing else is posted, and handling it acknowledges it.
LEMMA PendingStep ==
    ASSUME Typed, Slot, PendingTerminalDelivered, [Next]_vars
    PROVE  PendingTerminalDelivered'
<1> DEFINE P == PendingIsDelivered
<1>1. P
  BY PendingIsDelivers DEF Typed, TypeOK
<1>2. SUFFICES P'
  <2>1. QueueTypeOK'
    BY TypedStep DEF Typed, TypeOK
  <2>2. (QueueTypeOK => (PendingTerminalDelivered <=> PendingIsDelivered))'
    BY PendingIsDelivers, PTL
  <2> QED BY <2>1, <2>2
<1> USE DEF PendingIsDelivered
<1> USE DEF Slot, SlotAgrees
<1>3. ASSUME UNCHANGED <<events, snapshot, terminal_transaction_id>>,
             terminal_ack_pending' => terminal_ack_pending,
             main' # "done" => main # "done"
      PROVE  P'
  BY <1>1, <1>3 DEF Delivers
<1>4. ASSUME UNCHANGED terminal, pc \notin {"await_ack", "exited"} PROVE P'
  BY <1>4
<1>5. CASE Quiet
  BY <1>3, <1>5, QuietSteps DEF Threads, Typed, TypeOK
<1>6. CASE WorkerStarts
  BY <1>4, <1>6 DEF WorkerStarts, RequestLoop
<1>7. CASE WorkerIdle \/ AwaitAck
  BY <1>3, <1>7 DEF WorkerIdle, AwaitAck, RequestLoop
<1>8. CASE ConvStatus \/ ConvDeferred \/ AnswerTaken \/ AnswerAborted
  BY <1>4, <1>8 DEF ConvStatus, ConvDeferred, AnswerTaken, AnswerAborted
<1>9. ASSUME NEW echo_on \in BOOLEAN, ConvPrompt(echo_on) PROVE P'
  BY <1>4, <1>9 DEF ConvPrompt
<1>10. CASE EndTransaction
  <2>1. /\ Outcome \in TerminalTypes /\ Outcome \in EventTypes
    BY DEF Outcome, TerminalTypes, EventTypes
  <2>2. /\ TerminalEvent \in Events /\ EventIsTerminal(TerminalEvent)
        /\ TerminalEvent.transaction_id = txn
    BY <2>1, EventType DEF TerminalEvent, Event, EventIsTerminal, Typed, TypeOK,
       ThreadTypeOK
  <2>3. /\ events' = Enqueue(events, TerminalEvent)
        /\ terminal_transaction_id' = txn
    BY <1>10 DEF EndTransaction, PostEvent
  <2>4. Delivers(events', txn)
    BY <2>2, <2>3, TerminalIsEnqueued DEF Typed, TypeOK, QueueTypeOK
  <2> QED BY <2>3, <2>4
<1>11. CASE ClientStartAuth \/ ClientSubmitAnswer \/ RequestShutdown
  BY <1>3, <1>11 DEF ClientStartAuth, StartAuth, ClientSubmitAnswer,
     SubmitAnswer, RequestShutdown
<1>12. CASE ClientCancelAuth
  <2>1. PICK t \in Transactions : CancelAuth(t)
    BY <1>12 DEF ClientCancelAuth
  <2>2. UNCHANGED <<events, ui>>
    BY <1>12, <2>1 DEF ClientCancelAuth, CancelAuth
  <2>3. CASE ClearTerminal
    BY <2>3 DEF ClearTerminal
  <2>4. CASE UNCHANGED terminal
    BY <1>3, <2>2, <2>4
  <2> QED BY <2>1, <2>3, <2>4 DEF CancelAuth
<1>13. CASE DrainPipe
  BY <1>3, <1>13 DEF DrainPipe
<1>14. CASE TakeEvents
  <2>1. /\ snapshot' = events /\ UNCHANGED terminal /\ main = "drain"
    BY <1>14 DEF TakeEvents
  <2>2. snapshot = << >>
    BY <2>1 DEF Typed, PlacesAgree
  <2>3. ~Delivers(snapshot, terminal_transaction_id)
    BY <2>2, EmptySeq DEF Delivers
  <2> QED BY <1>1, <2>1, <2>3 DEF Delivers
<1>15. CASE ClientHandlesEvent
  <2> DEFINE h == Head(snapshot)
  <2>1. /\ main = "events" /\ snapshot' = Tail(snapshot)
        /\ UNCHANGED <<events, terminal_transaction_id>> \/ ClearTerminal
    BY <1>15 DEF ClientHandlesEvent, EventHandled, AckTerminal
  <2>2. snapshot \in Seq(Events) /\ snapshot # << >>
    BY <2>1 DEF Typed, PlacesAgree, TypeOK, QueueTypeOK
  <2>3. CASE EventIsTerminal(h) /\ TerminalAwaits(h.transaction_id)
    BY <1>15, <2>3 DEF ClientHandlesEvent, AckTerminal, ClearTerminal
  <2>4. CASE ~(EventIsTerminal(h) /\ TerminalAwaits(h.transaction_id))
    <3>1. UNCHANGED <<events, terminal>>
      BY <1>15, <2>4 DEF ClientHandlesEvent, AckTerminal
    <3>2. CASE terminal_ack_pending
      <4>1. ~(EventIsTerminal(h) /\ h.transaction_id = terminal_transaction_id)
        BY <2>4, <3>2 DEF TerminalAwaits
      <4>2. Delivers(snapshot, terminal_transaction_id) =>
              Delivers(Tail(snapshot), terminal_transaction_id)
        BY <2>2, <4>1, DeliversTail
      <4> QED BY <1>1, <2>1, <3>1, <3>2, <4>2 DEF Delivers
    <3>3. CASE ~terminal_ack_pending
      BY <3>1, <3>3
    <3> QED BY <3>2, <3>3
  <2> QED BY <2>3, <2>4
<1>16. CASE Join
  BY <1>16 DEF Join
<1>17. CASE UNCHANGED vars
  BY <1>3, <1>17
<1> QED
  BY <1>5, <1>6, <1>7, <1>8, <1>9, <1>10, <1>11, <1>12, <1>13, <1>14, <1>15,
     <1>16, <1>17
  DEF Next, WorkerStep, Drain, Client, Finished, Quiet

-----------------------------------------------------------------------------
(* The inductive invariant *)

LEMMA IndInvParts ==
    IndInv <=> /\ Typed /\ Slot /\ WaitingIsReal /\ CredentialsScoped
               /\ QueuedEventsWakeMain /\ PendingTerminalDelivered
BY DEF IndInv, Typed, Slot

LEMMA IndInvInit == Init => IndInv
<1> SUFFICES ASSUME Init PROVE IndInv
  OBVIOUS
<1>1. Typed
  BY TypedInit
<1>2. Slot
  BY PlaceSets DEF Init, Slot, RunsActiveTransaction, SlotAgrees
<1>3. WaitingIsReal /\ QueuedEventsWakeMain /\ PendingTerminalDelivered
  BY DEF Init, WaitingIsReal, QueuedEventsWakeMain, PendingTerminalDelivered
<1>4. CredentialsScoped
  BY DEF Init, CredentialsScoped
<1> QED BY <1>1, <1>2, <1>3, <1>4, IndInvParts

LEMMA IndInvStep == IndInv /\ [Next]_vars => IndInv'
<1> SUFFICES ASSUME IndInv, [Next]_vars PROVE IndInv'
  OBVIOUS
<1>1. /\ Typed /\ Slot /\ WaitingIsReal /\ CredentialsScoped
      /\ QueuedEventsWakeMain /\ PendingTerminalDelivered
  BY IndInvParts
<1>2. Typed'
  BY <1>1, TypedStep
<1>3. Slot'
  BY <1>1, SlotStep
<1>4. WaitingIsReal'
  BY <1>1, WaitingStep
<1>5. CredentialsScoped'
  BY <1>1, CredentialsStep
<1>6. QueuedEventsWakeMain'
  BY <1>1, WakeStep
<1>7. PendingTerminalDelivered'
  BY <1>1, PendingStep
<1> QED BY <1>2, <1>3, <1>4, <1>5, <1>6, <1>7 DEF IndInv, Typed, Slot

\* The inductive invariant of the controller holds for every capacity of the
\* queue and of the pipe and every number of messages of a conversation.
THEOREM Inductive == Spec => []IndInv
<1> HIDE DEF vars, ctrl, worker, ui
<1> QED BY IndInvInit, IndInvStep, PTL DEF Spec

\* The worker always runs the transaction in the slot: start_auth never takes
\* the slot from a transaction that has not ended.
THEOREM SlotIsSafe == Spec => []RunsActiveTransaction
<1>1. IndInv => RunsActiveTransaction
  BY DEF IndInv
<1> QED BY <1>1, Inductive, PTL

\* However full the queue, the terminal event whose acknowledgement the worker
\* awaits is not dropped by post_event_locked.
THEOREM TerminalIsDelivered == Spec => []PendingTerminalDelivered
<1>1. IndInv => PendingTerminalDelivered
  BY DEF IndInv
<1> QED BY <1>1, Inductive, PTL

\* No wake-up is lost between drain_events, which empties the pipe before it
\* takes the queue, and post_event_locked, which ignores a full pipe.
THEOREM NoLostWakeup == Spec => []QueuedEventsWakeMain
<1>1. IndInv => QueuedEventsWakeMain
  BY DEF IndInv
<1> QED BY <1>1, Inductive, PTL

\* Credentials are wiped with the request or the prompt they were typed for,
\* and PAM is given the answer to the prompt it is waiting at.
THEOREM CredentialsAreScoped == Spec => []CredentialsScoped
<1>1. IndInv => CredentialsScoped
  BY DEF IndInv
<1> QED BY <1>1, Inductive, PTL

\* The controller accepts an answer exactly while the worker waits for one.
THEOREM WaitsForReal == Spec => []WaitingIsReal
<1>1. IndInv => WaitingIsReal
  BY DEF IndInv
<1> QED BY <1>1, Inductive, PTL

-----------------------------------------------------------------------------
(* Cancellation *)

\* A terminal event is the newest of the queue it is posted to.
LEMMA TerminalIsLast ==
    ASSUME NEW q \in Seq(Events), Len(q) <= MaxEvents, NEW e \in Events,
           EventIsTerminal(e)
    PROVE  Last(Enqueue(q, e)) = e
<1>1. ASSUME NEW r \in Seq(Events) PROVE Last(Append(r, e)) = e
  BY LenProperties, AppendProperties DEF Last
<1>2. CASE Len(q) < MaxEvents
  BY <1>1, <1>2 DEF Enqueue
<1>3. CASE ~(Len(q) < MaxEvents)
  <2>1. Len(q) >= MaxEvents
    BY <1>3, LenProperties, ConstantsAssumption
  <2>2. Victims(q, e) # {}
    BY DEF Victims
  <2>3. RemoveAt(q, DropIndex(q, e)) \in Seq(Events)
    BY <2>1, <2>2, DropIndexInQueue, RemoveAtProperties
  <2>4. Enqueue(q, e) = Append(RemoveAt(q, DropIndex(q, e)), e)
    BY <1>3, <2>2 DEF Enqueue
  <2> QED BY <1>1, <2>3, <2>4
<1> QED BY <1>2, <1>3

\* A cancellation is dropped by no step but the end of the transaction, and
\* that end looks at it before PAM's result.
LEMMA CancelledStep ==
    ASSUME IndInv, [Next]_vars, cancellation_requested, pc \in Running
    PROVE  \/ cancellation_requested' /\ pc' \in Running
           \/ /\ pc = "pam_end"
              /\ Last(events').type = "CANCELLED"
              /\ Last(events').transaction_id = txn
<1> DEFINE Kept == cancellation_requested' /\ pc' \in Running
<1>1. Typed /\ RunsActiveTransaction
  BY IndInvParts DEF Slot
<1>2. CASE Quiet
  BY <1>1, <1>2, QuietSteps DEF Threads, Typed, TypeOK
<1>3. CASE WorkerStarts \/ WorkerIdle \/ AwaitAck
  BY <1>3, PlaceSets DEF WorkerStarts, WorkerIdle, AwaitAck
<1>4. CASE ConvStatus \/ ConvDeferred \/ AnswerTaken \/ AnswerAborted
  <2>1. /\ pc \in {"conv", "await_answer"}
        /\ NextMessage \/ ReturnFromConv
        /\ UNCHANGED <<locals, ui, cancellation_requested>>
    BY <1>4 DEF ConvStatus, ConvDeferred, AnswerTaken, AnswerAborted, ReplyOrFail
  <2>2. pc' \in Running
    BY <1>1, <2>1, NextMessageThreads, PlaceSets DEF Threads, Typed, TypeOK
  <2> QED BY <2>1, <2>2
<1>5. ASSUME NEW echo_on \in BOOLEAN, ConvPrompt(echo_on) PROVE Kept
  BY <1>5 DEF ConvPrompt, Stopping
<1>6. CASE EndTransaction
  <2>1. Outcome = "CANCELLED"
    BY DEF Outcome
  <2>2. /\ TerminalEvent \in Events /\ EventIsTerminal(TerminalEvent)
        /\ TerminalEvent.type = "CANCELLED"
        /\ TerminalEvent.transaction_id = txn
    BY <1>1, <2>1, EventType, EventTypesAre
    DEF TerminalEvent, Event, EventIsTerminal, TerminalTypes, Typed, TypeOK,
        ThreadTypeOK
  <2>3. events' = Enqueue(events, TerminalEvent) /\ pc = "pam_end"
    BY <1>6 DEF EndTransaction, PostEvent
  <2>4. Last(events') = TerminalEvent
    BY <1>1, <2>2, <2>3, TerminalIsLast DEF Typed, TypeOK, QueueTypeOK
  <2> QED BY <2>2, <2>3, <2>4
<1>7. CASE ClientStartAuth
  BY <1>1, <1>7 DEF ClientStartAuth, StartAuth, StartAuthAccepted,
     RunsActiveTransaction
<1>8. CASE ClientCancelAuth
  BY <1>8 DEF ClientCancelAuth, CancelAuth
<1>9. CASE \/ DrainPipe \/ TakeEvents \/ ClientHandlesEvent
           \/ ClientSubmitAnswer \/ RequestShutdown \/ UNCHANGED vars
  BY <1>9 DEF DrainPipe, TakeEvents, ClientHandlesEvent, AckTerminal,
     ClientSubmitAnswer, SubmitAnswer, RequestShutdown
<1>10. CASE Join
  BY <1>10, PlaceSets DEF Join
<1> QED
  BY <1>2, <1>3, <1>4, <1>5, <1>6, <1>7, <1>8, <1>9, <1>10
  DEF Next, WorkerStep, Drain, Client, Finished, Quiet

\* A transaction the user cancelled while it ran is reported as cancelled, not
\* as the success or the failure that PAM came to meanwhile.
THEOREM CancellationWins == Spec => CancelledStaysCancelled
<1> DEFINE Kept ==
        cancellation_requested /\ pc \in Running =>
            \/ cancellation_requested' /\ pc' \in Running
            \/ /\ pc = "pam_end"
               /\ Last(events').type = "CANCELLED"
               /\ Last(events').transaction_id = txn
<1>1. IndInv /\ [Next]_vars => [Kept]_vars
  BY CancelledStep
<1>2. CancelledStaysCancelled <=> [][Kept]_vars
  BY DEF CancelledStaysCancelled
<1> HIDE DEF vars, ctrl, worker, ui, Kept
<1> QED BY <1>1, <1>2, Inductive, PTL DEF Spec

-----------------------------------------------------------------------------
(* Sequences of events that are in order *)

\* What EventsInOrder says of an event a that is delivered before b.
Before(a, b) ==
    /\ a.transaction_id <= b.transaction_id
    /\ EventIsTerminal(a) => a.transaction_id < b.transaction_id
    /\ a.type = "PROMPT" /\ b.type = "PROMPT" => a.prompt_id < b.prompt_id

Ordered(q) == \A i, j \in 1..Len(q) : i < j => Before(q[i], q[j])

\* p is what is left of q when some of its elements are dropped.
Thinned(p, q) ==
    \E f \in [1..Len(p) -> 1..Len(q)] :
        /\ \A k \in 1..Len(p) : p[k] = q[f[k]]
        /\ \A k, l \in 1..Len(p) : k < l => f[k] < f[l]

LEMMA InOrderIsOrdered ==
    QueueTypeOK => (EventsInOrder <=> Ordered(Undelivered))
<1> SUFFICES ASSUME QueueTypeOK PROVE EventsInOrder <=> Ordered(Undelivered)
  OBVIOUS
<1>1. Undelivered \in Seq(Events)
  BY ConcatProperties DEF Undelivered, QueueTypeOK
<1>2. DOMAIN Undelivered = 1..Len(Undelivered)
  BY <1>1, LenProperties
<1> QED BY <1>2 DEF EventsInOrder, Ordered, Before

LEMMA ConcatElements ==
    ASSUME NEW s \in Seq(Events), NEW q \in Seq(Events)
    PROVE  /\ Len(s) \in Nat /\ Len(q) \in Nat /\ Len(s \o q) = Len(s) + Len(q)
           /\ s \o q \in Seq(Events)
           /\ \A i \in 1..Len(s) : i \in 1..Len(s \o q) /\ (s \o q)[i] = s[i]
           /\ \A i \in 1..Len(q) :
                 /\ Len(s) + i \in 1..Len(s \o q)
                 /\ (s \o q)[Len(s) + i] = q[i]
           /\ \A k \in 1..Len(s \o q) :
                 \/ k \in 1..Len(s) /\ (s \o q)[k] = s[k]
                 \/ k - Len(s) \in 1..Len(q) /\ (s \o q)[k] = q[k - Len(s)]
<1>1. /\ s \o q \in Seq(Events) /\ Len(s \o q) = Len(s) + Len(q)
      /\ \A i \in 1..(Len(s) + Len(q)) :
            (s \o q)[i] = IF i <= Len(s) THEN s[i] ELSE q[i - Len(s)]
      /\ Len(s) \in Nat /\ Len(q) \in Nat
  BY ConcatProperties, LenProperties
<1>2. ASSUME NEW i \in 1..Len(q)
      PROVE  Len(s) + i \in 1..Len(s \o q) /\ (s \o q)[Len(s) + i] = q[i]
  <2>1. /\ Len(s) + i \in 1..(Len(s) + Len(q)) /\ ~(Len(s) + i <= Len(s))
        /\ (Len(s) + i) - Len(s) = i
    BY <1>1
  <2> QED BY <1>1, <2>1
<1>3. ASSUME NEW i \in 1..Len(s)
      PROVE  i \in 1..Len(s \o q) /\ (s \o q)[i] = s[i]
  BY <1>1
<1>4. ASSUME NEW k \in 1..Len(s \o q)
      PROVE  \/ k \in 1..Len(s) /\ (s \o q)[k] = s[k]
             \/ k - Len(s) \in 1..Len(q) /\ (s \o q)[k] = q[k - Len(s)]
  <2>1. CASE k <= Len(s)
    BY <1>1, <2>1
  <2>2. CASE ~(k <= Len(s))
    <3>1. k - Len(s) \in 1..Len(q)
      BY <1>1, <2>2
    <3> QED BY <1>1, <2>2, <3>1
  <2> QED BY <2>1, <2>2
<1> QED BY <1>1, <1>2, <1>3, <1>4

\* Dropping events from the end of s \o q drops events from s \o q.
LEMMA ThinnedConcat ==
    ASSUME NEW s \in Seq(Events), NEW p \in Seq(Events), NEW q \in Seq(Events),
           Thinned(p, q)
    PROVE  Thinned(s \o p, s \o q)
<1>1. PICK f \in [1..Len(p) -> 1..Len(q)] :
           /\ \A k \in 1..Len(p) : p[k] = q[f[k]]
           /\ \A k, l \in 1..Len(p) : k < l => f[k] < f[l]
  BY DEF Thinned
<1> DEFINE n == Len(s)
           P == s \o p
           Q == s \o q
           g == [k \in 1..Len(P) |-> IF k <= n THEN k ELSE n + f[k - n]]
<1>2. n \in Nat /\ Len(p) \in Nat /\ Len(q) \in Nat
  BY LenProperties
<1>3. Len(P) = n + Len(p) /\ Len(Q) = n + Len(q)
  BY ConcatElements
<1>4. ASSUME NEW k \in 1..Len(P)
      PROVE  g[k] \in 1..Len(Q) /\ P[k] = Q[g[k]]
  <2>1. CASE k <= n
    <3>1. k \in 1..n /\ g[k] = k
      BY <1>2, <2>1
    <3> QED BY <3>1, ConcatElements
  <2>2. CASE ~(k <= n)
    <3>1. k - n \in 1..Len(p) /\ n + (k - n) = k
      BY <1>2, <1>3, <2>2
    <3>2. f[k - n] \in 1..Len(q) /\ g[k] = n + f[k - n]
      BY <2>2, <3>1
    <3>3. P[k] = p[k - n]
      <4>1. P[n + (k - n)] = p[k - n]
        BY <3>1, ConcatElements
      <4> QED BY <3>1, <4>1
    <3>4. Q[n + f[k - n]] = q[f[k - n]] /\ n + f[k - n] \in 1..Len(Q)
      <4> DEFINE j == f[k - n]
      <4>1. j \in 1..Len(q)
        BY <3>2
      <4> HIDE DEF j
      <4>2. Len(s) + j \in 1..Len(s \o q) /\ (s \o q)[Len(s) + j] = q[j]
        BY <4>1, ConcatElements
      <4> QED BY <4>2 DEF j
    <3> QED BY <1>1, <3>1, <3>3, <3>4
  <2> QED BY <2>1, <2>2
<1>5. ASSUME NEW k \in 1..Len(P), NEW l \in 1..Len(P), k < l
      PROVE  g[k] < g[l]
  <2>1. CASE l <= n
    BY <1>2, <1>5, <2>1
  <2>2. CASE k <= n /\ ~(l <= n)
    <3>1. l - n \in 1..Len(p)
      BY <1>2, <1>3, <2>2
    <3>2. f[l - n] \in 1..Len(q)
      BY <3>1
    <3> QED BY <1>2, <2>2, <3>2
  <2>3. CASE ~(k <= n) /\ ~(l <= n)
    <3>1. k - n \in 1..Len(p) /\ l - n \in 1..Len(p) /\ k - n < l - n
      BY <1>2, <1>3, <1>5, <2>3
    <3>2. /\ f[k - n] < f[l - n]
          /\ f[k - n] \in 1..Len(q) /\ f[l - n] \in 1..Len(q)
      BY <1>1, <3>1
    <3> QED BY <1>2, <2>3, <3>2
  <2> QED BY <1>2, <1>5, <2>1, <2>2, <2>3
<1>6. g \in [1..Len(P) -> 1..Len(Q)]
  BY <1>4
<1> HIDE DEF g, P, Q
<1>7. Thinned(P, Q)
  BY <1>4, <1>5, <1>6 DEF Thinned
<1> QED BY <1>7 DEF P, Q

LEMMA ThinnedOrdered ==
    ASSUME NEW p, NEW q, Len(p) \in Nat, Len(q) \in Nat, Thinned(p, q), Ordered(q)
    PROVE  Ordered(p)
<1>1. PICK f \in [1..Len(p) -> 1..Len(q)] :
           /\ \A k \in 1..Len(p) : p[k] = q[f[k]]
           /\ \A k, l \in 1..Len(p) : k < l => f[k] < f[l]
  BY DEF Thinned
<1>2. ASSUME NEW k \in 1..Len(p), NEW l \in 1..Len(p), k < l
      PROVE  Before(p[k], p[l])
  <2>1. f[k] \in 1..Len(q) /\ f[l] \in 1..Len(q) /\ f[k] < f[l]
    BY <1>1, <1>2
  <2>2. Before(q[f[k]], q[f[l]])
    BY <2>1 DEF Ordered
  <2> QED BY <1>1, <2>2
<1> QED BY <1>2 DEF Ordered

\* An event that comes after all others is appended in order.
LEMMA AppendOrdered ==
    ASSUME NEW q \in Seq(Events), NEW e \in Events, Ordered(q),
           \A i \in 1..Len(q) : Before(q[i], e)
    PROVE  Ordered(Append(q, e))
<1>1. /\ Len(q) \in Nat /\ Len(Append(q, e)) = Len(q) + 1
      /\ Append(q, e)[Len(q) + 1] = e
      /\ \A i \in 1..Len(q) : Append(q, e)[i] = q[i]
  BY LenProperties, AppendProperties
<1>2. ASSUME NEW i \in 1..Len(Append(q, e)), NEW j \in 1..Len(Append(q, e)), i < j
      PROVE  Before(Append(q, e)[i], Append(q, e)[j])
  <2>1. i \in 1..Len(q) /\ Append(q, e)[i] = q[i]
    BY <1>1, <1>2
  <2>2. CASE j = Len(q) + 1
    BY <1>1, <2>1, <2>2
  <2>3. CASE j \in 1..Len(q)
    BY <1>1, <1>2, <2>1, <2>3 DEF Ordered
  <2> QED BY <1>1, <2>2, <2>3
<1> QED BY <1>2 DEF Ordered

\* The sequence without its first element.
LEMMA TailThinned ==
    ASSUME NEW q \in Seq(Events), q # << >>
    PROVE  Thinned(Tail(q), q)
<1>1. /\ Len(q) \in Nat /\ Len(Tail(q)) = Len(q) - 1
      /\ \A i \in 1..Len(Tail(q)) : Tail(q)[i] = q[i + 1]
  BY HeadTailProperties, LenProperties
<1> DEFINE f == [k \in 1..Len(Tail(q)) |-> k + 1]
<1>2. f \in [1..Len(Tail(q)) -> 1..Len(q)]
  BY <1>1
<1>3. \A k \in 1..Len(Tail(q)) : Tail(q)[k] = q[f[k]]
  BY <1>1
<1>4. \A k, l \in 1..Len(Tail(q)) : k < l => f[k] < f[l]
  BY <1>1
<1> HIDE DEF f
<1> QED BY <1>2, <1>3, <1>4 DEF Thinned

LEMMA SameThinned ==
    ASSUME NEW q \in Seq(Events)
    PROVE  Thinned(q, q)
<1> DEFINE f == [k \in 1..Len(q) |-> k]
<1>1. /\ f \in [1..Len(q) -> 1..Len(q)]
      /\ \A k \in 1..Len(q) : q[k] = q[f[k]]
      /\ \A k, l \in 1..Len(q) : k < l => f[k] < f[l]
  BY LenProperties
<1> HIDE DEF f
<1> QED BY <1>1 DEF Thinned

\* The sequence without one of its elements, which keeps all others.
LEMMA RemoveAtThinned ==
    ASSUME NEW q \in Seq(Events), NEW i \in 1..Len(q)
    PROVE  /\ Thinned(RemoveAt(q, i), q)
           /\ \A j \in 1..Len(q) :
                 j # i => \E k \in 1..Len(RemoveAt(q, i)) : RemoveAt(q, i)[k] = q[j]
<1> DEFINE r == RemoveAt(q, i)
           f == [k \in 1..Len(r) |-> IF k < i THEN k ELSE k + 1]
<1>1. /\ Len(q) \in Nat /\ Len(r) = Len(q) - 1
      /\ \A k \in 1..Len(r) : r[k] = IF k < i THEN q[k] ELSE q[k + 1]
  BY RemoveAtProperties, LenProperties
<1> HIDE DEF r
<1>2. f \in [1..Len(r) -> 1..Len(q)]
  BY <1>1
<1>3. \A k \in 1..Len(r) : r[k] = q[f[k]]
  BY <1>1
<1>4. \A k, l \in 1..Len(r) : k < l => f[k] < f[l]
  BY <1>1
<1>5. Thinned(r, q)
  <2> HIDE DEF f
  <2> QED BY <1>2, <1>3, <1>4 DEF Thinned
<1>6. ASSUME NEW j \in 1..Len(q), j # i PROVE \E k \in 1..Len(r) : r[k] = q[j]
  <2>1. CASE j < i
    <3>1. j \in 1..Len(r) /\ r[j] = q[j]
      BY <1>1, <2>1
    <3> QED BY <3>1
  <2>2. CASE ~(j < i)
    <3>1. j - 1 \in 1..Len(r) /\ ~(j - 1 < i) /\ (j - 1) + 1 = j
      BY <1>1, <1>6, <2>2
    <3>2. r[j - 1] = q[j]
      BY <1>1, <3>1
    <3> QED BY <3>1, <3>2
  <2> QED BY <2>1, <2>2
<1> QED BY <1>5, <1>6 DEF r

\* Posting e leaves the queue as it is, or appends e to what is left of it;
\* an event that is not terminal does not displace one that is.
LEMMA EnqueueThinned ==
    ASSUME NEW q \in Seq(Events), Len(q) <= MaxEvents, NEW e \in Events
    PROVE  \/ ~Fits(q, e) /\ Enqueue(q, e) = q
           \/ /\ Fits(q, e)
              /\ \E p \in Seq(Events) :
                    /\ Thinned(p, q)
                    /\ Enqueue(q, e) = Append(p, e)
                    /\ ~EventIsTerminal(e) =>
                          \A j \in 1..Len(q) : EventIsTerminal(q[j]) =>
                              \E k \in 1..Len(p) : p[k] = q[j]
<1>1. CASE Len(q) < MaxEvents
  <2>1. Fits(q, e) /\ Enqueue(q, e) = Append(q, e) /\ Thinned(q, q)
    BY <1>1, SameThinned DEF Fits, Enqueue
  <2> QED BY <2>1
<1>2. CASE ~(Len(q) < MaxEvents) /\ Victims(q, e) # {}
  <2> DEFINE d == DropIndex(q, e)
             p == RemoveAt(q, d)
  <2>1. Len(q) >= MaxEvents
    BY <1>2, LenProperties, ConstantsAssumption
  <2>2. d \in 1..Len(q) /\ d \in Victims(q, e)
    BY <1>2, <2>1, DropIndexInQueue
  <2>3. Fits(q, e) /\ Enqueue(q, e) = Append(p, e)
    BY <1>2 DEF Fits, Enqueue
  <2> HIDE DEF d
  <2>4. p \in Seq(Events) /\ Thinned(p, q)
    BY <2>2, RemoveAtProperties, RemoveAtThinned
  <2>5. ASSUME ~EventIsTerminal(e), NEW j \in 1..Len(q), EventIsTerminal(q[j])
        PROVE  \E k \in 1..Len(p) : p[k] = q[j]
    <3>1. q[d].type = "STATUS"
      BY <2>2, <2>5 DEF Victims, IndicesOf
    <3>2. j # d
      BY <2>5, <3>1 DEF EventIsTerminal, TerminalTypes
    <3> QED BY <2>2, <3>2, RemoveAtThinned
  <2> HIDE DEF p
  <2> QED BY <2>3, <2>4, <2>5
<1>3. CASE ~(Len(q) < MaxEvents) /\ Victims(q, e) = {}
  BY <1>3 DEF Fits, Enqueue
<1> QED BY <1>1, <1>2, <1>3

LEMMA ConcatAppend ==
    ASSUME NEW s \in Seq(Events), NEW p \in Seq(Events), NEW e \in Events
    PROVE  s \o Append(p, e) = Append(s \o p, e)
<1>1. <<e>> \in Seq(Events) /\ s \o p \in Seq(Events)
  BY ConcatProperties
<1>2. Append(p, e) = p \o <<e>> /\ Append(s \o p, e) = (s \o p) \o <<e>>
  BY <1>1, AppendIsConcat
<1> QED BY <1>1, <1>2, ConcatAssociative

LEMMA TailConcat ==
    ASSUME NEW s \in Seq(Events), s # << >>, NEW q \in Seq(Events)
    PROVE  /\ s \o q # << >> /\ Head(s \o q) = Head(s)
           /\ Tail(s \o q) = Tail(s) \o q
<1> DEFINE c == s \o q
           t == Tail(s) \o q
<1>1. /\ Len(s) \in Nat /\ Len(q) \in Nat /\ Len(s) > 0
      /\ Tail(s) \in Seq(Events) /\ Len(Tail(s)) = Len(s) - 1
      /\ \A i \in 1..(Len(s) - 1) : Tail(s)[i] = s[i + 1]
  BY HeadTailProperties, LenProperties, EmptySeq
<1>2. /\ c \in Seq(Events) /\ Len(c) = Len(s) + Len(q)
      /\ \A i \in 1..(Len(s) + Len(q)) :
            c[i] = IF i <= Len(s) THEN s[i] ELSE q[i - Len(s)]
  BY ConcatProperties
<1>3. /\ t \in Seq(Events) /\ Len(t) = (Len(s) - 1) + Len(q)
      /\ \A i \in 1..((Len(s) - 1) + Len(q)) :
            t[i] = IF i <= Len(s) - 1 THEN Tail(s)[i] ELSE q[i - (Len(s) - 1)]
  BY <1>1, ConcatProperties
<1> HIDE DEF c, t
<1>4. c # << >> /\ Head(c) = c[1]
  BY <1>1, <1>2
<1>5. c[1] = s[1]
  BY <1>1, <1>2
<1>6. /\ Tail(c) \in Seq(Events) /\ Len(Tail(c)) = Len(t)
      /\ \A i \in 1..Len(Tail(c)) : Tail(c)[i] = c[i + 1]
  BY <1>1, <1>2, <1>3, <1>4, HeadTailProperties
<1>7. ASSUME NEW i \in 1..Len(t) PROVE Tail(c)[i] = t[i]
  <2>1. i \in 1..((Len(s) - 1) + Len(q)) /\ i + 1 \in 1..(Len(s) + Len(q))
    BY <1>1, <1>3
  <2>2. CASE i <= Len(s) - 1
    <3>1. c[i + 1] = s[i + 1] /\ t[i] = s[i + 1]
      BY <1>1, <1>2, <1>3, <2>1, <2>2
    <3> QED BY <1>6, <3>1
  <2>3. CASE ~(i <= Len(s) - 1)
    <3>1. ~(i + 1 <= Len(s)) /\ (i + 1) - Len(s) = i - (Len(s) - 1)
      BY <1>1, <2>3
    <3>2. c[i + 1] = q[(i + 1) - Len(s)] /\ t[i] = q[i - (Len(s) - 1)]
      BY <1>2, <1>3, <2>1, <2>3, <3>1
    <3> QED BY <1>6, <3>1, <3>2
  <2> QED BY <2>2, <2>3
<1>8. Tail(c) = t
  BY <1>3, <1>6, <1>7, SeqEqual
<1>9. Head(s) = s[1]
  OBVIOUS
<1> QED BY <1>4, <1>5, <1>8, <1>9 DEF c, t

-----------------------------------------------------------------------------
(* The order of events *)

USE DEF queue, command, exchange, secrets, ids, terminal, frame, locals, ui,
        ctrl, worker, vars

\* The worker may still post events of the active transaction.
Live == auth_requested \/ pc \in Running

\* The numbers of an event that has been posted, when transaction a is the
\* active one, p the next prompt and live says that a is not over.
Known(e, a, p, live) ==
    /\ e.transaction_id <= a
    /\ EventIsTerminal(e) /\ live => e.transaction_id < a
    /\ e.type = "PROMPT" => e.prompt_id < p

AllKnown(q, a, p, live) == \A i \in 1..Len(q) : Known(q[i], a, p, live)

\* What makes EventsInOrder inductive, and the slot agree with the events.
Order ==
    /\ Ordered(Undelivered)
    /\ AllKnown(Undelivered, active_transaction_id, next_prompt_id, Live)
    /\ pc = "start" => Undelivered = << >>
    /\ next_transaction_id = active_transaction_id + 1
    /\ terminal_ack_pending => terminal_transaction_id = active_transaction_id
    /\ main \in {"joining", "done"} => shutdown_requested

LEMMA ThinnedKnown ==
    ASSUME NEW p, NEW q, Thinned(p, q), NEW a, NEW n, NEW live,
           AllKnown(q, a, n, live)
    PROVE  AllKnown(p, a, n, live)
<1>1. PICK f \in [1..Len(p) -> 1..Len(q)] : \A k \in 1..Len(p) : p[k] = q[f[k]]
  BY DEF Thinned
<1>2. \A k \in 1..Len(p) : f[k] \in 1..Len(q)
  BY <1>1
<1> QED BY <1>1, <1>2 DEF AllKnown

\* What is undelivered after an event was posted.
LEMMA PostThins ==
    ASSUME Typed, NEW e \in Events, PostEvent(e), UNCHANGED snapshot
    PROVE  /\ Undelivered \in Seq(Events) /\ Undelivered' \in Seq(Events)
           /\ \/ Undelivered' = Undelivered
              \/ \E u \in Seq(Events) :
                    /\ Thinned(u, Undelivered)
                    /\ Undelivered' = Append(u, e)
<1>1. /\ events \in Seq(Events) /\ Len(events) <= MaxEvents
      /\ snapshot \in Seq(Events)
      /\ events' = Enqueue(events, e)
  BY DEF Typed, TypeOK, QueueTypeOK, PostEvent
<1>2. events' \in Seq(Events)
  BY <1>1, EnqueueType
<1>3. Undelivered \in Seq(Events) /\ Undelivered' \in Seq(Events)
  BY <1>1, <1>2, ConcatProperties DEF Undelivered
<1>4. CASE events' = events
  BY <1>3, <1>4 DEF Undelivered
<1>5. CASE \E p \in Seq(Events) : Thinned(p, events) /\ events' = Append(p, e)
  <2>1. PICK p \in Seq(Events) : Thinned(p, events) /\ events' = Append(p, e)
    BY <1>5
  <2>2. Thinned(snapshot \o p, snapshot \o events)
    BY <1>1, <2>1, ThinnedConcat
  <2>3. /\ snapshot \o p \in Seq(Events)
        /\ snapshot \o Append(p, e) = Append(snapshot \o p, e)
    BY <1>1, <2>1, ConcatProperties, ConcatAppend
  <2> QED BY <1>3, <2>1, <2>2, <2>3 DEF Undelivered
<1> QED BY <1>1, <1>4, <1>5, EnqueueThinned

\* An event of the active transaction that is posted keeps the order.
LEMMA PostOrdered ==
    ASSUME Typed, NEW e \in Events, PostEvent(e), UNCHANGED snapshot,
           Ordered(Undelivered), NEW n \in Nat,
           AllKnown(Undelivered, e.transaction_id, n, TRUE),
           e.type = "PROMPT" => e.prompt_id = n
    PROVE  Ordered(Undelivered')
<1>1. CASE Undelivered' = Undelivered
  BY <1>1
<1>2. CASE \E u \in Seq(Events) :
              Thinned(u, Undelivered) /\ Undelivered' = Append(u, e)
  <2>1. PICK u \in Seq(Events) :
              Thinned(u, Undelivered) /\ Undelivered' = Append(u, e)
    BY <1>2
  <2>2. Len(u) \in Nat /\ Len(Undelivered) \in Nat
    BY PostThins, LenProperties
  <2>3. Ordered(u) /\ AllKnown(u, e.transaction_id, n, TRUE)
    BY <2>1, <2>2, ThinnedOrdered, ThinnedKnown
  <2>4. \A i \in 1..Len(u) : Before(u[i], e)
    BY <2>3 DEF AllKnown, Known, Before
  <2>5. Ordered(Append(u, e))
    BY <2>3, <2>4, AppendOrdered
  <2> QED BY <2>1, <2>5
<1> QED BY <1>1, <1>2, PostThins

LEMMA PostKnown ==
    ASSUME Typed, NEW e \in Events, PostEvent(e), UNCHANGED snapshot,
           NEW a, NEW n, NEW live, AllKnown(Undelivered, a, n, live),
           Known(e, a, n, live)
    PROVE  AllKnown(Undelivered', a, n, live)
<1>1. CASE Undelivered' = Undelivered
  BY <1>1
<1>2. CASE \E u \in Seq(Events) :
              Thinned(u, Undelivered) /\ Undelivered' = Append(u, e)
  <2>1. PICK u \in Seq(Events) :
              Thinned(u, Undelivered) /\ Undelivered' = Append(u, e)
    BY <1>2
  <2>2. AllKnown(u, a, n, live)
    BY <2>1, ThinnedKnown
  <2>3. /\ Len(u) \in Nat /\ Len(Append(u, e)) = Len(u) + 1
        /\ Append(u, e)[Len(u) + 1] = e
        /\ \A i \in 1..Len(u) : Append(u, e)[i] = u[i]
    BY LenProperties, AppendProperties
  <2>4. \A i \in 1..Len(Append(u, e)) : i \in 1..Len(u) \/ i = Len(u) + 1
    BY <2>3
  <2>5. AllKnown(Append(u, e), a, n, live)
    BY <2>2, <2>3, <2>4 DEF AllKnown
  <2> QED BY <2>1, <2>5
<1> QED BY <1>1, <1>2, PostThins

\* Nothing is posted, what was taken is taken from the front, and the numbers
\* do not fall.
LEMMA ThinnedOrder ==
    ASSUME Typed, Order, Thinned(Undelivered', Undelivered),
           Undelivered' \in Seq(Events),
           Live' => Live,
           active_transaction_id' = active_transaction_id,
           next_prompt_id' = next_prompt_id
    PROVE  /\ Ordered(Undelivered')
           /\ AllKnown(Undelivered', active_transaction_id', next_prompt_id', Live')
<1>1. Undelivered \in Seq(Events)
  BY ConcatProperties DEF Undelivered, Typed, TypeOK, QueueTypeOK
<1>2. Len(Undelivered) \in Nat /\ Len(Undelivered') \in Nat
  BY <1>1, LenProperties
<1>3. Ordered(Undelivered')
  BY <1>2, ThinnedOrdered DEF Order
<1>4. AllKnown(Undelivered', active_transaction_id, next_prompt_id, Live)
  BY ThinnedKnown DEF Order
<1> QED BY <1>3, <1>4 DEF AllKnown, Known

LEMMA SameOrder ==
    ASSUME Typed, Order, UNCHANGED <<events, snapshot, ids>>, Live' => Live
    PROVE  /\ Ordered(Undelivered')
           /\ AllKnown(Undelivered', active_transaction_id', next_prompt_id', Live')
<1>1. Undelivered \in Seq(Events) /\ Undelivered' = Undelivered
  BY ConcatProperties DEF Undelivered, Typed, TypeOK, QueueTypeOK
<1> QED BY <1>1, SameThinned, ThinnedOrder

\* A step of the conversation stays in the transaction.
LEMMA ConvGoesOn ==
    ASSUME Typed, pc \in {"conv", "await_answer"},
           NextMessage \/ ReturnFromConv, UNCHANGED <<locals, ui>>
    PROVE  pc \in Running /\ pc' \in Running
BY NextMessageThreads, PlaceSets DEF Threads, Typed, TypeOK

\* The events keep their order, and their numbers are those of transactions
\* and prompts that were begun.
LEMMA OrderedStep ==
    ASSUME Typed, Slot, Order, [Next]_vars
    PROVE  /\ Ordered(Undelivered')
           /\ AllKnown(Undelivered', active_transaction_id', next_prompt_id', Live')
<1> DEFINE P == /\ Ordered(Undelivered')
                /\ AllKnown(Undelivered', active_transaction_id',
                            next_prompt_id', Live')
<1>1. /\ Ordered(Undelivered)
      /\ AllKnown(Undelivered, active_transaction_id, next_prompt_id, Live)
      /\ next_transaction_id = active_transaction_id + 1
      /\ active_transaction_id \in Nat /\ next_prompt_id \in Nat /\ txn \in Nat
      /\ Undelivered \in Seq(Events) /\ events \in Seq(Events)
      /\ snapshot \in Seq(Events)
  BY ConcatProperties
  DEF Order, Undelivered, Typed, TypeOK, QueueTypeOK, NumberTypeOK, ThreadTypeOK
<1>2. CASE Quiet
  <2>1. UNCHANGED <<ctrl, ui>> /\ (Live' => Live)
    BY <1>2, QuietSteps DEF Threads, Typed, TypeOK, Live
  <2> QED BY <2>1, SameOrder
<1>3. CASE WorkerStarts
  <2> DEFINE e == Event("READY", 0, 0, FALSE, FALSE)
  <2>1. e \in Events /\ e.type = "READY" /\ e.transaction_id = 0
    BY EventType, EventTypesAre DEF Event
  <2>2. ~EventIsTerminal(e)
    BY <2>1 DEF EventIsTerminal, TerminalTypes
  <2>3. PostEvent(e) /\ UNCHANGED snapshot /\ UNCHANGED ids /\ Undelivered = << >>
    BY <1>3 DEF WorkerStarts, RequestLoop, Order
  <2> HIDE DEF e
  <2>4. AllKnown(Undelivered, e.transaction_id, next_prompt_id, TRUE)
    BY <2>3 DEF AllKnown
  <2>5. Ordered(Undelivered')
    BY <1>1, <2>1, <2>3, <2>4, PostOrdered
  <2>6. Known(e, active_transaction_id, next_prompt_id, Live')
    BY <1>1, <2>1, <2>2 DEF Known
  <2>7. AllKnown(Undelivered, active_transaction_id, next_prompt_id, Live')
    BY <2>3 DEF AllKnown
  <2>8. AllKnown(Undelivered', active_transaction_id, next_prompt_id, Live')
    BY <2>1, <2>3, <2>6, <2>7, PostKnown
  <2> QED BY <2>3, <2>5, <2>8
<1>4. CASE WorkerIdle \/ AwaitAck
  <2>1. UNCHANGED <<queue, ids, ui>>
    BY <1>4 DEF WorkerIdle, AwaitAck, RequestLoop
  <2>2. Live' => Live
    <3>1. CASE RequestLoop(auth_in_progress) \/ RequestLoop(auth_in_progress /\ shutdown_requested)
      BY <3>1, PlaceSets DEF Live, RequestLoop, LoopExit, LoopWait, LoopPickUp
    <3>2. CASE UNCHANGED <<ctrl, pc>>
      BY <3>2 DEF Live
    <3> QED BY <1>4, <3>1, <3>2 DEF WorkerIdle, AwaitAck
  <2> QED BY <2>1, <2>2, SameOrder
<1>5. CASE ConvDeferred \/ AnswerTaken \/ AnswerAborted
  <2>1. UNCHANGED <<events, snapshot, ids>>
    BY <1>5 DEF ConvDeferred, AnswerTaken, AnswerAborted
  <2>2. pc \in Running
    BY <1>5, PlaceSets DEF ConvDeferred, AnswerTaken, AnswerAborted
  <2> QED BY <2>1, <2>2, SameOrder DEF Live
<1>6. CASE ConvStatus
  <2> DEFINE e == Event("STATUS", active_transaction_id, 0, FALSE, FALSE)
  <2>1. /\ e \in Events /\ e.type = "STATUS"
        /\ e.transaction_id = active_transaction_id
    BY <1>1, EventType, EventTypesAre DEF Event
  <2>2. ~EventIsTerminal(e)
    BY <2>1 DEF EventIsTerminal, TerminalTypes
  <2>3. PostEvent(e) /\ UNCHANGED snapshot /\ UNCHANGED ids /\ Live
    BY <1>6, PlaceSets DEF ConvStatus, Live
  <2> HIDE DEF e
  <2>4. AllKnown(Undelivered, active_transaction_id, next_prompt_id, TRUE)
    BY <1>1, <2>3 DEF AllKnown, Known
  <2>5. Ordered(Undelivered')
    BY <1>1, <2>1, <2>3, <2>4, PostOrdered
  <2>6. Known(e, active_transaction_id, next_prompt_id, TRUE)
    BY <1>1, <2>1, <2>2 DEF Known
  <2>7. AllKnown(Undelivered', active_transaction_id, next_prompt_id, TRUE)
    BY <2>1, <2>3, <2>4, <2>6, PostKnown
  <2> QED BY <2>3, <2>5, <2>7 DEF AllKnown, Known
<1>7. ASSUME NEW echo_on \in BOOLEAN, ConvPrompt(echo_on) PROVE P
  <2> DEFINE e == Event("PROMPT", active_transaction_id, next_prompt_id,
                        echo_on, FALSE)
  <2>1. /\ e \in Events /\ e.type = "PROMPT"
        /\ e.transaction_id = active_transaction_id
        /\ e.prompt_id = next_prompt_id
    BY <1>1, EventType, EventTypesAre DEF Event
  <2>2. ~EventIsTerminal(e)
    BY <2>1 DEF EventIsTerminal, TerminalTypes
  <2>3. /\ PostEvent(e) /\ UNCHANGED snapshot /\ Live
        /\ next_prompt_id' = next_prompt_id + 1
        /\ active_transaction_id' = active_transaction_id
    BY <1>7, PlaceSets DEF ConvPrompt, Live
  <2> HIDE DEF e
  <2>4. AllKnown(Undelivered, active_transaction_id, next_prompt_id, TRUE)
    BY <1>1, <2>3 DEF AllKnown, Known
  <2>5. Ordered(Undelivered')
    BY <1>1, <2>1, <2>3, <2>4, PostOrdered
  <2>6. Known(e, active_transaction_id, next_prompt_id + 1, TRUE)
    BY <1>1, <2>1, <2>2 DEF Known
  <2>7. AllKnown(Undelivered, active_transaction_id, next_prompt_id + 1, TRUE)
    <3>1. ASSUME NEW i \in 1..Len(Undelivered)
          PROVE  Known(Undelivered[i], active_transaction_id, next_prompt_id + 1, TRUE)
      <4>1. Undelivered[i] \in Events
        BY <1>1, ElementOfSeq
      <4>2. Undelivered[i].prompt_id \in Nat
        BY <4>1 DEF Events
      <4> QED BY <1>1, <2>4, <4>2 DEF AllKnown, Known
    <3> QED BY <3>1 DEF AllKnown
  <2>8. AllKnown(Undelivered', active_transaction_id, next_prompt_id + 1, TRUE)
    BY <2>1, <2>3, <2>6, <2>7, PostKnown
  <2> QED BY <2>3, <2>5, <2>8 DEF AllKnown, Known
<1>8. CASE EndTransaction
  <2> DEFINE e == TerminalEvent
  <2>1. pc = "pam_end" /\ pc \in Running /\ txn = active_transaction_id /\ ~auth_requested
    BY <1>8 DEF EndTransaction, Running, Slot, RunsActiveTransaction
  <2>2. Outcome \in {"SUCCESS", "FAILURE", "CANCELLED", "FATAL"}
    BY DEF Outcome
  <2>3. /\ e \in Events /\ e.type = Outcome
        /\ e.transaction_id = active_transaction_id
    <3>1. Outcome \in EventTypes
      BY <2>2, EventTypesAre
    <3>2. e \in Events
      BY <1>1, <3>1, EventType DEF TerminalEvent
    <3> QED BY <2>1, <3>2 DEF TerminalEvent, Event
  <2>4. PostEvent(e) /\ UNCHANGED snapshot /\ UNCHANGED ids /\ Live
    BY <1>8, <2>1 DEF EndTransaction, Live
  <2>5. ~Live'
    BY <1>8, <2>1, PlaceSets DEF EndTransaction, Live
  <2>6. AllKnown(Undelivered, active_transaction_id, next_prompt_id, TRUE)
    BY <1>1, <2>4 DEF AllKnown, Known
  <2> HIDE DEF e
  <2>7. Ordered(Undelivered')
    BY <1>1, <2>2, <2>3, <2>4, <2>6, PostOrdered
  <2>8. Known(e, active_transaction_id, next_prompt_id, FALSE)
    BY <1>1, <2>2, <2>3 DEF Known
  <2>9. AllKnown(Undelivered, active_transaction_id, next_prompt_id, FALSE)
    BY <2>6 DEF AllKnown, Known
  <2>10. AllKnown(Undelivered', active_transaction_id, next_prompt_id, FALSE)
    BY <2>3, <2>4, <2>8, <2>9, PostKnown
  <2> QED BY <2>4, <2>5, <2>7, <2>10 DEF AllKnown, Known
<1>9. CASE ClientStartAuth
  <2>1. /\ UNCHANGED <<events, snapshot>>
        /\ active_transaction_id' = active_transaction_id + 1
        /\ next_prompt_id' = next_prompt_id
    BY <1>1, <1>9 DEF ClientStartAuth, StartAuth
  <2>2. Undelivered' = Undelivered
    BY <2>1 DEF Undelivered
  <2>3. ASSUME NEW i \in 1..Len(Undelivered)
        PROVE  Known(Undelivered[i], active_transaction_id + 1, next_prompt_id, Live')
    <3>1. Undelivered[i] \in Events
      BY <1>1, ElementOfSeq
    <3>2. Undelivered[i].transaction_id \in Nat
      BY <3>1 DEF Events
    <3> QED BY <1>1, <3>2 DEF AllKnown, Known
  <2> QED BY <1>1, <2>1, <2>2, <2>3 DEF AllKnown
<1>10. CASE ClientSubmitAnswer \/ ClientCancelAuth \/ RequestShutdown \/ DrainPipe
  <2>1. UNCHANGED <<events, snapshot, ids>> /\ (Live' => Live)
    BY <1>10 DEF ClientSubmitAnswer, SubmitAnswer, ClientCancelAuth, CancelAuth,
       RequestShutdown, DrainPipe, Live
  <2> QED BY <2>1, SameOrder
<1>11. CASE TakeEvents
  <2>1. /\ main = "drain" /\ snapshot' = events /\ events' = << >>
        /\ UNCHANGED ids /\ (Live' => Live)
    BY <1>11 DEF TakeEvents, Live
  <2>2. snapshot = << >>
    BY <2>1 DEF Typed, PlacesAgree
  <2>3. Undelivered' = Undelivered
    BY <1>1, <2>1, <2>2, ConcatEmptySeq DEF Undelivered
  <2> QED BY <1>1, <2>1, <2>3, SameThinned, ThinnedOrder
<1>12. CASE ClientHandlesEvent
  <2>1. /\ main = "events" /\ snapshot' = Tail(snapshot)
        /\ UNCHANGED <<events, ids, auth_requested, pc>>
    BY <1>12 DEF ClientHandlesEvent, EventHandled, AckTerminal
  <2>2. snapshot # << >>
    BY <2>1 DEF Typed, PlacesAgree
  <2>3. Undelivered' = Tail(Undelivered) /\ Undelivered # << >>
    BY <1>1, <2>1, <2>2, TailConcat DEF Undelivered
  <2>4. Tail(Undelivered) \in Seq(Events) /\ Thinned(Tail(Undelivered), Undelivered)
    BY <1>1, <2>3, TailThinned, HeadTailProperties
  <2> QED BY <2>1, <2>3, <2>4, ThinnedOrder DEF Live
<1>13. CASE Join
  <2>1. /\ main = "joining" /\ events' = << >> /\ UNCHANGED snapshot
    BY <1>13 DEF Join
  <2>2. snapshot = << >>
    BY <2>1 DEF Typed, PlacesAgree
  <2>3. Undelivered' = << >>
    BY <2>1, <2>2 DEF Undelivered
  <2> QED BY <2>3 DEF Ordered, AllKnown
<1>14. CASE UNCHANGED vars
  <2>1. UNCHANGED <<events, snapshot, ids>> /\ (Live' => Live)
    BY <1>14 DEF Live
  <2> QED BY <2>1, SameOrder
<1> QED
  BY <1>2, <1>3, <1>4, <1>5, <1>6, <1>7, <1>8, <1>9, <1>10, <1>11, <1>12,
     <1>13, <1>14
  DEF Next, WorkerStep, Drain, Client, Finished, Quiet

\* The numbers of the slot, and what the shutdown has to do with the place of
\* the main thread.
LEMMA NumbersStep ==
    ASSUME Typed, Slot, Order, [Next]_vars
    PROVE  /\ pc' = "start" => Undelivered' = << >>
           /\ next_transaction_id' = active_transaction_id' + 1
           /\ terminal_ack_pending' => terminal_transaction_id' = active_transaction_id'
           /\ main' \in {"joining", "done"} => shutdown_requested'
<1> DEFINE P1 == pc' = "start" => Undelivered' = << >>
           P2 == next_transaction_id' = active_transaction_id' + 1
           P3 == terminal_ack_pending' => terminal_transaction_id' = active_transaction_id'
           P4 == main' \in {"joining", "done"} => shutdown_requested'
<1>1. /\ pc = "start" => Undelivered = << >>
      /\ next_transaction_id = active_transaction_id + 1
      /\ terminal_ack_pending => terminal_transaction_id = active_transaction_id
      /\ main \in {"joining", "done"} => shutdown_requested
      /\ active_transaction_id \in Nat /\ next_transaction_id \in Nat
  BY DEF Order, Typed, TypeOK, NumberTypeOK
<1>2. CASE Quiet
  <2>1. UNCHANGED <<ctrl, ui>> /\ (pc' = "start" => pc = "start")
    BY <1>2, QuietSteps, PlaceSets DEF Threads, Typed, TypeOK
  <2> QED BY <1>1, <2>1 DEF Undelivered
<1>3. CASE WorkerStarts \/ WorkerIdle \/ AwaitAck
  <2>1. UNCHANGED <<ids, terminal, shutdown_requested, main>>
    BY <1>3 DEF WorkerStarts, WorkerIdle, AwaitAck, RequestLoop
  <2>2. pc' # "start"
    BY <1>3 DEF WorkerStarts, WorkerIdle, AwaitAck, RequestLoop, LoopExit,
       LoopWait, LoopPickUp
  <2> QED BY <1>1, <2>1, <2>2
<1>4. CASE ConvStatus \/ ConvDeferred \/ AnswerTaken \/ AnswerAborted
  <2>1. /\ pc \in {"conv", "await_answer"}
        /\ NextMessage \/ ReturnFromConv
        /\ UNCHANGED <<locals, ui, ids, terminal, shutdown_requested>>
    BY <1>4 DEF ConvStatus, ConvDeferred, AnswerTaken, AnswerAborted, ReplyOrFail
  <2>2. pc' # "start"
    BY <2>1, ConvGoesOn, PlaceSets
  <2> QED BY <1>1, <2>1, <2>2
<1>5. ASSUME NEW echo_on \in BOOLEAN, ConvPrompt(echo_on)
      PROVE  P1 /\ P2 /\ P3 /\ P4
  <2>1. /\ pc = "conv"
        /\ pc' = "await_answer" \/ ReturnFromConv
        /\ UNCHANGED <<locals, ui, terminal, shutdown_requested,
                       next_transaction_id, active_transaction_id>>
    BY <1>5 DEF ConvPrompt
  <2>2. CASE ReturnFromConv
    <3>1. pc' # "start"
      BY <2>1, <2>2, ConvGoesOn, PlaceSets
    <3> QED BY <1>1, <2>1, <3>1
  <2>3. CASE pc' = "await_answer"
    BY <1>1, <2>1, <2>3
  <2> QED BY <2>1, <2>2, <2>3
<1>6. CASE EndTransaction
  <2>1. txn = active_transaction_id
    BY <1>6 DEF EndTransaction, Slot, RunsActiveTransaction, Running
  <2>2. /\ terminal_transaction_id' = txn /\ pc' # "start"
        /\ UNCHANGED <<ids, shutdown_requested, main>>
    BY <1>6 DEF EndTransaction
  <2> QED BY <1>1, <2>1, <2>2
<1>7. CASE ClientStartAuth
  <2>1. /\ ~terminal_ack_pending
        /\ active_transaction_id' = next_transaction_id
        /\ next_transaction_id' = next_transaction_id + 1
        /\ UNCHANGED <<queue, snapshot, terminal, pc, main, shutdown_requested>>
    BY <1>7 DEF ClientStartAuth, StartAuth, StartAuthAccepted
  <2> QED BY <1>1, <2>1 DEF Undelivered
<1>8. CASE ClientCancelAuth
  <2>1. /\ UNCHANGED <<queue, snapshot, ids, pc, main, shutdown_requested>>
        /\ terminal_ack_pending' => UNCHANGED terminal
    BY <1>8 DEF ClientCancelAuth, CancelAuth, ClearTerminal
  <2> QED BY <1>1, <2>1 DEF Undelivered
<1>9. CASE ClientSubmitAnswer \/ DrainPipe \/ RequestShutdown
  <2>1. /\ UNCHANGED <<events, snapshot, ids, terminal, pc>>
        /\ main' = "joining" => shutdown_requested'
        /\ main' # "done" \/ main = "done"
        /\ shutdown_requested => shutdown_requested'
    BY <1>9 DEF ClientSubmitAnswer, SubmitAnswer, DrainPipe, RequestShutdown
  <2> QED BY <1>1, <2>1 DEF Undelivered
<1>10. CASE TakeEvents
  <2>1. /\ main = "drain" /\ snapshot' = events /\ events' = << >>
        /\ main' \in {"loop", "events"}
        /\ UNCHANGED <<ids, terminal, pc>>
    BY <1>10 DEF TakeEvents
  <2>2. /\ snapshot = << >> /\ events \in Seq(Events)
    BY <2>1 DEF Typed, PlacesAgree, TypeOK, QueueTypeOK
  <2>3. Undelivered' = Undelivered
    BY <2>1, <2>2, ConcatEmptySeq DEF Undelivered
  <2> QED BY <1>1, <2>1, <2>3
<1>11. CASE ClientHandlesEvent
  <2>1. /\ main = "events" /\ main' \in {"loop", "events"}
        /\ UNCHANGED <<ids, pc>>
        /\ terminal_ack_pending' => UNCHANGED terminal
    BY <1>11 DEF ClientHandlesEvent, EventHandled, AckTerminal, ClearTerminal
  <2>2. /\ snapshot # << >> /\ snapshot \in Seq(Events) /\ events \in Seq(Events)
    BY <2>1 DEF Typed, PlacesAgree, TypeOK, QueueTypeOK
  <2>3. Undelivered # << >>
    BY <2>2, TailConcat DEF Undelivered
  <2> QED BY <1>1, <2>1, <2>3
<1>12. CASE Join
  <2>1. /\ main = "joining" /\ pc = "exited"
        /\ UNCHANGED <<pc, ids, terminal, shutdown_requested>>
    BY <1>12 DEF Join
  <2> QED BY <1>1, <2>1
<1>13. CASE UNCHANGED vars
  BY <1>1, <1>13 DEF Undelivered
<1> QED
  BY <1>2, <1>3, <1>4, <1>5, <1>6, <1>7, <1>8, <1>9, <1>10, <1>11, <1>12,
     <1>13
  DEF Next, WorkerStep, Drain, Client, Finished, Quiet

LEMMA OrderInit == Init => Order
<1> SUFFICES ASSUME Init PROVE Order
  OBVIOUS
<1>1. Undelivered = << >> /\ Len(Undelivered) = 0
  BY DEF Init, Undelivered
<1> QED BY <1>1 DEF Init, Order, Ordered, AllKnown

LEMMA OrderInvariant == Spec => [](IndInv /\ Order)
<1>1. Init => IndInv /\ Order
  BY IndInvInit, OrderInit
<1>2. IndInv /\ Order /\ [Next]_vars => (IndInv /\ Order)'
  <2> SUFFICES ASSUME IndInv, Order, [Next]_vars PROVE (IndInv /\ Order)'
    OBVIOUS
  <2>1. Typed /\ Slot
    BY IndInvParts
  <2>2. IndInv'
    BY IndInvStep
  <2>3. Order'
    BY <2>1, OrderedStep, NumbersStep DEF Order
  <2> QED BY <2>2, <2>3
<1> HIDE DEF vars, ctrl, worker, ui
<1> QED BY <1>1, <1>2, PTL DEF Spec

\* What the main thread is handed is in order, whatever a full queue dropped:
\* transactions and prompts by their numbers, and nothing of a transaction
\* after its terminal event (post_event_locked, pam_controller_drain_events).
THEOREM EventsAreInOrder == Spec => []EventsInOrder
<1>1. IndInv /\ Order => EventsInOrder
  BY InOrderIsOrdered DEF Order, IndInv, TypeOK
<1> QED BY <1>1, OrderInvariant, PTL

-----------------------------------------------------------------------------
(* The outcomes on their way to the main thread *)

OutcomeOf(e) == [attempt |-> e.transaction_id, kind |-> e.type]

LEMMA OutcomesAre ==
    ASSUME NEW q \in Seq(Events), NEW o
    PROVE  o \in OutcomesIn(q) <=>
              \E i \in 1..Len(q) : EventIsTerminal(q[i]) /\ o = OutcomeOf(q[i])
<1>1. DOMAIN q = 1..Len(q)
  BY LenProperties
<1> QED BY <1>1 DEF OutcomesIn, IndicesOf, EventIsTerminal, OutcomeOf

LEMMA NoOutcomes == OutcomesIn(<< >>) = {}
<1>1. << >> \in Seq(Events) /\ 1..Len(<< >>) = {}
  BY EmptySeq
<1>2. ASSUME NEW o \in OutcomesIn(<< >>) PROVE FALSE
  <2>1. \E i \in 1..Len(<< >>) : EventIsTerminal(<< >>[i]) /\ o = OutcomeOf(<< >>[i])
    BY <1>1, OutcomesAre, Zenon
  <2> QED BY <1>1, <2>1
<1> QED BY <1>2

LEMMA OutcomesThinned ==
    ASSUME NEW p \in Seq(Events), NEW q \in Seq(Events), Thinned(p, q)
    PROVE  OutcomesIn(p) \subseteq OutcomesIn(q)
<1>1. PICK f \in [1..Len(p) -> 1..Len(q)] : \A k \in 1..Len(p) : p[k] = q[f[k]]
  BY DEF Thinned
<1>2. \A k \in 1..Len(p) : f[k] \in 1..Len(q)
  BY <1>1
<1>3. ASSUME NEW o \in OutcomesIn(p) PROVE o \in OutcomesIn(q)
  <2>1. PICK k \in 1..Len(p) : EventIsTerminal(p[k]) /\ o = OutcomeOf(p[k])
    BY OutcomesAre
  <2>2. f[k] \in 1..Len(q) /\ EventIsTerminal(q[f[k]]) /\ o = OutcomeOf(q[f[k]])
    BY <1>1, <1>2, <2>1
  <2> QED BY <2>2, OutcomesAre
<1> QED BY <1>3

LEMMA OutcomesAppend ==
    ASSUME NEW q \in Seq(Events), NEW e \in Events
    PROVE  /\ EventIsTerminal(e) =>
                OutcomesIn(Append(q, e)) = OutcomesIn(q) \cup {OutcomeOf(e)}
           /\ ~EventIsTerminal(e) => OutcomesIn(Append(q, e)) = OutcomesIn(q)
<1> DEFINE r == Append(q, e)
<1>1. /\ r \in Seq(Events) /\ Len(q) \in Nat /\ Len(r) = Len(q) + 1
      /\ r[Len(q) + 1] = e
      /\ \A i \in 1..Len(q) : r[i] = q[i]
  BY LenProperties, AppendProperties
<1>2. /\ \A i \in 1..Len(r) : i \in 1..Len(q) \/ i = Len(q) + 1
      /\ \A i \in 1..Len(q) : i \in 1..Len(r)
      /\ Len(q) + 1 \in 1..Len(r)
  BY <1>1
<1> HIDE DEF r
<1>3. ASSUME NEW o
      PROVE  o \in OutcomesIn(r) <=>
                \/ o \in OutcomesIn(q)
                \/ EventIsTerminal(e) /\ o = OutcomeOf(e)
  <2>1. o \in OutcomesIn(r) <=>
          \E i \in 1..Len(r) : EventIsTerminal(r[i]) /\ o = OutcomeOf(r[i])
    BY <1>1, OutcomesAre
  <2>2. o \in OutcomesIn(q) <=>
          \E i \in 1..Len(q) : EventIsTerminal(q[i]) /\ o = OutcomeOf(q[i])
    BY OutcomesAre
  <2> QED BY <1>1, <1>2, <2>1, <2>2
<1> QED BY <1>3 DEF r

LEMMA OutcomesConcat ==
    ASSUME NEW s \in Seq(Events), NEW q \in Seq(Events)
    PROVE  OutcomesIn(s \o q) = OutcomesIn(s) \cup OutcomesIn(q)
<1> DEFINE c == s \o q
<1>1. /\ c \in Seq(Events)
      /\ \A i \in 1..Len(s) : i \in 1..Len(c) /\ c[i] = s[i]
      /\ \A i \in 1..Len(q) :
            Len(s) + i \in 1..Len(c) /\ c[Len(s) + i] = q[i]
      /\ \A k \in 1..Len(c) :
            \/ k \in 1..Len(s) /\ c[k] = s[k]
            \/ k - Len(s) \in 1..Len(q) /\ c[k] = q[k - Len(s)]
  BY ConcatElements, Zenon
<1> HIDE DEF c
<1>2. ASSUME NEW o
      PROVE  o \in OutcomesIn(c) <=> o \in OutcomesIn(s) \/ o \in OutcomesIn(q)
  <2>1. ASSUME o \in OutcomesIn(c) PROVE o \in OutcomesIn(s) \/ o \in OutcomesIn(q)
    <3>1. PICK k \in 1..Len(c) : EventIsTerminal(c[k]) /\ o = OutcomeOf(c[k])
      BY <1>1, <2>1, OutcomesAre
    <3>2. CASE k \in 1..Len(s) /\ c[k] = s[k]
      BY <3>1, <3>2, OutcomesAre
    <3>3. CASE k - Len(s) \in 1..Len(q) /\ c[k] = q[k - Len(s)]
      BY <3>1, <3>3, OutcomesAre
    <3> QED BY <1>1, <3>2, <3>3
  <2>2. ASSUME o \in OutcomesIn(s) PROVE o \in OutcomesIn(c)
    <3>1. PICK k \in 1..Len(s) : EventIsTerminal(s[k]) /\ o = OutcomeOf(s[k])
      BY <2>2, OutcomesAre
    <3>2. k \in 1..Len(c) /\ EventIsTerminal(c[k]) /\ o = OutcomeOf(c[k])
      BY <1>1, <3>1
    <3> QED BY <1>1, <3>2, OutcomesAre
  <2>3. ASSUME o \in OutcomesIn(q) PROVE o \in OutcomesIn(c)
    <3>1. PICK k \in 1..Len(q) : EventIsTerminal(q[k]) /\ o = OutcomeOf(q[k])
      BY <2>3, OutcomesAre
    <3>2. /\ Len(s) + k \in 1..Len(c) /\ EventIsTerminal(c[Len(s) + k])
          /\ o = OutcomeOf(c[Len(s) + k])
      BY <1>1, <3>1
    <3> QED BY <1>1, <3>2, OutcomesAre
  <2> QED BY <2>1, <2>2, <2>3
<1> QED BY <1>2 DEF c

\* Taking the first of the events in order takes the outcome of the oldest
\* attempt, or none.
LEMMA OutcomesTail ==
    ASSUME NEW u \in Seq(Events), u # << >>, Ordered(u)
    PROVE  /\ ~EventIsTerminal(Head(u)) => OutcomesIn(Tail(u)) = OutcomesIn(u)
           /\ EventIsTerminal(Head(u)) =>
                 /\ OutcomeOf(Head(u)) \in OutcomesIn(u)
                 /\ OutcomesIn(Tail(u)) = OutcomesIn(u) \ {OutcomeOf(Head(u))}
                 /\ \A o \in OutcomesIn(u) : Head(u).transaction_id <= o.attempt
<1> DEFINE t == Tail(u)
           h == Head(u)
<1>1. /\ t \in Seq(Events) /\ Len(u) \in Nat /\ Len(u) > 0
      /\ Len(t) = Len(u) - 1
      /\ \A i \in 1..Len(t) : t[i] = u[i + 1]
      /\ h = u[1] /\ h \in Events
  BY HeadTailProperties, LenProperties, EmptySeq
<1> HIDE DEF t, h
<1>2. /\ 1 \in 1..Len(u)
      /\ \A i \in 1..Len(t) : i + 1 \in 1..Len(u) /\ 1 < i + 1
      /\ \A i \in 1..Len(u) : i = 1 \/ (i - 1 \in 1..Len(t) /\ (i - 1) + 1 = i)
  BY <1>1
<1>3. ASSUME NEW o
      PROVE  o \in OutcomesIn(u) <=>
                \/ EventIsTerminal(h) /\ o = OutcomeOf(h)
                \/ o \in OutcomesIn(t)
  <2>1. ASSUME o \in OutcomesIn(u)
        PROVE  \/ EventIsTerminal(h) /\ o = OutcomeOf(h)
               \/ o \in OutcomesIn(t)
    <3>1. PICK i \in 1..Len(u) : EventIsTerminal(u[i]) /\ o = OutcomeOf(u[i])
      BY <2>1, OutcomesAre
    <3>2. CASE i = 1
      BY <1>1, <3>1, <3>2
    <3>3. CASE i # 1
      <4>1. i - 1 \in 1..Len(t) /\ t[i - 1] = u[i]
        BY <1>1, <1>2, <3>3
      <4> QED BY <1>1, <3>1, <4>1, OutcomesAre
    <3> QED BY <3>2, <3>3
  <2>2. ASSUME o \in OutcomesIn(t) PROVE o \in OutcomesIn(u)
    <3>1. PICK i \in 1..Len(t) : EventIsTerminal(t[i]) /\ o = OutcomeOf(t[i])
      BY <1>1, <2>2, OutcomesAre
    <3>2. /\ i + 1 \in 1..Len(u) /\ EventIsTerminal(u[i + 1])
          /\ o = OutcomeOf(u[i + 1])
      BY <1>1, <1>2, <3>1
    <3> QED BY <3>2, OutcomesAre
  <2>3. ASSUME EventIsTerminal(h), o = OutcomeOf(h) PROVE o \in OutcomesIn(u)
    BY <1>1, <1>2, <2>3, OutcomesAre
  <2> QED BY <2>1, <2>2, <2>3
<1>4. ASSUME EventIsTerminal(h), NEW o \in OutcomesIn(t)
      PROVE  h.transaction_id < o.attempt
  <2>1. PICK i \in 1..Len(t) : EventIsTerminal(t[i]) /\ o = OutcomeOf(t[i])
    BY <1>1, <1>4, OutcomesAre
  <2>2. Before(u[1], u[i + 1])
    BY <1>1, <1>2 DEF Ordered
  <2> QED BY <1>1, <1>4, <2>1, <2>2 DEF Before, OutcomeOf
<1>5. h.transaction_id \in Nat /\ OutcomeOf(h).attempt = h.transaction_id
  BY <1>1 DEF Events, OutcomeOf
<1>6. ASSUME EventIsTerminal(h), NEW o \in OutcomesIn(u)
      PROVE  h.transaction_id <= o.attempt
  <2>1. CASE o = OutcomeOf(h)
    BY <1>5, <2>1
  <2>2. CASE o \in OutcomesIn(t)
    <3>1. PICK i \in 1..Len(t) : EventIsTerminal(t[i]) /\ o = OutcomeOf(t[i])
      BY <1>1, <2>2, OutcomesAre
    <3>2. t[i] \in Events
      BY <1>1, ElementOfSeq
    <3>3. o.attempt \in Nat
      BY <3>1, <3>2 DEF Events, OutcomeOf
    <3> QED BY <1>4, <1>5, <1>6, <2>2, <3>3
  <2> QED BY <1>3, <1>6, <2>1, <2>2
<1>7. EventIsTerminal(h) => OutcomeOf(h) \notin OutcomesIn(t)
  BY <1>4, <1>5
<1> QED BY <1>3, <1>6, <1>7 DEF t, h

\* Posting an event that is not terminal loses no outcome; posting one that is
\* adds its outcome, and may drop others.
LEMMA PostOutcomes ==
    ASSUME Typed, NEW e \in Events, PostEvent(e), UNCHANGED snapshot
    PROVE  /\ ~EventIsTerminal(e) => OutcomesIn(Undelivered') = OutcomesIn(Undelivered)
           /\ EventIsTerminal(e) =>
                 \E kept \in SUBSET OutcomesIn(Undelivered) :
                    OutcomesIn(Undelivered') = kept \cup {OutcomeOf(e)}
<1>1. /\ events \in Seq(Events) /\ Len(events) <= MaxEvents
      /\ snapshot \in Seq(Events) /\ snapshot' = snapshot
      /\ events' = Enqueue(events, e)
  BY DEF Typed, TypeOK, QueueTypeOK, PostEvent
<1>2. events' \in Seq(Events)
  BY <1>1, EnqueueType
<1>3. /\ OutcomesIn(Undelivered) = OutcomesIn(snapshot) \cup OutcomesIn(events)
      /\ OutcomesIn(Undelivered') = OutcomesIn(snapshot) \cup OutcomesIn(events')
  BY <1>1, <1>2, OutcomesConcat DEF Undelivered
<1>4. CASE ~Fits(events, e) /\ Enqueue(events, e) = events
  <2>1. ~EventIsTerminal(e)
    BY <1>4 DEF Fits, Victims
  <2> QED BY <1>1, <1>3, <1>4, <2>1
<1>5. CASE Fits(events, e)
  <2>1. PICK p \in Seq(Events) :
           /\ Thinned(p, events)
           /\ events' = Append(p, e)
           /\ ~EventIsTerminal(e) =>
                \A j \in 1..Len(events) : EventIsTerminal(events[j]) =>
                    \E k \in 1..Len(p) : p[k] = events[j]
    BY <1>1, <1>5, EnqueueThinned
  <2>2. OutcomesIn(p) \subseteq OutcomesIn(events)
    BY <1>1, <2>1, OutcomesThinned
  <2>3. CASE EventIsTerminal(e)
    <3> DEFINE kept == OutcomesIn(snapshot) \cup OutcomesIn(p)
    <3>1. OutcomesIn(events') = OutcomesIn(p) \cup {OutcomeOf(e)}
      BY <2>1, <2>3, OutcomesAppend
    <3>2. /\ kept \in SUBSET OutcomesIn(Undelivered)
          /\ OutcomesIn(Undelivered') = kept \cup {OutcomeOf(e)}
      BY <1>3, <2>2, <3>1
    <3> QED BY <2>3, <3>2
  <2>4. CASE ~EventIsTerminal(e)
    <3>1. OutcomesIn(events') = OutcomesIn(p)
      BY <2>1, <2>4, OutcomesAppend
    <3>2. ASSUME NEW o \in OutcomesIn(events) PROVE o \in OutcomesIn(p)
      <4>1. PICK j \in 1..Len(events) :
               EventIsTerminal(events[j]) /\ o = OutcomeOf(events[j])
        BY <1>1, OutcomesAre
      <4>2. PICK k \in 1..Len(p) : p[k] = events[j]
        BY <2>1, <2>4, <4>1
      <4> QED BY <4>1, <4>2, OutcomesAre
    <3> QED BY <1>3, <2>2, <2>4, <3>1, <3>2
  <2> QED BY <2>3, <2>4
<1> QED BY <1>1, <1>4, <1>5, EnqueueThinned

-----------------------------------------------------------------------------
(* The controller implements AuthSession *)

SessionStep == Session!SessionNext \/ UNCHANGED Session!session

\* The slot is as it was when no flag of it changed.
LEMMA SameSlot ==
    ASSUME UNCHANGED <<auth_requested, auth_in_progress, cancellation_requested,
                       terminal_ack_pending, active_transaction_id,
                       shutdown_requested, fatal_error>>,
           OutcomesIn(Undelivered') = OutcomesIn(Undelivered)
    PROVE  SessionStep
BY DEF SessionStep, Session!session, SlotState

\* The head of the worker's loop picks up the request, or leaves the slot.
LEMMA LoopImplements ==
    ASSUME Typed, Slot, pc \in {"start", "idle", "await_ack"},
           NEW in_progress,
           \/ in_progress = auth_in_progress /\ pc # "await_ack"
           \/ /\ pc = "await_ack"
              /\ ~terminal_ack_pending \/ shutdown_requested
              /\ in_progress = (auth_in_progress /\ shutdown_requested),
           RequestLoop(in_progress),
           OutcomesIn(Undelivered') = OutcomesIn(Undelivered)
    PROVE  SessionStep
<1>1. /\ pc # "await_ack" => ~terminal_ack_pending /\ ~auth_in_progress
      /\ auth_in_progress /\ pc = "await_ack" => terminal_ack_pending
      /\ auth_requested => ~auth_in_progress
      /\ terminal_ack_pending => auth_in_progress
      /\ auth_in_progress \in BOOLEAN /\ shutdown_requested \in BOOLEAN
      /\ auth_requested \in BOOLEAN
  BY PlaceSets DEF Slot, SlotAgrees, Typed, TypeOK, FlagTypeOK
<1>2. UNCHANGED <<shutdown_requested, fatal_error, active_transaction_id,
                  terminal_ack_pending>>
  BY DEF RequestLoop
<1>3. CASE LoopPickUp
  <2>1. /\ auth_requested /\ ~terminal_ack_pending /\ ~shutdown_requested
        /\ ~auth_requested' /\ auth_in_progress' /\ ~cancellation_requested'
    BY <1>1, <1>3 DEF LoopPickUp
  <2>2. SlotState = "requested" /\ SlotState' = "running"
    BY <1>2, <2>1 DEF SlotState
  <2>3. Session!PickUp
    BY <1>2, <2>1, <2>2 DEF Session!PickUp
  <2> QED BY <2>3 DEF SessionStep, Session!SessionNext
<1>4. CASE LoopExit(in_progress) \/ LoopWait(in_progress)
  <2>1. /\ UNCHANGED <<auth_requested, cancellation_requested>>
        /\ auth_in_progress' = auth_in_progress
    BY <1>1, <1>4 DEF LoopExit, LoopWait
  <2> QED BY <1>2, <2>1, SameSlot
<1> QED BY <1>3, <1>4 DEF RequestLoop

LEMMA EndImplements ==
    ASSUME Typed, Slot, EndTransaction
    PROVE  SessionStep
<1>1. /\ auth_in_progress /\ ~auth_requested /\ ~terminal_ack_pending
      /\ txn = active_transaction_id /\ txn \in Nat
      /\ cancellation_requested \in BOOLEAN
  BY DEF EndTransaction, Slot, RunsActiveTransaction, Running, Typed, TypeOK,
     ThreadTypeOK, FlagTypeOK
<1>2. /\ Outcome \in {"SUCCESS", "FAILURE", "CANCELLED", "FATAL"}
      /\ Outcome = "CANCELLED" <=> cancellation_requested
  BY DEF Outcome
<1>3. /\ TerminalEvent \in Events /\ EventIsTerminal(TerminalEvent)
      /\ OutcomeOf(TerminalEvent) = [attempt |-> active_transaction_id, kind |-> Outcome]
  <2>1. Outcome \in EventTypes /\ Outcome \in TerminalTypes
    BY <1>2, EventTypesAre DEF TerminalTypes
  <2> QED BY <1>1, <2>1, EventType
      DEF TerminalEvent, Event, EventIsTerminal, OutcomeOf
<1>4. \E kept \in SUBSET OutcomesIn(Undelivered) :
         OutcomesIn(Undelivered') = kept \cup {OutcomeOf(TerminalEvent)}
  BY <1>3, PostOutcomes DEF EndTransaction
<1>5. SlotState = IF cancellation_requested THEN "cancelling" ELSE "running"
  BY <1>1 DEF SlotState
<1>6. /\ SlotState' = "ended"
      /\ fatal_error' = (fatal_error \/ Outcome = "FATAL")
      /\ UNCHANGED <<active_transaction_id, shutdown_requested>>
  BY DEF EndTransaction, SlotState
<1>7. Session!End(Outcome)
  BY <1>2, <1>3, <1>4, <1>5, <1>6 DEF Session!End
<1>8. Outcome \in Session!Kinds
  BY <1>2 DEF Session!Kinds
<1> QED BY <1>7, <1>8 DEF SessionStep, Session!SessionNext

LEMMA StartImplements ==
    ASSUME Typed, Order, ClientStartAuth
    PROVE  SessionStep
<1>1. /\ ~auth_requested /\ ~auth_in_progress /\ ~shutdown_requested
      /\ ~fatal_error /\ ~terminal_ack_pending
      /\ auth_requested' /\ active_transaction_id' = next_transaction_id
      /\ UNCHANGED <<shutdown_requested, fatal_error, terminal_ack_pending,
                     events, snapshot>>
  BY DEF ClientStartAuth, StartAuth, StartAuthAccepted
<1>2. /\ SlotState = "free" /\ SlotState' = "requested"
      /\ active_transaction_id' = active_transaction_id + 1
      /\ Undelivered' = Undelivered
  BY <1>1 DEF SlotState, Order, Undelivered
<1>3. Session!Start
  BY <1>1, <1>2 DEF Session!Start
<1> QED BY <1>3 DEF SessionStep, Session!SessionNext

LEMMA CancelImplements ==
    ASSUME Typed, Slot, Order, ClientCancelAuth
    PROVE  SessionStep
<1>1. PICK t \in Transactions : CancelAuth(t)
  BY DEF ClientCancelAuth
<1> DEFINE acked == TerminalAwaits(t)
           cancels == /\ active_transaction_id = t
                      /\ auth_requested \/ (auth_in_progress /\ ~acked)
<1>2. /\ auth_requested => ~auth_in_progress
      /\ terminal_ack_pending => auth_in_progress
      /\ terminal_ack_pending => terminal_transaction_id = active_transaction_id
      /\ auth_requested \in BOOLEAN /\ auth_in_progress \in BOOLEAN
      /\ terminal_ack_pending \in BOOLEAN /\ cancellation_requested \in BOOLEAN
  BY DEF Slot, SlotAgrees, Order, Typed, TypeOK, FlagTypeOK
<1>3. /\ UNCHANGED <<active_transaction_id, shutdown_requested, fatal_error>>
      /\ Undelivered' = Undelivered
  BY <1>1 DEF ClientCancelAuth, CancelAuth, Undelivered
<1>4. /\ acked => ~terminal_ack_pending' /\ ~auth_in_progress'
      /\ ~acked => UNCHANGED <<terminal_ack_pending, auth_in_progress>>
      /\ cancels => cancellation_requested' /\ ~auth_requested'
      /\ ~cancels => UNCHANGED <<cancellation_requested, auth_requested>>
  BY <1>1 DEF CancelAuth, ClearTerminal
<1>5. CASE acked
  <2>1. terminal_ack_pending /\ ~auth_requested /\ ~cancels
    BY <1>2, <1>5 DEF TerminalAwaits
  <2>2. SlotState = "ended" /\ SlotState' = "free"
    BY <1>4, <1>5, <2>1 DEF SlotState
  <2>3. Session!Cancel
    BY <1>3, <2>2 DEF Session!Cancel
  <2> QED BY <2>3 DEF SessionStep, Session!SessionNext
<1>6. CASE ~acked /\ cancels
  <2>1. ~terminal_ack_pending
    BY <1>2, <1>6 DEF TerminalAwaits
  <2>2. CASE auth_requested
    <3>1. SlotState = "requested" /\ SlotState' = "free"
      BY <1>2, <1>4, <1>6, <2>1, <2>2 DEF SlotState
    <3>2. Session!Cancel
      BY <1>3, <3>1 DEF Session!Cancel
    <3> QED BY <3>2 DEF SessionStep, Session!SessionNext
  <2>3. CASE ~auth_requested
    <3>1. SlotState \in {"running", "cancelling"} /\ SlotState' = "cancelling"
      BY <1>2, <1>4, <1>6, <2>1, <2>3 DEF SlotState
    <3>2. CASE SlotState = "running"
      <4>1. Session!Cancel
        BY <1>3, <3>1, <3>2 DEF Session!Cancel
      <4> QED BY <4>1 DEF SessionStep, Session!SessionNext
    <3>3. CASE SlotState = "cancelling"
      BY <1>3, <3>1, <3>3 DEF SessionStep, Session!session
    <3> QED BY <3>1, <3>2, <3>3
  <2> QED BY <2>2, <2>3
<1>7. CASE ~acked /\ ~cancels
  BY <1>3, <1>4, <1>7, SameSlot
<1> QED BY <1>5, <1>6, <1>7

LEMMA HandleImplements ==
    ASSUME Typed, Slot, Order, ClientHandlesEvent
    PROVE  SessionStep
<1> DEFINE h == Head(snapshot)
<1>1. /\ main = "events" /\ snapshot' = Tail(snapshot)
      /\ UNCHANGED <<events, active_transaction_id, shutdown_requested,
                     fatal_error, auth_requested, cancellation_requested>>
  BY DEF ClientHandlesEvent, EventHandled, AckTerminal
<1>2. /\ snapshot # << >> /\ snapshot \in Seq(Events) /\ events \in Seq(Events)
  BY <1>1 DEF Typed, PlacesAgree, TypeOK, QueueTypeOK
<1>3. /\ Undelivered # << >> /\ Undelivered \in Seq(Events)
      /\ Head(Undelivered) = h /\ Undelivered' = Tail(Undelivered)
      /\ Ordered(Undelivered)
  BY <1>1, <1>2, TailConcat, ConcatProperties DEF Undelivered, Order
<1>4. CASE ~EventIsTerminal(h)
  <2>1. /\ UNCHANGED <<auth_in_progress, terminal_ack_pending>>
        /\ OutcomesIn(Undelivered') = OutcomesIn(Undelivered)
    BY <1>3, <1>4, OutcomesTail DEF ClientHandlesEvent
  <2> QED BY <1>1, <2>1, SameSlot
<1>5. CASE EventIsTerminal(h)
  <2> DEFINE o == OutcomeOf(h)
  <2>1. /\ o \in OutcomesIn(Undelivered)
        /\ OutcomesIn(Undelivered') = OutcomesIn(Undelivered) \ {o}
        /\ \A other \in OutcomesIn(Undelivered) : o.attempt <= other.attempt
        /\ o.attempt = h.transaction_id
    BY <1>3, <1>5, OutcomesTail DEF OutcomeOf
  <2>2. AckTerminal(h.transaction_id)
    BY <1>5 DEF ClientHandlesEvent
  <2>3. /\ terminal_ack_pending => terminal_transaction_id = active_transaction_id
        /\ terminal_ack_pending => auth_in_progress /\ ~auth_requested
    BY DEF Order, Slot, SlotAgrees
  <2>4. SlotState = "ended" <=> terminal_ack_pending
    BY DEF SlotState
  <2>5. SlotState' = IF SlotState = "ended" /\ o.attempt = active_transaction_id
                     THEN "free" ELSE SlotState
    <3>1. CASE TerminalAwaits(h.transaction_id)
      <4>1. /\ terminal_ack_pending /\ h.transaction_id = active_transaction_id
            /\ ~terminal_ack_pending' /\ ~auth_in_progress' /\ ~auth_requested'
        BY <1>1, <2>2, <2>3, <3>1 DEF TerminalAwaits, AckTerminal, ClearTerminal
      <4>2. SlotState' = "free"
        BY <4>1 DEF SlotState
      <4> QED BY <2>1, <2>4, <4>1, <4>2
    <3>2. CASE ~TerminalAwaits(h.transaction_id)
      <4>1. ~(terminal_ack_pending /\ h.transaction_id = active_transaction_id)
        BY <2>3, <3>2 DEF TerminalAwaits
      <4>2. UNCHANGED <<auth_in_progress, terminal_ack_pending>>
        BY <2>2, <3>2 DEF AckTerminal
      <4>3. SlotState' = SlotState
        BY <1>1, <4>2 DEF SlotState
      <4> QED BY <2>1, <2>4, <4>1, <4>3
    <3> QED BY <3>1, <3>2
  <2> HIDE DEF o
  <2>6. Session!Deliver
    BY <1>1, <2>1, <2>5 DEF Session!Deliver
  <2> QED BY <2>6 DEF SessionStep, Session!SessionNext
<1> QED BY <1>4, <1>5

\* Every step of the controller is a step of the session, or none.
LEMMA ImplementsStep ==
    ASSUME IndInv, Order, [Next]_vars
    PROVE  SessionStep
<1>1. Typed /\ Slot
  BY IndInvParts
<1>2. active_transaction_id \in Nat /\ next_prompt_id \in Nat
  BY <1>1 DEF Typed, TypeOK, NumberTypeOK
<1>3. CASE Quiet
  <2>1. UNCHANGED <<ctrl, ui>>
    BY <1>1, <1>3, QuietSteps DEF Threads, Typed, TypeOK
  <2> QED BY <2>1, SameSlot DEF Undelivered
<1>4. CASE WorkerStarts
  <2> DEFINE e == Event("READY", 0, 0, FALSE, FALSE)
  <2>1. e \in Events /\ e.type = "READY"
    BY EventType, EventTypesAre DEF Event
  <2>2. ~EventIsTerminal(e)
    BY <2>1 DEF EventIsTerminal, TerminalTypes
  <2>3. PostEvent(e) /\ UNCHANGED snapshot
    BY <1>4 DEF WorkerStarts, RequestLoop
  <2> HIDE DEF e
  <2>4. OutcomesIn(Undelivered') = OutcomesIn(Undelivered)
    BY <1>1, <2>1, <2>2, <2>3, PostOutcomes
  <2> QED BY <1>1, <1>4, <2>4, LoopImplements DEF WorkerStarts
<1>5. CASE WorkerIdle
  <2>1. Undelivered' = Undelivered
    BY <1>5 DEF WorkerIdle, RequestLoop, Undelivered
  <2> QED BY <1>1, <1>5, <2>1, LoopImplements DEF WorkerIdle
<1>6. CASE AwaitAck
  <2>1. Undelivered' = Undelivered
    BY <1>6 DEF AwaitAck, RequestLoop, Undelivered
  <2>2. CASE UNCHANGED ctrl
    BY <2>1, <2>2, SameSlot
  <2>3. CASE /\ ~terminal_ack_pending \/ shutdown_requested
             /\ RequestLoop(auth_in_progress /\ shutdown_requested)
    BY <1>1, <1>6, <2>1, <2>3, LoopImplements DEF AwaitAck
  <2> QED BY <1>6, <2>2, <2>3 DEF AwaitAck
<1>7. CASE ConvDeferred \/ AnswerTaken \/ AnswerAborted
  <2>1. UNCHANGED <<queue, snapshot, command, terminal, ids>>
    BY <1>7 DEF ConvDeferred, AnswerTaken, AnswerAborted
  <2> QED BY <2>1, SameSlot DEF Undelivered
<1>8. CASE ConvStatus
  <2> DEFINE e == Event("STATUS", active_transaction_id, 0, FALSE, FALSE)
  <2>1. e \in Events /\ e.type = "STATUS"
    BY <1>2, EventType, EventTypesAre DEF Event
  <2>2. ~EventIsTerminal(e)
    BY <2>1 DEF EventIsTerminal, TerminalTypes
  <2>3. PostEvent(e) /\ UNCHANGED snapshot /\ UNCHANGED <<command, terminal, ids>>
    BY <1>8 DEF ConvStatus
  <2> HIDE DEF e
  <2> QED BY <1>1, <2>1, <2>2, <2>3, PostOutcomes, SameSlot
<1>9. ASSUME NEW echo_on \in BOOLEAN, ConvPrompt(echo_on) PROVE SessionStep
  <2> DEFINE e == Event("PROMPT", active_transaction_id, next_prompt_id,
                        echo_on, FALSE)
  <2>1. e \in Events /\ e.type = "PROMPT"
    BY <1>2, EventType, EventTypesAre DEF Event
  <2>2. ~EventIsTerminal(e)
    BY <2>1 DEF EventIsTerminal, TerminalTypes
  <2>3. /\ PostEvent(e) /\ UNCHANGED snapshot
        /\ UNCHANGED <<command, terminal, active_transaction_id>>
    BY <1>9 DEF ConvPrompt
  <2> HIDE DEF e
  <2> QED BY <1>1, <2>1, <2>2, <2>3, PostOutcomes, SameSlot
<1>10. CASE EndTransaction
  BY <1>1, <1>10, EndImplements
<1>11. CASE ClientStartAuth
  BY <1>1, <1>11, StartImplements
<1>12. CASE ClientCancelAuth
  BY <1>1, <1>12, CancelImplements
<1>13. CASE ClientSubmitAnswer \/ DrainPipe
  <2>1. UNCHANGED <<events, snapshot, command, terminal, ids>>
    BY <1>13 DEF ClientSubmitAnswer, SubmitAnswer, DrainPipe
  <2> QED BY <2>1, SameSlot DEF Undelivered
<1>14. CASE RequestShutdown
  <2>1. /\ shutdown_requested' = TRUE
        /\ UNCHANGED <<events, snapshot, auth_requested, auth_in_progress,
                       cancellation_requested, fatal_error, terminal, ids>>
    BY <1>14 DEF RequestShutdown
  <2>2. Session!Close
    BY <2>1 DEF Session!Close, SlotState, Undelivered
  <2> QED BY <2>2 DEF SessionStep, Session!SessionNext
<1>15. CASE TakeEvents
  <2>1. /\ main = "drain" /\ snapshot' = events /\ events' = << >>
        /\ UNCHANGED <<command, terminal, ids>>
    BY <1>15 DEF TakeEvents
  <2>2. snapshot = << >> /\ events \in Seq(Events)
    BY <1>1, <2>1 DEF Typed, PlacesAgree, TypeOK, QueueTypeOK
  <2>3. Undelivered' = Undelivered
    BY <2>1, <2>2, ConcatEmptySeq DEF Undelivered
  <2> QED BY <2>1, <2>3, SameSlot
<1>16. CASE ClientHandlesEvent
  BY <1>1, <1>16, HandleImplements
<1>17. CASE Join
  <2>1. /\ main = "joining" /\ events' = << >>
        /\ UNCHANGED <<snapshot, command, terminal, ids>>
    BY <1>17 DEF Join
  <2>2. snapshot = << >> /\ shutdown_requested
    BY <1>1, <2>1 DEF Typed, PlacesAgree, Order
  <2>3. OutcomesIn(Undelivered') = {}
    <3>1. Undelivered' = << >>
      BY <2>1, <2>2 DEF Undelivered
    <3> QED BY <3>1, NoOutcomes
  <2>4. Session!Discard
    BY <2>1, <2>2, <2>3 DEF Session!Discard, SlotState
  <2> QED BY <2>4 DEF SessionStep, Session!SessionNext
<1>18. CASE UNCHANGED vars
  BY <1>18, SameSlot DEF Undelivered
<1> QED
  BY <1>3, <1>4, <1>5, <1>6, <1>7, <1>8, <1>9, <1>10, <1>11, <1>12, <1>13,
     <1>14, <1>15, <1>16, <1>17, <1>18
  DEF Next, WorkerStep, Drain, Client, Finished, Quiet

LEMMA ImplementsInit == Init => Session!SessionInit
<1> SUFFICES ASSUME Init PROVE Session!SessionInit
  OBVIOUS
<1>1. Undelivered = << >>
  BY DEF Init, Undelivered
<1>2. OutcomesIn(Undelivered) = {}
  BY <1>1, NoOutcomes
<1> QED BY <1>2 DEF Init, Session!SessionInit, SlotState

\* The controller implements the session that pam_controller.h promises: one
\* slot, every attempt that is picked up ends once and as cancelled when it was
\* cancelled, and the outcomes reach the caller in the order of the attempts.
THEOREM KeepsPromise == Spec => KeepsItsPromise
<1>1. Init => Session!SessionInit
  BY ImplementsInit
<1>2. IndInv /\ Order /\ [Next]_vars => [Session!SessionNext]_(Session!session)
  BY ImplementsStep DEF SessionStep
<1> HIDE DEF vars, ctrl, worker, ui
<1> QED BY <1>1, <1>2, OrderInvariant, PTL
    DEF Spec, KeepsItsPromise, Session!SessionSpec
=============================================================================

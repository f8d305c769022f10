---------------------------- MODULE PamController ----------------------------
(***************************************************************************)
(* The PAM controller of i3lock (pam_controller.c): a worker thread runs   *)
(* one PAM transaction at a time for the main thread.  The threads share   *)
(* the struct `ctrl' under one mutex and one condition variable; results   *)
(* go back through a bounded event queue and a wake-up pipe.               *)
(*                                                                         *)
(* Every locked section is one action, except worker_conv_callback, which  *)
(* holds the mutex from message to message: while pc = "conv" no action of *)
(* the main thread that needs the mutex is enabled.  PAM itself is         *)
(* external: its calls return any result and may converse at will.         *)
(*                                                                         *)
(* The main thread here is the most general one that keeps the contract of *)
(* pam_controller.h: it calls any operation at any time its event loop is  *)
(* idle, and acknowledges each terminal event it consumes.                 *)
(***************************************************************************)
EXTENDS Integers, Sequences, FiniteSets, SequencesExt

CONSTANTS
    MaxEvents,        \* MAX_EVENTS, the capacity of the event queue
    PipeCapacity,     \* bytes the wake-up pipe holds before write() fails
    MaxMessages,      \* PAM_MAX_NUM_MSG, messages of one conversation call
    MaxTransactions,  \* bound: transactions a behaviour may start
    MaxPrompts        \* bound: prompts a behaviour may post

ASSUME ConstantsAssumption ==
    /\ MaxEvents \in Nat \ {0}
    /\ PipeCapacity \in Nat \ {0}
    /\ MaxMessages \in Nat \ {0}
    /\ MaxTransactions \in Nat
    /\ MaxPrompts \in Nat

VARIABLES
    \* the event queue and the number of unread bytes in the pipe
    events, pipe,
    \* the command slot
    auth_requested, auth_in_progress, shutdown_requested,
    cancellation_requested, fatal_error,
    \* the conversation; a credential is named by the transaction (deferred
    \* input) or the prompt (response) it was typed for, 0 when wiped
    waiting_for_answer, answer_submitted, waiting_prompt_id, prompts_seen,
    deferred_input_submitted, deferred_input, pending_response,
    \* the transaction slot
    next_transaction_id, next_prompt_id, active_transaction_id,
    terminal_ack_pending, terminal_transaction_id,
    \* the worker: where it is, the PAM call the conversation returns to,
    \* messages left, its locals txn and ret, blocked in pthread_cond_wait
    pc, caller, msgs_left, txn, ret, asleep,
    \* the main thread: where it is, and the events drained but not handled
    main, snapshot

queue    == <<events, pipe>>
command  == <<auth_requested, auth_in_progress, shutdown_requested,
              cancellation_requested, fatal_error>>
exchange == <<waiting_for_answer, answer_submitted, waiting_prompt_id>>
secrets  == <<deferred_input_submitted, deferred_input, pending_response>>
ids      == <<next_transaction_id, next_prompt_id, active_transaction_id>>
terminal == <<terminal_ack_pending, terminal_transaction_id>>
frame    == <<caller, msgs_left>>
locals   == <<txn, ret>>
ui       == <<main, snapshot>>

ctrl     == <<queue, command, exchange, secrets, prompts_seen, ids, terminal>>
worker   == <<pc, frame, locals, asleep>>
vars     == <<ctrl, worker, ui>>

-----------------------------------------------------------------------------
(* Events *)

TerminalTypes == {"SUCCESS", "FAILURE", "CANCELLED", "FATAL"}
EventTypes    == {"READY", "STATUS", "PROMPT"} \cup TerminalTypes

\* The text of an event is left out: a terminal event has one exactly when
\* is_error is set, a status and a prompt always may.
Events == [type : EventTypes, transaction_id : Nat, prompt_id : Nat,
           echo_on : BOOLEAN, is_error : BOOLEAN]

Event(type, transaction_id, prompt_id, echo_on, is_error) ==
    [type |-> type, transaction_id |-> transaction_id, prompt_id |-> prompt_id,
     echo_on |-> echo_on, is_error |-> is_error]

EventIsTerminal(e) == e.type \in TerminalTypes

IndicesOf(q, T) == {i \in DOMAIN q : q[i].type \in T}

\* Mutant: a terminal event has no right to evict.
VictimsStatusOnly(q, e) == IndicesOf(q, {"STATUS"})

\* What a full queue may drop to make room for e: status events first; a
\* terminal event may evict others, and in the last resort the oldest.
Victims(q, e) ==
    IF IndicesOf(q, {"STATUS"}) # {} THEN IndicesOf(q, {"STATUS"})
    ELSE IF ~EventIsTerminal(e) THEN {}
    ELSE IF IndicesOf(q, EventTypes \ TerminalTypes) # {}
         THEN IndicesOf(q, EventTypes \ TerminalTypes)
         ELSE {1}

DropIndex(q, e) == CHOOSE i \in Victims(q, e) : \A j \in Victims(q, e) : i <= j

\* Mutant: an event that was not queued is reported as posted.
FitsAlways(q, e) == TRUE

Fits(q, e) == Len(q) < MaxEvents \/ Victims(q, e) # {}

\* Mutants: the capacity is off by one; the new event takes the freed slot.
EnqueueOneTooMany(q, e) ==
    IF Len(q) <= MaxEvents THEN Append(q, e) ELSE q
EnqueueInFreedSlot(q, e) ==
    IF Len(q) < MaxEvents THEN Append(q, e)
    ELSE IF Victims(q, e) # {} THEN [q EXCEPT ![DropIndex(q, e)] = e]
    ELSE q

Enqueue(q, e) ==
    IF Len(q) < MaxEvents THEN Append(q, e)
    ELSE IF Victims(q, e) # {} THEN Append(RemoveAt(q, DropIndex(q, e)), e)
    ELSE q

\* Both ends of the pipe are non-blocking: a byte that does not fit is lost.
PipeWrite(n) == IF n < PipeCapacity THEN n + 1 ELSE n

PostEvent(e) ==
    /\ events' = Enqueue(events, e)
    /\ pipe'   = IF Fits(events, e) THEN PipeWrite(pipe) ELSE pipe

-----------------------------------------------------------------------------
Init ==
    /\ events = << >> /\ pipe = 0
    /\ auth_requested = FALSE /\ auth_in_progress = FALSE
    /\ shutdown_requested = FALSE /\ cancellation_requested = FALSE
    /\ fatal_error = FALSE
    /\ waiting_for_answer = FALSE /\ answer_submitted = FALSE
    /\ waiting_prompt_id = 0 /\ prompts_seen = 0
    /\ deferred_input_submitted = FALSE
    /\ deferred_input = 0 /\ pending_response = 0
    /\ next_transaction_id = 1 /\ next_prompt_id = 1
    /\ active_transaction_id = 0
    /\ terminal_ack_pending = FALSE /\ terminal_transaction_id = 0
    /\ pc = "start" /\ caller = "none" /\ msgs_left = 0
    /\ txn = 0 /\ ret = "SUCCESS" /\ asleep = FALSE
    /\ main = "loop" /\ snapshot = << >>

\* bounds on the counters
AttemptsLeft == next_transaction_id <= MaxTransactions
PromptsLeft  == next_prompt_id <= MaxPrompts

Stopping  == cancellation_requested \/ shutdown_requested
MutexFree == pc # "conv"

\* Mutants: one of the assignments is missing.
ClearExchangeKeepsPrompt ==
    /\ waiting_for_answer' = FALSE
    /\ answer_submitted' = FALSE
    /\ UNCHANGED waiting_prompt_id
ClearExchangeKeepsAnswer ==
    /\ waiting_for_answer' = FALSE
    /\ UNCHANGED answer_submitted
    /\ waiting_prompt_id' = 0

ClearExchange ==
    /\ waiting_for_answer' = FALSE
    /\ answer_submitted' = FALSE
    /\ waiting_prompt_id' = 0

\* Mutant: the flag is reset, the memory is not wiped.
ForgetDeferredInput ==
    /\ deferred_input_submitted' = FALSE
    /\ UNCHANGED deferred_input

WipeDeferredInput ==
    /\ deferred_input' = 0
    /\ deferred_input_submitted' = FALSE

\* Mutants: the signal is missing.
NoSignalIf(condition) == UNCHANGED asleep
NoSignal == UNCHANGED asleep

\* pthread_cond_signal, and the wait that blocks the worker
SignalIf(condition) == asleep' = (asleep /\ ~condition)
Signal == asleep' = FALSE
Sleep  == asleep' = TRUE

-----------------------------------------------------------------------------
(* The worker between transactions *)

LoopExit(in_progress) ==
    /\ shutdown_requested
    /\ pc' = "exited"
    /\ auth_in_progress' = in_progress
    /\ UNCHANGED <<auth_requested, cancellation_requested, exchange,
                   prompts_seen, txn, asleep>>

LoopWait(in_progress) ==
    /\ ~shutdown_requested
    /\ ~auth_requested
    /\ pc' = "idle"
    /\ Sleep
    /\ auth_in_progress' = in_progress
    /\ UNCHANGED <<auth_requested, cancellation_requested, exchange,
                   prompts_seen, txn>>

LoopPickUp ==
    /\ ~shutdown_requested
    /\ auth_requested
    /\ auth_requested' = FALSE
    /\ auth_in_progress' = TRUE
    /\ cancellation_requested' = FALSE
    /\ ClearExchange
    /\ prompts_seen' = 0
    /\ txn' = active_transaction_id
    /\ pc' = "pam_start"
    /\ UNCHANGED asleep

\* The head of worker_main's loop, in_progress being the value that
\* auth_in_progress has on the way there.
RequestLoop(in_progress) ==
    /\ LoopExit(in_progress) \/ LoopWait(in_progress) \/ LoopPickUp
    /\ UNCHANGED <<shutdown_requested, fatal_error, secrets, ids, terminal,
                   frame, ret, ui>>

WorkerStarts ==
    /\ pc = "start"
    /\ PostEvent(Event("READY", 0, 0, FALSE, FALSE))
    /\ RequestLoop(auth_in_progress)

WorkerIdle ==
    /\ pc = "idle"
    /\ ~asleep
    /\ RequestLoop(auth_in_progress)
    /\ UNCHANGED queue

-----------------------------------------------------------------------------
(* PAM, external: each call returns some result.  "SYSTEM_ERR" stands also *)
(* for PAM_SERVICE_ERR, and "AUTH_ERR" for every other error.              *)

Results == {"SUCCESS", "ABORT", "SYSTEM_ERR", "AUTH_ERR"}

ReturnsTo(step) == pc' = step /\ UNCHANGED <<ctrl, frame, txn, asleep, ui>>

PamStart ==
    /\ pc = "pam_start"
    /\ \E r \in Results :
          /\ ret' = r
          /\ ReturnsTo(IF r = "SUCCESS" THEN "pam_authenticate" ELSE "pam_end")

PamAuthenticate ==
    /\ pc = "pam_authenticate"
    /\ \E r \in Results :
          /\ ret' = r
          /\ ReturnsTo(IF r = "SUCCESS" THEN "acct_check" ELSE "pam_end")

AcctCheck ==
    /\ pc = "acct_check"
    /\ UNCHANGED ret
    /\ ReturnsTo(IF Stopping THEN "setcred_check" ELSE "pam_acct_mgmt")

\* The result of pam_acct_mgmt, like that of pam_setcred, is only logged and
\* passed to pam_end: ret stays PAM_SUCCESS.
PamAcctMgmt ==
    /\ pc = "pam_acct_mgmt"
    /\ UNCHANGED ret
    /\ ReturnsTo("setcred_check")

SetcredCheck ==
    /\ pc = "setcred_check"
    /\ UNCHANGED ret
    /\ ReturnsTo(IF Stopping THEN "pam_end" ELSE "pam_setcred")

PamSetcred ==
    /\ pc = "pam_setcred"
    /\ UNCHANGED ret
    /\ ReturnsTo("pam_end")

\* the calls of PAM that may converse
PamCalls == {"pam_authenticate", "pam_acct_mgmt", "pam_setcred"}

\* A PAM module calls the conversation function; the mutex is held from here.
\* (A call with invalid arguments, or one that finds no memory for its
\* replies, returns before it takes the mutex and changes nothing.)
CallConv ==
    /\ pc \in PamCalls
    /\ \E n \in 1..MaxMessages : msgs_left' = n
    /\ caller' = pc
    /\ pc' = "conv"
    /\ UNCHANGED <<ctrl, locals, asleep, ui>>

-----------------------------------------------------------------------------
(* worker_conv_callback, one message at a time *)

ReturnFromConv ==
    /\ pc' = caller
    /\ caller' = "none"
    /\ msgs_left' = 0
    /\ asleep' = FALSE

NextMessage ==
    \/ /\ msgs_left = 1
       /\ ReturnFromConv
    \/ /\ msgs_left > 1
       /\ msgs_left' = msgs_left - 1
       /\ pc' = "conv"
       /\ asleep' = FALSE
       /\ UNCHANGED caller

\* strdup may find no memory for the reply: the call fails with PAM_BUF_ERR.
ReplyOrFail == NextMessage \/ ReturnFromConv

ConvAborted ==
    /\ pc = "conv"
    /\ Stopping
    /\ ReturnFromConv
    /\ UNCHANGED <<ctrl, locals, ui>>

ConvStatus ==
    /\ pc = "conv"
    /\ ~Stopping
    /\ PostEvent(Event("STATUS", active_transaction_id, 0, FALSE, FALSE))
    /\ NextMessage
    /\ UNCHANGED <<command, exchange, secrets, prompts_seen, ids, terminal,
                   locals, ui>>

ConvUnknownStyle ==
    /\ pc = "conv"
    /\ ~Stopping
    /\ ReturnFromConv
    /\ UNCHANGED <<ctrl, locals, ui>>

UseDeferred(echo_on) ==
    prompts_seen = 0 /\ ~echo_on /\ deferred_input_submitted

\* The first hidden prompt is answered with the password typed before it.
ConvDeferred ==
    /\ pc = "conv"
    /\ ~Stopping
    /\ UseDeferred(FALSE)
    /\ prompts_seen' = prompts_seen + 1
    /\ WipeDeferredInput
    /\ ReplyOrFail
    /\ UNCHANGED <<queue, command, exchange, pending_response, ids, terminal,
                   locals, ui>>

ConvPrompt(echo_on) ==
    LET e == Event("PROMPT", active_transaction_id, next_prompt_id,
                   echo_on, FALSE)
    IN  /\ pc = "conv"
        /\ ~Stopping
        /\ ~UseDeferred(echo_on)
        /\ PromptsLeft
        /\ prompts_seen' = prompts_seen + 1
        /\ WipeDeferredInput
        /\ next_prompt_id' = next_prompt_id + 1
        /\ PostEvent(e)
        /\ \/ /\ Fits(events, e)
              /\ waiting_for_answer' = TRUE
              /\ answer_submitted' = FALSE
              /\ waiting_prompt_id' = next_prompt_id
              /\ pc' = "await_answer"
              /\ Sleep
              /\ UNCHANGED frame
           \/ /\ ~Fits(events, e)
              /\ ClearExchange
              /\ ReturnFromConv
        /\ UNCHANGED <<command, pending_response, next_transaction_id,
                       active_transaction_id, terminal, locals, ui>>

AnswerNotYet ==
    /\ pc = "await_answer"
    /\ ~asleep
    /\ ~answer_submitted
    /\ ~Stopping
    /\ Sleep
    /\ UNCHANGED <<ctrl, pc, frame, locals, ui>>

AnswerAborted ==
    /\ pc = "await_answer"
    /\ ~asleep
    /\ Stopping
    /\ ClearExchange
    /\ pending_response' = 0
    /\ ReturnFromConv
    /\ UNCHANGED <<queue, command, deferred_input_submitted, deferred_input,
                   prompts_seen, ids, terminal, locals, ui>>

AnswerTaken ==
    /\ pc = "await_answer"
    /\ ~asleep
    /\ answer_submitted
    /\ ~Stopping
    /\ ClearExchange
    /\ pending_response' = 0
    /\ ReplyOrFail
    /\ UNCHANGED <<queue, command, deferred_input_submitted, deferred_input,
                   prompts_seen, ids, terminal, locals, ui>>

-----------------------------------------------------------------------------
(* The end of a transaction *)

\* Mutant: the result of PAM is looked at before the cancellation.
OutcomeResultFirst ==
    IF ret = "SUCCESS" THEN "SUCCESS"
    ELSE IF cancellation_requested THEN "CANCELLED"
    ELSE IF ret = "ABORT" THEN "FATAL"
    ELSE "FAILURE"

Outcome ==
    IF cancellation_requested THEN "CANCELLED"
    ELSE IF ret = "SUCCESS" THEN "SUCCESS"
    ELSE IF ret = "ABORT" THEN "FATAL"
    ELSE "FAILURE"

TerminalEvent ==
    Event(Outcome, txn, 0, FALSE,
          Outcome = "FATAL" \/ (Outcome = "FAILURE" /\ ret = "SYSTEM_ERR"))

\* pam_end has run; the locked section that ends the transaction.  With a
\* shutdown requested the worker does not wait for the acknowledgement.
EndTransaction ==
    /\ pc = "pam_end"
    /\ WipeDeferredInput
    /\ pending_response' = 0
    /\ ClearExchange
    /\ cancellation_requested' = FALSE
    /\ fatal_error' = (fatal_error \/ Outcome = "FATAL")
    /\ terminal_ack_pending' = TRUE
    /\ terminal_transaction_id' = txn
    /\ PostEvent(TerminalEvent)
    /\ pc' = IF shutdown_requested THEN "exited" ELSE "await_ack"
    /\ asleep' = ~shutdown_requested
    /\ UNCHANGED <<auth_requested, auth_in_progress, shutdown_requested,
                   prompts_seen, ids, frame, locals, ui>>

\* Mutant: a worker that waits for an acknowledgement ignores the shutdown.
AwaitAckIgnoresShutdown ==
    /\ pc = "await_ack"
    /\ ~asleep
    /\ \/ /\ terminal_ack_pending
          /\ Sleep
          /\ UNCHANGED <<ctrl, pc, frame, locals, ui>>
       \/ /\ ~terminal_ack_pending
          /\ RequestLoop(auth_in_progress /\ shutdown_requested)
          /\ UNCHANGED queue

AwaitAck ==
    /\ pc = "await_ack"
    /\ ~asleep
    /\ \/ /\ terminal_ack_pending
          /\ ~shutdown_requested
          /\ Sleep
          /\ UNCHANGED <<ctrl, pc, frame, locals, ui>>
       \/ /\ ~terminal_ack_pending \/ shutdown_requested
          /\ RequestLoop(auth_in_progress /\ shutdown_requested)
          /\ UNCHANGED queue

\* pthread_cond_wait may return without a signal.
SpuriousWakeup ==
    /\ asleep
    /\ asleep' = FALSE
    /\ UNCHANGED <<ctrl, pc, frame, locals, ui>>

-----------------------------------------------------------------------------
(* The operations the main thread calls *)

\* Mutant: the guard on a running transaction is missing.
StartAuthAcceptedWhileRunning ==
    ~(auth_requested \/ shutdown_requested \/ fatal_error \/ terminal_ack_pending)

StartAuthAccepted ==
    ~(\/ auth_requested \/ auth_in_progress \/ shutdown_requested
      \/ fatal_error \/ terminal_ack_pending)

StartAuth ==
    /\ MutexFree
    /\ StartAuthAccepted
    /\ AttemptsLeft
    /\ deferred_input' = next_transaction_id
    /\ deferred_input_submitted' = TRUE
    /\ active_transaction_id' = next_transaction_id
    /\ next_transaction_id' = next_transaction_id + 1
    /\ auth_requested' = TRUE
    /\ cancellation_requested' = FALSE
    /\ ClearExchange
    /\ prompts_seen' = 0
    /\ Signal
    /\ UNCHANGED <<queue, auth_in_progress, shutdown_requested, fatal_error,
                   pending_response, next_prompt_id, terminal, pc, frame,
                   locals>>

SubmitAnswerAccepted(transaction_id, prompt_id) ==
    ~(\/ shutdown_requested \/ cancellation_requested \/ ~waiting_for_answer
      \/ active_transaction_id # transaction_id
      \/ waiting_prompt_id # prompt_id)

SubmitAnswer(transaction_id, prompt_id) ==
    /\ MutexFree
    /\ SubmitAnswerAccepted(transaction_id, prompt_id)
    /\ pending_response' = prompt_id
    /\ answer_submitted' = TRUE
    /\ Signal
    /\ UNCHANGED <<queue, command, waiting_for_answer, waiting_prompt_id,
                   deferred_input_submitted, deferred_input, prompts_seen,
                   ids, terminal, pc, frame, locals>>

TerminalAwaits(transaction_id) ==
    terminal_ack_pending /\ terminal_transaction_id = transaction_id

ClearTerminal ==
    /\ terminal_ack_pending' = FALSE
    /\ terminal_transaction_id' = 0
    /\ auth_in_progress' = FALSE

AckTerminal(transaction_id) ==
    /\ MutexFree
    /\ \/ TerminalAwaits(transaction_id) /\ ClearTerminal
       \/ ~TerminalAwaits(transaction_id) /\ UNCHANGED <<terminal, auth_in_progress>>
    /\ SignalIf(TerminalAwaits(transaction_id))
    /\ UNCHANGED <<queue, auth_requested, shutdown_requested,
                   cancellation_requested, fatal_error, exchange, secrets,
                   prompts_seen, ids, pc, frame, locals>>

\* A terminal that awaits its acknowledgement gets it; a transaction that is
\* still requested or running is cancelled.
CancelAuth(transaction_id) ==
    LET acked   == TerminalAwaits(transaction_id)
        cancels == /\ active_transaction_id = transaction_id
                   /\ auth_requested \/ (auth_in_progress /\ ~acked)
    IN  /\ MutexFree
        /\ transaction_id # 0
        /\ \/ acked /\ ClearTerminal
           \/ ~acked /\ UNCHANGED <<terminal, auth_in_progress>>
        /\ \/ /\ cancels
              /\ cancellation_requested' = TRUE
              /\ auth_requested' = FALSE
              /\ WipeDeferredInput
              /\ pending_response' = 0
           \/ /\ ~cancels
              /\ UNCHANGED <<cancellation_requested, auth_requested, secrets>>
        /\ SignalIf(acked \/ cancels)
        /\ UNCHANGED <<queue, shutdown_requested, fatal_error, exchange,
                       prompts_seen, ids, pc, frame, locals>>

\* pam_controller_drain_events: the pipe is emptied without the mutex, then
\* the queue is taken, then the callback sees each event.
DrainPipe ==
    /\ main = "loop"
    /\ pipe > 0
    /\ pipe' = 0
    /\ main' = "drain"
    /\ UNCHANGED <<events, command, exchange, secrets, prompts_seen, ids,
                   terminal, worker, snapshot>>

\* Mutant: one event per wake-up.
TakeOneEvent ==
    /\ main = "drain"
    /\ MutexFree
    /\ snapshot' = SubSeq(events, 1, 1)
    /\ events' = SubSeq(events, 2, Len(events))
    /\ main' = IF events = << >> THEN "loop" ELSE "events"
    /\ UNCHANGED <<pipe, command, exchange, secrets, prompts_seen, ids,
                   terminal, worker>>

TakeEvents ==
    /\ main = "drain"
    /\ MutexFree
    /\ snapshot' = events
    /\ events' = << >>
    /\ main' = IF events = << >> THEN "loop" ELSE "events"
    /\ UNCHANGED <<pipe, command, exchange, secrets, prompts_seen, ids,
                   terminal, worker>>

\* The callback returns from the event at the head of the snapshot.
EventHandled ==
    /\ main = "events"
    /\ snapshot' = Tail(snapshot)
    /\ main' = IF Len(snapshot) = 1 THEN "loop" ELSE "events"

\* pam_controller_cleanup
RequestShutdown ==
    /\ main = "loop"
    /\ MutexFree
    /\ shutdown_requested' = TRUE
    /\ Signal
    /\ main' = "joining"
    /\ UNCHANGED <<queue, auth_requested, auth_in_progress,
                   cancellation_requested, fatal_error, exchange, secrets,
                   prompts_seen, ids, terminal, pc, frame, locals, snapshot>>

Join ==
    /\ main = "joining"
    /\ pc = "exited"
    /\ main' = "done"
    /\ events' = << >>
    /\ pipe' = 0
    /\ deferred_input' = 0
    /\ pending_response' = 0
    /\ UNCHANGED <<command, exchange, deferred_input_submitted, prompts_seen,
                   ids, terminal, worker, snapshot>>

-----------------------------------------------------------------------------
(* The general main thread *)

Transactions == 1..(next_transaction_id - 1)
Prompts      == 1..(next_prompt_id - 1)

ClientStartAuth == main = "loop" /\ StartAuth /\ UNCHANGED ui

ClientSubmitAnswer ==
    /\ main = "loop"
    /\ \E t \in Transactions, p \in Prompts : SubmitAnswer(t, p)
    /\ UNCHANGED ui

ClientCancelAuth ==
    /\ main = "loop"
    /\ \E t \in Transactions : CancelAuth(t)
    /\ UNCHANGED ui

ClientHandlesEvent ==
    /\ EventHandled
    /\ \/ /\ EventIsTerminal(Head(snapshot))
          /\ AckTerminal(Head(snapshot).transaction_id)
       \/ /\ ~EventIsTerminal(Head(snapshot))
          /\ UNCHANGED <<ctrl, worker>>

\* The process has cleaned up: nothing is left to do.
Finished == main = "done" /\ UNCHANGED vars

Pam == PamStart \/ PamAuthenticate \/ PamAcctMgmt \/ PamSetcred

WorkerStep ==
    \/ WorkerStarts \/ WorkerIdle \/ AcctCheck \/ SetcredCheck
    \/ ConvAborted \/ ConvStatus \/ ConvUnknownStyle \/ ConvDeferred
    \/ (\E echo_on \in BOOLEAN : ConvPrompt(echo_on))
    \/ AnswerNotYet \/ AnswerAborted \/ AnswerTaken
    \/ EndTransaction \/ AwaitAck

Drain == DrainPipe \/ TakeEvents \/ ClientHandlesEvent

Client ==
    \/ ClientStartAuth \/ ClientSubmitAnswer \/ ClientCancelAuth
    \/ RequestShutdown \/ Join

Next == WorkerStep \/ Pam \/ CallConv \/ SpuriousWakeup \/ Drain \/ Client
        \/ Finished

Spec == Init /\ [][Next]_vars

\* The worker thread is scheduled, PAM calls return in the end however often
\* they converse, and the event loop reads its pipe.  Nothing obliges the
\* user to type, nor a wait to return unless it is signalled.
Fairness ==
    /\ WF_vars(WorkerStep)
    /\ SF_vars(PamStart) /\ SF_vars(PamAuthenticate)
    /\ SF_vars(PamAcctMgmt) /\ SF_vars(PamSetcred)
    /\ WF_vars(Drain) /\ WF_vars(Join)

FairSpec == Spec /\ Fairness

-----------------------------------------------------------------------------
(* Properties *)

Running == {"pam_start", "pam_authenticate", "acct_check", "pam_acct_mgmt",
            "setcred_check", "pam_setcred", "pam_end", "conv", "await_answer"}

Pcs == Running \cup {"start", "idle", "await_ack", "exited"}

QueueTypeOK ==
    /\ events \in Seq(Events) /\ Len(events) <= MaxEvents
    /\ snapshot \in Seq(Events) /\ Len(snapshot) <= MaxEvents
    /\ pipe \in 0..PipeCapacity

FlagTypeOK ==
    /\ auth_requested \in BOOLEAN /\ auth_in_progress \in BOOLEAN
    /\ shutdown_requested \in BOOLEAN /\ cancellation_requested \in BOOLEAN
    /\ fatal_error \in BOOLEAN /\ terminal_ack_pending \in BOOLEAN
    /\ waiting_for_answer \in BOOLEAN /\ answer_submitted \in BOOLEAN
    /\ deferred_input_submitted \in BOOLEAN

NumberTypeOK ==
    /\ waiting_prompt_id \in Nat /\ prompts_seen \in Nat
    /\ deferred_input \in Nat /\ pending_response \in Nat
    /\ next_transaction_id \in Nat \ {0} /\ next_prompt_id \in Nat \ {0}
    /\ active_transaction_id \in Nat /\ terminal_transaction_id \in Nat

ThreadTypeOK ==
    /\ pc \in Pcs
    /\ caller \in {"none"} \cup PamCalls
    /\ msgs_left \in 0..MaxMessages
    /\ txn \in Nat /\ ret \in Results /\ asleep \in BOOLEAN
    /\ main \in {"loop", "drain", "events", "joining", "done"}

TypeOK == QueueTypeOK /\ FlagTypeOK /\ NumberTypeOK /\ ThreadTypeOK

\* The transaction the worker runs is the active one, nothing else is
\* requested meanwhile, and it owes no acknowledgement: start_auth never
\* overwrites the slot of a transaction that has not ended.
RunsActiveTransaction ==
    pc \in Running =>
        /\ auth_in_progress /\ ~auth_requested
        /\ txn = active_transaction_id
        /\ ~terminal_ack_pending

\* What the main thread has been handed or will be handed, oldest first.
Undelivered == snapshot \o events

\* While the worker waits for an acknowledgement, the terminal event it is
\* about has not been dropped from a full queue: the main thread will see it
\* (or has cancelled that transaction, which acknowledges it).
PendingTerminalDelivered ==
    terminal_ack_pending /\ main # "done" =>
        \E i \in DOMAIN Undelivered :
            /\ EventIsTerminal(Undelivered[i])
            /\ Undelivered[i].transaction_id = terminal_transaction_id

\* No lost wake-up: if events are queued then the pipe is readable, or the
\* main thread is past its read of the pipe and has yet to take the queue.
QueuedEventsWakeMain ==
    events # << >> /\ main # "done" => pipe > 0 \/ main = "drain"

\* Events reach the main thread in the order of their transactions, prompts
\* in the order of their numbers, and nothing of a transaction follows its
\* terminal event, whatever a full queue dropped.
EventsInOrder ==
    \A i, j \in DOMAIN Undelivered :
        i < j =>
            LET a == Undelivered[i]
                b == Undelivered[j]
            IN  /\ a.transaction_id <= b.transaction_id
                /\ EventIsTerminal(a) => a.transaction_id < b.transaction_id
                /\ a.type = "PROMPT" /\ b.type = "PROMPT" =>
                       a.prompt_id < b.prompt_id

\* A password or an answer stays in the secure storage only for the request
\* or the prompt it was typed for, and an answer that PAM is about to get is
\* the one for the prompt it waits at, not wiped and not an older one.
CredentialsScoped ==
    /\ deferred_input # 0 =>
          /\ deferred_input = active_transaction_id
          /\ deferred_input_submitted
          /\ auth_requested \/ pc \in Running
    /\ deferred_input_submitted /\ main # "done" => deferred_input # 0
    /\ pending_response # 0 => pc = "await_answer" /\ answer_submitted
    /\ pc = "await_answer" /\ answer_submitted /\ ~cancellation_requested =>
          pending_response = waiting_prompt_id

\* The controller announces a prompt exactly while the worker waits at it.
WaitingIsReal ==
    /\ waiting_for_answer <=> pc = "await_answer"
    /\ waiting_prompt_id # 0 <=> pc = "await_answer"
    /\ answer_submitted => pc = "await_answer"

\* Where each thread is and the data that belong to that place: the snapshot
\* is nonempty while it is handled, the C stack has a conversation frame
\* exactly in the conversation, and the worker blocks at the three waits only.
PlacesAgree ==
    /\ main = "events" <=> snapshot # << >>
    /\ caller # "none" <=> pc \in {"conv", "await_answer"}
    /\ msgs_left # 0 <=> pc \in {"conv", "await_answer"}
    /\ asleep => pc \in {"idle", "await_answer", "await_ack"}

\* The transaction slot: taken from the pick-up of the request to the
\* acknowledgement of the terminal event, and free for a request otherwise.
SlotAgrees ==
    /\ auth_in_progress => pc \in Running \cup {"await_ack", "exited"}
    /\ auth_requested => ~auth_in_progress
    /\ terminal_ack_pending =>
          /\ pc \in {"await_ack", "exited"}
          /\ auth_in_progress
          /\ terminal_transaction_id = txn
    /\ auth_in_progress /\ pc = "await_ack" => terminal_ack_pending

\* The inductive invariant: the last two conjuncts strengthen the others.
IndInv ==
    /\ TypeOK
    /\ RunsActiveTransaction
    /\ WaitingIsReal
    /\ CredentialsScoped
    /\ QueuedEventsWakeMain
    /\ PendingTerminalDelivered
    /\ PlacesAgree
    /\ SlotAgrees

\* A transaction cancelled while it runs ends as cancelled: the request is
\* not forgotten, and PAM's success does not win over it.
CancelledStaysCancelled ==
    [][ cancellation_requested /\ pc \in Running =>
          \/ cancellation_requested' /\ pc' \in Running
          \/ /\ pc = "pam_end"
             /\ Last(events').type = "CANCELLED"
             /\ Last(events').transaction_id = txn ]_vars

\* The refinement mapping: the slot as the flags have it, and the outcomes on
\* their way to the main thread.
SlotState ==
    IF terminal_ack_pending THEN "ended"
    ELSE IF auth_requested THEN "requested"
    ELSE IF ~auth_in_progress THEN "free"
    ELSE IF cancellation_requested THEN "cancelling"
    ELSE "running"

OutcomesIn(q) ==
    {[attempt |-> q[i].transaction_id, kind |-> q[i].type] :
        i \in IndicesOf(q, TerminalTypes)}

Session == INSTANCE AuthSession WITH
    slot     <- SlotState,
    attempt  <- active_transaction_id,
    outcomes <- OutcomesIn(Undelivered),
    open     <- ~shutdown_requested,
    fatal    <- fatal_error

\* The controller keeps the promise of its header: behind the flags, the
\* queue that drops events and the pipe there is one slot, whose attempts end
\* once, in order, and as cancelled when they were (pam_controller.h).
KeepsItsPromise == Session!SessionSpec

\* A request is picked up, or withdrawn.
RequestServed == auth_requested ~> (~auth_requested \/ shutdown_requested)

\* An accepted answer reaches PAM, or is wiped.
AnswerConsumed == answer_submitted ~> ~answer_submitted

\* A cancelled transaction ends even when PAM sits at a prompt.
CancelCompletes ==
    (cancellation_requested /\ pc \in Running) ~> (pc \notin Running)

\* pam_controller_cleanup returns, whatever the worker was doing.
ShutdownCompletes == shutdown_requested ~> (main = "done")
=============================================================================

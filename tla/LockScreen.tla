----------------------------- MODULE LockScreen -----------------------------
(***************************************************************************)
(* The authentication side of i3lock's main thread (i3lock.c), composed    *)
(* with the controller of PamController.  The event loop is single-        *)
(* threaded: each of its callbacks is one action, except that a drain of   *)
(* the controller's events is one action per event, because the worker     *)
(* posts meanwhile.  Of the password buffer only whether input_position is *)
(* 0 is kept, of a panel text only the transaction or prompt it is from.   *)
(***************************************************************************)
EXTENDS PamController

CONSTANT
    IgnoreEmptyPassword  \* option -e, --ignore-empty-password

ASSUME IgnoreEmptyAssumption == IgnoreEmptyPassword \in BOOLEAN

VARIABLES
    mapped,              \* the first MapNotify has been handled
    controller_started, pam_auth_fatal,
    left_loop,           \* ev_break has been called: the screen unlocks
    auth_state,
    active_pam_transaction_id, active_pam_prompt_id, pam_waiting_for_prompt,
    clear_auth_wrong_timeout,   \* "off", "armed", or "no memory": NULL like
                         \* "off", because there was none for the timer
    retry_verification, skip_repeated_empty_password,
    input_position,      \* 0, or 1 for any other position
    status_text,         \* the transaction whose text the panel shows, or 0
    prompt_text,         \* the prompt whose text the panel shows, or 0
    pam_status_expires_with_auth_wrong

boot     == <<mapped, controller_started, pam_auth_fatal, left_loop>>
dialogue == <<active_pam_transaction_id, active_pam_prompt_id,
              pam_waiting_for_prompt>>
display  == <<status_text, prompt_text, pam_status_expires_with_auth_wrong>>
keys     == <<retry_verification, skip_repeated_empty_password, input_position>>
screen   == <<boot, auth_state, clear_auth_wrong_timeout, dialogue, display, keys>>

controllerVars == vars
lockVars == <<vars, screen>>

LockInit ==
    /\ Init
    /\ mapped = FALSE /\ controller_started = FALSE
    /\ pam_auth_fatal = FALSE /\ left_loop = FALSE
    /\ auth_state = "IDLE"
    /\ active_pam_transaction_id = 0 /\ active_pam_prompt_id = 0
    /\ pam_waiting_for_prompt = FALSE
    /\ clear_auth_wrong_timeout = "off"
    /\ retry_verification = FALSE /\ skip_repeated_empty_password = FALSE
    /\ input_position = 0
    /\ status_text = 0 /\ prompt_text = 0
    /\ pam_status_expires_with_auth_wrong = FALSE

\* The event loop runs and is not in the middle of a drain.
LoopIdle == mapped /\ ~left_loop /\ main = "loop"

NoControllerCall == UNCHANGED <<ctrl, worker>>

-----------------------------------------------------------------------------
(* MapNotify: the controller is started, after all forks *)

MapNotify ==
    /\ main = "loop"
    /\ ~left_loop
    /\ ~controller_started
    /\ mapped' = TRUE
    /\ \/ /\ controller_started' = TRUE
          /\ UNCHANGED auth_state
       \/ /\ auth_state' = "LOCK_FAILED"
          /\ UNCHANGED controller_started
    /\ UNCHANGED <<controllerVars, pam_auth_fatal, left_loop, dialogue, display,
                   clear_auth_wrong_timeout, keys>>

-----------------------------------------------------------------------------
(* Input *)

\* Mutants: one of the assignments is missing.
ClearDisplayKeepsStatus ==
    /\ prompt_text' = 0
    /\ pam_status_expires_with_auth_wrong' = FALSE
    /\ UNCHANGED status_text
ClearDialogueKeepsWaiting ==
    /\ active_pam_transaction_id' = 0
    /\ active_pam_prompt_id' = 0
    /\ UNCHANGED pam_waiting_for_prompt

ClearPamDisplayText ==
    /\ status_text' = 0
    /\ prompt_text' = 0
    /\ pam_status_expires_with_auth_wrong' = FALSE

ClearDialogue ==
    /\ active_pam_transaction_id' = 0
    /\ active_pam_prompt_id' = 0
    /\ pam_waiting_for_prompt' = FALSE

\* The outcomes of input_done.  The position is left where it is, except by
\* the first.
InputAfterFatal ==
    /\ auth_state' = "LOCK_FAILED"
    /\ input_position' = 0
    /\ NoControllerCall
    /\ UNCHANGED dialogue

AnswersPrompt ==
    /\ active_pam_prompt_id' = 0
    /\ pam_waiting_for_prompt' = FALSE
    /\ \/ /\ SubmitAnswerAccepted(active_pam_transaction_id, active_pam_prompt_id)
          /\ SubmitAnswer(active_pam_transaction_id, active_pam_prompt_id)
          /\ auth_state' = "VERIFY"
       \/ /\ MutexFree
          /\ ~SubmitAnswerAccepted(active_pam_transaction_id, active_pam_prompt_id)
          /\ NoControllerCall
          /\ auth_state' = "IDLE"
    /\ UNCHANGED <<active_pam_transaction_id, input_position>>

InputWithoutController ==
    /\ auth_state' = "LOCK_FAILED"
    /\ NoControllerCall
    /\ UNCHANGED <<dialogue, input_position>>

BeginsTransaction ==
    /\ StartAuth
    /\ auth_state' = "VERIFY"
    /\ active_pam_transaction_id' = next_transaction_id
    /\ UNCHANGED <<active_pam_prompt_id, pam_waiting_for_prompt, input_position>>

\* Mutant: the verifying state is not taken back.
AttemptRefusedVerifies ==
    /\ MutexFree
    /\ ~StartAuthAccepted
    /\ NoControllerCall
    /\ auth_state' = "VERIFY"
    /\ active_pam_transaction_id' = 0
    /\ UNCHANGED <<active_pam_prompt_id, pam_waiting_for_prompt, input_position>>

AttemptRefused ==
    /\ MutexFree
    /\ ~StartAuthAccepted
    /\ NoControllerCall
    /\ auth_state' = "IDLE"
    /\ active_pam_transaction_id' = 0
    /\ UNCHANGED <<active_pam_prompt_id, pam_waiting_for_prompt, input_position>>

\* input_done, in auth state `state', where the caller has changed the status
\* text and its flag to `status' and `expires'.
InputDone(state, status, expires) ==
    /\ clear_auth_wrong_timeout' = "off"
    /\ \/ /\ pam_auth_fatal
          /\ InputAfterFatal
          /\ UNCHANGED prompt_text
          /\ status_text' = status /\ pam_status_expires_with_auth_wrong' = expires
       \/ /\ ~pam_auth_fatal /\ state = "VERIFY"
          /\ auth_state' = state
          /\ NoControllerCall
          /\ UNCHANGED <<dialogue, input_position, prompt_text>>
          /\ status_text' = status /\ pam_status_expires_with_auth_wrong' = expires
       \/ /\ ~pam_auth_fatal /\ state # "VERIFY" /\ pam_waiting_for_prompt
          /\ AnswersPrompt
          /\ prompt_text' = 0
          /\ status_text' = status /\ pam_status_expires_with_auth_wrong' = expires
       \/ /\ ~pam_auth_fatal /\ state # "VERIFY" /\ ~pam_waiting_for_prompt
          /\ \/ /\ controller_started
                /\ BeginsTransaction
                /\ ClearPamDisplayText
             \/ /\ \/ controller_started /\ AttemptRefused
                   \/ ~controller_started /\ InputWithoutController
                /\ UNCHANGED prompt_text
                /\ status_text' = status
                /\ pam_status_expires_with_auth_wrong' = expires

SkipWithoutValidation ==
    input_position = 0 /\ (skip_repeated_empty_password \/ IgnoreEmptyPassword)

\* AttemptsLeft: a retry that the bound would not let begin is not asked for.
EnterKey ==
    /\ LoopIdle
    /\ \/ /\ auth_state = "WRONG"
          /\ AttemptsLeft
          /\ retry_verification' = TRUE
          /\ NoControllerCall
          /\ UNCHANGED <<auth_state, clear_auth_wrong_timeout, dialogue, display,
                         skip_repeated_empty_password, input_position>>
       \/ /\ auth_state # "WRONG"
          /\ SkipWithoutValidation
          /\ NoControllerCall
          /\ UNCHANGED <<auth_state, clear_auth_wrong_timeout, dialogue, display,
                         keys>>
       \/ /\ auth_state # "WRONG"
          /\ ~SkipWithoutValidation
          /\ InputDone(auth_state, status_text, pam_status_expires_with_auth_wrong)
          /\ skip_repeated_empty_password' = TRUE
          /\ UNCHANGED retry_verification
    /\ UNCHANGED <<boot, ui>>

\* Any key but Enter and Escape: it may type, delete, clear, or do nothing,
\* and discards input that a retry was to verify.
OtherKey ==
    /\ LoopIdle
    /\ skip_repeated_empty_password' = FALSE
    /\ retry_verification' = FALSE
    /\ input_position' \in {0, 1}
    /\ UNCHANGED <<controllerVars, boot, auth_state, clear_auth_wrong_timeout,
                   dialogue, display>>

EscapeKey ==
    /\ LoopIdle
    /\ skip_repeated_empty_password' = FALSE
    /\ retry_verification' = FALSE
    /\ input_position' = 0
    /\ \/ /\ active_pam_transaction_id # 0
          /\ CancelAuth(active_pam_transaction_id)
          /\ ClearDialogue
          /\ ClearPamDisplayText
          /\ auth_state' = "IDLE"
       \/ /\ active_pam_transaction_id = 0
          /\ NoControllerCall
          /\ UNCHANGED <<dialogue, display, auth_state>>
    /\ UNCHANGED <<boot, clear_auth_wrong_timeout, ui>>

\* discard_passwd_cb, three minutes after the last key that typed
DiscardPassword ==
    /\ LoopIdle
    /\ input_position # 0
    /\ input_position' = 0
    /\ UNCHANGED <<controllerVars, boot, auth_state, clear_auth_wrong_timeout,
                   dialogue, display, retry_verification,
                   skip_repeated_empty_password>>

\* clear_auth_wrong, two seconds after a failure
ClearAuthWrong ==
    /\ LoopIdle
    /\ clear_auth_wrong_timeout = "armed"
    /\ LET expires == pam_status_expires_with_auth_wrong
       IN  \/ /\ retry_verification
              /\ retry_verification' = FALSE
              /\ InputDone("IDLE", IF expires THEN 0 ELSE status_text, FALSE)
           \/ /\ ~retry_verification
              /\ clear_auth_wrong_timeout' = "off"
              /\ auth_state' = "IDLE"
              /\ IF expires THEN ClearPamDisplayText ELSE UNCHANGED display
              /\ NoControllerCall
              /\ UNCHANGED <<dialogue, retry_verification, input_position>>
    /\ UNCHANGED <<boot, skip_repeated_empty_password, ui>>

-----------------------------------------------------------------------------
(* handle_pam_event, for the event at the head of the snapshot *)

\* Mutant: events of past transactions count.
IsAnyTransaction(e) == e.transaction_id > 0

IsCurrent(e) == e.transaction_id = active_pam_transaction_id

\* Mutant: the timer is not armed.
AuthFailedWithoutTimer ==
    /\ auth_state' = "WRONG"
    /\ input_position' = 0
    /\ UNCHANGED clear_auth_wrong_timeout

\* start_timer: a timer that exists is started again; for a new one there may
\* be no memory, and the program goes on without it.
StartAuthWrongTimer ==
    \/ clear_auth_wrong_timeout' = "armed"
    \/ clear_auth_wrong_timeout # "armed" /\ clear_auth_wrong_timeout' = "no memory"

\* auth_failed, called from the failure event only
AuthFailed ==
    /\ auth_state' = "WRONG"
    /\ input_position' = 0
    /\ StartAuthWrongTimer

ShowStatus(e) ==
    /\ status_text' = e.transaction_id
    /\ pam_status_expires_with_auth_wrong' = FALSE
    /\ UNCHANGED <<auth_state, dialogue, prompt_text, input_position,
                   clear_auth_wrong_timeout, pam_auth_fatal, left_loop>>

ShowPrompt(e) ==
    /\ active_pam_prompt_id' = e.prompt_id
    /\ pam_waiting_for_prompt' = TRUE
    /\ prompt_text' = e.prompt_id
    /\ auth_state' = "IDLE"
    /\ input_position' = 0
    /\ UNCHANGED <<active_pam_transaction_id, status_text,
                   pam_status_expires_with_auth_wrong,
                   clear_auth_wrong_timeout, pam_auth_fatal, left_loop>>

Unlock ==
    /\ ClearDialogue
    /\ ClearPamDisplayText
    /\ left_loop' = TRUE
    /\ UNCHANGED <<auth_state, input_position, clear_auth_wrong_timeout,
                   pam_auth_fatal>>

\* The panel text of a failure, if it has one, goes when the timer fires.
ShowFailure(e) ==
    /\ ClearDialogue
    /\ prompt_text' = 0
    /\ status_text' = IF e.is_error THEN e.transaction_id ELSE 0
    /\ pam_status_expires_with_auth_wrong' = e.is_error
    /\ AuthFailed
    /\ UNCHANGED <<pam_auth_fatal, left_loop>>

ShowCancelled ==
    /\ ClearDialogue
    /\ ClearPamDisplayText
    /\ auth_state' = "IDLE"
    /\ UNCHANGED <<input_position, clear_auth_wrong_timeout, pam_auth_fatal,
                   left_loop>>

ShowFatal(e) ==
    /\ ClearDialogue
    /\ pam_auth_fatal' = TRUE
    /\ prompt_text' = 0
    /\ status_text' = IF e.is_error THEN e.transaction_id ELSE 0
    /\ pam_status_expires_with_auth_wrong' = FALSE
    /\ auth_state' = "LOCK_FAILED"
    /\ input_position' = 0
    /\ UNCHANGED <<clear_auth_wrong_timeout, left_loop>>

HandleCurrent(e) ==
    \/ e.type = "STATUS"    /\ ShowStatus(e)
    \/ e.type = "PROMPT"    /\ ShowPrompt(e)
    \/ e.type = "SUCCESS"   /\ Unlock
    \/ e.type = "FAILURE"   /\ ShowFailure(e)
    \/ e.type = "CANCELLED" /\ ShowCancelled
    \/ e.type = "FATAL"     /\ ShowFatal(e)

\* Mutant: a stale terminal event is dropped without an acknowledgement.
AcknowledgeCurrent(e) ==
    \/ EventIsTerminal(e) /\ IsCurrent(e) /\ AckTerminal(e.transaction_id)
    \/ ~(EventIsTerminal(e) /\ IsCurrent(e)) /\ NoControllerCall

\* Every terminal event is acknowledged, current or not.
Acknowledge(e) ==
    \/ EventIsTerminal(e) /\ AckTerminal(e.transaction_id)
    \/ ~EventIsTerminal(e) /\ NoControllerCall

HandlePamEvent ==
    LET e == Head(snapshot)
    IN  /\ EventHandled
        /\ \/ /\ e.type # "READY" /\ IsCurrent(e)
              /\ HandleCurrent(e)
           \/ /\ e.type = "READY" \/ ~IsCurrent(e)
              /\ UNCHANGED <<auth_state, dialogue, display, input_position,
                             clear_auth_wrong_timeout, pam_auth_fatal, left_loop>>
        /\ Acknowledge(e)
        /\ UNCHANGED <<mapped, controller_started, retry_verification,
                       skip_repeated_empty_password>>

-----------------------------------------------------------------------------
\* pam_event_cb runs once the watcher is started, until the loop is left.
DrainStarts ==
    /\ controller_started
    /\ ~left_loop
    /\ DrainPipe
    /\ UNCHANGED screen

DrainTakes == TakeEvents /\ UNCHANGED screen

\* main, after its event loop: pam_controller_cleanup
Cleanup == left_loop /\ RequestShutdown /\ UNCHANGED screen
CleanedUp == Join /\ UNCHANGED screen

\* The worker exists once pam_controller_init has created it.
WorkerThread ==
    /\ controller_started
    /\ WorkerStep \/ Pam \/ CallConv \/ SpuriousWakeup
    /\ UNCHANGED screen

User == EnterKey \/ OtherKey \/ EscapeKey

LockDrain == DrainStarts \/ DrainTakes \/ HandlePamEvent

LockNext ==
    \/ MapNotify \/ User \/ DiscardPassword \/ ClearAuthWrong
    \/ LockDrain \/ Cleanup \/ CleanedUp \/ WorkerThread
    \/ (Finished /\ UNCHANGED screen)

LockSpec == LockInit /\ [][LockNext]_lockVars

\* As in PamController, and libev fires timers and reports readable pipes.
LockFairness ==
    /\ WF_lockVars(WorkerStep /\ controller_started /\ UNCHANGED screen)
    /\ SF_lockVars(PamStart /\ UNCHANGED screen)
    /\ SF_lockVars(PamAuthenticate /\ UNCHANGED screen)
    /\ SF_lockVars(PamAcctMgmt /\ UNCHANGED screen)
    /\ SF_lockVars(PamSetcred /\ UNCHANGED screen)
    /\ WF_lockVars(LockDrain) /\ WF_lockVars(ClearAuthWrong)
    /\ WF_lockVars(Cleanup) /\ WF_lockVars(CleanedUp)

FairLockSpec == LockSpec /\ LockFairness

-----------------------------------------------------------------------------
(* Properties *)

\* The lock screen is a client that keeps the controller's contract, so what
\* holds of PamController holds of the program.
ControllerContract == Spec

\* The screen unlocks only by the success of the transaction on the screen:
\* PAM accepted it, nothing newer has begun, and the user has not given it up
\* with Escape.  A success that comes too late unlocks nothing.
UnlocksByCurrentSuccess ==
    [][ ~left_loop /\ left_loop' =>
          /\ ret = "SUCCESS" /\ pc = "await_ack"
          /\ active_pam_transaction_id = txn /\ txn = active_transaction_id
          /\ TerminalAwaits(txn) ]_lockVars

\* An answer the user may give is one the controller still waits for: the
\* prompt on the screen has not been aborted or overtaken.
AnswerNeverRefused ==
    pam_waiting_for_prompt =>
        SubmitAnswerAccepted(active_pam_transaction_id, active_pam_prompt_id)

\* The UI's transaction is the controller's; while it has one it shows that
\* it verifies or asks, and when it has none it does neither.
DialogueMatchesController ==
    /\ active_pam_transaction_id # 0 =>
          /\ active_pam_transaction_id = active_transaction_id
          /\ auth_requested \/ auth_in_progress
          /\ ~cancellation_requested
    /\ ~left_loop =>
          (active_pam_transaction_id # 0 <=>
              auth_state = "VERIFY" \/ pam_waiting_for_prompt)

\* UI and PAM never wait for each other: when the worker waits for an answer
\* in the UI's transaction, the prompt is on the screen or on its way.
PromptReachesUser ==
    pc = "await_answer" /\ ~answer_submitted /\ ~Stopping =>
        \/ pam_waiting_for_prompt /\ active_pam_prompt_id = waiting_prompt_id
        \/ \E i \in DOMAIN Undelivered :
              /\ Undelivered[i].type = "PROMPT"
              /\ Undelivered[i].prompt_id = waiting_prompt_id
              /\ Undelivered[i].transaction_id = active_pam_transaction_id

\* The panel shows no text of another transaction than the current one, save
\* a failure's while it is shown and the fatal error's for good.
PanelIsCurrent ==
    /\ prompt_text # 0 <=> pam_waiting_for_prompt
    /\ prompt_text = active_pam_prompt_id
    /\ status_text # 0 =>
          \/ status_text = active_pam_transaction_id
          \/ pam_status_expires_with_auth_wrong /\ auth_state = "WRONG"
          \/ pam_auth_fatal

\* Verification ends: with a prompt, a failure or an unlocked screen.
VerificationEnds == auth_state = "VERIFY" ~> (auth_state # "VERIFY" \/ left_loop)

\* A failure is shown for a while, never for good, unless there was no memory
\* for the timer that ends it.
WrongEnds ==
    auth_state = "WRONG" ~>
        (auth_state # "WRONG" \/ clear_auth_wrong_timeout = "no memory")

\* Once unlocked the program leaves: the worker is joined.
UnlockCompletes == left_loop ~> (main = "done")

-----------------------------------------------------------------------------
(* Statements of the documentation that the code does not keep *)

\* i3lock.1, -e: an empty password is not validated.
EmptyPasswordNotValidated ==
    [][ IgnoreEmptyPassword /\ active_transaction_id' # active_transaction_id
          => input_position # 0 ]_lockVars

\* i3lock.1: Escape cancels the conversation and returns to the locked input
\* state; so an idle lock screen, once the worker is idle too and has nothing
\* more to say, accepts what is typed.
IdleAcceptsInput ==
    /\ LoopIdle /\ controller_started /\ auth_state = "IDLE"
    /\ active_pam_transaction_id = 0
    /\ pc = "idle" /\ Undelivered = << >>
    => StartAuthAccepted
=============================================================================

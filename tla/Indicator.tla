------------------------------ MODULE Indicator ------------------------------
(***************************************************************************)
(* What the user sees of the dialogue: the states i3lock.c keeps for the    *)
(* unlock indicator, the four timers that change them, and the picture that *)
(* unlock_indicator.c drew last.  A handler draws only where it calls       *)
(* redraw_screen, so the picture is a copy and may be old.  The controller  *)
(* is reduced to the events it can send the transaction on the screen       *)
(* (LockScreen composes the real one): a success ends the drawing, and a    *)
(* cancelled transaction is no longer on the screen.                        *)
(***************************************************************************)
EXTENDS Naturals

VARIABLES
    options,         \* those of -u, -f, -e that are given
    unlock_state, auth_state,
    failed_attempts, \* 0, or 1 for any other number
    input_position,  \* 0, or 1 for any other position
    skip_repeated_empty_password, retry_verification,
    controller_started, pam_auth_fatal,
    active_transaction, pam_waiting_for_prompt,  \* there is one; it asks
    pam_display,     \* which texts are not empty, and whether the prompt echoes
    pam_status_expires_with_auth_wrong,
    timers,          \* those armed: "wrong", "indicator", "discard", "redraw"
    no_memory,       \* those there was no memory for when last asked for (history)
    drawn            \* what the screen shows

states   == <<unlock_state, auth_state, failed_attempts>>
keys     == <<input_position, skip_repeated_empty_password, retry_verification>>
boot     == <<options, controller_started, pam_auth_fatal>>
dialogue == <<active_transaction, pam_waiting_for_prompt>>
display  == <<pam_display, pam_status_expires_with_auth_wrong>>
clocks   == <<timers, no_memory>>
vars     == <<states, keys, boot, dialogue, display, clocks, drawn>>

NoDisplay == [status |-> FALSE, prompt |-> FALSE, visible_input |-> FALSE, echo_on |-> FALSE]

-----------------------------------------------------------------------------
(* draw_image and draw_unlock_circle *)

unlock_indicator == "-u" \notin options

CircleText ==
    CASE auth_state # "IDLE" -> auth_state
      [] auth_state = "IDLE" /\ pam_display.echo_on /\ pam_display.visible_input -> "input"
      [] OTHER -> IF "-f" \in options /\ failed_attempts > 0 THEN "attempts"
                  ELSE IF unlock_state = "NOTHING_TO_DELETE" THEN "no input" ELSE "none"

Panel(pam) == {t \in {"status", "prompt"} : pam[t]}

Hidden == [text |-> "hidden", panel |-> {}, highlight |-> "none"]

\* The panel belongs to the indicator and is hidden with it.
Picture ==
    IF unlock_indicator /\ (unlock_state # "STARTED" \/ auth_state # "IDLE")
    THEN [text |-> CircleText, panel |-> Panel(pam_display), highlight |-> "none"]
    ELSE Hidden

RedrawScreen == drawn' = Picture'

\* A key just pressed is drawn, and at once taken back from the state.
RedrawWithHighlight(how) ==
    drawn' = IF unlock_indicator THEN [Picture' EXCEPT !.highlight = how] ELSE Hidden

Init ==
    /\ options \in SUBSET {"-u", "-f", "-e"}
    /\ unlock_state = "STARTED" /\ auth_state = "IDLE" /\ failed_attempts = 0
    /\ input_position = 0
    /\ skip_repeated_empty_password = FALSE /\ retry_verification = FALSE
    /\ controller_started = FALSE /\ pam_auth_fatal = FALSE
    /\ active_transaction = FALSE /\ pam_waiting_for_prompt = FALSE
    /\ pam_display = NoDisplay /\ pam_status_expires_with_auth_wrong = FALSE
    /\ timers = {} /\ no_memory = {}
    /\ drawn = Hidden

-----------------------------------------------------------------------------
(* Timers and buffers *)

\* A timer that exists is set again; for a new one there may be no memory.
StartTimers(started, stopped) ==
    \E new \in SUBSET (started \ timers) :
        /\ timers' = (timers \cup new) \ stopped
        /\ no_memory' = (no_memory \ started) \cup (started \ (timers \cup new))

StopTimer(t) == timers' = timers \ {t} /\ UNCHANGED no_memory

\* clear_input, where the display is `pam' before.
ClearInput(pam) ==
    input_position' = 0 /\ pam_display' = [pam EXCEPT !.visible_input = FALSE]

\* update_pam_visible_input, at the new position
UpdatePamVisibleInput(pam) ==
    pam_display' = [pam EXCEPT !.visible_input = pam.echo_on /\ input_position' # 0]

-----------------------------------------------------------------------------
(* Input *)

\* The controller never refuses the answer (LockScreen, AnswerNeverRefused).
AnswersPrompt(pam) ==
    /\ pam_waiting_for_prompt' = FALSE
    /\ pam_display' = [pam EXCEPT !.prompt = FALSE, !.visible_input = FALSE, !.echo_on = FALSE]
    /\ auth_state' = "VERIFY"
    /\ UNCHANGED active_transaction
    /\ RedrawScreen

\* An accepted attempt clears the texts after its drawing.
BeginsTransaction(pam) ==
    /\ active_transaction' = TRUE
    /\ auth_state' = "VERIFY"
    /\ pam_display' = NoDisplay
    /\ UNCHANGED pam_waiting_for_prompt
    /\ drawn' = IF unlock_indicator THEN [Picture' EXCEPT !.panel = Panel(pam)] ELSE Hidden

AttemptFails(pam) ==
    /\ \/ controller_started  /\ auth_state' = "IDLE" /\ active_transaction' = FALSE
       \/ ~controller_started /\ auth_state' = "LOCK_FAILED" /\ UNCHANGED active_transaction
    /\ pam_display' = pam
    /\ UNCHANGED pam_waiting_for_prompt
    /\ RedrawScreen

\* finish_input and input_done, in auth state `state' with the display `pam'.
\* The position is left where it is, except by the first.
FinishInput(state, pam) ==
    /\ StopTimer("wrong")
    /\ pam_status_expires_with_auth_wrong' = FALSE
    /\ UNCHANGED failed_attempts
    /\ \/ /\ pam_auth_fatal
          /\ auth_state' = "LOCK_FAILED" /\ unlock_state' = "KEY_PRESSED"
          /\ ClearInput(pam)
          /\ UNCHANGED dialogue
          /\ RedrawScreen
       \/ /\ ~pam_auth_fatal /\ state = "VERIFY"
          /\ auth_state' = state /\ unlock_state' = "KEY_PRESSED"
          /\ pam_display' = pam
          /\ UNCHANGED <<dialogue, input_position>>
          /\ RedrawScreen
       \/ /\ ~pam_auth_fatal /\ state # "VERIFY"
          /\ unlock_state' = "STARTED"
          /\ UNCHANGED input_position
          /\ \/ pam_waiting_for_prompt /\ AnswersPrompt(pam)
             \/ ~pam_waiting_for_prompt /\ controller_started /\ BeginsTransaction(pam)
             \/ ~pam_waiting_for_prompt /\ AttemptFails(pam)

SkipWithoutValidation ==
    input_position = 0 /\ (skip_repeated_empty_password \/ "-e" \in options)

EnterKey ==
    /\ UNCHANGED boot
    /\ \/ /\ auth_state = "WRONG"
          /\ retry_verification' = TRUE
          /\ UNCHANGED <<states, dialogue, display, clocks, drawn, input_position,
                         skip_repeated_empty_password>>
       \/ /\ auth_state # "WRONG" /\ SkipWithoutValidation
          /\ ClearInput(pam_display)
          /\ UNCHANGED <<states, dialogue, pam_status_expires_with_auth_wrong, clocks,
                         drawn, skip_repeated_empty_password, retry_verification>>
       \/ /\ auth_state # "WRONG" /\ ~SkipWithoutValidation
          /\ FinishInput(auth_state, pam_display)
          /\ skip_repeated_empty_password' = TRUE
          /\ UNCHANGED retry_verification

\* What every key but Enter finds: input that waits for a retry is discarded.
Position == IF retry_verification THEN 0 ELSE input_position
Display  == [pam_display EXCEPT !.visible_input = @ /\ ~retry_verification]

NotEnter ==
    skip_repeated_empty_password' = FALSE /\ retry_verification' = FALSE

\* Delete, a key without a character, or one that finds the buffer full.
IgnoredKey ==
    /\ NotEnter
    /\ input_position' = Position /\ pam_display' = Display
    /\ UNCHANGED <<states, boot, dialogue, pam_status_expires_with_auth_wrong,
                   clocks, drawn>>

\* Mutant: the display is forgotten.
CancelKeepsDisplay ==
    /\ active_transaction' = FALSE /\ pam_waiting_for_prompt' = FALSE
    /\ auth_state' = "IDLE"
    /\ ClearInput(pam_display) /\ pam_status_expires_with_auth_wrong' = FALSE

CancelTransaction ==
    /\ active_transaction' = FALSE /\ pam_waiting_for_prompt' = FALSE
    /\ auth_state' = "IDLE"
    /\ ClearInput(NoDisplay) /\ pam_status_expires_with_auth_wrong' = FALSE

\* Escape gives up the transaction; it and C-u clear the input and hide the
\* indicator.
EscapeKey(cancels) ==
    /\ NotEnter
    /\ \/ cancels /\ active_transaction /\ CancelTransaction
       \/ /\ ~(cancels /\ active_transaction)
          /\ ClearInput(Display)
          /\ UNCHANGED <<auth_state, dialogue, pam_status_expires_with_auth_wrong>>
    /\ unlock_state' = IF unlock_indicator THEN "STARTED" ELSE unlock_state
    /\ UNCHANGED <<failed_attempts, boot, clocks>>
    /\ IF unlock_indicator THEN RedrawScreen ELSE UNCHANGED drawn

BackSpaceKey ==
    /\ NotEnter
    /\ UNCHANGED <<auth_state, failed_attempts, boot, dialogue,
                   pam_status_expires_with_auth_wrong>>
    /\ StartTimers({"indicator"}, {})
    /\ \/ /\ Position = 0
          /\ unlock_state' = "NOTHING_TO_DELETE"
          /\ input_position' = 0 /\ pam_display' = Display
          /\ RedrawScreen
       \/ /\ Position # 0
          /\ unlock_state' = "KEY_PRESSED"
          /\ input_position' \in {0, 1}
          /\ UpdatePamVisibleInput(Display)
          /\ RedrawWithHighlight("backspace")

\* Each key that types has a timer of its own to take back its highlight; the
\* timer that hides the indicator is stopped.
TypingKey ==
    /\ NotEnter
    /\ UNCHANGED <<auth_state, failed_attempts, boot, dialogue,
                   pam_status_expires_with_auth_wrong>>
    /\ input_position' = 1
    /\ UpdatePamVisibleInput(Display)
    /\ \/ /\ unlock_indicator
          /\ unlock_state' = "KEY_PRESSED"
          /\ RedrawWithHighlight("key")
          /\ StartTimers({"redraw", "discard"}, {"indicator"})
       \/ /\ ~unlock_indicator
          /\ UNCHANGED <<unlock_state, drawn>>
          /\ StartTimers({"discard"}, {})

User ==
    \/ EnterKey \/ IgnoredKey \/ BackSpaceKey \/ TypingKey
    \/ \E cancels \in BOOLEAN : EscapeKey(cancels)

-----------------------------------------------------------------------------
(* Timers that fire *)

\* Two seconds after a failure.
ClearAuthWrong ==
    /\ "wrong" \in timers
    /\ retry_verification' = FALSE
    /\ UNCHANGED <<boot, skip_repeated_empty_password>>
    /\ LET pam == IF pam_status_expires_with_auth_wrong THEN NoDisplay ELSE pam_display
       IN  \/ /\ retry_verification
              /\ FinishInput("IDLE", pam)
           \/ /\ ~retry_verification
              /\ auth_state' = "IDLE"
              /\ pam_display' = pam /\ pam_status_expires_with_auth_wrong' = FALSE
              /\ StopTimer("wrong")
              /\ UNCHANGED <<unlock_state, failed_attempts, input_position, dialogue>>
              /\ RedrawScreen

\* One second after the last BackSpace.
ClearIndicator ==
    /\ "indicator" \in timers
    /\ unlock_state' = IF input_position = 0 THEN "STARTED" ELSE "KEY_PRESSED"
    /\ StopTimer("indicator")
    /\ UNCHANGED <<auth_state, failed_attempts, keys, boot, dialogue, display>>
    /\ RedrawScreen

\* Three minutes after the last key that typed; nothing is drawn.
DiscardPasswd ==
    /\ "discard" \in timers
    /\ ClearInput(pam_display)
    /\ StopTimer("discard")
    /\ UNCHANGED <<states, skip_repeated_empty_password, retry_verification, boot,
                   dialogue, pam_status_expires_with_auth_wrong, drawn>>

\* A quarter of a second after a key: the last such timer, or one of several.
RedrawTimeout ==
    /\ "redraw" \in timers
    /\ timers' \in {timers, timers \ {"redraw"}}
    /\ UNCHANGED <<states, keys, boot, dialogue, display, no_memory>>
    /\ RedrawScreen

\* A change of the keyboard's state or of the screen's size.
OtherRedraw ==
    /\ UNCHANGED <<states, keys, boot, dialogue, display, clocks>>
    /\ RedrawScreen

-----------------------------------------------------------------------------
(* MapNotify, and the events of the controller *)

MapNotify ==
    /\ ~controller_started
    /\ UNCHANGED <<unlock_state, failed_attempts, keys, options, pam_auth_fatal,
                   dialogue, display, clocks>>
    /\ \/ controller_started' = TRUE /\ UNCHANGED <<auth_state, drawn>>
       \/ auth_state' = "LOCK_FAILED" /\ UNCHANGED controller_started /\ RedrawScreen

\* The worker says nothing while it waits for an answer.
FromWorker == active_transaction /\ ~pam_waiting_for_prompt

StatusEvent(text) ==
    /\ FromWorker
    /\ pam_display' = [pam_display EXCEPT !.status = text]
    /\ pam_status_expires_with_auth_wrong' = FALSE
    /\ UNCHANGED <<states, keys, boot, dialogue, clocks>>
    /\ RedrawScreen

PromptEvent(text, echo_on) ==
    /\ FromWorker
    /\ pam_waiting_for_prompt' = TRUE
    /\ ClearInput([pam_display EXCEPT !.prompt = text, !.echo_on = echo_on])
    /\ auth_state' = "IDLE" /\ unlock_state' = "KEY_PRESSED"
    /\ UNCHANGED <<failed_attempts, skip_repeated_empty_password, retry_verification,
                   boot, active_transaction, pam_status_expires_with_auth_wrong, clocks>>
    /\ RedrawScreen

\* Mutants: what was drawn last stays on the screen; the timer is not set.
FailedUnseen ==
    /\ auth_state' = "WRONG"
    /\ failed_attempts' = 1
    /\ UNCHANGED <<unlock_state, drawn>>
    /\ StartTimers({"wrong"}, {"indicator"})
FailedForGood ==
    /\ auth_state' = "WRONG"
    /\ failed_attempts' = 1
    /\ StopTimer("indicator")
    /\ UNCHANGED unlock_state
    /\ RedrawScreen

AuthFailed ==
    /\ auth_state' = "WRONG"
    /\ failed_attempts' = 1
    /\ StartTimers({"wrong"}, {"indicator"})
    /\ UNCHANGED unlock_state
    /\ RedrawScreen

\* A failure's text goes with the wrong state, a fatal one's stays.
FailureEvent(text) ==
    /\ FromWorker
    /\ active_transaction' = FALSE
    /\ ClearInput([NoDisplay EXCEPT !.status = text])
    /\ pam_status_expires_with_auth_wrong' = text
    /\ UNCHANGED <<skip_repeated_empty_password, retry_verification, boot,
                   pam_waiting_for_prompt>>
    /\ AuthFailed

FatalEvent(text) ==
    /\ FromWorker
    /\ active_transaction' = FALSE
    /\ pam_auth_fatal' = TRUE
    /\ ClearInput([NoDisplay EXCEPT !.status = text])
    /\ pam_status_expires_with_auth_wrong' = FALSE
    /\ auth_state' = "LOCK_FAILED"
    /\ UNCHANGED <<unlock_state, failed_attempts, skip_repeated_empty_password,
                   retry_verification, options, controller_started,
                   pam_waiting_for_prompt, clocks>>
    /\ RedrawScreen

Worker ==
    \E text \in BOOLEAN :
        \/ StatusEvent(text) \/ FailureEvent(text) \/ FatalEvent(text)
        \/ \E echo_on \in BOOLEAN : PromptEvent(text, echo_on)

Next ==
    \/ User \/ Worker \/ MapNotify \/ OtherRedraw
    \/ ClearAuthWrong \/ ClearIndicator \/ DiscardPasswd \/ RedrawTimeout

Spec == Init /\ [][Next]_vars

\* libev lets a timer fire that is not set again for ever.
FairSpec ==
    /\ Spec
    /\ WF_vars(ClearAuthWrong) /\ WF_vars(ClearIndicator)
    /\ WF_vars(DiscardPasswd) /\ WF_vars(RedrawTimeout)

-----------------------------------------------------------------------------
(* Properties *)

\* The echo of input that discard_passwd_cb or a discarded retry has cleared.
EchoOfDiscarded == drawn.text = "input" /\ ~pam_display.visible_input

\* The screen shows what the states say, whichever handler ran last and
\* whichever timers it stopped: nothing is changed without being drawn, save a
\* key's highlight, which is meant to outlast its state, and input that is
\* discarded (redraw_screen and all its callers).
ScreenShowsState ==
    [drawn EXCEPT !.highlight = "none",
                  !.text = IF EchoOfDiscarded THEN Picture.text ELSE @] = Picture

\* What the user types is readable on the screen only while a prompt waits that
\* wants its input echoed (update_pam_visible_input, draw_unlock_circle).
EchoGoneWithPrompt ==
    drawn.text = "input" => pam_waiting_for_prompt /\ pam_display.echo_on

\* Once the user stops typing, the highlight of the last key and the report of
\* a failure go, unless there was no memory for their timer, although the
\* handlers stop each other's timers (start_timer, auth_failed,
\* handle_key_press).
FeedbackFades ==
    <>[][~User]_vars =>
        /\ [](drawn.highlight # "none" => <>(drawn.highlight = "none" \/ no_memory # {}))
        /\ [](drawn.text = "WRONG" => <>(drawn.text # "WRONG" \/ "wrong" \in no_memory))

-----------------------------------------------------------------------------
(* A statement of the documentation that the code does not keep *)

\* i3lock.1: "When the unlock indicator is enabled, ... visible prompt labels
\* appear in a passive panel above it": so the label of a prompt that echoes
\* stays there while the prompt waits, until the user does something.
PromptStaysShown ==
    [][ /\ pam_waiting_for_prompt /\ pam_waiting_for_prompt'
        /\ pam_display.echo_on /\ "prompt" \in drawn.panel
        /\ ~User
        => "prompt" \in drawn'.panel ]_vars
=============================================================================

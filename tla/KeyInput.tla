------------------------------- MODULE KeyInput -------------------------------
(***************************************************************************)
(* What the user types at the lock screen (i3lock.c: handle_key_press, the *)
(* password buffer and the functions that clear it, the visible echo).     *)
(* LockScreen keeps of the buffer only whether it is empty; here it is an  *)
(* array of bytes, and the dialogue and the controller are reduced to what *)
(* they do to it.  A byte is NUL, a glyph's only or first byte, a          *)
(* continuation byte, or another of the pattern the buffer is wiped with.  *)
(* What a program does that has written behind the array is undefined: the *)
(* model shows how far it wrote, and ends there.                           *)
(* `typed', `consumed' and `submitted' are history variables: what the     *)
(* user has typed since the input was last cleared or submitted.           *)
(***************************************************************************)
EXTENDS Integers, Sequences, FiniteSets, SequencesExt

CONSTANTS
    Size,         \* sizeof(password)
    Reserve,      \* 8, the room asked for before the text of a key is stored
    MaxKeyText,   \* sizeof(buffer) - 1, the most bytes of text a key can have
    VisibleSize,  \* sizeof(pam_display.visible_input)
    CharSize,     \* 256, the values of a char
    Builds        \* whether HAVE_EXPLICIT_BZERO is defined: TRUE, FALSE or both

ASSUME SizesAssumption ==
    /\ Size \in Nat /\ Reserve \in Nat /\ Reserve < Size
    /\ MaxKeyText \in Nat /\ MaxKeyText < Size
    /\ VisibleSize \in Nat \ {0}
    /\ CharSize \in Nat /\ CharSize >= 4
    /\ Builds \subseteq BOOLEAN

\* UTF-8: a glyph of one to four bytes.
Glyphs == {<<"ascii">>, <<"lead", "cont">>, <<"lead", "cont", "cont">>,
           <<"lead", "cont", "cont", "cont">>}

\* What xkbcommon makes of a key: one glyph, or at the end of a compose
\* sequence the glyphs of any text that fits into handle_key_press's buffer.
KeyTexts ==
    {text \in UNION {[1..n -> Glyphs] : n \in 1..MaxKeyText} :
        Len(FlattenSeq(text)) <= MaxKeyText}

VARIABLES
    explicit_bzero,   \* the build: HAVE_EXPLICIT_BZERO
    beep, ignore_empty_password,               \* options -b and -e
    password, input_position,
    prompt_echo_on, visible_input,             \* of pam_display
    auth_state, retry_verification, skip_repeated_empty_password,
    discard_passwd_timeout,                    \* the timer is armed
    pam_waiting_for_prompt, pam_auth_fatal, controller_started,
    \* the controller's slot: "free", "running" (the UI's transaction),
    \* "ending" (a transaction the UI has cancelled), "fatal", "success"
    slot,
    typed, consumed, submitted

options  == <<explicit_bzero, beep, ignore_empty_password>>
buffer   == <<password, input_position>>
echo     == <<prompt_echo_on, visible_input>>
dialogue == <<auth_state, pam_waiting_for_prompt, pam_auth_fatal, slot>>
keys     == <<retry_verification, skip_repeated_empty_password>>
timer    == discard_passwd_timeout
history  == <<typed, consumed, submitted>>
vars     == <<options, buffer, echo, dialogue, keys, timer, controller_started, history>>

Init ==
    /\ explicit_bzero \in Builds
    /\ beep \in BOOLEAN /\ ignore_empty_password \in BOOLEAN
    /\ password = [i \in 0..Size - 1 |-> "nul"] /\ input_position = 0
    /\ prompt_echo_on = FALSE /\ visible_input = << >>
    /\ auth_state = "IDLE"
    /\ retry_verification = FALSE /\ skip_repeated_empty_password = FALSE
    /\ discard_passwd_timeout = FALSE
    /\ pam_waiting_for_prompt = FALSE /\ pam_auth_fatal = FALSE
    /\ controller_started \in BOOLEAN /\ slot = "free"
    /\ typed = << >> /\ consumed = "no"
    /\ submitted = [text |-> << >>, typed |-> << >>]

-----------------------------------------------------------------------------
(* Strings *)

strlen(s) == CHOOSE n \in DOMAIN s : s[n] = "nul" /\ \A i \in 0..n - 1 : s[i] # "nul"

Text(s) == [i \in 1..strlen(s) |-> s[i - 1]]

isutf(byte) == byte # "cont"

\* Mutant: one byte back, whatever it is.
OneByteBack(s, i) == i - 1

\* the start of the glyph before i, which is looked for in three bytes
u8_dec(s, i) ==
    LET starts == {j \in i - 3..i - 1 : j \in DOMAIN s /\ isutf(s[j])}
    IN  IF starts = {} THEN i - 4 ELSE CHOOSE j \in starts : \A k \in starts : k <= j

\* Mutant: the limit may cut a glyph.
TruncateAnywhere(s, len) == len

utf8_truncate_to_char_boundary(s, len) ==
    CHOOSE n \in 0..len :
        /\ n = 0 \/ isutf(s[n])
        /\ \A k \in n + 1..len : ~isutf(s[k])

-----------------------------------------------------------------------------
(* Clearing *)

\* What isutf and strlen see of a byte: from 0x80 to 0xBF it continues a glyph.
ByteOf(value) ==
    IF value = 0 THEN "nul"
    ELSE IF 2 * value >= CharSize /\ 4 * value < 3 * CharSize THEN "cont"
    ELSE "pattern"

\* explicit_bzero up to the first NUL, or the pattern "index plus beep", which
\* starts again where a char overflows.
Wiped(s) ==
    IF explicit_bzero
    THEN [i \in DOMAIN s |-> IF i < strlen(s) THEN "nul" ELSE s[i]]
    ELSE [i \in DOMAIN s |-> ByteOf((IF beep THEN i + 1 ELSE i) % CharSize)]

\* clear_password_memory, and the NUL that clear_input puts at position 0
Emptied(s) == [Wiped(s) EXCEPT ![0] = "nul"]

clear_input ==
    /\ input_position' = 0
    /\ password' = Emptied(password)
    /\ visible_input' = << >>
    /\ typed' = << >> /\ consumed' = "no"
    /\ UNCHANGED submitted

ClearDisplay == prompt_echo_on' = FALSE /\ visible_input' = << >>

\* What update_pam_visible_input shows of the password.
VisibleOf(s) ==
    LET len == strlen(s)
        n   == IF len >= VisibleSize
               THEN utf8_truncate_to_char_boundary(s, VisibleSize - 1) ELSE len
    IN  IF prompt_echo_on THEN [i \in 1..n |-> s[i - 1]] ELSE << >>

-----------------------------------------------------------------------------
(* Submitting: finish_input and input_done *)

Terminated == [password EXCEPT ![input_position] = "nul"]

\* The text goes to PAM and the buffer is wiped; the position is not reset.
Submits(accepted) ==
    /\ submitted' = [text |-> Text(Terminated), typed |-> typed]
    /\ password' = Wiped(Terminated)
    /\ typed' = << >>
    /\ consumed' = IF accepted THEN "accepted" ELSE "refused"
    /\ UNCHANGED input_position

SubmitsAnswer ==
    /\ pam_waiting_for_prompt
    /\ pam_waiting_for_prompt' = FALSE
    /\ auth_state' = "VERIFY"
    /\ Submits(TRUE)
    /\ ClearDisplay
    /\ UNCHANGED <<pam_auth_fatal, slot>>

StartsTransaction ==
    /\ slot = "free"
    /\ slot' = "running"
    /\ auth_state' = "VERIFY"
    /\ Submits(TRUE)
    /\ ClearDisplay
    /\ UNCHANGED <<pam_waiting_for_prompt, pam_auth_fatal>>

StartRefused ==
    /\ slot # "free"
    /\ auth_state' = "IDLE"
    /\ Submits(FALSE)
    /\ UNCHANGED <<pam_waiting_for_prompt, pam_auth_fatal, slot, echo>>

NotSubmitted(state) ==
    /\ auth_state' = state
    /\ UNCHANGED <<pam_waiting_for_prompt, pam_auth_fatal, slot, prompt_echo_on>>

finish_input ==
    \/ /\ pam_auth_fatal
       /\ NotSubmitted("LOCK_FAILED")
       /\ clear_input
    \/ /\ ~pam_auth_fatal
       /\ \/ auth_state = "VERIFY" /\ NotSubmitted("VERIFY")
          \/ /\ auth_state # "VERIFY"
             /\ ~pam_waiting_for_prompt /\ ~controller_started
             /\ NotSubmitted("LOCK_FAILED")
       /\ password' = Terminated
       /\ UNCHANGED <<input_position, visible_input, history>>
    \/ /\ ~pam_auth_fatal /\ auth_state # "VERIFY"
       /\ \/ SubmitsAnswer
          \/ /\ ~pam_waiting_for_prompt /\ controller_started
             /\ StartsTransaction \/ StartRefused

-----------------------------------------------------------------------------
(* handle_key_press *)

Locked == slot # "success"

SkipWithoutValidation ==
    input_position = 0 /\ (skip_repeated_empty_password \/ ignore_empty_password)

EnterKey ==
    /\ Locked
    /\ \/ /\ auth_state = "WRONG"
          /\ retry_verification' = TRUE
          /\ UNCHANGED <<buffer, echo, dialogue, skip_repeated_empty_password,
                         history>>
       \/ /\ auth_state # "WRONG" /\ SkipWithoutValidation
          /\ clear_input
          /\ UNCHANGED <<prompt_echo_on, dialogue, keys>>
       \/ /\ auth_state # "WRONG" /\ ~SkipWithoutValidation
          /\ finish_input
          /\ skip_repeated_empty_password' = TRUE
          /\ UNCHANGED retry_verification
    /\ UNCHANGED <<options, timer, controller_started>>

\* Any other key forgets a remembered retry, and the input it was for.
OtherKey ==
    /\ Locked
    /\ skip_repeated_empty_password' = FALSE
    /\ retry_verification' = FALSE
    /\ UNCHANGED <<options, controller_started>>

\* Mutant: there is room up to the end of the array.
RoomToTheEnd(position) == position + Reserve <= Size

HasRoom(position) == position + Reserve < Size

Stored(s, position, bytes) ==
    [i \in DOMAIN s |->
        IF i \in position..position + Len(bytes) - 1 THEN bytes[i - position + 1]
        ELSE IF i = position + Len(bytes) THEN "nul" ELSE s[i]]

\* The program has written inside the array only.
InArray == input_position < Size

\* From an empty buffer when the key has cleared it, else from what is there.
TypeText ==
    /\ OtherKey
    /\ \E text \in KeyTexts :
        LET bytes == FlattenSeq(text)
        IN  \/ /\ retry_verification
               /\ password' = Stored(Emptied(password), 0, bytes)
               /\ input_position' = Len(bytes)
               /\ typed' = text /\ consumed' = "no"
            \/ /\ ~retry_verification
               /\ HasRoom(input_position)
               /\ password' = Stored(password, input_position, bytes)
               /\ input_position' = input_position + Len(bytes)
               /\ typed' = typed \o text
               /\ UNCHANGED consumed
    /\ visible_input' = IF InArray' THEN VisibleOf(password') ELSE visible_input
    /\ discard_passwd_timeout' = TRUE
    /\ UNCHANGED <<prompt_echo_on, dialogue, submitted>>

\* A key without text, Delete, or a text there is no room for
DeadKey ==
    /\ OtherKey
    /\ \/ retry_verification /\ clear_input
       \/ ~retry_verification /\ UNCHANGED <<buffer, visible_input, history>>
    /\ UNCHANGED <<prompt_echo_on, dialogue, timer>>

BackSpace ==
    /\ OtherKey
    /\ \/ retry_verification /\ clear_input
       \/ /\ ~retry_verification /\ input_position = 0
          /\ UNCHANGED <<buffer, visible_input, history>>
       \/ /\ ~retry_verification /\ input_position # 0
          /\ input_position' = u8_dec(password, input_position)
          /\ password' = [password EXCEPT ![input_position'] = "nul"]
          /\ visible_input' = VisibleOf(password')
          /\ typed' = IF typed = << >> THEN typed ELSE Front(typed)
          /\ UNCHANGED <<consumed, submitted>>
    /\ UNCHANGED <<prompt_echo_on, dialogue, timer>>

CtrlU ==
    /\ OtherKey
    /\ clear_input
    /\ UNCHANGED <<prompt_echo_on, dialogue, timer>>

EscapeKey ==
    /\ OtherKey
    /\ clear_input
    /\ \/ /\ slot = "running"
          /\ slot' = "ending"
          /\ pam_waiting_for_prompt' = FALSE
          /\ prompt_echo_on' = FALSE
          /\ auth_state' = "IDLE"
          /\ UNCHANGED pam_auth_fatal
       \/ slot # "running" /\ UNCHANGED <<prompt_echo_on, dialogue>>
    /\ UNCHANGED timer

-----------------------------------------------------------------------------
(* Timers *)

DiscardPassword ==
    /\ Locked
    /\ discard_passwd_timeout
    /\ discard_passwd_timeout' = FALSE
    /\ clear_input
    /\ UNCHANGED <<options, prompt_echo_on, dialogue, keys, controller_started>>

\* The panel holds no prompt then, so its expiry changes no echo.
ClearAuthWrong ==
    /\ auth_state = "WRONG"
    /\ retry_verification' = FALSE
    /\ \/ retry_verification /\ finish_input
       \/ /\ ~retry_verification
          /\ auth_state' = "IDLE"
          /\ UNCHANGED <<buffer, echo, pam_waiting_for_prompt, pam_auth_fatal,
                         slot, history>>
    /\ UNCHANGED <<options, skip_repeated_empty_password, timer,
                   controller_started>>

-----------------------------------------------------------------------------
(* The controller and its events: handle_pam_event *)

EventFrame == UNCHANGED <<options, keys, timer, controller_started>>

Verifying == slot = "running" /\ auth_state = "VERIFY"

\* Mutant: the input typed so far is kept for the answer.
PromptKeepsInput ==
    /\ Verifying
    /\ pam_waiting_for_prompt' = TRUE
    /\ prompt_echo_on' \in BOOLEAN
    /\ auth_state' = "IDLE"
    /\ visible_input' = << >>
    /\ UNCHANGED <<buffer, history, pam_auth_fatal, slot>>
    /\ EventFrame

ShowPrompt ==
    /\ Verifying
    /\ pam_waiting_for_prompt' = TRUE
    /\ prompt_echo_on' \in BOOLEAN
    /\ auth_state' = "IDLE"
    /\ clear_input
    /\ UNCHANGED <<pam_auth_fatal, slot>>
    /\ EventFrame

\* The transaction ends badly: auth_failed, or the controller has given up.
ShowFailure ==
    /\ Verifying
    /\ \/ slot' = "free" /\ auth_state' = "WRONG" /\ UNCHANGED pam_auth_fatal
       \/ slot' = "fatal" /\ auth_state' = "LOCK_FAILED" /\ pam_auth_fatal' = TRUE
    /\ pam_waiting_for_prompt' = FALSE
    /\ prompt_echo_on' = FALSE
    /\ clear_input
    /\ EventFrame

Unlocks ==
    /\ Verifying
    /\ slot' = "success"
    /\ pam_waiting_for_prompt' = FALSE
    /\ ClearDisplay
    /\ password' = Wiped(password)
    /\ UNCHANGED <<input_position, auth_state, pam_auth_fatal, history>>
    /\ EventFrame

\* A cancelled transaction ends; what it ends with is stale for the UI.
CancelledEnds ==
    /\ slot = "ending"
    /\ slot' \in {"free", "fatal"}
    /\ UNCHANGED <<options, buffer, echo, auth_state, pam_waiting_for_prompt,
                   pam_auth_fatal, keys, timer, controller_started, history>>

\* MapNotify starts the controller, or failed to and tries again.
ControllerStarts ==
    /\ ~controller_started
    /\ controller_started' = TRUE
    /\ UNCHANGED <<options, buffer, echo, dialogue, keys, timer, history>>

Ended == (~Locked \/ ~InArray) /\ UNCHANGED vars

Keyboard == EnterKey \/ TypeText \/ DeadKey \/ BackSpace \/ CtrlU \/ EscapeKey

Next ==
    \/ /\ InArray
       /\ \/ Keyboard \/ DiscardPassword \/ ClearAuthWrong
          \/ ShowPrompt \/ ShowFailure \/ Unlocks \/ CancelledEnds
          \/ ControllerStarts
    \/ Ended

Spec == Init /\ [][Next]_vars

-----------------------------------------------------------------------------
(* Properties *)

\* How far behind the array the longest text goes that passes the check for room
Overshoot == IF MaxKeyText > Reserve THEN MaxKeyText - Reserve ELSE 0

\* The type invariant.  At every length of input, and whatever a wiped buffer
\* is left with, the position stays inside the array with room for the NUL --
\* except by what a key's text is longer than the room that was asked for
\* (handle_key_press, u8_dec).
KeyTypeOK ==
    /\ {explicit_bzero, beep, ignore_empty_password} \subseteq BOOLEAN
    /\ password \in [0..Size - 1 -> {"nul", "ascii", "lead", "cont", "pattern"}]
    /\ input_position \in 0..Size - 1 + Overshoot
    /\ prompt_echo_on \in BOOLEAN /\ Len(visible_input) < VisibleSize
    /\ auth_state \in {"IDLE", "VERIFY", "WRONG", "LOCK_FAILED"}
    /\ {retry_verification, skip_repeated_empty_password, discard_passwd_timeout,
        pam_waiting_for_prompt, pam_auth_fatal, controller_started} \subseteq BOOLEAN
    /\ slot \in {"free", "running", "ending", "fatal", "success"}
    /\ typed \in Seq(Glyphs) /\ consumed \in {"no", "accepted", "refused"}

\* Through typing, deleting, clearing, timers, failures and prompts the buffer
\* holds the glyphs the user sees himself typing, and ends at the position
\* (handle_key_press, u8_dec, clear_input) -- until it is submitted.
BufferHoldsTyped ==
    consumed = "no" /\ Locked /\ InArray =>
        /\ Text(password) = FlattenSeq(typed)
        /\ input_position = strlen(password)

\* Only a verification leaves the position behind, and every event that ends
\* one resets it before the user can type for the next (handle_pam_event).
ResetBeforeNextInput ==
    consumed = "accepted" /\ Locked => auth_state = "VERIFY"

\* The echo of a visible prompt is what was typed, up to the last whole glyph
\* that fits; of masked input nothing is echoed (update_pam_visible_input).
VisibleIsTyped == InArray =>
    visible_input = IF prompt_echo_on
                    THEN LET fits == {n \in 0..Len(typed) :
                                        Len(FlattenSeq(SubSeq(typed, 1, n))) < VisibleSize}
                         IN  FlattenSeq(SubSeq(typed, 1,
                                CHOOSE n \in fits : \A m \in fits : m <= n))
                    ELSE << >>

\* What PAM gets is what the user has typed (i3lock.1:49: "You can return to
\* your screen by entering your password").  After a refused attempt, which
\* wipes the buffer but leaves the position, what is typed lies behind a NUL.
SubmitsWhatWasTyped == submitted.text = FlattenSeq(submitted.typed)
=============================================================================

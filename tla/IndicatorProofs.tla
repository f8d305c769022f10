--------------------------- MODULE IndicatorProofs ---------------------------
(***************************************************************************)
(* Proofs about Indicator: why the picture is never out of date, and why   *)
(* an echo never outlives its prompt.                                      *)
(***************************************************************************)
EXTENDS Indicator, TLAPS

-----------------------------------------------------------------------------
(* The inductive invariant *)

Displays == [status : BOOLEAN, prompt : BOOLEAN, visible_input : BOOLEAN, echo_on : BOOLEAN]

Pictures ==
    [text : {"IDLE", "VERIFY", "WRONG", "LOCK_FAILED", "input", "attempts", "no input",
             "none", "hidden"},
     panel : SUBSET {"status", "prompt"}, highlight : {"none", "key", "backspace"}]

Types ==
    /\ auth_state \in {"IDLE", "VERIFY", "WRONG", "LOCK_FAILED"}
    /\ input_position \in {0, 1}
    /\ controller_started \in BOOLEAN /\ pam_auth_fatal \in BOOLEAN
    /\ active_transaction \in BOOLEAN /\ pam_waiting_for_prompt \in BOOLEAN
    /\ retry_verification \in BOOLEAN /\ pam_status_expires_with_auth_wrong \in BOOLEAN
    /\ pam_display \in Displays

\* The dialogue is where the states say.
Dialogue ==
    /\ pam_waiting_for_prompt => active_transaction /\ auth_state = "IDLE"
    /\ active_transaction /\ ~pam_waiting_for_prompt => auth_state = "VERIFY"
    /\ auth_state = "VERIFY" => active_transaction
    /\ active_transaction => controller_started /\ ~pam_auth_fatal
    /\ "wrong" \in timers => auth_state = "WRONG"
    /\ auth_state = "WRONG" => controller_started /\ ~pam_auth_fatal

\* Who a text belongs to.
Texts ==
    /\ pam_display.prompt \/ pam_display.echo_on => pam_waiting_for_prompt
    /\ pam_display.status =>
          \/ active_transaction \/ pam_auth_fatal
          \/ auth_state = "WRONG" /\ pam_status_expires_with_auth_wrong

Screen ==
    /\ drawn \in Pictures /\ ScreenShowsState /\ EchoGoneWithPrompt
    /\ ~unlock_indicator => drawn = Hidden

Logic == Types /\ Dialogue /\ Texts

ScreenInv == Logic /\ Screen

USE DEF states, keys, boot, dialogue, display, clocks

-----------------------------------------------------------------------------
(* Drawn, or not drawn *)

LEMMA NextPicture ==
    ASSUME Types'
    PROVE  /\ Picture' \in Pictures /\ Picture'.highlight = "none"
           /\ Picture'.text = "input" => auth_state' = "IDLE" /\ pam_display'.echo_on
           /\ ~unlock_indicator' => Picture' = Hidden
<1>1. CircleText' \in {"VERIFY", "WRONG", "LOCK_FAILED", "input", "attempts", "no input", "none"}
  BY DEF CircleText, Types
<1>2. CircleText' = "input" => auth_state' = "IDLE" /\ pam_display'.echo_on
  BY DEF CircleText, Types
<1>3. Panel(pam_display)' \in SUBSET {"status", "prompt"}
  BY DEF Panel
<1> QED BY <1>1, <1>2, <1>3 DEF Picture, Pictures, Hidden

\* What a handler draws, be it with a highlight.
LEMMA Drawn ==
    ASSUME Types', Dialogue', Texts', NEW how \in {"none", "key", "backspace"},
           unlock_indicator' \/ how = "none", drawn' = [Picture' EXCEPT !.highlight = how]
    PROVE  Screen'
<1>1. /\ Picture' \in Pictures /\ Picture'.highlight = "none"
      /\ Picture'.text = "input" => auth_state' = "IDLE" /\ pam_display'.echo_on
      /\ ~unlock_indicator' => Picture' = Hidden
  BY NextPicture
<1> DEFINE p == Picture'
<1>2. /\ drawn' \in Pictures /\ drawn'.text = p.text /\ drawn'.panel = p.panel
      /\ [drawn' EXCEPT !.highlight = "none", !.text = p.text] = p
      /\ [drawn' EXCEPT !.highlight = "none", !.text = drawn'.text] = p
  <2> HIDE DEF p
  <2>1. p \in Pictures /\ p.highlight = "none" /\ drawn' = [p EXCEPT !.highlight = how]
    BY <1>1 DEF p
  <2> QED BY <2>1 DEF Pictures
<1>3. ScreenShowsState'
  BY <1>2 DEF ScreenShowsState, EchoOfDiscarded
<1>4. EchoGoneWithPrompt'
  BY <1>1, <1>2 DEF EchoGoneWithPrompt, Texts
<1>5. ~unlock_indicator' => drawn' = Hidden
  <2>1. ~unlock_indicator' => drawn' = [Hidden EXCEPT !.highlight = "none"]
    BY <1>1
  <2>2. [Hidden EXCEPT !.highlight = "none"] = Hidden
    BY DEF Hidden
  <2> QED BY <2>1, <2>2
<1> QED BY <1>2, <1>3, <1>4, <1>5 DEF Screen

LEMMA Redrawn ==
    ASSUME Types', Dialogue', Texts', RedrawScreen
    PROVE  Screen'
<1>1. Picture' \in Pictures /\ Picture'.highlight = "none"
  BY NextPicture
<1>2. drawn' = [Picture' EXCEPT !.highlight = "none"]
  <2> DEFINE p == Picture'
  <2>1. p \in Pictures /\ p.highlight = "none"
    BY <1>1
  <2>2. [p EXCEPT !.highlight = "none"] = p
    <3> HIDE DEF p
    <3> QED BY <2>1 DEF Pictures
  <2> QED BY <2>2 DEF RedrawScreen
<1> QED BY <1>2, Drawn

LEMMA SamePicture ==
    ASSUME NEW d \in Pictures, NEW p \in Pictures, NEW t
    PROVE  [d EXCEPT !.highlight = "none", !.text = t] = p
             <=> p.highlight = "none" /\ p.text = t /\ p.panel = d.panel
BY DEF Pictures

LEMMA ShowsMeans ==
    ASSUME ScreenShowsState, drawn \in Pictures, Picture \in Pictures
    PROVE  /\ Picture.highlight = "none" /\ drawn.panel = Picture.panel
           /\ Picture.text = drawn.text \/ EchoOfDiscarded
<1> DEFINE t == IF EchoOfDiscarded THEN Picture.text ELSE drawn.text
<1>1. [drawn EXCEPT !.highlight = "none", !.text = t] = Picture
  BY DEF ScreenShowsState
<1> HIDE DEF t
<1>2. Picture.highlight = "none" /\ Picture.text = t /\ Picture.panel = drawn.panel
  BY <1>1, SamePicture
<1> QED BY <1>2 DEF t

\* A handler that does not draw changes no state that shows, but that input may
\* be discarded.
LEMMA NotDrawn ==
    ASSUME ScreenInv, Logic', UNCHANGED <<options, states, drawn, pam_waiting_for_prompt>>,
           NEW v \in BOOLEAN, v => pam_display.visible_input,
           pam_display' = [pam_display EXCEPT !.visible_input = v]
    PROVE  Screen'
<1>1. /\ pam_display \in Displays /\ pam_display'.visible_input = v
      /\ pam_display'.status = pam_display.status /\ pam_display'.prompt = pam_display.prompt
      /\ pam_display'.echo_on = pam_display.echo_on
  BY DEF ScreenInv, Logic, Types, Displays
<1>2. /\ Picture' \in Pictures /\ Picture \in Pictures
      /\ Picture'.panel = Picture.panel /\ Picture'.highlight = Picture.highlight
      /\ Picture'.text = Picture.text \/ (Picture.text = "input" /\ ~v)
  <2>1. /\ CircleText' = CircleText \/ (CircleText = "input" /\ ~v)
        /\ CircleText' \in {"VERIFY", "WRONG", "LOCK_FAILED", "input", "attempts", "no input", "none"}
    BY <1>1 DEF CircleText, ScreenInv, Logic, Types
  <2> QED BY <1>1, <2>1 DEF Picture, Pictures, Panel, Hidden, unlock_indicator
<1>4. /\ Picture.highlight = "none" /\ drawn.panel = Picture.panel
      /\ Picture.text = drawn.text \/ EchoOfDiscarded
  BY <1>2, ShowsMeans DEF ScreenInv, Screen
<1>5. Picture'.text = drawn'.text \/ EchoOfDiscarded'
  BY <1>1, <1>2, <1>4 DEF EchoOfDiscarded
<1>6. ScreenShowsState'
  <2>1. drawn' \in Pictures /\ Picture'.highlight = "none" /\ drawn'.panel = Picture'.panel
    BY <1>2, <1>4 DEF ScreenInv, Screen
  <2> DEFINE t == IF EchoOfDiscarded' THEN Picture'.text ELSE drawn'.text
  <2>2. t = Picture'.text
    BY <1>5
  <2> HIDE DEF t
  <2>3. [drawn' EXCEPT !.highlight = "none", !.text = t] = Picture'
    BY <1>2, <2>1, <2>2, SamePicture
  <2> QED BY <2>3 DEF ScreenShowsState, t
<1>7. EchoGoneWithPrompt'
  BY <1>1 DEF EchoGoneWithPrompt, ScreenInv, Screen
<1>8. ~unlock_indicator' => drawn' = Hidden
  BY DEF ScreenInv, Screen, unlock_indicator
<1> QED BY <1>6, <1>7, <1>8 DEF Screen, ScreenInv

LEMMA Highlighted ==
    ASSUME Types', Dialogue', Texts', NEW how \in {"key", "backspace"},
           UNCHANGED options, RedrawWithHighlight(how)
    PROVE  Screen'
<1>1. CASE unlock_indicator
  BY <1>1, Drawn DEF RedrawWithHighlight, unlock_indicator
<1>2. CASE ~unlock_indicator
  <2>1. ~unlock_indicator' /\ Picture' = Hidden
    BY <1>2, NextPicture DEF unlock_indicator
  <2> QED BY <1>2, <2>1, Redrawn DEF RedrawWithHighlight, RedrawScreen
<1> QED BY <1>1, <1>2

-----------------------------------------------------------------------------
(* Every step preserves the invariant *)

LEMMA InitScreen == Init => ScreenInv
<1> SUFFICES ASSUME Init PROVE ScreenInv
  OBVIOUS
<1>1. Logic
  BY DEF Init, Logic, Types, Dialogue, Texts, NoDisplay, Displays
<1>2. Picture = Hidden /\ drawn = Hidden /\ Hidden \in Pictures
  BY DEF Init, Picture, Hidden, Pictures
<1>3. [Hidden EXCEPT !.highlight = "none", !.text = Hidden.text] = Hidden
      /\ Hidden.text # "input"
  BY <1>2, SamePicture DEF Hidden
<1>4. Screen
  BY <1>2, <1>3 DEF Screen, ScreenShowsState, EchoOfDiscarded, EchoGoneWithPrompt
<1> QED BY <1>1, <1>4 DEF ScreenInv

\* finish_input, with the display that belongs to the state it finds.
LEMMA FinishStep ==
    ASSUME Logic, NEW state \in {"IDLE", "VERIFY", "LOCK_FAILED"}, NEW pam \in Displays,
           pam_waiting_for_prompt => state = "IDLE",
           state = "VERIFY" <=> active_transaction /\ ~pam_waiting_for_prompt,
           pam.prompt \/ pam.echo_on => pam_waiting_for_prompt,
           pam.status => active_transaction \/ pam_auth_fatal,
           UNCHANGED boot, retry_verification' \in BOOLEAN, FinishInput(state, pam)
    PROVE  Logic' /\ Screen'
<1>1. Types' /\ Dialogue' /\ Texts'
  <2>1. /\ "wrong" \notin timers' /\ pam_status_expires_with_auth_wrong' = FALSE
    BY DEF FinishInput, StopTimer
  <2>2. CASE /\ pam_auth_fatal /\ auth_state' = "LOCK_FAILED" /\ ClearInput(pam)
             /\ UNCHANGED dialogue
    BY <2>1, <2>2 DEF Logic, Types, Dialogue, Texts, ClearInput, Displays
  <2>3. CASE /\ ~pam_auth_fatal /\ state = "VERIFY" /\ auth_state' = state
             /\ pam_display' = pam /\ UNCHANGED <<dialogue, input_position>>
    BY <2>1, <2>3 DEF Logic, Types, Dialogue, Texts, Displays
  <2>4. CASE /\ ~pam_auth_fatal /\ state # "VERIFY" /\ UNCHANGED input_position
             /\ pam_waiting_for_prompt /\ AnswersPrompt(pam)
    BY <2>1, <2>4 DEF Logic, Types, Dialogue, Texts, AnswersPrompt, Displays
  <2>5. CASE /\ ~pam_auth_fatal /\ state # "VERIFY" /\ UNCHANGED input_position
             /\ ~pam_waiting_for_prompt /\ controller_started /\ BeginsTransaction(pam)
    BY <2>1, <2>5 DEF Logic, Types, Dialogue, Texts, BeginsTransaction, NoDisplay, Displays
  <2>6. CASE /\ ~pam_auth_fatal /\ state # "VERIFY" /\ UNCHANGED input_position
             /\ ~pam_waiting_for_prompt /\ AttemptFails(pam)
    <3>1. ~active_transaction /\ ~active_transaction' /\ ~pam_waiting_for_prompt'
      BY <2>6 DEF AttemptFails
    <3>2. auth_state' \in {"IDLE", "LOCK_FAILED"} /\ pam_display' = pam
      BY <2>6 DEF AttemptFails
    <3>3. Types'
      <4>1. active_transaction' \in BOOLEAN /\ pam_waiting_for_prompt' \in BOOLEAN
        BY <2>6 DEF AttemptFails, Logic, Types
      <4>2. auth_state' \in {"IDLE", "LOCK_FAILED"} /\ input_position' \in {0, 1}
        BY <2>6, <3>2 DEF Logic, Types
      <4> QED BY <2>1, <3>2, <4>1, <4>2 DEF Logic, Types
    <3>4. Dialogue' /\ Texts'
      BY <2>1, <2>6, <3>1, <3>2 DEF Dialogue, Texts, Displays
    <3> QED BY <3>3, <3>4
  <2> QED BY <2>2, <2>3, <2>4, <2>5, <2>6 DEF FinishInput
<1>2. RedrawScreen
  \* A new transaction finds no text left that its drawing could show.
  <2>1. CASE /\ ~pam_auth_fatal /\ state # "VERIFY" /\ ~pam_waiting_for_prompt
             /\ BeginsTransaction(pam)
    <3>1. Panel(pam) = {} /\ Panel(pam_display)' = {}
      BY <2>1 DEF Panel, BeginsTransaction, NoDisplay
    <3>2. Picture' \in Pictures /\ Picture'.panel = {}
      BY <1>1, <3>1, NextPicture DEF Picture, Hidden
    <3>3. [Picture' EXCEPT !.panel = {}] = Picture'
      <4> DEFINE p == Picture'
      <4>1. p \in Pictures /\ p.panel = {}
        BY <3>2
      <4> HIDE DEF p
      <4>2. [p EXCEPT !.panel = {}] = p
        BY <4>1 DEF Pictures
      <4> QED BY <4>2 DEF p
    <3>4. ~unlock_indicator => Picture' = Hidden
      BY <1>1, NextPicture DEF unlock_indicator
    <3> QED BY <2>1, <3>1, <3>3, <3>4 DEF BeginsTransaction, RedrawScreen
  <2> QED BY <2>1 DEF FinishInput, AnswersPrompt, AttemptFails
<1> QED BY <1>1, <1>2, Redrawn DEF Logic

LEMMA EnterStep == ASSUME ScreenInv, EnterKey PROVE ScreenInv'
<1>1. CASE /\ auth_state = "WRONG" /\ retry_verification' = TRUE
           /\ UNCHANGED <<states, dialogue, display, clocks, drawn, input_position,
                          skip_repeated_empty_password>>
  <2>1. Logic'
    BY <1>1 DEF EnterKey, ScreenInv, Logic, Types, Dialogue, Texts
  <2>2. pam_display' = [pam_display EXCEPT !.visible_input = pam_display.visible_input]
        /\ pam_display.visible_input \in BOOLEAN
    BY <1>1 DEF ScreenInv, Logic, Types, Displays
  <2> QED BY <1>1, <2>1, <2>2, NotDrawn DEF EnterKey, ScreenInv
<1>2. CASE /\ auth_state # "WRONG" /\ ClearInput(pam_display)
           /\ UNCHANGED <<states, dialogue, pam_status_expires_with_auth_wrong, clocks,
                          drawn, skip_repeated_empty_password, retry_verification>>
  <2>1. Logic'
    BY <1>2 DEF EnterKey, ClearInput, ScreenInv, Logic, Types, Dialogue, Texts, Displays
  <2> QED BY <1>2, <2>1, NotDrawn DEF EnterKey, ClearInput, ScreenInv
<1>3. CASE /\ auth_state # "WRONG" /\ FinishInput(auth_state, pam_display)
           /\ UNCHANGED retry_verification
  BY <1>3, FinishStep DEF EnterKey, ScreenInv, Logic, Types, Dialogue, Texts
<1> QED BY <1>1, <1>2, <1>3 DEF EnterKey

\* What a key but Enter finds is a display.
LEMMA DisplayFound ==
    ASSUME Types
    PROVE  /\ Position \in {0, 1} /\ Display \in Displays
           /\ Display.status = pam_display.status /\ Display.prompt = pam_display.prompt
           /\ Display.echo_on = pam_display.echo_on
           /\ Display.visible_input => pam_display.visible_input
           /\ Display = [pam_display EXCEPT !.visible_input = Display.visible_input]
BY DEF Types, Position, Display, Displays

LEMMA IgnoredStep == ASSUME ScreenInv, IgnoredKey PROVE ScreenInv'
<1>1. Logic'
  BY DisplayFound DEF IgnoredKey, NotEnter, ScreenInv, Logic, Types, Dialogue, Texts
<1>2. /\ pam_display' = [pam_display EXCEPT !.visible_input = Display.visible_input]
      /\ Display.visible_input \in BOOLEAN
      /\ Display.visible_input => pam_display.visible_input
  BY DisplayFound DEF IgnoredKey, ScreenInv, Logic, Displays
<1> QED BY <1>1, <1>2, NotDrawn DEF IgnoredKey, ScreenInv

\* Where the indicator is off, nothing need be drawn.
LEMMA StaysHidden ==
    ASSUME ScreenInv, Types', UNCHANGED <<options, drawn>>, ~unlock_indicator
    PROVE  RedrawScreen
BY NextPicture DEF ScreenInv, Screen, RedrawScreen, unlock_indicator

LEMMA EscapeStep ==
    ASSUME ScreenInv, NEW cancels \in BOOLEAN, EscapeKey(cancels)
    PROVE  ScreenInv'
<1>1. CASE cancels /\ active_transaction /\ CancelTransaction
  <2>1. Logic'
    BY <1>1 DEF EscapeKey, NotEnter, CancelTransaction, ClearInput, NoDisplay, ScreenInv, Logic,
                Types, Dialogue, Texts, Displays
  <2>2. CASE unlock_indicator
    BY <2>1, <2>2, Redrawn DEF EscapeKey, Logic, ScreenInv
  <2>3. CASE ~unlock_indicator
    <3>1. RedrawScreen
      BY <2>1, <2>3, StaysHidden DEF EscapeKey, Logic
    <3> QED BY <2>1, <3>1, Redrawn DEF Logic, ScreenInv
  <2> QED BY <2>2, <2>3
<1>2. CASE /\ ClearInput(Display)
           /\ UNCHANGED <<auth_state, dialogue, pam_status_expires_with_auth_wrong>>
  <2>1. Logic'
    <3>1. /\ pam_display' \in Displays /\ pam_display'.status = pam_display.status
          /\ pam_display'.prompt = pam_display.prompt
          /\ pam_display'.echo_on = pam_display.echo_on
      BY <1>2, DisplayFound DEF ClearInput, ScreenInv, Logic, Displays
    <3> QED BY <1>2, <3>1 DEF EscapeKey, NotEnter, ClearInput, ScreenInv, Logic,
                Types, Dialogue, Texts
  <2>2. CASE unlock_indicator
    BY <2>1, <2>2, Redrawn DEF EscapeKey, Logic, ScreenInv
  <2>3. CASE ~unlock_indicator
    <3>1. RedrawScreen
      BY <2>1, <2>3, StaysHidden DEF EscapeKey, Logic
    <3> QED BY <2>1, <3>1, Redrawn DEF Logic, ScreenInv
  <2> QED BY <2>2, <2>3
<1> QED BY <1>1, <1>2 DEF EscapeKey

LEMMA BackSpaceStep == ASSUME ScreenInv, BackSpaceKey PROVE ScreenInv'
<1>1. Logic'
  <2>1. /\ pam_display' \in Displays /\ pam_display'.status = pam_display.status
        /\ pam_display'.prompt = pam_display.prompt
        /\ pam_display'.echo_on = pam_display.echo_on
    <3>1. CASE pam_display' = Display
      BY <3>1, DisplayFound DEF ScreenInv, Logic
    <3>2. CASE UpdatePamVisibleInput(Display)
      BY <3>2, DisplayFound DEF UpdatePamVisibleInput, ScreenInv, Logic, Displays
    <3> QED BY <3>1, <3>2 DEF BackSpaceKey
  <2>2. input_position' \in {0, 1} /\ ("wrong" \in timers' => "wrong" \in timers)
    BY DEF BackSpaceKey, StartTimers
  <2> QED BY <2>1, <2>2 DEF BackSpaceKey, NotEnter, ScreenInv, Logic, Types, Dialogue, Texts
<1>2. RedrawScreen \/ RedrawWithHighlight("backspace")
  BY DEF BackSpaceKey
<1> QED BY <1>1, <1>2, Redrawn, Highlighted DEF BackSpaceKey, ScreenInv, Logic

LEMMA TypingStep == ASSUME ScreenInv, TypingKey PROVE ScreenInv'
<1>1. Logic'
  <2>1. /\ pam_display' \in Displays /\ pam_display'.status = pam_display.status
        /\ pam_display'.prompt = pam_display.prompt
        /\ pam_display'.echo_on = pam_display.echo_on
    BY DisplayFound DEF TypingKey, UpdatePamVisibleInput, ScreenInv, Logic, Displays
  <2>2. "wrong" \in timers' => "wrong" \in timers
    BY DEF TypingKey, StartTimers
  <2> QED BY <2>1, <2>2 DEF TypingKey, NotEnter, ScreenInv, Logic, Types, Dialogue, Texts
<1>2. RedrawScreen \/ RedrawWithHighlight("key")
  BY <1>1, StaysHidden DEF TypingKey, Logic
<1> QED BY <1>1, <1>2, Redrawn, Highlighted DEF TypingKey, ScreenInv, Logic

LEMMA AuthWrongStep == ASSUME ScreenInv, ClearAuthWrong PROVE ScreenInv'
<1> DEFINE pam == IF pam_status_expires_with_auth_wrong THEN NoDisplay ELSE pam_display
<1>1. /\ auth_state = "WRONG" /\ ~active_transaction /\ ~pam_waiting_for_prompt
      /\ pam \in Displays /\ ~pam.prompt /\ ~pam.echo_on /\ ~pam.status
  BY DEF ClearAuthWrong, ScreenInv, Logic, Types, Dialogue, Texts, NoDisplay, Displays
<1> HIDE DEF pam
<1>2. CASE FinishInput("IDLE", pam)
  BY <1>1, <1>2, FinishStep DEF ClearAuthWrong, ScreenInv
<1>3. CASE /\ auth_state' = "IDLE"
           /\ pam_display' = pam /\ pam_status_expires_with_auth_wrong' = FALSE
           /\ StopTimer("wrong")
           /\ UNCHANGED <<unlock_state, failed_attempts, input_position, dialogue>>
           /\ RedrawScreen
  <2>1. Logic'
    BY <1>1, <1>3 DEF ClearAuthWrong, StopTimer, ScreenInv, Logic, Types, Dialogue, Texts
  <2> QED BY <1>3, <2>1, Redrawn DEF ScreenInv, Logic
<1> QED BY <1>2, <1>3 DEF ClearAuthWrong, pam

\* The other timers, and what draws and changes nothing.
LEMMA TimerStep ==
    ASSUME ScreenInv, ClearIndicator \/ DiscardPasswd \/ RedrawTimeout \/ OtherRedraw
    PROVE  ScreenInv'
<1>1. "wrong" \in timers' => "wrong" \in timers
  BY DEF ClearIndicator, DiscardPasswd, RedrawTimeout, OtherRedraw, StopTimer
<1>2. Logic'
  <2>1. CASE DiscardPasswd
    BY <1>1, <2>1 DEF DiscardPasswd, ClearInput, ScreenInv, Logic, Types, Dialogue, Texts,
                      Displays
  <2>2. CASE ClearIndicator \/ RedrawTimeout \/ OtherRedraw
    BY <1>1, <2>2 DEF ClearIndicator, RedrawTimeout, OtherRedraw, ScreenInv, Logic, Types,
                      Dialogue, Texts
  <2> QED BY <2>1, <2>2
<1>3. CASE DiscardPasswd
  BY <1>2, <1>3, NotDrawn DEF DiscardPasswd, ClearInput, ScreenInv
<1>4. CASE ClearIndicator \/ RedrawTimeout \/ OtherRedraw
  BY <1>2, <1>4, Redrawn DEF ClearIndicator, RedrawTimeout, OtherRedraw, ScreenInv, Logic
<1> QED BY <1>3, <1>4

LEMMA MapStep == ASSUME ScreenInv, MapNotify PROVE ScreenInv'
<1>1. Logic'
  BY DEF MapNotify, ScreenInv, Logic, Types, Dialogue, Texts
<1>2. CASE RedrawScreen
  BY <1>1, <1>2, Redrawn DEF ScreenInv, Logic
<1>3. CASE UNCHANGED <<auth_state, drawn>>
  <2>1. pam_display' = [pam_display EXCEPT !.visible_input = pam_display.visible_input]
        /\ pam_display.visible_input \in BOOLEAN
    BY DEF MapNotify, ScreenInv, Logic, Types, Displays
  <2> QED BY <1>1, <1>3, <2>1, NotDrawn DEF MapNotify, ScreenInv
<1> QED BY <1>2, <1>3 DEF MapNotify

LEMMA WorkerStep == ASSUME ScreenInv, Worker PROVE ScreenInv'
<1>1. PICK text \in BOOLEAN, echo_on \in BOOLEAN :
          \/ StatusEvent(text) \/ FailureEvent(text) \/ FatalEvent(text)
          \/ PromptEvent(text, echo_on)
  BY DEF Worker
<1>2. RedrawScreen
  BY <1>1 DEF StatusEvent, FailureEvent, AuthFailed, FatalEvent, PromptEvent
<1>3. Logic'
  <2>1. CASE StatusEvent(text)
    BY <2>1 DEF StatusEvent, FromWorker, ScreenInv, Logic, Types, Dialogue, Texts, Displays
  <2>2. CASE FailureEvent(text)
    BY <2>2 DEF FailureEvent, FromWorker, AuthFailed, ClearInput, NoDisplay, ScreenInv, Logic,
                Types, Dialogue, Texts, Displays
  <2>3. CASE FatalEvent(text)
    BY <2>3 DEF FatalEvent, FromWorker, ClearInput, NoDisplay, ScreenInv, Logic, Types,
                Dialogue, Texts, Displays
  <2>4. CASE PromptEvent(text, echo_on)
    BY <2>4 DEF PromptEvent, FromWorker, ClearInput, ScreenInv, Logic, Types, Dialogue,
                Texts, Displays
  <2> QED BY <1>1, <2>1, <2>2, <2>3, <2>4
<1> QED BY <1>2, <1>3, Redrawn DEF ScreenInv, Logic

LEMMA StutterStep == ASSUME ScreenInv, UNCHANGED vars PROVE ScreenInv'
<1>1. Logic'
  BY DEF vars, ScreenInv, Logic, Types, Dialogue, Texts
<1>2. pam_display' = [pam_display EXCEPT !.visible_input = pam_display.visible_input]
      /\ pam_display.visible_input \in BOOLEAN
  BY DEF vars, ScreenInv, Logic, Types, Displays
<1> QED BY <1>1, <1>2, NotDrawn DEF vars, ScreenInv

-----------------------------------------------------------------------------
(* The theorems *)

\* The states, the texts and the picture belong together in every reachable
\* state: each handler that changes what shows draws it, in whichever order
\* keys, timers and events come.
THEOREM ScreenInductive == Spec => []ScreenInv
<1>1. ScreenInv /\ [Next]_vars => ScreenInv'
  <2> SUFFICES ASSUME ScreenInv, [Next]_vars PROVE ScreenInv'
    OBVIOUS
  <2> QED BY EnterStep, IgnoredStep, BackSpaceStep, TypingStep, EscapeStep, WorkerStep, MapStep,
             AuthWrongStep, TimerStep, StutterStep DEF Next, User
<1> QED BY InitScreen, <1>1, PTL DEF Spec

\* The picture drawn last is the one the states call for: no handler changes
\* what shows without drawing it, whatever timers the others stopped
\* (redraw_screen and all its callers).
THEOREM PictureIsUpToDate == Spec => []ScreenShowsState
<1>1. ScreenInv => ScreenShowsState
  BY DEF ScreenInv, Screen
<1> QED BY ScreenInductive, <1>1, PTL

\* Nothing typed is readable on the screen once no prompt waits that echoes
\* (update_pam_visible_input, draw_unlock_circle).
THEOREM EchoEndsWithPrompt == Spec => []EchoGoneWithPrompt
<1>1. ScreenInv => EchoGoneWithPrompt
  BY DEF ScreenInv, Screen
<1> QED BY ScreenInductive, <1>1, PTL
=============================================================================

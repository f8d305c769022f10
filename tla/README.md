# A verification project for i3lock

TLA+ modules, TLC configurations and TLAPS proofs about this repository's
i3lock: a screen locker for X whose authentication runs in a worker thread that
holds a PAM conversation with the user. Every definition is translated from the
C source; `PROJECT.json` maps each one to the lines it stands for. Names of
variables and actions are those of the source (`auth_requested`,
`active_pam_transaction_id`, `StartAuth`, `HandlePamEvent`).

    tlc -workers 2 -config PamController.cfg PamController.tla
    tlapm LockScreenProofs.tla

## The system

| Part | State | Operations | Talks to |
|---|---|---|---|
| PAM controller, worker (`pam_controller.c`: `worker_main`, `worker_conv_callback`) | the struct `ctrl` under one mutex and one condition variable; its place in PAM | pick up a request, `pam_start` ... `pam_setcred`, the conversation's messages, waits for an answer and for the acknowledgement, exit | main thread by `ctrl`, events and a self-pipe; PAM by calls and the callback |
| Controller, event queue (`post_event_locked`, `pam_controller_drain_events`) | sixteen slots, a non-blocking pipe | post with eviction, drain | both threads |
| Controller, API (`pam_controller_start_auth`, `_submit_answer`, `_cancel_auth`, `_ack_terminal`, `_init`, `_cleanup`) | the command slot of `ctrl`, credentials in locked memory | as named | called by the main thread |
| Lock screen dialogue (`i3lock.c`: `handle_pam_event`, `input_done`, `handle_key_press`, timers) | `auth_state`, the current transaction and prompt, panel text, retry flags, password buffer | keys, controller events, the timers | controller API, libev, unlock indicator |
| Start-up and processes (`main`, `xcb_check_cb`, `raise_loop`, `maybe_close_sleep_lock_fd`) | which process is which, X connection, sleep-lock descriptor, window | grab, fork the raise child, fork at MapNotify, start the controller, give everything back | X server, `xss-lock`, the shell |
| Grabs and X helpers (`xcb.c`) | number of tries | grab loops, windows, focus, cursor | X server |
| Unlock indicator (`unlock_indicator.c`) | the background pixmap | draw the circle and the panel, wrap and truncate text | reads the dialogue's globals and the outputs |
| Outputs (`randr.c`), resize (`handle_screen_resize`), DPI (`dpi.c`) | `xr_resolutions`, `xr_screens`, `last_resolution` | query with three fallbacks, resize | X server |
| Keymap, compose, images, options, OpenBSD | xkbcommon objects, one surface | load and refresh | libraries |

Two threads and up to four processes run. What is hard about the code:

* **threads**: one condition variable for five kinds of waits, PAM calls outside
  the mutex, a cancellation racing PAM's own result, a mutex that is held from
  message to message of a conversation and released only while it waits;
* **events**: a bounded queue that evicts, a pipe that may be full, events of a
  transaction that the user has left already;
* **timers**: four of them, which stop each other, and a retry two seconds later
  of what was typed then;
* **copies**: the picture of the dialogue and the geometry of the screen are
  copies that each handler must renew, of originals that go on changing;
* **processes**: two forks that share an X connection and a descriptor which
  holds up the machine's suspend, a thread that must be made after them;
* **failures**: grabs and forks that fail, allocation failures that must not
  unlock the screen.

What makes each part correct:

* controller: one transaction at a time; each ends with exactly one terminal
  event, which is delivered and acknowledged; a cancelled one ends cancelled; no
  wake-up is lost; credentials serve only the request or prompt they were typed
  for; shutdown always gets the worker out;
* dialogue: unlock only by the current transaction's success; the user is asked
  exactly what the worker waits for; no state in which everyone waits; the panel
  belongs to the present transaction;
* processes: grabs and window held from the moment locking is reported until
  unlocking; the sleep lock released by all, and by none too early; everything
  given back at the end;
* password buffer: what is submitted is what was typed since the last clear;
* indicator: the screen shows what the states say; what was typed is readable only
  at a prompt that echoes; nothing of a text is dropped without a mark;
* outputs: window, outputs and pixmap follow the server's screen.

## Modules

    AuthSession <-- PamController <-- LockScreen       Startup   KeyInput
    (promise)       (controller)      (the program)    Indicator PanelText
                         ^                 ^            Outputs <-- MCOutputs
                         |                 |
            PamControllerProofs <-- LockScreenProofs

    Startup <-- StartupProofs   Outputs <-- OutputsProofs
    Indicator <-- IndicatorProofs

    KeyInput <-- KeyInputProofs --> SequenceLemmas <-- PanelTextProofs --> PanelText

An arrow points to the module that is extended (AuthSession is instantiated, as
`PamController`'s abstract specification).

### AuthSession

What `pam_controller.h` promises, without worker, queue or pipe: one slot for an
attempt (free, requested, running, cancelling, ended), outcomes on their way to
the caller, an attempt ends once, cancelled if it was cancelled, and its outcome
holds the slot until it is acknowledged. `Cancel` also acknowledges, as the code
does. `PamController!KeepsItsPromise` is the refinement, with `SlotState` and
`OutcomesIn` as the mapping.

### PamController

The controller as a whole, under the most general client its header allows.
`events`, `pipe`, the fields of `ctrl` by name, `pc` and locals of the worker,
and `main`/`snapshot`, where the main thread is in a drain. The granularity is
the mutex: a locked section is one action. `worker_conv_callback` takes the
mutex once for all messages of a call, so while `pc = "conv"` no API call is
enabled (`MutexFree`); `pthread_cond_wait` opens it. Sleeping is explicit
(`asleep`): `Signal` wakes the worker, the wait's loop tests again,
`SpuriousWakeup` may happen at any time. `pam_controller_drain_events` is three
actions, as its three parts are not atomic with each other: read the pipe, take
the queue, handle one event at a time while the worker goes on.

PAM is external: each call returns any result the code distinguishes
(`Results`), and each may converse with any messages before it returns. A
password or an answer is named by the transaction or the prompt it was typed
for, 0 once wiped: that is all the properties tell apart. Texts are left out.
`Init` is the state after a successful `pam_controller_init`.

### LockScreen

`EXTENDS PamController`: the main thread's side replaces the general client.
A libev callback is one action, a drain one action per event. `start_timer`
may find no memory for the timer that ends a failure's report
(`StartAuthWrongTimer`); the program goes on without it. Kept of the buffer:
whether `input_position` is 0; of the panel: the transaction or prompt its text
is from. `ControllerContract` says that `LockSpec` implements `Spec` of
PamController (the controller's variables are the same, so the refinement mapping
is the identity): what is checked and proved for every client holds of this one.

`LoopIdle` asks for `~left_loop`: after `ev_break` libev still invokes what is
pending in that iteration. Check watchers and timers are invoked before the
descriptor watchers, so only the rest of the drain comes after it.

### Startup

Processes and the X server's side of locking. Process 0 is what the user
launched, process 1 the child made at MapNotify, `RaiseChild` the one in
`raise_loop`. `conn_holders` and `lock_holders` are the processes in which the X
connection and the sleep-lock descriptor are open; the server destroys the window
and releases the grabs of a client whose last holder closed (external). The two
loops of `grab_pointer_and_keyboard` share `tries`, which is decremented also by
the turn that ends a loop. Authentication is one step (`Unlock`), as LockScreen
models it. Other X clients hold grabs, cover the window, unmap and map it.
`StaysOnTop` asks of the raise child alone what it can do alone: in the phase
`paused`, after libev has failed, main handles no event any more.

### KeyInput

The password buffer, byte by byte: `handle_key_press` key kind by key kind,
`u8_dec`, the two builds of `clear_password_memory` (`explicit_bzero` up to the
first NUL, or a pattern), the visible echo with its truncation. Of a byte is kept
what `isutf` and `strlen` see of it (`ByteOf`): the pattern `index + beep`
overflows a `char`, so it holds NULs again and runs of bytes that look like
continuation bytes. Keymap and compose state are external: a key yields no text,
a glyph of one to four bytes, or, after a compose sequence, any text that fits
into the 128 bytes of `handle_key_press` (`KeyTexts`). The
dialogue and the controller are reduced to the slot: free, running, ending after
Escape, fatal. That a submitted answer is always accepted is LockScreen's
`AnswerNeverRefused`. History variables: `typed` (the glyphs since the last clear
or submission), `consumed` (why the buffer is out of step, if it is), `submitted`.

The code asks for room for `Reserve` bytes, whatever the text needs. A text that
goes past the end of the array is stored as far as the array goes, the position
says how far it went, and the model ends there (`InArray`): what the program does
next depends on what lies behind the array. TLC reaches such
states, `KeyTypeOK` bounds them, and the other properties are about the states
before them.

### Indicator

The picture on the screen as a copy (`drawn`) of what `draw_image` would draw
now (`Picture`: text in the circle, texts in the panel, highlight). Every handler
of `i3lock.c` is an action again, this time with what it draws and when: some
before their last assignment (`input_done` clears the panel's texts after its
drawing), some not at all. All four timers are there: the two-second one after a
failure, the one-second one that hides the indicator, the three-minute one that
discards the input and the quarter-second one per key. `StartTimers` keeps the
branch without memory, in which there is no timer (`no_memory` remembers it).
The controller is reduced to the events it may send to the transaction on the
screen; that nothing else arrives is LockScreen's business. Colours, fonts and
places are left out, modifier and layout names too: each drawing reads them anew.

### PanelText

One drawing's texts, from `pam_display` to lines: `wrap_next_text_line`,
`append_wrapped_panel_lines` and `append_ellipsis_to_line` for the panel,
`truncate_text_to_width` for the echo in the circle. The loop of
`append_wrapped_panel_lines` is the action; the loops inside are operators that
say which position they find. Measuring (cairo) is external: a character is as
wide as it has bytes, and the prompt's font doubles that. The spaces around a
text have no width (`Extent`): `cairo_text_extents` measures the ink. But
`draw_pam_panel` starts the text, with the spaces before it, at the panel's
padding: `Reach` is where the ink ends then. `from` and
`next` in a line of `layout` remember which part of the text it was made of. The ellipsis
counts as one byte, as no cut goes through it.

### Outputs

The X server changes its screen and CRTCs whenever it likes, also between two
replies, and queues the events that were selected. The program's copies:
`last_resolution`, the window's size, `xr_resolutions`, the pixmap's size.
`randr_query` is RandR 1.5 in one round trip, RandR 1.4 in one plus one for each
output, or Xinerama; each may fail, be without memory or, for a CRTC, without
reply. `missing` remembers what could not be read, or changed before an event for
it was selected: there the program cannot know better, and the properties
exclude it. `MCOutputs` gives the sizes.

### Proof modules

`PamControllerProofs` (with the refinement of AuthSession), `LockScreenProofs`,
`StartupProofs`, `OutputsProofs`, `IndicatorProofs`, `KeyInputProofs` and
`PanelTextProofs`; the last two share `SequenceLemmas`.
See Proofs.

## Runs

| Run | Shows |
|---|---|
| `pam` | the controller's invariants; that it implements AuthSession; that requests, answers, cancellations and shutdown are served |
| `lock` | 190 000 states: lock screen and controller agree, unlocking needs the current success, `ControllerContract`; verification and unlocking end, and so does the failure display if its timer could be had |
| `startup` | what is held and when, through failing grabs and forks; that screen, grabs and sleep lock are given back; that the window stays on top, also by the raise child alone |
| `key_input` | 290 000 states: the buffer holds what the user typed and the echo shows it, whatever is typed, deleted, cleared, refused or asked, up to the end of the buffer |
| `outputs` | after any order of changes and events the window covers the screen and the outputs are the server's |
| `indicator` | the picture is never out of date but for a discarded echo; the echo goes with its prompt; highlights and failure reports go |
| `panel_text` | 450 000 states, every text of up to six characters: shown or marked as cut, broken between words, and within the panel's margin unless indented |
| `empty_password`, `escape_fatal`, `refused_input`, `stale_pixmap`, `prompt_hidden` | one statement of the documentation each, which the code does not keep |

The five disagreements:

1. `empty_password`: with `-e`, Enter on an empty buffer while a failure is shown
   is remembered for a retry, and the retry does not test the option: the empty
   password reaches PAM (`i3lock.1:151`).
2. `escape_fatal`: Escape just before an AUTH_FATAL is drained makes the event
   stale, so `pam_auth_fatal` is never set while the controller's `fatal_error`
   is: the screen looks idle and refuses every attempt in silence (`i3lock.1:62`).
3. `refused_input`: Escape, then a password before PAM has returned: `start_auth`
   refuses, the buffer is wiped, `input_position` is not. What is typed after that
   lies behind a NUL, and Enter submits an empty password (`i3lock.c:566`; `:78`).
4. `stale_pixmap`: `redraw_screen` allocates the pixmap once; `free_bg_pixmap`,
   written to have it renewed after a resize, is never called
   (`unlock_indicator.c:918-926`, `:942`). The window has the new size, its
   background the old one.
5. `prompt_hidden`: BackSpace starts a one-second timer that hides the indicator
   if the input is empty. A prompt that arrives within that second is hidden with
   it, panel and all, while PAM waits (`i3lock.c:323`; `i3lock.1:56`). It is
   shown again with the next key.

Seven things the models show that no document rules out, or that the code accepts:

* `pam_controller_cancel_auth` acknowledges a terminal event that is still
  queued, so the next attempt may start before it is consumed. AuthSession's
  `Cancel` says so; LockScreen's handlers compare transaction numbers first, and
  its properties hold.
* A grab that succeeds with its last try leaves `tries` at 0 and is reported as
  failed (`xcb.c:307`); main then tries again or exits.
* The Xinerama fallback copies as many screens as the query before it had found
  (`randr.c:272`), none the first time: `Garbage` stands for what is not copied.
* `discard_passwd_cb` and a discarded retry do not redraw: the echo of discarded
  input stays on the screen until something else draws (`EchoOfDiscarded`). And a raise child
  that connects after the window is gone waits for ever (the place `deaf`).
* `handle_key_press` asks for eight bytes of room (`i3lock.c:729`) and stores a
  text of up to 127 (`:623`, `:749`). Near the end of `password` a compose text
  is written past it: KeyInput reaches `input_position = Size - 1 + Overshoot`
  with `Overshoot > 0`, and `RoomSuffices` says what the check would have to be.
* Without memory `start_timer` returns no timer, on purpose, as the program must
  not exit. After `auth_failed` nothing resets `auth_state` then, and Enter, which
  in that state is only remembered for the timer (`:648`), never validates
  again: `WrongEnds` and `FeedbackFades` except it.
* The width of a line is measured without the spaces at its head, and it is drawn
  with them (`unlock_indicator.c:559`): a paragraph indented by more than the
  panel's padding ends beyond its edge. `LinesFit` says where lines end that are
  not indented, and of those that are only how wide they are.

### Bounds

| Constant | Code | Runs | Why it is enough |
|---|---|---|---|
| `MaxEvents` | 16 | 2 | at 2 the queue fills up, so every branch of the eviction is taken; the code's branches do not depend on the number |
| `PipeCapacity` | 64 KiB | 1 | the write to a full pipe fails, which is the case of interest |
| `MaxMessages` | 32 | 2 | a call with a message after an answered one |
| `MaxTransactions` | 2^64 | 2 | a transaction and its successor, which overlaps with what is left of the first |
| `MaxPrompts` | 2^64 | 2 | two prompts of one transaction, or one of each; a prompt beyond the bound is not posted |
| `FirstTries`, `SecondTries` | 1000, 9000 | 2, 3 | one failure and one success of each loop, in either order |
| `Size`, `VisibleSize` | 512, 256 | 5, 3 | the end of the buffer and of the echo are reached, with glyphs of one to four bytes, and the echo's limit can fall into a glyph |
| `Reserve`, `MaxKeyText` | 8, 127 | 2, 4 | a text as long as the room asked for, shorter and longer ones, alone and after others |
| `CharSize` | 256 | 4 | the pattern has its run of continuation bytes and starts again inside the buffer |
| `MaxMaps` | none | 2 | MapNotify again after everything was started |
| `MaxChanges` | none | 2 | a change while the one before is being handled |
| `Sizes`, `Crtcs`, `Rects` | any | 3, 2, 2 | one size or both change; outputs appear, disappear and move between two round trips |
| `MaxLines`, `StatusMaxLines`, `PromptMaxLines` | 5, 3, 2 | 5, 3, 2 | the code's own |
| `MaxText`, `Widths` | 511, any | 6, {1, 3} | both sections and the panel overflow; a word is wider than a line, fits exactly, or fits with others |

`Indicator` has no bound: numbers are kept as zero or not. All safety properties
of the modules and the refinements are proved for every value of the
constants, so for them the bounds matter only to the runs. `MaxTransactions` and `MaxPrompts` appear in guards only (`Transactions`,
`Prompts`; LockScreen's `AttemptsLeft` and `PromptsLeft` make the lock screen
stop asking at the bound, so that the liveness properties do not end in a request
that only the bound refuses). `panel_text` does not check for deadlock, because
a drawing ends.

### Fairness

* `WF(WorkerStep)`: the worker thread is scheduled whenever it is not blocked.
* `SF` of each PAM call's return: a module may converse any number of times
  before it returns, but returns in the end. Without this nothing the program
  does can end a verification; a module that hangs is PAM's failure.
* `WF(Drain)`, `WF(Join)`: libev reports a readable pipe, `pthread_join` returns.
* `WF` of each timer in LockScreen and Indicator: a timer that is not set again
  for ever fires, if there was memory for it. `FeedbackFades` has as its hypothesis that the user stops
  typing, as each key sets timers again.
* None for the user, for spurious wake-ups, nor for other X clients.
* Startup: each process is scheduled, and each kind of X event is served
  separately, because the X queue is first in, first out.

## Proofs

All theorems are for every value of the constants. The only assumptions are the
modules' own: the capacities and bounds are naturals, positive where
the code's are; the room asked for and the longest text of a key are less than the
password buffer (in the code 8 and 127 of 512); and the lines of the status and of the prompt fit into the panel together
(`StatusMaxLines + PromptMaxLines <= MaxLines`, in the code 3 + 2 <= 5,
`unlock_indicator.c:38-40`).

**PamControllerProofs**: `TypeCorrect`, `SlotIsSafe`, `TerminalIsDelivered`,
`NoLostWakeup`, `CredentialsAreScoped`, `WaitsForReal` (`Spec => []P`),
`CancellationWins`, and `Inductive`, from which they follow. None of
the invariants is inductive alone: that the slot holds one transaction
depends on who may clear which flag where. `IndInv` adds `PlacesAgree` (which
data belong to which place of each thread: a conversation frame, a snapshot, a
blocked worker) and `SlotAgrees` (which of the slot's flags can be set at which
place of the worker, and that `terminal_ack_pending` names the transaction just
ended). The step is proved action by action. The queue needs lemmas of its
own: an `Enqueue` that evicts keeps every terminal event that is still awaited,
never grows the queue beyond its capacity, and puts the new event last.

The second half proves `EventsAreInOrder` and `KeepsPromise`. The queue that drops
events is seen through `Thinned`: what is left of a sequence when some
elements go; thinning keeps order. `Order` makes `EventsInOrder` inductive: every
undelivered event is no newer than the active transaction, a terminal one older
while that transaction is live, a prompt older than the next prompt number. The
refinement is one lemma per action: a locked section maps to one step of
AuthSession or to a stutter.

**LockScreenProofs**: main thread and controller together.

* `LockKeepsContract`: every step of the lock screen is a step a client may take.
  It needs no invariant, and brings all theorems above to the program,
  the refinement of AuthSession among them (`LockIsPromised`).
* `AnswersAreAccepted`, `DialogueIsControllers`, `PromptsReachUser`,
  `PanelStaysCurrent` (invariants) and `OnlySuccessUnlocks` (a step property)
  follow from `LockInductive`. Its invariant `LockInv` is the conjunction of
  `Life` (before the controller starts and after the loop is left there is no
  dialogue), `Agreed` (the screen's transaction is the controller's, and not
  cancelled), `Shown` (`auth_state`, timer and dialogue agree), `Asked` (the prompt
  on the screen or on its way is the one the worker waits at, and unanswered),
  `OnItsWay` (a prompt the worker waits at has not been evicted) and
  `PanelIsCurrent`. `Asked` and `OnItsWay` are each other's converse; each is needed: without
  the one an answer could be refused, without the other everyone could
  wait. `Facts` are what this needs to know of the controller beyond `IndInv` and
  `Order`, such as that a success on its way for the active transaction is the
  one PAM has just returned. `LockInv` and `Facts` hold of all
  states TLC reaches in the configuration of `lock`.

**StartupProofs**: `StaysLocked`, `LaunchIsLocked`, `SleepLockIsHeld` and
`ControllerIsInRunner`, from `StartupInductive`. `Lineage` says which process
runs the main line and that it holds the connection as long as it runs, and,
before the loop, the sleep lock; that the process changes only at the one fork,
before the controller starts. `Held` is what the shared count of tries means:
one that is not negative after a loop says that this loop's grab succeeded, and
so did the one before. Without it nothing follows from
`grab_pointer_and_keyboard` returning true.

**OutputsProofs**: `RestCoversRoot` and `RestKnowsOutputs`, from
`OutputsInductive`. Both say something only of a program at rest; the invariant
says it of every other place. `SizeComes`: a size the program does not know is
announced by a queued event or about to be asked for. `OutputsCome`: either the
queue holds a RandR event, or the outputs asked about and those still to be
asked about are together what the server has. `OrderIsComplete` shows that the
server's events arrive whatever their order.

**KeyInputProofs**: `StaysInside` (`KeyTypeOK`) and `ConsumedIsReset`, from
`KeyInductive`. `u8_dec` walks back over continuation bytes, at most four, and has
no test for the start of the buffer; what keeps it inside is `WellStarted`: the
byte at position 0 is a NUL or starts a glyph, whatever was stored, cut or wiped,
with either pattern, so the search stops there at the latest. Nothing is
assumed of the length of a text; `StaysInside` says how far past the end it can
lead, and `RoomSuffices` that it leads nowhere past it if the room asked for is
that of the longest text (`MaxKeyText <= Reserve`, which is not so in the code).

`BufferIsWhatWasTyped` and `EchoIsWhatWasTyped` follow from `HeldInductive`. Its
invariant says more than the two: the bytes before the position are the glyphs of
`typed` one after the other and a NUL follows (`Holds`) whenever nothing has put
them out of step, also while no input is due; and the echo is as many of
the first glyphs as its array takes. `HoldsStored` and `HoldsDeleted` are the two
steps that change the buffer in the middle; for deleting, `DecIsGlyphStart` says
that `u8_dec` stops where the last glyph begins, and the last glyph of `typed` is
the one that goes.

**PanelTextProofs**: `NoTextDisappears`, `NothingIsTooWide` and
`WordsAreSplitLast` (`TextIsKept`, `LinesFit`, `WordsStayWhole`), for texts of any
length. Two arguments meet here.

* One line (`WrappedLine`): from a whole character, `wrap_next_text_line` ends
  behind it and before another whole character (so the loop goes on), it takes what
  fits or one character, leaves out only blanks, and breaks a word only if the word
  does not fit alone (`SplitWordIsWide`: the part of the line that does not fit is
  one blank at most and a part of the word).
  Of a line without spaces at its head the width is also where it ends
  (`ReachOfUnindented`), so `NothingIsTooWide` says that it ends before the
  panel's margin; of an indented one only its width is bounded.
* The drawing (`PanelInductive`): what the lines of a section say is what its
  text says before the offset (`SaidSoFar`), and the panel has room for all the
  lines a section may still take (`Room`). Without `Room` the prompt could find the
  panel full, and then the code appends nothing, not even a mark; it is what the
  assumption about the lines is for. At the end of a section the text is said
  completely, or `WithEllipsis` has left a part of the last line and the mark.

`PanelInv` holds of all states TLC reaches in the configuration of `panel_text`
with texts of up to five characters.

**IndicatorProofs**: `PictureIsUpToDate` and `EchoEndsWithPrompt`, from
`ScreenInductive`. That the picture is right is not inductive alone: `input_done`
clears the panel's texts after its drawing, which is right only because no text is
left where it starts an attempt. `Dialogue` ties `auth_state`, transaction,
prompt and the two-second timer together, and `Texts` says which of them a text in
the panel belongs to. A handler then either draws (`Redrawn`,
`Highlighted`) or leaves alone what shows but for input it discards (`NotDrawn`).

**SequenceLemmas**: what `FlattenSeq` makes of sequences of any length: of a
longer one (`FlattenAppend`), of two (`FlattenConcat`), of a part
(`FlattenPrefix`). The library's induction theorems cannot be instantiated by the
installed provers, so these lemmas look at the least length for which
the claim would fail (`LeastNumber`, `UpTo`).

Only model-checked: the five disagreements, and all liveness, which is out of the
prover's reach as is `ENABLED`.

## Not modelled

* `pam_controller_init` step by step: it runs before the worker exists, and
  nothing reads `ctrl` until it has succeeded; that it fails is modelled.
* Focus, cursor, visuals, pixmap formats (`xcb.c`): X requests that keep no state
  between two calls. `dpi.c`: one resource parsed into one number.
* Colours, fonts, scaling and coordinates of the drawing.
* Keymap and compose state: xkbcommon's, opaque to the program. A compose text of
  more than the 127 bytes `buffer` has room for is left out: the length xkbcommon
  reports is then not that of what it wrote.
* Images and options: read before the screen is locked, by one actor. The options
  that matter are constants or choices of the initial state.
* The OpenBSD build, which has no controller.
* Wrap-around of 64-bit transaction numbers, which no run of the program reaches.

------------------------------- MODULE Startup -------------------------------
(***************************************************************************)
(* The processes of i3lock (i3lock.c: main, the MapNotify case of          *)
(* xcb_check_cb, raise_loop; xcb.c: grab_pointer_and_keyboard): how the    *)
(* screen is grabbed, which process forks when, who holds the X connection *)
(* and the descriptor of `xss-lock --transfer-sleep-lock', and how all of  *)
(* it is given back at the end.                                            *)
(*                                                                         *)
(* The main line of execution starts in process 0 and goes on in a child   *)
(* of it after the fork at MapNotify; RaiseChild is the one that runs       *)
(* raise_loop.  The X server is external: it destroys the window and       *)
(* releases the grabs of a client when no process holds its connection.    *)
(***************************************************************************)
EXTENDS Integers, FiniteSets

CONSTANTS
    FirstTries, SecondTries,  \* tries of the two grabs: 1000 and 9000
    MaxMaps                   \* bound: MapNotify events of a behaviour

ASSUME StartupAssumption ==
    FirstTries \in Nat \ {0} /\ SecondTries \in Nat \ {0} /\ MaxMaps \in Nat \ {0}

RaiseChild == -1
NoProcess  == -2

VARIABLES
    phase, runner,       \* where the main line is, and the process it runs in
    attempt, tries,      \* the arguments of grab_pointer_and_keyboard
    dont_fork,
    controller,          \* the process the PAM worker lives in, if any
    launched,            \* process 0: "running", "exiting", "ok" or "failed"
    raise,               \* where the raise child is
    conn_holders,        \* the processes with the X connection open
    lock_holders,        \* the processes with XSS_SLEEP_LOCK_FD open
    \* the X server: who holds the grabs, the window, what it has queued
    pointer, keyboard, window, obscured, maps, map_pending, main_told, raise_told

line    == <<phase, runner>>
grab    == <<attempt, tries>>
forks   == <<dont_fork, controller, launched>>
holders == <<conn_holders, lock_holders>>
grabs   == <<pointer, keyboard>>
events  == <<maps, map_pending, main_told, raise_told>>
vars    == <<line, grab, forks, raise, holders, grabs, window, obscured, events>>

\* main has opened its window, which the server has mapped.
Init ==
    /\ phase = "grab_pointer" /\ runner = 0
    /\ attempt = 1 /\ tries = FirstTries
    /\ dont_fork \in BOOLEAN       \* option -n
    /\ controller = NoProcess /\ launched = "running"
    /\ raise = "none"
    /\ conn_holders = {0} /\ lock_holders = {0}
    /\ pointer \in {"free", "other"} /\ keyboard \in {"free", "other"}
    /\ window = "mapped" /\ obscured = FALSE
    /\ maps = 1 /\ map_pending = TRUE /\ main_told = FALSE /\ raise_told = FALSE

-----------------------------------------------------------------------------
(* Processes and the X server *)

\* A child whose connection has selected the window's events is told.
TellRaise == raise' = IF raise = "watching" THEN "dismissed" ELSE raise

ServerDestroys ==
    /\ window' = "destroyed"
    /\ pointer' = IF pointer = "i3lock" THEN "free" ELSE pointer
    /\ keyboard' = IF keyboard = "i3lock" THEN "free" ELSE keyboard

\* Mutant: it disconnects the shared connection instead of closing its copy.
DisconnectsShared(p) ==
    /\ conn_holders' = conn_holders \ {p}
    /\ ServerDestroys

\* Process p closes its descriptor of the X connection.
ClosesConnection(p) ==
    /\ conn_holders' = conn_holders \ {p}
    /\ \/ conn_holders' = {} /\ ServerDestroys
       \/ conn_holders' # {} /\ UNCHANGED <<window, grabs>>

\* Process p of the main line exits: the kernel closes what it has open.
LineExits(p) ==
    /\ ClosesConnection(p)
    /\ lock_holders' = lock_holders \ {p}
    /\ \/ conn_holders' = {} /\ window = "mapped" /\ TellRaise
       \/ ~(conn_holders' = {} /\ window = "mapped") /\ UNCHANGED raise

\* The main line ends; when it still runs in the process that was launched,
\* that is what the caller of i3lock sees.
MainExits(status) ==
    /\ LineExits(runner)
    /\ phase' = "exited"
    /\ launched' = IF runner = 0 THEN status ELSE launched
    /\ UNCHANGED runner

-----------------------------------------------------------------------------
(* grab_pointer_and_keyboard *)

GrabFrame == UNCHANGED <<runner, attempt, forks, raise, holders, window,
                         obscured, events>>

\* One turn of a loop `while (tries-- > 0)': the turn that finds no tries
\* left decrements too.
TryPointer ==
    /\ phase = "grab_pointer"
    /\ tries' = tries - 1
    /\ \/ tries > 0 /\ pointer # "other"
          /\ pointer' = "i3lock" /\ phase' = "grab_keyboard"
       \/ tries > 0 /\ pointer = "other"
          /\ UNCHANGED <<pointer, phase>>
       \/ tries <= 0 /\ phase' = "grab_keyboard" /\ UNCHANGED pointer
    /\ UNCHANGED keyboard
    /\ GrabFrame

TryKeyboard ==
    /\ phase = "grab_keyboard"
    /\ tries' = tries - 1
    /\ \/ tries > 0 /\ keyboard # "other"
          /\ keyboard' = "i3lock" /\ phase' = "grab_done"
       \/ tries > 0 /\ keyboard = "other"
          /\ UNCHANGED <<keyboard, phase>>
       \/ tries <= 0 /\ phase' = "grab_done" /\ UNCHANGED keyboard
    /\ UNCHANGED pointer
    /\ GrabFrame

\* Mutant: any number but 0 counts as tries left.
GrabSucceededNonZero == tries # 0

\* the value grab_pointer_and_keyboard returns
GrabSucceeded == tries > 0

\* main: a second grab with more tries, after stealing the focus; then exit
GrabReturns ==
    /\ phase = "grab_done"
    /\ \/ /\ GrabSucceeded
          /\ phase' = "fork_raise"
          /\ UNCHANGED <<runner, grab, launched, raise, holders, grabs, window>>
       \/ /\ ~GrabSucceeded /\ attempt = 1
          /\ phase' = "grab_pointer" /\ attempt' = 2 /\ tries' = SecondTries
          /\ UNCHANGED <<runner, launched, raise, holders, grabs, window>>
       \/ /\ ~GrabSucceeded /\ attempt = 2
          /\ MainExits("failed")
          /\ UNCHANGED grab
    /\ UNCHANGED <<dont_fork, controller, obscured, events>>

-----------------------------------------------------------------------------
(* main: the raise child and the event loop *)

\* Mutant: the descriptor is closed before the event loop, not at MapNotify.
ForkRaiseClosesLock ==
    /\ phase = "fork_raise"
    /\ phase' = "start_loop"
    /\ raise' = "started"
    /\ conn_holders' = conn_holders \cup {RaiseChild}
    /\ lock_holders' = {}
    /\ UNCHANGED <<runner, grab, forks, grabs, window, obscured, events>>

\* A fork that fails is ignored: the child is not critical.
ForkRaise ==
    /\ phase = "fork_raise"
    /\ phase' = "start_loop"
    /\ \/ /\ raise' = "started"
          /\ conn_holders' = conn_holders \cup {RaiseChild}
          /\ lock_holders' = lock_holders \cup {RaiseChild}
       \/ UNCHANGED <<raise, holders>>
    /\ UNCHANGED <<runner, grab, forks, grabs, window, obscured, events>>

\* libev may not start, the watchers may not be allocated.
StartLoop ==
    /\ phase = "start_loop"
    /\ \/ /\ phase' \in {"loop", "paused"}
          /\ UNCHANGED <<runner, launched, raise, holders, grabs, window>>
       \/ MainExits("failed")
    /\ UNCHANGED <<grab, dont_fork, controller, obscured, events>>

\* Mutant: the flag that keeps the main line from forking again is not set.
ForksAgain ==
    \/ /\ ~dont_fork
       /\ runner' = runner + 1
       /\ launched' = IF runner = 0 THEN "exiting" ELSE launched
       /\ conn_holders' = conn_holders \cup {runner + 1}
       /\ UNCHANGED dont_fork
    \/ UNCHANGED <<runner, launched, conn_holders, dont_fork>>

\* The main line goes on in a child; the parent is about to exit.
Daemonizes ==
    /\ dont_fork' = TRUE
    /\ \/ /\ ~dont_fork
          /\ runner' = runner + 1
          /\ launched' = "exiting"
          /\ conn_holders' = conn_holders \cup {runner + 1}
       \/ UNCHANGED <<runner, launched, conn_holders>>

StartsController ==
    \/ controller = NoProcess /\ controller' = runner'
    \/ UNCHANGED controller    \* it runs already, or it cannot be started

HandleMapNotify ==
    /\ phase = "loop"
    /\ map_pending
    /\ map_pending' = FALSE
    /\ lock_holders' = lock_holders \ {runner}
    /\ Daemonizes
    /\ StartsController
    /\ UNCHANGED <<phase, grab, raise, grabs, window, obscured, maps, main_told,
                   raise_told>>

ParentExits ==
    /\ launched = "exiting"
    /\ launched' = "ok"
    /\ LineExits(0)
    /\ UNCHANGED <<line, grab, dont_fork, controller, obscured, events>>

\* handle_visibility_notify
RaisesWindow == obscured' = FALSE

HandleVisibility ==
    /\ phase = "loop"
    /\ main_told
    /\ main_told' = FALSE
    /\ RaisesWindow
    /\ UNCHANGED <<line, grab, forks, raise, holders, grabs, window, maps,
                   map_pending, raise_told>>

\* The success of an authentication breaks the loop: see LockScreen.
Unlock ==
    /\ phase = "loop"
    /\ controller # NoProcess
    /\ phase' = "unlocked"
    /\ UNCHANGED <<runner, grab, forks, raise, holders, grabs, window, obscured,
                   events>>

\* If a window had the focus: ungrab, destroy the window, restore the focus.
RestoreFocus ==
    /\ phase = "unlocked"
    /\ phase' = "restored"
    /\ ServerDestroys
    /\ TellRaise
    /\ UNCHANGED <<runner, grab, forks, holders, obscured, events>>

LeaveMain ==
    /\ phase \in {"unlocked", "restored"}
    /\ MainExits("ok")
    /\ UNCHANGED <<grab, dont_fork, controller, obscured, events>>

-----------------------------------------------------------------------------
(* raise_loop *)

\* Mutant: the child keeps the X connection it inherited.
RaiseKeepsConnection ==
    /\ raise = "started"
    /\ raise' = "connecting"
    /\ lock_holders' = lock_holders \ {RaiseChild}
    /\ UNCHANGED <<line, grab, forks, conn_holders, grabs, window, obscured,
                   events>>

\* Mutant: the child keeps the descriptor of the sleep lock.
RaiseKeepsLock ==
    /\ raise = "started"
    /\ raise' = "connecting"
    /\ ClosesConnection(RaiseChild)
    /\ UNCHANGED <<line, grab, forks, lock_holders, obscured, events>>

RaiseStarts ==
    /\ raise = "started"
    /\ raise' = "connecting"
    /\ ClosesConnection(RaiseChild)
    /\ lock_holders' = lock_holders \ {RaiseChild}
    /\ UNCHANGED <<line, grab, forks, obscured, events>>

\* The child's own connection, which may fail, selects the window's events.
\* On a window that is gone that is an error, which the loop skips.
RaiseWatches ==
    /\ raise = "connecting"
    /\ \/ raise' = "gone"
       \/ window = "mapped" /\ raise' = "watching"
       \/ window = "destroyed" /\ raise' = "deaf"
    /\ UNCHANGED <<line, grab, forks, holders, grabs, window, obscured, events>>

\* Mutant: the child passes over the event and leaves it to main.
RaisePassesOver ==
    /\ raise \in {"watching", "dismissed"}
    /\ raise_told
    /\ raise_told' = FALSE
    /\ UNCHANGED <<line, grab, forks, raise, holders, grabs, window, obscured,
                   maps, map_pending, main_told>>

RaiseHandlesVisibility ==
    /\ raise \in {"watching", "dismissed"}
    /\ raise_told
    /\ raise_told' = FALSE
    /\ RaisesWindow
    /\ UNCHANGED <<line, grab, forks, raise, holders, grabs, window, maps,
                   map_pending, main_told>>

\* UnmapNotify or DestroyNotify of the window
RaiseEnds ==
    /\ raise = "dismissed"
    /\ ~raise_told
    /\ raise' = "gone"
    /\ UNCHANGED <<line, grab, forks, holders, grabs, window, obscured, events>>

-----------------------------------------------------------------------------
(* Other X clients: they hold grabs for a while, cover the window, and may  *)
(* unmap it and map it again.  Nothing changes hands while i3lock grabs.    *)

Released(owner) == IF owner = "other" THEN "free" ELSE owner

OthersRelease ==
    /\ pointer' \in {pointer, Released(pointer)}
    /\ keyboard' \in {keyboard, Released(keyboard)}
    /\ grabs' # grabs
    /\ UNCHANGED <<line, grab, forks, raise, holders, window, obscured, events>>

OthersGrab ==
    /\ \/ pointer = "free" /\ pointer' = "other" /\ UNCHANGED keyboard
       \/ keyboard = "free" /\ keyboard' = "other" /\ UNCHANGED pointer
    /\ phase \in {"grab_pointer", "grab_keyboard"}
    /\ UNCHANGED <<line, grab, forks, raise, holders, window, obscured, events>>

OthersCover ==
    /\ window = "mapped"
    /\ ~obscured
    /\ obscured' = TRUE
    /\ main_told' = TRUE
    /\ raise_told' = (raise_told \/ raise = "watching")
    /\ UNCHANGED <<line, grab, forks, raise, holders, grabs, window, maps,
                   map_pending>>

OthersRemap ==
    /\ phase = "loop"
    /\ maps < MaxMaps
    /\ maps' = maps + 1
    /\ map_pending' = TRUE
    /\ TellRaise
    /\ UNCHANGED <<line, grab, forks, holders, grabs, window, obscured,
                   main_told, raise_told>>

Others == OthersRelease \/ OthersGrab \/ OthersCover \/ OthersRemap

\* The main line has ended or waits for good, and so has every other process.
Finished ==
    /\ phase \in {"exited", "paused"}
    /\ launched # "exiting"
    /\ raise \in {"none", "watching", "deaf", "gone"}
    /\ UNCHANGED vars

Main ==
    \/ TryPointer \/ TryKeyboard \/ GrabReturns \/ ForkRaise \/ StartLoop
    \/ RestoreFocus \/ LeaveMain

Raise == RaiseStarts \/ RaiseWatches \/ RaiseHandlesVisibility \/ RaiseEnds

Next ==
    \/ Main \/ HandleMapNotify \/ HandleVisibility \/ Unlock
    \/ ParentExits \/ Raise \/ Others \/ Finished

Spec == Init /\ [][Next]_vars

\* The kernel schedules every process; xcb_check_cb handles every queued event
\* in the order of the queue, so each kind is fair on its own; raise_loop blocks
\* in nothing but xcb_wait_for_event.
Fairness ==
    /\ WF_vars(Main) /\ WF_vars(HandleMapNotify) /\ WF_vars(HandleVisibility)
    /\ WF_vars(ParentExits) /\ WF_vars(Raise)

FairSpec == Spec /\ Fairness
-----------------------------------------------------------------------------
(* Properties *)

ScreenLocked == pointer = "i3lock" /\ keyboard = "i3lock" /\ window = "mapped"

\* From the moment the grab is reported until the user is let in, also while
\* libev is missing and main only pauses, i3lock holds both grabs and has its
\* window on the screen, whichever of its processes have exited (main,
\* xcb_check_cb, raise_loop).
LockedWhileRunning ==
    phase \in {"fork_raise", "start_loop", "loop", "paused"} => ScreenLocked

\* `i3lock && suspend' suspends a locked screen: the process that was launched
\* returns success while the main line holds the screen, or after the user
\* unlocked it (i3lock.c: exit(0) of the parent in xcb_check_cb; i3lock.1:68).
LaunchReturnsLocked ==
    launched = "ok" => ScreenLocked \/ phase \in {"unlocked", "restored", "exited"}

\* No process lets go of the sleep lock of xss-lock for the last time before
\* the window is mapped and the grabs are held, unless locking failed
\* (maybe_close_sleep_lock_fd and its two callers).
SleepLockHeldUntilLocked ==
    lock_holders = {} =>
        \/ phase = "loop" /\ ScreenLocked
        \/ phase \in {"unlocked", "restored", "exited"}

\* The PAM worker is a thread, so it lives in one process: the one that goes on
\* to run the event loop, after every fork (xcb_check_cb: the fork comes before
\* pam_controller_init, and happens once).
ControllerInRunner == controller # NoProcess => controller = runner

\* A broken loop gives the screen back, when focus was stolen and when not:
\* no process keeps the window or a grab alive (end of main, raise_loop).
UnlockReleasesScreen ==
    phase = "unlocked" ~> ~(pointer = "i3lock" \/ keyboard = "i3lock"
                              \/ window = "mapped")

\* Once the loop runs, every process gives up the sleep lock, so that the
\* machine may suspend (maybe_close_sleep_lock_fd).
SleepLockReleased == phase = "loop" ~> lock_holders = {}

\* i3lock.c, at raise_loop: the child raises the window "even when the main
\* i3lock process is blocked".  A window that covers the lock screen before the
\* child's eyes is covered again, also while main only pauses and handles
\* nothing; and one the child did not see, while the loop runs
\* (handle_visibility_notify, raise_loop).
StaysOnTop ==
    /\ raise_told /\ obscured ~> ~obscured \/ window # "mapped"
    /\ phase = "loop" /\ obscured ~> ~obscured \/ phase # "loop"
=============================================================================

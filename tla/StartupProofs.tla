---------------------------- MODULE StartupProofs ----------------------------
(***************************************************************************)
(* Proofs about Startup: for every number of tries and of MapNotify events *)
(* the screen is held as long as it has to be, no process lets go of the   *)
(* sleep lock too early, and the PAM worker lives where the loop runs.     *)
(***************************************************************************)
EXTENDS Startup, TLAPS

Early == {"grab_pointer", "grab_keyboard", "grab_done", "fork_raise",
          "start_loop", "paused"}

Phases == Early \cup {"loop", "unlocked", "restored", "exited"}

\* What the processes are: the main line runs in a process that is alive, and
\* in a child of the first one only after the fork that happens once.
Lineage ==
    /\ phase \in Phases
    /\ runner \in {0, 1}
    /\ phase # "exited" => runner \in conn_holders
    /\ phase \in Early => runner = 0 /\ runner \in lock_holders
    /\ ~dont_fork => runner = 0 /\ controller = NoProcess
    /\ controller # NoProcess => controller = runner
    /\ launched = "exiting" => runner = 1
    /\ launched = "ok" => runner = 1 \/ phase = "exited"

\* How the grabs get hold of the screen: tries that are left, or were used up
\* by the grab that succeeded last, mean that both loops so far have succeeded.
Held ==
    /\ tries \in Int
    /\ phase = "grab_keyboard" /\ tries >= 0 => pointer = "i3lock"
    /\ phase = "grab_done" /\ tries >= 0 =>
          pointer = "i3lock" /\ keyboard = "i3lock"
    /\ phase \in {"fork_raise", "start_loop", "paused", "loop"} =>
          pointer = "i3lock" /\ keyboard = "i3lock"
    /\ phase \notin {"restored", "exited"} => window = "mapped"

StartupInv == Lineage /\ Held

USE DEF line, grab, forks, holders, grabs, events, vars

-----------------------------------------------------------------------------
(* Steps that several actions share *)

\* The server keeps what it has as long as the main line holds a connection.
LEMMA ConnectionIsKept ==
    ASSUME NEW p, ClosesConnection(p), runner \in conn_holders, runner # p
    PROVE  UNCHANGED <<window, grabs>> /\ runner \in conn_holders'
BY DEF ClosesConnection

\* The end of the main line leaves nothing to be said of the screen.
LEMMA MainExitsStep ==
    ASSUME StartupInv, NEW status, MainExits(status),
           UNCHANGED <<dont_fork, controller>>, tries' \in Int,
           launched # "exiting" \/ runner # 0, status # "exiting"
    PROVE  StartupInv'
<1>1. /\ phase' = "exited" /\ runner' = runner
      /\ launched' = IF runner = 0 THEN status ELSE launched
  BY DEF MainExits
<1>2. Lineage'
  BY <1>1 DEF StartupInv, Lineage, Phases, Early
<1>3. Held'
  BY <1>1 DEF Held
<1> QED BY <1>2, <1>3 DEF StartupInv

\* What neither moves the main line nor touches what it holds keeps both.
LEMMA AsideStep ==
    ASSUME StartupInv, UNCHANGED <<line, grab, forks, window>>,
           phase # "exited" => runner \in conn_holders',
           phase \in Early => runner \in lock_holders',
           pointer = "i3lock" => pointer' = "i3lock",
           keyboard = "i3lock" => keyboard' = "i3lock"
    PROVE  StartupInv'
<1>1. Lineage'
  BY DEF StartupInv, Lineage
<1>2. Held'
  BY DEF StartupInv, Held
<1> QED BY <1>1, <1>2 DEF StartupInv

-----------------------------------------------------------------------------
(* The invariant is inductive *)

LEMMA InitHolds == Init => StartupInv
BY StartupAssumption
   DEF Init, StartupInv, Lineage, Held, Phases, Early, NoProcess

LEMMA GrabSteps ==
    ASSUME StartupInv, TryPointer \/ TryKeyboard
    PROVE  StartupInv'
<1>1. CASE TryPointer
  <2>1. /\ phase = "grab_pointer" /\ phase' \in {"grab_pointer", "grab_keyboard"}
        /\ tries' = tries - 1 /\ tries \in Int
        /\ phase' = "grab_keyboard" => tries <= 0 \/ pointer' = "i3lock"
    BY <1>1 DEF TryPointer, StartupInv, Held
  <2>2. Lineage'
    BY <1>1, <2>1 DEF StartupInv, Lineage, Phases, Early, TryPointer, GrabFrame
  <2>3. Held'
    BY <1>1, <2>1 DEF StartupInv, Held, TryPointer, GrabFrame
  <2> QED BY <2>2, <2>3 DEF StartupInv
<1>2. CASE TryKeyboard
  <2>1. /\ phase = "grab_keyboard" /\ phase' \in {"grab_keyboard", "grab_done"}
        /\ tries' = tries - 1 /\ tries \in Int /\ pointer' = pointer
        /\ phase' = "grab_done" => tries <= 0 \/ keyboard' = "i3lock"
    BY <1>2 DEF TryKeyboard, StartupInv, Held
  <2>2. Lineage'
    BY <1>2, <2>1 DEF StartupInv, Lineage, Phases, Early, TryKeyboard, GrabFrame
  <2>3. Held'
    BY <1>2, <2>1 DEF StartupInv, Held, TryKeyboard, GrabFrame
  <2> QED BY <2>2, <2>3 DEF StartupInv
<1> QED BY <1>1, <1>2

\* A grab that returns true has both devices.
LEMMA GrabReturnsStep ==
    ASSUME StartupInv, GrabReturns
    PROVE  StartupInv'
<1>1. phase = "grab_done" /\ runner = 0 /\ launched # "exiting"
  BY DEF GrabReturns, StartupInv, Lineage, Early
<1>2. CASE GrabSucceeded /\ phase' = "fork_raise" /\ UNCHANGED <<runner, grab, launched, raise, holders, grabs, window>>
  <2>1. Lineage'
    BY <1>1, <1>2 DEF GrabReturns, StartupInv, Lineage, Phases, Early
  <2>2. Held'
    BY <1>1, <1>2 DEF GrabSucceeded, StartupInv, Held
  <2> QED BY <2>1, <2>2 DEF StartupInv
<1>3. CASE /\ phase' = "grab_pointer" /\ tries' = SecondTries
           /\ UNCHANGED <<runner, launched, raise, holders, grabs, window>>
  <2>1. Lineage'
    BY <1>1, <1>3 DEF GrabReturns, StartupInv, Lineage, Phases, Early
  <2>2. Held'
    BY <1>1, <1>3, StartupAssumption DEF StartupInv, Held
  <2> QED BY <2>1, <2>2 DEF StartupInv
<1>4. CASE MainExits("failed") /\ UNCHANGED grab
  <2>1. tries' \in Int
    BY <1>4 DEF StartupInv, Held
  <2> QED BY <1>1, <1>4, <2>1, MainExitsStep DEF GrabReturns
<1> QED BY <1>2, <1>3, <1>4 DEF GrabReturns

LEMMA ForkRaiseStep ==
    ASSUME StartupInv, ForkRaise
    PROVE  StartupInv'
<1>1. Lineage'
  BY DEF ForkRaise, StartupInv, Lineage, Phases, Early
<1>2. Held'
  BY DEF ForkRaise, StartupInv, Held
<1> QED BY <1>1, <1>2 DEF StartupInv

LEMMA StartLoopStep ==
    ASSUME StartupInv, StartLoop
    PROVE  StartupInv'
<1>1. phase = "start_loop" /\ runner = 0 /\ launched # "exiting"
  BY DEF StartLoop, StartupInv, Lineage, Early
<1>2. CASE MainExits("failed")
  <2>1. tries' \in Int
    BY DEF StartLoop, StartupInv, Held
  <2> QED BY <1>1, <1>2, <2>1, MainExitsStep DEF StartLoop
<1>3. CASE /\ phase' \in {"loop", "paused"}
           /\ UNCHANGED <<runner, launched, raise, holders, grabs, window>>
  <2>1. Lineage'
    BY <1>1, <1>3 DEF StartLoop, StartupInv, Lineage, Phases, Early
  <2>2. Held'
    BY <1>1, <1>3 DEF StartLoop, StartupInv, Held
  <2> QED BY <2>1, <2>2 DEF StartupInv
<1> QED BY <1>2, <1>3 DEF StartLoop

\* The fork happens once, and before the controller is started.
LEMMA MapNotifyStep ==
    ASSUME StartupInv, HandleMapNotify
    PROVE  StartupInv'
<1>1. /\ phase = "loop" /\ phase' = "loop" /\ dont_fork' = TRUE
      /\ UNCHANGED <<tries, grabs, window>>
  BY DEF HandleMapNotify, Daemonizes
<1>2. Held'
  BY <1>1 DEF StartupInv, Held
<1>3. CASE /\ ~dont_fork /\ runner' = runner + 1 /\ launched' = "exiting"
           /\ conn_holders' = conn_holders \cup {runner + 1}
  <2>1. runner = 0 /\ runner' = 1 /\ controller = NoProcess
    BY <1>3 DEF StartupInv, Lineage
  <2>2. controller' # NoProcess => controller' = runner'
    BY <2>1 DEF HandleMapNotify, StartsController
  <2> QED BY <1>1, <1>2, <1>3, <2>1, <2>2 DEF StartupInv, Lineage, Phases, Early
<1>4. CASE UNCHANGED <<runner, launched, conn_holders>>
  <2>1. controller' # NoProcess => controller' = runner'
    BY <1>4 DEF HandleMapNotify, StartsController, StartupInv, Lineage
  <2> QED BY <1>1, <1>2, <1>4, <2>1 DEF StartupInv, Lineage, Phases, Early
<1> QED BY <1>3, <1>4 DEF HandleMapNotify, Daemonizes

\* The parent's exit leaves the screen to its child.
LEMMA ParentExitsStep ==
    ASSUME StartupInv, ParentExits
    PROVE  StartupInv'
<1>1. /\ runner = 1 /\ phase \notin Early /\ launched' = "ok"
      /\ UNCHANGED <<line, grab, dont_fork, controller>>
  BY DEF ParentExits, StartupInv, Lineage
<1>2. phase # "exited" => UNCHANGED <<window, grabs>> /\ runner \in conn_holders'
  <2> SUFFICES ASSUME phase # "exited"
               PROVE  UNCHANGED <<window, grabs>> /\ runner \in conn_holders'
    OBVIOUS
  <2>1. runner \in conn_holders /\ runner # 0
    BY <1>1 DEF StartupInv, Lineage
  <2>2. ClosesConnection(0)
    BY DEF ParentExits, LineExits
  <2> QED BY <2>1, <2>2, ConnectionIsKept
<1>3. Lineage'
  BY <1>1, <1>2 DEF StartupInv, Lineage
<1>4. Held'
  BY <1>1, <1>2 DEF StartupInv, Held, Early
<1> QED BY <1>3, <1>4 DEF StartupInv

LEMMA LeaveSteps ==
    ASSUME StartupInv, Unlock \/ RestoreFocus \/ LeaveMain
    PROVE  StartupInv'
<1>1. CASE Unlock
  <2>1. Lineage'
    BY <1>1 DEF Unlock, StartupInv, Lineage, Phases, Early
  <2>2. Held'
    BY <1>1 DEF Unlock, StartupInv, Held
  <2> QED BY <2>1, <2>2 DEF StartupInv
<1>2. CASE RestoreFocus
  <2>1. Lineage'
    BY <1>2 DEF RestoreFocus, StartupInv, Lineage, Phases, Early
  <2>2. Held'
    BY <1>2 DEF RestoreFocus, StartupInv, Held
  <2> QED BY <2>1, <2>2 DEF StartupInv
<1>3. CASE LeaveMain
  <2>1. tries' \in Int
    BY <1>3 DEF LeaveMain, StartupInv, Held
  <2>2. launched # "exiting" \/ runner # 0
    BY DEF StartupInv, Lineage
  <2> QED BY <1>3, <2>1, <2>2, MainExitsStep DEF LeaveMain
<1> QED BY <1>1, <1>2, <1>3

LEMMA RaiseSteps ==
    ASSUME StartupInv, Raise
    PROVE  StartupInv'
<1>1. runner # RaiseChild
  BY DEF StartupInv, Lineage, RaiseChild
<1>2. CASE RaiseStarts
  <2>1. phase # "exited" => UNCHANGED <<window, grabs>> /\ runner \in conn_holders'
    BY <1>1, <1>2, ConnectionIsKept DEF RaiseStarts, StartupInv, Lineage
  <2>2. phase \in Early => runner \in lock_holders'
    BY <1>1, <1>2 DEF RaiseStarts, StartupInv, Lineage
  <2>3. UNCHANGED <<line, grab, forks>>
    BY <1>2 DEF RaiseStarts
  <2>4. Lineage'
    BY <2>1, <2>2, <2>3 DEF StartupInv, Lineage
  <2>5. Held'
    BY <2>1, <2>3 DEF StartupInv, Held
  <2> QED BY <2>4, <2>5 DEF StartupInv
<1>3. CASE RaiseWatches \/ RaiseHandlesVisibility \/ RaiseEnds
  <2>1. UNCHANGED <<line, grab, forks, holders, grabs, window>>
    BY <1>3 DEF RaiseWatches, RaiseHandlesVisibility, RaiseEnds
  <2> QED BY <2>1, AsideStep DEF StartupInv, Lineage
<1> QED BY <1>2, <1>3 DEF Raise

LEMMA OtherSteps ==
    ASSUME StartupInv, HandleVisibility \/ Others \/ Finished \/ UNCHANGED vars
    PROVE  StartupInv'
<1>1. /\ UNCHANGED <<line, grab, forks, holders, window>>
      /\ pointer = "i3lock" => pointer' = "i3lock"
      /\ keyboard = "i3lock" => keyboard' = "i3lock"
  BY DEF HandleVisibility, Others, OthersRelease, OthersGrab, OthersCover,
     OthersRemap, Finished, Released
<1> QED BY <1>1, AsideStep DEF StartupInv, Lineage

\* The processes and what they hold agree in every reachable state.
THEOREM StartupInductive == Spec => []StartupInv
<1>1. StartupInv /\ [Next]_vars => StartupInv'
  BY GrabSteps, GrabReturnsStep, ForkRaiseStep, StartLoopStep, MapNotifyStep,
     ParentExitsStep, LeaveSteps, RaiseSteps, OtherSteps DEF Next, Main
<1> QED BY <1>1, InitHolds, PTL DEF Spec

-----------------------------------------------------------------------------
(* What follows from it *)

\* i3lock holds both grabs and shows its window from the report of the grab to
\* the user's success, whatever fails on the way and whichever process exits.
THEOREM StaysLocked == Spec => []LockedWhileRunning
<1>1. StartupInv => LockedWhileRunning
  BY DEF StartupInv, Held, LockedWhileRunning, ScreenLocked
<1> QED BY <1>1, StartupInductive, PTL

\* The process that was launched reports success only for a locked screen, or
\* one the user has unlocked.
THEOREM LaunchIsLocked == Spec => []LaunchReturnsLocked
<1>1. StartupInv => LaunchReturnsLocked
  BY DEF StartupInv, Lineage, Held, Phases, Early, LaunchReturnsLocked,
     ScreenLocked
<1> QED BY <1>1, StartupInductive, PTL

\* Somebody delays the suspend until the screen is locked.
THEOREM SleepLockIsHeld == Spec => []SleepLockHeldUntilLocked
<1>1. StartupInv => SleepLockHeldUntilLocked \/ phase = "exited"
  BY DEF StartupInv, Lineage, Held, Phases, Early, SleepLockHeldUntilLocked,
     ScreenLocked
<1>2. phase = "exited" => SleepLockHeldUntilLocked
  BY DEF SleepLockHeldUntilLocked
<1> QED BY <1>1, <1>2, StartupInductive, PTL

\* The worker thread is in the process that runs the loop: no fork comes after
\* it.
THEOREM ControllerIsInRunner == Spec => []ControllerInRunner
<1>1. StartupInv => ControllerInRunner
  BY DEF StartupInv, Lineage, ControllerInRunner
<1> QED BY <1>1, StartupInductive, PTL
=============================================================================

----------------------------- MODULE AuthSession -----------------------------
(***************************************************************************)
(* What pam_controller.h promises to its caller, with nothing of how the   *)
(* worker, the queue and the pipe keep the promise: there is one slot for  *)
(* an authentication attempt; an attempt that was picked up ends exactly   *)
(* once, with one of four outcomes; the outcome waits for the caller and   *)
(* keeps the slot until it is acknowledged; outcomes reach the caller in   *)
(* the order of the attempts; and what was cancelled ends as cancelled.    *)
(***************************************************************************)
EXTENDS Naturals

VARIABLES
    slot,      \* "free", "requested", "running", "cancelling" or "ended"
    attempt,   \* the number of the attempt the slot is or was last used for
    outcomes,  \* the outcomes that have not reached the caller yet
    open,      \* the session accepts attempts: it has not been shut down
    fatal      \* an attempt has ended fatally: no other is accepted

session == <<slot, attempt, outcomes, open, fatal>>

Kinds == {"SUCCESS", "FAILURE", "CANCELLED", "FATAL"}

SessionInit ==
    /\ slot = "free" /\ attempt = 0 /\ outcomes = {}
    /\ open = TRUE /\ fatal = FALSE

\* pam_controller_start_auth
Start ==
    /\ slot = "free" /\ open /\ ~fatal
    /\ slot' = "requested"
    /\ attempt' = attempt + 1
    /\ UNCHANGED <<outcomes, open, fatal>>

PickUp ==
    /\ slot = "requested" /\ open
    /\ slot' = "running"
    /\ UNCHANGED <<attempt, outcomes, open, fatal>>

\* pam_controller_cancel_auth: a request that nobody has picked up leaves no
\* outcome; an attempt that runs will end as cancelled; one that has ended is
\* acknowledged, though its outcome may not have reached the caller.
Cancel ==
    /\ \/ slot \in {"requested", "ended"} /\ slot' = "free"
       \/ slot = "running" /\ slot' = "cancelling"
    /\ UNCHANGED <<attempt, outcomes, open, fatal>>

\* Outcomes that were acknowledged before they were delivered may be dropped
\* to make room: none of them holds the slot.
End(kind) ==
    /\ \/ slot = "running" /\ kind # "CANCELLED"
       \/ slot = "cancelling" /\ kind = "CANCELLED"
    /\ slot' = "ended"
    /\ \E kept \in SUBSET outcomes :
          outcomes' = kept \cup {[attempt |-> attempt, kind |-> kind]}
    /\ fatal' = (fatal \/ kind = "FATAL")
    /\ UNCHANGED <<attempt, open>>

\* The oldest outcome reaches the caller, who acknowledges it.
Deliver ==
    /\ \E o \in outcomes :
          /\ \A other \in outcomes : o.attempt <= other.attempt
          /\ outcomes' = outcomes \ {o}
          /\ slot' = IF slot = "ended" /\ o.attempt = attempt THEN "free" ELSE slot
    /\ UNCHANGED <<attempt, open, fatal>>

\* pam_controller_cleanup: no attempt from here on, and in the end nobody is
\* left to take the outcomes.
Close ==
    /\ open' = FALSE
    /\ UNCHANGED <<slot, attempt, outcomes, fatal>>

Discard ==
    /\ ~open
    /\ outcomes' = {}
    /\ UNCHANGED <<slot, attempt, open, fatal>>

SessionNext ==
    \/ Start \/ PickUp \/ Cancel
    \/ \E kind \in Kinds : End(kind)
    \/ Deliver \/ Close \/ Discard

SessionSpec == SessionInit /\ [][SessionNext]_session
=============================================================================

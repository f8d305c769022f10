-------------------------- MODULE LockScreenProofs --------------------------
(***************************************************************************)
(* Proofs about the lock screen and the controller together, for every     *)
(* value of the constants: the main thread keeps the controller's          *)
(* contract, its dialogue agrees with the controller's slot, an answer is  *)
(* never refused, and only the success of the current transaction unlocks. *)
(***************************************************************************)
EXTENDS LockScreen, PamControllerProofs

USE DEF queue, command, exchange, secrets, ids, terminal, frame, locals, ui,
        ctrl, worker, vars

-----------------------------------------------------------------------------
(* More facts about the controller *)

\* The events the main thread has not handled yet.
Sent == ToSet(Undelivered)

\* What the lock screen relies on, besides the controller's own properties.
Facts ==
    /\ \A e \in Sent : e.type # "READY" => e.transaction_id # 0
    /\ \A e \in Sent :
          e.type = "SUCCESS" /\ e.transaction_id = active_transaction_id =>
              ret = "SUCCESS"
    /\ waiting_prompt_id < next_prompt_id
    /\ auth_requested => ~cancellation_requested
    /\ pc = "exited" => shutdown_requested
    /\ auth_requested \/ auth_in_progress => active_transaction_id # 0

Controller == IndInv /\ Order /\ Facts

LEMMA SentIs ==
    ASSUME Typed
    PROVE  /\ events \in Seq(Events) /\ snapshot \in Seq(Events)
           /\ Undelivered \in Seq(Events) /\ Sent \subseteq Events
           /\ Sent = {Undelivered[i] : i \in 1..Len(Undelivered)}
<1>1. /\ events \in Seq(Events) /\ snapshot \in Seq(Events)
      /\ Undelivered \in Seq(Events)
  BY ConcatProperties DEF Undelivered, Typed, TypeOK, QueueTypeOK
<1>2. DOMAIN Undelivered = 1..Len(Undelivered)
  BY <1>1, LenProperties
<1>3. \A i \in 1..Len(Undelivered) : Undelivered[i] \in Events
  BY <1>1, ElementOfSeq
<1> QED BY <1>1, <1>2, <1>3 DEF Sent, ToSet

\* The events' numbers, as Order has them.
LEMMA SentKnown ==
    ASSUME Typed, Order, NEW e \in Sent
    PROVE  /\ e \in Events /\ e.transaction_id <= active_transaction_id
           /\ EventIsTerminal(e) /\ Live => e.transaction_id < active_transaction_id
           /\ e.type = "PROMPT" => e.prompt_id < next_prompt_id
<1>1. PICK i \in 1..Len(Undelivered) : e = Undelivered[i]
  BY SentIs
<1>2. Known(Undelivered[i], active_transaction_id, next_prompt_id, Live)
  BY DEF Order, AllKnown
<1> QED BY <1>1, <1>2, SentIs DEF Known

LEMMA AppendElements ==
    ASSUME NEW u \in Seq(Events), NEW e \in Events
    PROVE  ToSet(Append(u, e)) = ToSet(u) \cup {e}
<1>1. /\ Len(u) \in Nat /\ Len(Append(u, e)) = Len(u) + 1
      /\ Append(u, e)[Len(u) + 1] = e
      /\ \A i \in 1..Len(u) : Append(u, e)[i] = u[i]
      /\ Append(u, e) \in Seq(Events)
  BY LenProperties, AppendProperties
<1>2. /\ DOMAIN u = 1..Len(u)
      /\ DOMAIN Append(u, e) = 1..(Len(u) + 1)
  BY <1>1, LenProperties
<1>3. 1..(Len(u) + 1) = (1..Len(u)) \cup {Len(u) + 1}
  BY <1>1
<1> QED BY <1>1, <1>2, <1>3 DEF ToSet

\* Posting an event adds it, if there is room, and may drop others.
LEMMA PostSent ==
    ASSUME Typed, NEW e \in Events, PostEvent(e), UNCHANGED snapshot
    PROVE  /\ Sent' \subseteq Sent \cup {e}
           /\ Fits(events, e) => e \in Sent'
<1>1. /\ events \in Seq(Events) /\ Len(events) <= MaxEvents
      /\ snapshot \in Seq(Events) /\ Undelivered \in Seq(Events)
      /\ events' = Enqueue(events, e)
  BY SentIs DEF Typed, TypeOK, QueueTypeOK, PostEvent
<1>2. Sent' \subseteq Sent \cup {e}
  <2>1. CASE Undelivered' = Undelivered
    BY <2>1 DEF Sent
  <2>2. CASE \E u \in Seq(Events) :
                Thinned(u, Undelivered) /\ Undelivered' = Append(u, e)
    <3>1. PICK u \in Seq(Events) :
                Thinned(u, Undelivered) /\ Undelivered' = Append(u, e)
      BY <2>2
    <3>2. DOMAIN u = 1..Len(u) /\ DOMAIN Undelivered = 1..Len(Undelivered)
      BY <1>1, LenProperties
    <3>3. ToSet(u) \subseteq ToSet(Undelivered)
      <4>1. PICK f \in [1..Len(u) -> 1..Len(Undelivered)] :
                \A k \in 1..Len(u) : u[k] = Undelivered[f[k]]
        BY <3>1 DEF Thinned
      <4> QED BY <3>2, <4>1 DEF ToSet
    <3> QED BY <3>1, <3>3, AppendElements DEF Sent
  <2> QED BY <2>1, <2>2, PostThins
<1>3. ASSUME Fits(events, e) PROVE e \in Sent'
  <2>1. PICK p \in Seq(Events) : events' = Append(p, e)
    BY <1>1, <1>3, EnqueueThinned
  <2>2. /\ Undelivered' = Append(snapshot \o p, e)
        /\ snapshot \o p \in Seq(Events)
    BY <1>1, <2>1, ConcatAppend, ConcatProperties DEF Undelivered
  <2>3. ToSet(Append(snapshot \o p, e)) = ToSet(snapshot \o p) \cup {e}
    BY <2>2, AppendElements
  <2> QED BY <2>2, <2>3 DEF Sent
<1> QED BY <1>2, <1>3

LEMMA SameSent == UNCHANGED <<events, snapshot>> => Sent' = Sent
BY DEF Sent, Undelivered

LEMMA TakeSent == Typed /\ TakeEvents => Sent' = Sent
<1> SUFFICES ASSUME Typed, TakeEvents PROVE Sent' = Sent
  OBVIOUS
<1>1. main = "drain" /\ snapshot' = events /\ events' = << >>
  BY DEF TakeEvents
<1>2. snapshot = << >> /\ events \in Seq(Events)
  BY <1>1, SentIs DEF Typed, PlacesAgree
<1>3. Undelivered' = Undelivered
  BY <1>1, <1>2, ConcatEmptySeq DEF Undelivered
<1> QED BY <1>3 DEF Sent

\* The event that is handled comes before all others.
LEMMA HandleSent ==
    ASSUME Typed, Order, EventHandled, UNCHANGED events
    PROVE  /\ main = "events" /\ Head(snapshot) \in Sent
           /\ Sent = Sent' \cup {Head(snapshot)}
           /\ \A e \in Sent' : Before(Head(snapshot), e)
<1> DEFINE h == Head(snapshot)
           u == Undelivered
           t == Tail(Undelivered)
<1>1. main = "events" /\ snapshot' = Tail(snapshot) /\ snapshot # << >>
  BY DEF EventHandled, Typed, PlacesAgree
<1>2. /\ u # << >> /\ u \in Seq(Events) /\ Head(u) = h /\ Undelivered' = t
  BY <1>1, SentIs, TailConcat DEF Undelivered
<1>3. /\ Len(u) \in Nat /\ Len(u) > 0 /\ u[1] = h
      /\ t \in Seq(Events) /\ Len(t) = Len(u) - 1
      /\ \A i \in 1..Len(t) : t[i] = u[i + 1]
  BY <1>2, HeadTailProperties, LenProperties, EmptySeq
<1>4. DOMAIN u = 1..Len(u) /\ DOMAIN t = 1..Len(t)
  BY <1>2, <1>3, LenProperties
<1>5. Sent = {u[i] : i \in 1..Len(u)} /\ Sent' = {t[i] : i \in 1..Len(t)}
  BY <1>2, <1>4 DEF Sent, ToSet
<1> HIDE DEF h, t, u
<1>6. h \in Sent
  <2>1. 1 \in 1..Len(u)
    BY <1>3
  <2> QED BY <1>3, <1>5, <2>1
<1>7. \A e \in Sent' : e \in Sent /\ Before(h, e)
  <2> SUFFICES ASSUME NEW e \in Sent' PROVE e \in Sent /\ Before(h, e)
    OBVIOUS
  <2>1. PICK i \in 1..Len(t) : e = t[i]
    BY <1>5
  <2>2. 1 \in 1..Len(u) /\ i + 1 \in 1..Len(u) /\ 1 < i + 1 /\ t[i] = u[i + 1]
    BY <1>3
  <2>3. Ordered(u)
    BY DEF Order, u
  <2>4. Before(u[1], u[i + 1])
    BY <2>2, <2>3 DEF Ordered
  <2> QED BY <1>3, <1>5, <2>1, <2>2, <2>4
<1>8. \A e \in Sent : e = h \/ e \in Sent'
  <2> SUFFICES ASSUME NEW e \in Sent, e # h PROVE e \in Sent'
    OBVIOUS
  <2>1. PICK i \in 1..Len(u) : e = u[i]
    BY <1>5
  <2>2. i # 1
    BY <1>3, <2>1
  <2>3. i - 1 \in 1..Len(t) /\ (i - 1) + 1 = i
    BY <1>3, <2>2
  <2>4. t[i - 1] = u[i]
    BY <1>3, <2>3
  <2> QED BY <1>5, <2>1, <2>3, <2>4
<1> QED BY <1>1, <1>6, <1>7, <1>8 DEF h

LEMMA JoinSent == Typed /\ Join => Sent' = {}
<1> SUFFICES ASSUME Typed, Join PROVE Sent' = {}
  OBVIOUS
<1>1. main = "joining" /\ events' = << >> /\ UNCHANGED snapshot
  BY DEF Join
<1>2. snapshot = << >>
  BY <1>1 DEF Typed, PlacesAgree
<1>3. Undelivered' = << >>
  BY <1>1, <1>2 DEF Undelivered
<1> QED BY <1>3 DEF Sent, ToSet

\* The worker's quiet steps change no shared state, and PAM's result only
\* while the transaction runs.
LEMMA QuietFacts ==
    ASSUME Typed, Quiet
    PROVE  /\ UNCHANGED <<ctrl, ui, txn>> /\ Sent' = Sent
           /\ pc' = pc \/ (pc \in Running /\ pc' \in Running)
           /\ ret' = ret \/ pc \in Running
           /\ pc = "await_answer" <=> pc' = "await_answer"
           /\ Live' = Live
<1>1. /\ UNCHANGED <<ctrl, ui, txn>>
      /\ \/ pc' = pc
         \/ pc \in Running \ {"await_answer"} /\ pc' \in Running \ {"await_answer"}
  BY QuietSteps DEF Threads, Typed, TypeOK
<1>2. ret' = ret \/ pc \in Running
  BY PlaceSets DEF Quiet, Pam, PamStart, PamAuthenticate, PamAcctMgmt,
     PamSetcred, CallConv, AcctCheck, SetcredCheck, SpuriousWakeup,
     ConvAborted, ConvUnknownStyle, AnswerNotYet, Running
<1> QED BY <1>1, <1>2, SameSent DEF Live

LEMMA FactsInit == Init => Facts
<1> SUFFICES ASSUME Init PROVE Facts
  OBVIOUS
<1>1. Undelivered = << >>
  BY DEF Init, Undelivered
<1>2. Sent = {}
  BY <1>1 DEF Sent, ToSet
<1> QED BY <1>2 DEF Init, Facts

\* A head of the worker's loop changes no identifiers.
LEMMA RequestLoopFacts ==
    ASSUME Typed, Slot, Facts, NEW b \in BOOLEAN, RequestLoop(b),
           b => auth_in_progress, UNCHANGED snapshot
    PROVE  /\ waiting_prompt_id' < next_prompt_id'
           /\ auth_requested' => ~cancellation_requested'
           /\ pc' = "exited" => shutdown_requested'
           /\ auth_requested' \/ auth_in_progress' => active_transaction_id' # 0
           /\ UNCHANGED <<ret, active_transaction_id>>
BY DEF RequestLoop, LoopExit, LoopWait, LoopPickUp, ClearExchange, Facts,
   Typed, TypeOK, NumberTypeOK, FlagTypeOK

\* The facts about the events, when e is the event that may be new.
LEMMA EventFacts ==
    ASSUME Typed, Order, Facts, NEW e, Sent' \subseteq Sent \cup {e},
           e.type # "READY" => e.transaction_id # 0,
           e.type # "SUCCESS", UNCHANGED active_transaction_id,
           ret' = ret \/ Live
    PROVE  /\ \A f \in Sent' : f.type # "READY" => f.transaction_id # 0
           /\ \A f \in Sent' :
                 f.type = "SUCCESS" /\ f.transaction_id = active_transaction_id' =>
                     ret' = "SUCCESS"
<1>1. ASSUME NEW f \in Sent', f.type = "SUCCESS",
             f.transaction_id = active_transaction_id'
      PROVE  ret' = "SUCCESS"
  <2>1. f \in Sent
    BY <1>1
  <2>2. ~Live
    <3>1. EventIsTerminal(f)
      BY <1>1 DEF EventIsTerminal, TerminalTypes
    <3>2. active_transaction_id \in Nat
      BY DEF Typed, TypeOK, NumberTypeOK
    <3> QED BY <1>1, <2>1, <3>1, <3>2, SentKnown
  <2> QED BY <1>1, <2>1, <2>2 DEF Facts
<1> QED BY <1>1 DEF Facts

LEMMA FactsStep ==
    ASSUME IndInv, Order, Facts, [Next]_vars
    PROVE  Facts'
<1>1. Typed /\ Slot /\ WaitingIsReal
  BY IndInvParts
<1>2. /\ active_transaction_id \in Nat /\ next_prompt_id \in Nat \ {0}
      /\ waiting_prompt_id \in Nat /\ next_transaction_id \in Nat \ {0}
  BY <1>1 DEF Typed, TypeOK, NumberTypeOK
<1> DEFINE Named == \A f \in Sent' : f.type # "READY" => f.transaction_id # 0
           Meant == \A f \in Sent' :
                       f.type = "SUCCESS" /\ f.transaction_id = active_transaction_id' =>
                           ret' = "SUCCESS"
           Rest  == /\ waiting_prompt_id' < next_prompt_id'
                    /\ auth_requested' => ~cancellation_requested'
                    /\ pc' = "exited" => shutdown_requested'
                    /\ auth_requested' \/ auth_in_progress' =>
                           active_transaction_id' # 0
<1>3. ASSUME Sent' \subseteq Sent, UNCHANGED active_transaction_id,
             ret' = ret \/ Live
      PROVE  Named /\ Meant
  <2> DEFINE e == Event("READY", 0, 0, FALSE, FALSE)
  <2>1. e.type = "READY"
    BY DEF Event
  <2>2. Sent' \subseteq Sent \cup {e}
    BY <1>3
  <2> HIDE DEF e
  <2> QED BY <1>1, <1>3, <2>1, <2>2, EventFacts
<1>4. CASE Quiet
  <2>1. /\ UNCHANGED ctrl /\ Sent' = Sent /\ (ret' = ret \/ Live)
        /\ pc' = pc \/ pc' \in Running
    BY <1>1, <1>4, QuietFacts DEF Live
  <2>2. Rest
    BY <2>1, PlaceSets DEF Facts
  <2> QED BY <1>3, <2>1, <2>2 DEF Facts
<1>5. CASE WorkerStarts
  <2> DEFINE e == Event("READY", 0, 0, FALSE, FALSE)
  <2>1. e \in Events /\ e.type = "READY"
    BY EventType, EventTypesAre DEF Event
  <2>2. PostEvent(e) /\ UNCHANGED snapshot /\ RequestLoop(auth_in_progress)
    BY <1>5 DEF WorkerStarts, RequestLoop
  <2> HIDE DEF e
  <2>3. Rest /\ UNCHANGED <<ret, active_transaction_id>>
    BY <1>1, <2>2, RequestLoopFacts DEF Typed, TypeOK, FlagTypeOK
  <2>4. Sent' \subseteq Sent \cup {e}
    BY <1>1, <2>1, <2>2, PostSent
  <2>5. Named /\ Meant
    BY <1>1, <2>1, <2>3, <2>4, EventFacts
  <2> QED BY <2>3, <2>5 DEF Facts
<1>6. CASE WorkerIdle \/ AwaitAck
  <2>1. UNCHANGED <<events, snapshot>>
    BY <1>6 DEF WorkerIdle, AwaitAck, RequestLoop
  <2>2. Rest /\ UNCHANGED <<ret, active_transaction_id>>
    <3>1. CASE UNCHANGED <<ctrl, pc, locals>>
      BY <3>1 DEF Facts
    <3>2. CASE RequestLoop(auth_in_progress)
      BY <1>1, <2>1, <3>2, RequestLoopFacts DEF Typed, TypeOK, FlagTypeOK
    <3>3. CASE RequestLoop(auth_in_progress /\ shutdown_requested)
      BY <1>1, <2>1, <3>3, RequestLoopFacts DEF Typed, TypeOK, FlagTypeOK
    <3>4. \/ UNCHANGED <<ctrl, pc, locals>>
          \/ RequestLoop(auth_in_progress)
          \/ RequestLoop(auth_in_progress /\ shutdown_requested)
      BY <1>6 DEF WorkerIdle, AwaitAck
    <3> QED BY <3>1, <3>2, <3>3, <3>4
  <2>3. Named /\ Meant
    BY <1>3, <2>1, <2>2, SameSent
  <2> QED BY <2>2, <2>3 DEF Facts
<1>7. CASE ConvDeferred \/ AnswerTaken \/ AnswerAborted
  <2>1. /\ pc \in {"conv", "await_answer"}
        /\ NextMessage \/ ReturnFromConv
        /\ UNCHANGED <<events, snapshot, command, ids, locals, ui>>
        /\ UNCHANGED waiting_prompt_id \/ waiting_prompt_id' = 0
    BY <1>7 DEF ConvDeferred, AnswerTaken, AnswerAborted, ReplyOrFail,
       ClearExchange
  <2>2. pc' # "exited"
    BY <1>1, <2>1, ConvGoesOn, PlaceSets
  <2>3. Rest
    BY <1>2, <2>1, <2>2 DEF Facts
  <2> QED BY <1>3, <2>1, <2>3, SameSent DEF Facts
<1>8. CASE ConvStatus
  <2> DEFINE e == Event("STATUS", active_transaction_id, 0, FALSE, FALSE)
  <2>1. /\ e \in Events /\ e.type = "STATUS"
        /\ e.transaction_id = active_transaction_id
    BY <1>2, EventType, EventTypesAre DEF Event
  <2>2. /\ pc = "conv" /\ NextMessage /\ PostEvent(e)
        /\ UNCHANGED <<snapshot, command, exchange, ids, locals, ui>>
    BY <1>8 DEF ConvStatus
  <2> HIDE DEF e
  <2>3. pc' # "exited" /\ active_transaction_id # 0
    BY <1>1, <2>2, ConvGoesOn, PlaceSets DEF Facts, Slot, RunsActiveTransaction
  <2>4. Rest
    BY <2>2, <2>3 DEF Facts
  <2>5. Sent' \subseteq Sent \cup {e}
    BY <1>1, <2>1, <2>2, PostSent
  <2>6. Named /\ Meant
    BY <1>1, <2>1, <2>2, <2>3, <2>5, EventFacts
  <2> QED BY <2>4, <2>6 DEF Facts
<1>9. ASSUME NEW echo_on \in BOOLEAN, ConvPrompt(echo_on)
      PROVE  Named /\ Meant /\ Rest
  <2> DEFINE e == Event("PROMPT", active_transaction_id, next_prompt_id,
                        echo_on, FALSE)
  <2>1. /\ e \in Events /\ e.type = "PROMPT"
        /\ e.transaction_id = active_transaction_id
    BY <1>2, EventType, EventTypesAre DEF Event
  <2>2. /\ pc = "conv" /\ PostEvent(e)
        /\ pc' = "await_answer" \/ ReturnFromConv
        /\ next_prompt_id' = next_prompt_id + 1
        /\ waiting_prompt_id' \in {0, next_prompt_id}
        /\ UNCHANGED <<snapshot, command, active_transaction_id, locals, ui>>
    BY <1>9 DEF ConvPrompt, ClearExchange
  <2> HIDE DEF e
  <2>3. pc' # "exited" /\ active_transaction_id # 0
    BY <1>1, <2>2, ConvGoesOn, PlaceSets DEF Facts, Slot, RunsActiveTransaction
  <2>4. Rest
    BY <1>2, <2>2, <2>3 DEF Facts
  <2>5. Sent' \subseteq Sent \cup {e}
    BY <1>1, <2>1, <2>2, PostSent
  <2>6. Named /\ Meant
    BY <1>1, <2>1, <2>2, <2>3, <2>5, EventFacts
  <2> QED BY <2>4, <2>6
<1>10. CASE EndTransaction
  <2> DEFINE e == TerminalEvent
  <2>1. /\ pc = "pam_end" /\ pc \in Running /\ txn = active_transaction_id
        /\ auth_in_progress /\ ~auth_requested
    BY <1>1, <1>10 DEF EndTransaction, Running, Slot, RunsActiveTransaction
  <2>2. active_transaction_id # 0 /\ Live
    BY <2>1 DEF Facts, Live
  <2>3. Outcome \in EventTypes /\ (Outcome = "SUCCESS" => ret = "SUCCESS")
    BY EventTypesAre DEF Outcome
  <2>4. /\ e \in Events /\ e.type = Outcome
        /\ e.transaction_id = active_transaction_id
    <3>1. e \in Events
      BY <1>2, <2>1, <2>3, EventType DEF TerminalEvent
    <3> QED BY <2>1, <3>1 DEF TerminalEvent, Event
  <2>5. /\ PostEvent(e) /\ waiting_prompt_id' = 0 /\ ~cancellation_requested'
        /\ pc' = "exited" => shutdown_requested
        /\ UNCHANGED <<snapshot, auth_requested, auth_in_progress,
                       shutdown_requested, ids, ret>>
    BY <1>10 DEF EndTransaction, ClearExchange
  <2> HIDE DEF e
  <2>6. Rest
    BY <1>2, <2>2, <2>5
  <2>7. Sent' \subseteq Sent \cup {e}
    BY <1>1, <2>4, <2>5, PostSent
  <2>8. ASSUME NEW f \in Sent', f.type = "SUCCESS",
               f.transaction_id = active_transaction_id'
        PROVE  ret' = "SUCCESS"
    BY <2>3, <2>4, <2>5, <2>7, <2>8 DEF Facts
  <2>9. Named
    BY <2>2, <2>4, <2>7 DEF Facts
  <2> QED BY <2>6, <2>8, <2>9 DEF Facts
<1>11. CASE ClientStartAuth
  <2>1. /\ UNCHANGED <<events, snapshot, shutdown_requested, pc, ret>>
        /\ active_transaction_id' = next_transaction_id
        /\ ~cancellation_requested' /\ waiting_prompt_id' = 0
        /\ next_prompt_id' = next_prompt_id
    BY <1>11 DEF ClientStartAuth, StartAuth, ClearExchange
  <2>2. Sent' = Sent
    BY <2>1, SameSent
  <2>3. \A f \in Sent : f.transaction_id # active_transaction_id'
    <3> SUFFICES ASSUME NEW f \in Sent PROVE f.transaction_id # active_transaction_id'
      OBVIOUS
    <3>1. f \in Events /\ f.transaction_id <= active_transaction_id
      BY <1>1, SentKnown
    <3>2. f.transaction_id \in Nat
      BY <3>1 DEF Events
    <3> QED BY <1>2, <2>1, <3>1, <3>2 DEF Order
  <2> QED BY <1>2, <2>1, <2>2, <2>3 DEF Facts
<1>12. CASE ClientCancelAuth
  <2>1. /\ UNCHANGED <<events, snapshot, shutdown_requested, exchange, ids, pc, ret>>
        /\ auth_requested' => auth_requested /\ UNCHANGED cancellation_requested
        /\ auth_in_progress' => auth_in_progress
    BY <1>12 DEF ClientCancelAuth, CancelAuth, ClearTerminal
  <2> QED BY <1>3, <2>1, SameSent DEF Facts
<1>13. CASE ClientSubmitAnswer \/ DrainPipe \/ RequestShutdown
  <2>1. /\ UNCHANGED <<events, snapshot, auth_requested, auth_in_progress,
                       cancellation_requested, waiting_prompt_id, ids, pc, ret>>
        /\ shutdown_requested => shutdown_requested'
    BY <1>13 DEF ClientSubmitAnswer, SubmitAnswer, DrainPipe, RequestShutdown
  <2> QED BY <1>3, <2>1, SameSent DEF Facts
<1>14. CASE TakeEvents
  <2>1. UNCHANGED <<command, exchange, ids, pc, ret>> /\ Sent' = Sent
    BY <1>1, <1>14, TakeSent DEF TakeEvents
  <2> QED BY <1>3, <2>1 DEF Facts
<1>15. CASE ClientHandlesEvent
  <2>1. /\ EventHandled
        /\ UNCHANGED <<events, auth_requested, shutdown_requested,
                       cancellation_requested, exchange, ids, pc, ret>>
        /\ auth_in_progress' => auth_in_progress
    BY <1>15 DEF ClientHandlesEvent, AckTerminal, ClearTerminal
  <2>2. Sent' \subseteq Sent
    BY <1>1, <2>1, HandleSent
  <2> QED BY <1>3, <2>1, <2>2 DEF Facts
<1>16. CASE Join
  <2>1. UNCHANGED <<command, exchange, ids, pc, ret>> /\ Sent' = {}
    BY <1>1, <1>16, JoinSent DEF Join
  <2> QED BY <2>1 DEF Facts
<1>17. CASE UNCHANGED vars
  BY <1>3, <1>17, SameSent DEF Facts
<1> QED
  BY <1>4, <1>5, <1>6, <1>7, <1>8, <1>9, <1>10, <1>11, <1>12, <1>13, <1>14,
     <1>15, <1>16, <1>17
  DEF Next, WorkerStep, Drain, Client, Finished, Quiet, Facts

LEMMA ControllerInit == Init => Controller
BY IndInvInit, OrderInit, FactsInit DEF Controller

LEMMA ControllerStep == Controller /\ [Next]_vars => Controller'
<1> SUFFICES ASSUME Controller, [Next]_vars PROVE Controller'
  OBVIOUS
<1>1. IndInv /\ Order /\ Facts /\ Typed /\ Slot
  BY IndInvParts DEF Controller
<1>2. IndInv'
  BY <1>1, IndInvStep
<1>3. Order'
  BY <1>1, OrderedStep, NumbersStep DEF Order
<1>4. Facts'
  BY <1>1, FactsStep
<1> QED BY <1>2, <1>3, <1>4 DEF Controller

-----------------------------------------------------------------------------
(* The inductive invariant *)

\* The life of the program.
Life ==
    /\ active_pam_transaction_id \in Nat
    /\ ~controller_started =>
          /\ main = "loop" /\ ~left_loop
          /\ auth_state \in {"IDLE", "LOCK_FAILED"}
          /\ active_pam_transaction_id = 0 /\ ~pam_waiting_for_prompt
    /\ left_loop => active_pam_transaction_id = 0 /\ ~pam_waiting_for_prompt
    /\ shutdown_requested => left_loop

\* The UI's transaction is the controller's, as long as that is not cancelled.
Agreed ==
    /\ active_pam_transaction_id # 0 =>
          /\ active_pam_transaction_id = active_transaction_id
          /\ auth_requested \/ auth_in_progress
          /\ ~cancellation_requested
    /\ Live /\ ~cancellation_requested =>
          active_pam_transaction_id = active_transaction_id

\* What the screen shows of the dialogue.
Shown ==
    /\ ~left_loop =>
          (active_pam_transaction_id # 0 <=>
              auth_state = "VERIFY" \/ pam_waiting_for_prompt)
    /\ clear_auth_wrong_timeout = "armed" => auth_state = "WRONG"
    /\ auth_state = "WRONG" => ~pam_waiting_for_prompt
    /\ pam_auth_fatal => active_pam_transaction_id = 0

\* The prompt on the screen, or on its way to it, is the one the worker waits
\* at, and it is not answered yet.
Asked ==
    /\ pam_waiting_for_prompt =>
          /\ waiting_for_answer /\ ~answer_submitted
          /\ waiting_prompt_id = active_pam_prompt_id
    /\ \A e \in Sent :
          /\ e.type = "PROMPT" /\ active_pam_transaction_id # 0
          /\ e.transaction_id = active_pam_transaction_id
          => /\ ~pam_waiting_for_prompt
             /\ waiting_for_answer /\ ~answer_submitted
             /\ waiting_prompt_id = e.prompt_id

\* A prompt the worker waits at has not got lost.
OnItsWay ==
    pc = "await_answer" /\ ~answer_submitted /\ ~Stopping =>
        \/ pam_waiting_for_prompt /\ active_pam_prompt_id = waiting_prompt_id
        \/ \E e \in Sent :
              /\ e.type = "PROMPT"
              /\ e.prompt_id = waiting_prompt_id
              /\ e.transaction_id = active_pam_transaction_id

LockInv == Life /\ Agreed /\ Shown /\ Asked /\ OnItsWay /\ PanelIsCurrent

-----------------------------------------------------------------------------
(* The contract *)

LEMMA InputDoneCalls ==
    ASSUME NEW state, NEW status, NEW expires, InputDone(state, status, expires)
    PROVE  \/ NoControllerCall
           \/ SubmitAnswer(active_pam_transaction_id, active_pam_prompt_id)
           \/ StartAuth
BY DEF InputDone, InputAfterFatal, AnswersPrompt, BeginsTransaction,
   AttemptRefused, InputWithoutController

\* What the lock screen does to the controller a client may do.
LEMMA KeepsContract ==
    ASSUME Controller, Life, Agreed, [LockNext]_lockVars
    PROVE  [Next]_vars
<1>1. /\ Typed /\ WaitingIsReal /\ Order /\ Facts
      /\ next_transaction_id = active_transaction_id + 1
      /\ active_transaction_id \in Nat /\ active_pam_transaction_id \in Nat
      /\ waiting_prompt_id \in Nat /\ next_prompt_id \in Nat
      /\ waiting_prompt_id < next_prompt_id
      /\ active_pam_transaction_id # 0 =>
            active_pam_transaction_id = active_transaction_id
  BY IndInvParts
  DEF Controller, Order, Facts, Life, Agreed, Typed, TypeOK, NumberTypeOK
<1>2. ASSUME main = "loop", UNCHANGED ui,
             SubmitAnswer(active_pam_transaction_id, active_pam_prompt_id)
      PROVE  ClientSubmitAnswer
  <2>1. /\ waiting_for_answer /\ active_pam_transaction_id = active_transaction_id
        /\ active_pam_prompt_id = waiting_prompt_id
    BY <1>2 DEF SubmitAnswer, SubmitAnswerAccepted
  <2>2. pc = "await_answer" /\ waiting_prompt_id # 0
    BY <1>1, <2>1 DEF WaitingIsReal
  <2>3. active_transaction_id # 0
    <3>1. auth_in_progress
      BY <2>2, IndInvParts DEF Controller, Slot, RunsActiveTransaction, Running
    <3> QED BY <1>1, <3>1 DEF Facts
  <2>4. /\ active_pam_transaction_id \in Transactions
        /\ active_pam_prompt_id \in Prompts
    BY <1>1, <2>1, <2>2, <2>3 DEF Transactions, Prompts
  <2> QED BY <1>2, <2>4 DEF ClientSubmitAnswer
<1>3. ASSUME main = "loop", UNCHANGED ui,
             \/ NoControllerCall
             \/ SubmitAnswer(active_pam_transaction_id, active_pam_prompt_id)
             \/ StartAuth
      PROVE  [Next]_vars
  BY <1>2, <1>3 DEF Next, Client, ClientStartAuth, NoControllerCall
<1>4. CASE MapNotify \/ OtherKey \/ DiscardPassword
  BY <1>4 DEF MapNotify, OtherKey, DiscardPassword, controllerVars
<1>5. CASE EnterKey \/ ClearAuthWrong
  <2>1. main = "loop" /\ UNCHANGED ui
    BY <1>5 DEF EnterKey, ClearAuthWrong, LoopIdle
  <2>2. \/ NoControllerCall
        \/ \E state, status, expires : InputDone(state, status, expires)
    BY <1>5 DEF EnterKey, ClearAuthWrong
  <2> QED BY <1>3, <2>1, <2>2, InputDoneCalls
<1>6. CASE EscapeKey
  <2>1. CASE NoControllerCall
    BY <1>6, <2>1 DEF EscapeKey, NoControllerCall
  <2>2. CASE active_pam_transaction_id # 0 /\ CancelAuth(active_pam_transaction_id)
    <3>1. active_pam_transaction_id \in Transactions
      BY <1>1, <2>2 DEF Transactions
    <3> QED BY <1>6, <2>2, <3>1 DEF EscapeKey, LoopIdle, ClientCancelAuth, Next, Client
  <2> QED BY <1>6, <2>1, <2>2 DEF EscapeKey
<1>7. CASE HandlePamEvent
  <2>1. ClientHandlesEvent
    BY <1>7 DEF HandlePamEvent, Acknowledge, NoControllerCall, ClientHandlesEvent
  <2> QED BY <2>1 DEF Next, Drain
<1>8. CASE DrainStarts \/ DrainTakes \/ Cleanup \/ CleanedUp \/ WorkerThread
  BY <1>8 DEF DrainStarts, DrainTakes, Cleanup, CleanedUp, WorkerThread, Next,
     Drain, Client
<1>9. CASE Finished \/ UNCHANGED lockVars
  BY <1>9 DEF Finished, lockVars
<1> QED
  BY <1>4, <1>5, <1>6, <1>7, <1>8, <1>9 DEF LockNext, User, LockDrain

-----------------------------------------------------------------------------
(* The invariant holds *)

\* The event at the head of the snapshot is sent, and a number of 0 is of no
\* transaction on the screen.
LEMMA HandledEvent ==
    ASSUME Controller, Life, HandlePamEvent
    PROVE  /\ EventHandled /\ UNCHANGED events /\ main = "events"
           /\ Head(snapshot) \in Sent /\ Head(snapshot) \in Events
           /\ controller_started
           /\ Head(snapshot).type # "READY" /\ IsCurrent(Head(snapshot)) =>
                 active_pam_transaction_id # 0 /\ ~left_loop
<1> DEFINE e == Head(snapshot)
<1>1. EventHandled /\ UNCHANGED events
  BY DEF HandlePamEvent, Acknowledge, AckTerminal, NoControllerCall
<1>2. Typed /\ Order /\ Facts
  BY IndInvParts DEF Controller
<1>3. main = "events" /\ e \in Sent /\ e \in Events
  BY <1>1, <1>2, HandleSent, SentIs
<1>4. e.type # "READY" => e.transaction_id # 0
  BY <1>2, <1>3 DEF Facts
<1> QED BY <1>1, <1>3, <1>4 DEF IsCurrent, Life

LEMMA LifeStep ==
    ASSUME Controller, Life, [LockNext]_lockVars
    PROVE  Life'
<1> USE DEF Life
<1>1. next_transaction_id \in Nat
  BY DEF Controller, IndInv, TypeOK, NumberTypeOK
<1>2. CASE MapNotify
  BY <1>2 DEF MapNotify, controllerVars, dialogue, display, keys
<1>3. CASE OtherKey \/ DiscardPassword
  BY <1>3 DEF OtherKey, DiscardPassword, controllerVars, dialogue, display, boot
<1>4. ASSUME NEW state \in {auth_state, "IDLE"}, NEW status,
             NEW expires, InputDone(state, status, expires),
             LoopIdle, UNCHANGED <<boot, ui>>
      PROVE  Life'
  <2>1. shutdown_requested' = shutdown_requested
    BY <1>4, InputDoneCalls DEF NoControllerCall, SubmitAnswer, StartAuth
  <2>2. active_pam_transaction_id' \in Nat
    BY <1>1, <1>4 DEF InputDone, InputAfterFatal, AnswersPrompt,
       BeginsTransaction, AttemptRefused, InputWithoutController, dialogue
  <2>3. ~controller_started =>
          /\ auth_state' \in {"IDLE", "LOCK_FAILED"}
          /\ active_pam_transaction_id' = 0 /\ ~pam_waiting_for_prompt'
    BY <1>4 DEF InputDone, InputAfterFatal, AnswersPrompt,
       BeginsTransaction, AttemptRefused, InputWithoutController, dialogue
  <2> QED BY <1>4, <2>1, <2>2, <2>3 DEF boot, LoopIdle
<1>5. CASE EnterKey
  <2>1. LoopIdle /\ UNCHANGED <<boot, ui>>
    BY <1>5 DEF EnterKey
  <2>2. CASE InputDone(auth_state, status_text, pam_status_expires_with_auth_wrong)
    BY <1>4, <2>1, <2>2
  <2>3. CASE NoControllerCall /\ UNCHANGED <<auth_state, dialogue>>
    BY <2>1, <2>3 DEF boot, dialogue, NoControllerCall
  <2> QED BY <1>5, <2>2, <2>3 DEF EnterKey
<1>6. CASE EscapeKey
  <2>1. shutdown_requested' = shutdown_requested /\ UNCHANGED <<boot, ui>>
    BY <1>6 DEF EscapeKey, CancelAuth, NoControllerCall
  <2>2. CASE ClearDialogue /\ auth_state' = "IDLE"
    BY <2>1, <2>2 DEF ClearDialogue, boot
  <2>3. CASE UNCHANGED <<dialogue, auth_state>>
    BY <2>1, <2>3 DEF boot, dialogue
  <2> QED BY <1>6, <2>2, <2>3 DEF EscapeKey
<1>7. CASE ClearAuthWrong
  <2>1. LoopIdle /\ UNCHANGED <<boot, ui>>
    BY <1>7 DEF ClearAuthWrong
  <2>2. CASE \E status : InputDone("IDLE", status, FALSE)
    BY <1>4, <2>1, <2>2
  <2>3. CASE NoControllerCall /\ auth_state' = "IDLE" /\ UNCHANGED dialogue
    BY <2>1, <2>3 DEF boot, dialogue, NoControllerCall
  <2> QED BY <1>7, <2>2, <2>3 DEF ClearAuthWrong
<1>8. CASE HandlePamEvent
  <2> DEFINE e == Head(snapshot)
  <2>1. /\ e \in Events /\ controller_started
        /\ e.type # "READY" /\ IsCurrent(e) => ~left_loop
    BY <1>8, HandledEvent
  <2>2. /\ UNCHANGED <<controller_started, shutdown_requested>>
        /\ \/ e.type # "READY" /\ IsCurrent(e) /\ HandleCurrent(e)
           \/ UNCHANGED <<dialogue, left_loop>>
    BY <1>8 DEF HandlePamEvent, Acknowledge, AckTerminal, NoControllerCall
  <2> HIDE DEF e
  <2>4. CASE ~left_loop /\ HandleCurrent(e)
    <3>1. CASE ShowStatus(e)
      BY <2>1, <2>2, <2>4, <3>1 DEF ShowStatus, dialogue
    <3>2. CASE ShowPrompt(e)
      BY <2>1, <2>2, <2>4, <3>2 DEF ShowPrompt
    <3>3. CASE Unlock \/ ShowFailure(e) \/ ShowCancelled \/ ShowFatal(e)
      BY <2>1, <2>2, <2>4, <3>3 DEF Unlock, ShowFailure, ShowCancelled,
         ShowFatal, ClearDialogue
    <3> QED BY <2>4, <3>1, <3>2, <3>3 DEF HandleCurrent
  <2>5. CASE UNCHANGED <<dialogue, left_loop>>
    BY <2>1, <2>2, <2>5 DEF dialogue
  <2> QED BY <2>1, <2>2, <2>4, <2>5
<1> USE DEF screen, boot, dialogue, display, keys
<1>9. CASE DrainStarts \/ DrainTakes \/ Cleanup \/ CleanedUp
  BY <1>9 DEF DrainStarts, DrainTakes, Cleanup, CleanedUp, DrainPipe,
     TakeEvents, RequestShutdown, Join
<1>10. CASE WorkerThread
  <2>1. controller_started /\ UNCHANGED screen
    BY <1>10 DEF WorkerThread
  <2>2. UNCHANGED <<main, shutdown_requested>>
    <3>1. CASE Quiet
      BY <3>1, QuietFacts, IndInvParts DEF Controller
    <3>2. CASE ~Quiet
      BY <1>10, <3>2 DEF WorkerThread, WorkerStep, Quiet, WorkerStarts,
         WorkerIdle, AwaitAck, RequestLoop, ConvStatus, ConvDeferred,
         ConvPrompt, AnswerTaken, AnswerAborted, EndTransaction
    <3> QED BY <3>1, <3>2
  <2> QED BY <2>1, <2>2
<1>11. CASE (Finished /\ UNCHANGED screen) \/ UNCHANGED lockVars
  BY <1>11 DEF Finished, lockVars
<1> QED
  BY <1>2, <1>3, <1>5, <1>6, <1>7, <1>8, <1>9, <1>10, <1>11
  DEF LockNext, User, LockDrain

\* An answer given to the prompt on the screen is accepted.
LEMMA Accepted ==
    ASSUME Life, Agreed, Shown, Asked, pam_waiting_for_prompt
    PROVE  SubmitAnswerAccepted(active_pam_transaction_id, active_pam_prompt_id)
<1>1. ~left_loop /\ ~shutdown_requested
  BY DEF Life
<1>2. /\ active_pam_transaction_id = active_transaction_id
      /\ ~cancellation_requested
  BY <1>1 DEF Shown, Agreed
<1> QED BY <1>1, <1>2 DEF Asked, SubmitAnswerAccepted

\* The outcomes of input_done.
InputKept ==
    /\ NoControllerCall
    /\ UNCHANGED dialogue
    /\ active_pam_transaction_id # 0 <=>
           auth_state' = "VERIFY" \/ pam_waiting_for_prompt
    /\ auth_state' # "WRONG"

PromptAnswered ==
    /\ pam_waiting_for_prompt
    /\ SubmitAnswer(active_pam_transaction_id, active_pam_prompt_id)
    /\ auth_state' = "VERIFY"
    /\ active_pam_prompt_id' = 0 /\ ~pam_waiting_for_prompt'
    /\ UNCHANGED active_pam_transaction_id

AttemptBegun ==
    /\ ~pam_auth_fatal
    /\ active_pam_transaction_id = 0 /\ ~pam_waiting_for_prompt
    /\ StartAuth
    /\ auth_state' = "VERIFY"
    /\ active_pam_transaction_id' = next_transaction_id
    /\ UNCHANGED <<active_pam_prompt_id, pam_waiting_for_prompt>>

LEMMA InputDoneOutcome ==
    ASSUME Life, Agreed, Shown, Asked, LoopIdle,
           NEW state, NEW status, NEW expires, InputDone(state, status, expires),
           state # "WRONG",
           state = auth_state \/ (state = "IDLE" /\ auth_state = "WRONG")
    PROVE  /\ clear_auth_wrong_timeout' = "off"
           /\ \/ InputKept /\ UNCHANGED prompt_text /\ status_text' = status
              \/ PromptAnswered /\ prompt_text' = 0 /\ status_text' = status
              \/ AttemptBegun /\ ClearPamDisplayText
<1>1. /\ ~left_loop
      /\ active_pam_transaction_id # 0 <=>
             auth_state = "VERIFY" \/ pam_waiting_for_prompt
      /\ auth_state = "WRONG" => ~pam_waiting_for_prompt
      /\ pam_auth_fatal => active_pam_transaction_id = 0
      /\ ~controller_started =>
            active_pam_transaction_id = 0 /\ ~pam_waiting_for_prompt
  BY DEF Life, Shown, LoopIdle
<1>2. clear_auth_wrong_timeout' = "off"
  BY DEF InputDone
<1>3. CASE /\ pam_auth_fatal /\ InputAfterFatal /\ UNCHANGED prompt_text
           /\ status_text' = status
           /\ pam_status_expires_with_auth_wrong' = expires
  BY <1>1, <1>2, <1>3 DEF InputAfterFatal, InputKept
<1>4. CASE /\ state = "VERIFY" /\ auth_state' = state /\ NoControllerCall
           /\ UNCHANGED <<dialogue, prompt_text>>
           /\ status_text' = status
           /\ pam_status_expires_with_auth_wrong' = expires
  BY <1>1, <1>2, <1>4 DEF InputKept
<1>5. CASE /\ pam_waiting_for_prompt /\ AnswersPrompt /\ prompt_text' = 0
           /\ status_text' = status
           /\ pam_status_expires_with_auth_wrong' = expires
  <2>1. SubmitAnswerAccepted(active_pam_transaction_id, active_pam_prompt_id)
    BY <1>5, Accepted
  <2>2. PromptAnswered
    BY <1>5, <2>1 DEF AnswersPrompt, PromptAnswered
  <2> QED BY <1>2, <1>5, <2>2
<1>6. CASE state # "VERIFY" /\ ~pam_waiting_for_prompt
  <2>1. active_pam_transaction_id = 0
    BY <1>1, <1>6
  <2>2. CASE ~pam_auth_fatal /\ BeginsTransaction /\ ClearPamDisplayText
    <3>1. AttemptBegun
      BY <1>6, <2>1, <2>2 DEF BeginsTransaction, AttemptBegun
    <3> QED BY <1>2, <2>2, <3>1
  <2>3. CASE /\ AttemptRefused \/ InputWithoutController
             /\ UNCHANGED prompt_text /\ status_text' = status
             /\ pam_status_expires_with_auth_wrong' = expires
    <3>1. InputKept
      BY <1>6, <2>1, <2>3 DEF AttemptRefused, InputWithoutController, InputKept,
         dialogue
    <3> QED BY <1>2, <2>3, <3>1
  <2>4. \/ ~pam_auth_fatal /\ BeginsTransaction /\ ClearPamDisplayText
        \/ /\ AttemptRefused \/ InputWithoutController
           /\ UNCHANGED prompt_text /\ status_text' = status
           /\ pam_status_expires_with_auth_wrong' = expires
        \/ pam_auth_fatal
    BY <1>6 DEF InputDone
  <2> QED BY <1>3, <1>6, <2>2, <2>3, <2>4 DEF InputDone
<1> QED BY <1>3, <1>4, <1>5, <1>6 DEF InputDone

\* The two callbacks that call input_done, and what they are otherwise.
LEMMA EnterOrTimer ==
    ASSUME Life, Agreed, Shown, Asked, EnterKey \/ ClearAuthWrong
    PROVE  /\ LoopIdle /\ UNCHANGED <<boot, ui>>
           /\ \/ /\ clear_auth_wrong_timeout' = "off"
                 /\ InputKept \/ PromptAnswered \/ AttemptBegun
              \/ /\ NoControllerCall
                 /\ UNCHANGED <<dialogue, auth_state, clear_auth_wrong_timeout>>
              \/ /\ NoControllerCall /\ UNCHANGED dialogue
                 /\ auth_state = "WRONG" /\ auth_state' = "IDLE"
                 /\ clear_auth_wrong_timeout' = "off"
<1>1. LoopIdle /\ UNCHANGED <<boot, ui>>
  BY DEF EnterKey, ClearAuthWrong
<1>2. CASE EnterKey
  <2>1. CASE /\ auth_state # "WRONG"
             /\ InputDone(auth_state, status_text, pam_status_expires_with_auth_wrong)
    BY <1>1, <2>1, InputDoneOutcome
  <2> QED BY <1>1, <1>2, <2>1 DEF EnterKey
<1>3. CASE ClearAuthWrong
  <2>1. auth_state = "WRONG"
    BY <1>3 DEF ClearAuthWrong, Shown
  <2>2. CASE \E status : InputDone("IDLE", status, FALSE)
    BY <1>1, <2>1, <2>2, InputDoneOutcome
  <2> QED BY <1>1, <1>3, <2>1, <2>2 DEF ClearAuthWrong
<1> QED BY <1>2, <1>3

\* The actions that touch neither the dialogue nor the controller.
Aside == MapNotify \/ OtherKey \/ DiscardPassword

LEMMA AsideKeeps ==
    ASSUME Aside
    PROVE  /\ UNCHANGED <<vars, dialogue, display, pam_auth_fatal, left_loop,
                          clear_auth_wrong_timeout>>
           /\ \/ UNCHANGED auth_state
              \/ /\ ~controller_started
                 /\ auth_state' = "LOCK_FAILED"
BY DEF Aside, MapNotify, OtherKey, DiscardPassword, boot, controllerVars

\* The other actions: what the event loop does with the controller's events
\* and at the end leaves the screen alone, and so does the worker.
Behind == \/ DrainStarts \/ DrainTakes \/ Cleanup \/ CleanedUp \/ WorkerThread
          \/ (Finished /\ UNCHANGED screen) \/ UNCHANGED lockVars

LEMMA BehindKeeps ==
    ASSUME Behind
    PROVE  UNCHANGED <<mapped, controller_started, pam_auth_fatal, left_loop,
                       auth_state, clear_auth_wrong_timeout, dialogue, display>>
BY DEF Behind, DrainStarts, DrainTakes, Cleanup, CleanedUp, WorkerThread,
   screen, boot, lockVars

LEMMA LockActions ==
    ASSUME [LockNext]_lockVars
    PROVE  \/ Aside \/ EnterKey \/ ClearAuthWrong \/ EscapeKey
           \/ HandlePamEvent \/ Behind
BY DEF LockNext, User, LockDrain, Aside, Behind

\* A terminal event of the transaction on the screen comes when the worker is
\* done with it.
LEMMA TerminalIsOver ==
    ASSUME Controller, Life, Agreed, HandlePamEvent,
           EventIsTerminal(Head(snapshot)), IsCurrent(Head(snapshot))
    PROVE  ~Live
<1>1. Head(snapshot).type # "READY"
  BY DEF EventIsTerminal, TerminalTypes
<1>2. /\ Head(snapshot) \in Sent
      /\ Head(snapshot).transaction_id = active_transaction_id
  BY <1>1, HandledEvent DEF IsCurrent, Agreed
<1>3. active_transaction_id \in Nat /\ Typed /\ Order
  BY IndInvParts DEF Controller, Typed, TypeOK, NumberTypeOK
<1> QED BY <1>2, <1>3, SentKnown

LEMMA AgreedStep ==
    ASSUME Controller, Life, Agreed, Shown, Asked, [LockNext]_lockVars
    PROVE  Agreed'
<1>1. /\ Typed /\ Slot /\ Order /\ Facts
      /\ next_transaction_id = active_transaction_id + 1
      /\ next_transaction_id \in Nat \ {0}
  BY IndInvParts DEF Controller, Order, Typed, TypeOK, NumberTypeOK
<1>2. ASSUME UNCHANGED <<active_pam_transaction_id, active_transaction_id>>,
             UNCHANGED command, Live' = Live
      PROVE  Agreed'
  BY <1>2 DEF Agreed
<1>3. CASE Aside
  BY <1>2, <1>3, AsideKeeps DEF dialogue, Live
<1>4. CASE EnterKey \/ ClearAuthWrong
  <2>1. CASE NoControllerCall /\ UNCHANGED dialogue
    BY <1>2, <2>1 DEF NoControllerCall, dialogue, Live
  <2>2. CASE PromptAnswered
    BY <1>2, <2>2 DEF PromptAnswered, SubmitAnswer, Live
  <2>3. CASE AttemptBegun
    BY <1>1, <2>3 DEF AttemptBegun, StartAuth, Agreed
  <2> QED BY <1>4, <2>1, <2>2, <2>3, EnterOrTimer DEF InputKept
<1>5. CASE EscapeKey
  <2>1. CASE NoControllerCall /\ UNCHANGED dialogue
    BY <1>2, <2>1 DEF NoControllerCall, dialogue, Live
  <2>2. CASE /\ active_pam_transaction_id # 0 /\ ClearDialogue
             /\ CancelAuth(active_pam_transaction_id)
    <3>1. /\ active_pam_transaction_id' = 0
          /\ UNCHANGED <<active_transaction_id, pc>>
          /\ active_pam_transaction_id = active_transaction_id
      BY <2>2 DEF ClearDialogue, CancelAuth, Agreed
    <3>2. Live' => cancellation_requested'
      <4>1. SUFFICES ASSUME Live' PROVE cancellation_requested'
        OBVIOUS
      <4>2. auth_requested' => auth_requested
        BY <2>2 DEF CancelAuth
      <4>3. auth_requested \/ (auth_in_progress /\ ~terminal_ack_pending)
        BY <1>1, <3>1, <4>1, <4>2 DEF Live, Slot, RunsActiveTransaction
      <4> QED BY <2>2, <3>1, <4>3 DEF CancelAuth, TerminalAwaits
    <3> QED BY <3>1, <3>2 DEF Agreed
  <2> QED BY <1>5, <2>1, <2>2 DEF EscapeKey
<1>6. CASE HandlePamEvent
  <2> DEFINE e == Head(snapshot)
  <2>1. /\ e.type # "READY" /\ IsCurrent(e) => ~left_loop
        /\ \/ e.type # "READY" /\ IsCurrent(e) /\ HandleCurrent(e)
           \/ /\ UNCHANGED dialogue
              /\ e.type # "READY" => ~IsCurrent(e)
        /\ EventIsTerminal(e) => AckTerminal(e.transaction_id)
        /\ ~EventIsTerminal(e) => NoControllerCall
    BY <1>6, HandledEvent DEF HandlePamEvent, Acknowledge
  <2>2. EventIsTerminal(e) /\ IsCurrent(e) => ~Live
    BY <1>6, TerminalIsOver
  <2>3. EventIsTerminal(e) => e.type # "READY"
    BY DEF EventIsTerminal, TerminalTypes
  <2> HIDE DEF e
  <2>4. CASE ~EventIsTerminal(e)
    <3>1. UNCHANGED active_pam_transaction_id
      BY <2>1, <2>4 DEF HandleCurrent, EventIsTerminal, TerminalTypes, ShowStatus,
         ShowPrompt, dialogue
    <3> QED BY <1>2, <2>1, <2>4, <3>1 DEF NoControllerCall, Live
  <2>5. CASE EventIsTerminal(e) /\ IsCurrent(e)
    <3>1. active_pam_transaction_id' = 0
      BY <2>1, <2>3, <2>5 DEF HandleCurrent, EventIsTerminal, TerminalTypes,
         Unlock, ShowFailure, ShowCancelled, ShowFatal, ClearDialogue
    <3>2. ~Live'
      BY <2>1, <2>2, <2>5 DEF AckTerminal, Live
    <3> QED BY <3>1, <3>2 DEF Agreed
  <2>6. CASE EventIsTerminal(e) /\ ~IsCurrent(e)
    <3>1. /\ UNCHANGED <<active_pam_transaction_id, active_transaction_id>>
          /\ UNCHANGED <<auth_requested, cancellation_requested, pc>>
          /\ e.transaction_id # active_pam_transaction_id
      BY <2>1, <2>3, <2>6 DEF AckTerminal, dialogue, IsCurrent
    <3>2. CASE TerminalAwaits(e.transaction_id)
      <4>1. e.transaction_id = active_transaction_id /\ terminal_ack_pending
        BY <1>1, <3>2 DEF TerminalAwaits, Order
      <4>2. ~Live
        BY <1>1, <4>1, PlaceSets DEF Slot, SlotAgrees, Live
      <4> QED BY <3>1, <4>1, <4>2 DEF Agreed, Live
    <3>3. CASE ~TerminalAwaits(e.transaction_id)
      <4>1. UNCHANGED auth_in_progress
        BY <2>1, <2>6, <3>3 DEF AckTerminal
      <4> QED BY <3>1, <4>1 DEF Agreed, Live
    <3> QED BY <3>2, <3>3
  <2> QED BY <2>4, <2>5, <2>6
<1>7. CASE Behind
  <2>1. UNCHANGED <<dialogue, left_loop>>
    BY <1>7, BehindKeeps
  <2>2. CASE DrainStarts \/ DrainTakes \/ Cleanup \/ CleanedUp
    <3>1. UNCHANGED <<active_transaction_id, auth_requested, auth_in_progress,
                      cancellation_requested, pc>>
      BY <2>2 DEF DrainStarts, DrainTakes, Cleanup, CleanedUp, DrainPipe,
         TakeEvents, RequestShutdown, Join
    <3> QED BY <2>1, <3>1 DEF Agreed, Live, dialogue
  <2>3. CASE Finished \/ UNCHANGED lockVars
    BY <1>2, <2>1, <2>3 DEF Finished, lockVars, Live, dialogue
  <2>4. CASE Quiet
    <3>1. UNCHANGED ctrl /\ Live' = Live
      BY <1>1, <2>4, QuietFacts
    <3> QED BY <1>2, <2>1, <3>1 DEF dialogue
  <2>5. ASSUME NEW b, RequestLoop(b), pc \in {"start", "idle", "await_ack"},
               ~shutdown_requested => b = auth_in_progress
        PROVE  Agreed'
    <3>2. CASE LoopExit(b)
      BY <2>1, <2>5, <3>2, PlaceSets DEF LoopExit, RequestLoop, Agreed, Life,
         Live, dialogue
    <3>3. CASE LoopWait(b)
      BY <2>1, <2>5, <3>3, PlaceSets DEF LoopWait, RequestLoop, Agreed, Live,
         dialogue
    <3>4. CASE LoopPickUp
      BY <1>1, <2>1, <2>5, <3>4 DEF LoopPickUp, RequestLoop, Agreed, Live,
         Facts, dialogue
    <3> QED BY <2>5, <3>2, <3>3, <3>4 DEF RequestLoop
  <2>6. CASE WorkerStarts \/ WorkerIdle
    BY <2>5, <2>6 DEF WorkerStarts, WorkerIdle
  <2>7. CASE AwaitAck
    <3>1. CASE UNCHANGED <<ctrl, pc>>
      BY <1>2, <2>1, <3>1 DEF Live, dialogue
    <3>2. CASE /\ ~terminal_ack_pending \/ shutdown_requested
               /\ RequestLoop(auth_in_progress /\ shutdown_requested)
      <4> DEFINE b == auth_in_progress /\ shutdown_requested
      <4>1. pc = "await_ack"
        BY <2>7 DEF AwaitAck
      <4>2. ~shutdown_requested => b = auth_in_progress
        BY <1>1, <3>2, <4>1 DEF Slot, SlotAgrees, Typed, TypeOK, FlagTypeOK
      <4>3. RequestLoop(b)
        BY <3>2
      <4> HIDE DEF b
      <4> QED BY <2>5, <4>1, <4>2, <4>3
    <3> QED BY <2>7, <3>1, <3>2 DEF AwaitAck
  <2>8. CASE ConvStatus \/ ConvDeferred \/ AnswerTaken \/ AnswerAborted
    <3>1. /\ UNCHANGED <<active_transaction_id, command, locals, ui>>
          /\ pc \in {"conv", "await_answer"} /\ (NextMessage \/ ReturnFromConv)
      BY <2>8 DEF ConvStatus, ConvDeferred, AnswerTaken, AnswerAborted, ReplyOrFail
    <3>2. Live' = Live
      BY <1>1, <3>1, ConvGoesOn DEF Live
    <3> QED BY <1>2, <2>1, <3>1, <3>2 DEF dialogue
  <2>9. ASSUME NEW echo_on \in BOOLEAN, ConvPrompt(echo_on) PROVE Agreed'
    <3>1. /\ UNCHANGED <<active_transaction_id, command, locals, ui>>
          /\ pc = "conv" /\ (pc' = "await_answer" \/ ReturnFromConv)
      BY <2>9 DEF ConvPrompt
    <3>2. Live' = Live
      BY <1>1, <3>1, ConvGoesOn, PlaceSets DEF Live
    <3> QED BY <1>2, <2>1, <3>1, <3>2 DEF dialogue
  <2>10. CASE EndTransaction
    <3>1. ~auth_requested /\ auth_in_progress
      BY <1>1, <2>10 DEF EndTransaction, Slot, RunsActiveTransaction, Running
    <3>2. /\ ~cancellation_requested' /\ pc' \in {"exited", "await_ack"}
          /\ UNCHANGED <<active_transaction_id, auth_requested, auth_in_progress>>
      BY <2>10 DEF EndTransaction
    <3> QED BY <2>1, <3>1, <3>2, PlaceSets DEF Agreed, Live, dialogue
  <2> QED
    BY <1>7, <2>2, <2>3, <2>4, <2>6, <2>7, <2>8, <2>9, <2>10
    DEF Behind, WorkerThread, WorkerStep, Quiet
<1> QED BY <1>3, <1>4, <1>5, <1>6, <1>7, LockActions

LEMMA ShownStep ==
    ASSUME Controller, Life, Agreed, Shown, Asked, [LockNext]_lockVars
    PROVE  Shown'
<1>1. ASSUME UNCHANGED <<left_loop, dialogue, auth_state, pam_auth_fatal,
                         clear_auth_wrong_timeout>>
      PROVE  Shown'
  BY <1>1 DEF Shown, dialogue
<1>2. CASE Aside
  <2>1. CASE ~controller_started /\ auth_state' = "LOCK_FAILED"
    <3>1. /\ active_pam_transaction_id = 0 /\ ~pam_waiting_for_prompt
          /\ auth_state # "WRONG"
      BY <2>1 DEF Life
    <3> QED BY <1>2, <2>1, <3>1, AsideKeeps DEF Shown, dialogue
  <2> QED BY <1>1, <1>2, <2>1, AsideKeeps
<1>3. CASE EnterKey \/ ClearAuthWrong
  <2>1. /\ ~left_loop /\ UNCHANGED <<left_loop, pam_auth_fatal>>
        /\ active_pam_transaction_id # 0 <=>
               auth_state = "VERIFY" \/ pam_waiting_for_prompt
        /\ pam_auth_fatal => active_pam_transaction_id = 0
    BY <1>3, EnterOrTimer DEF LoopIdle, boot, Shown
  <2>2. CASE clear_auth_wrong_timeout' = "off" /\ InputKept
    BY <2>1, <2>2 DEF InputKept, Shown, dialogue
  <2>3. CASE clear_auth_wrong_timeout' = "off" /\ PromptAnswered
    BY <2>1, <2>3 DEF PromptAnswered, Shown
  <2>4. CASE clear_auth_wrong_timeout' = "off" /\ AttemptBegun
    <3>1. next_transaction_id # 0
      BY DEF Controller, IndInv, TypeOK, NumberTypeOK
    <3> QED BY <2>1, <2>4, <3>1 DEF AttemptBegun, Shown
  <2>5. CASE UNCHANGED <<dialogue, auth_state, clear_auth_wrong_timeout>>
    BY <1>1, <2>1, <2>5
  <2>6. CASE /\ UNCHANGED dialogue /\ clear_auth_wrong_timeout' = "off"
             /\ auth_state = "WRONG" /\ auth_state' = "IDLE"
    BY <2>1, <2>6 DEF Shown, dialogue
  <2> QED BY <1>3, <2>2, <2>3, <2>4, <2>5, <2>6, EnterOrTimer
<1>4. CASE EscapeKey
  <2>1. ~left_loop /\ UNCHANGED <<left_loop, pam_auth_fatal, clear_auth_wrong_timeout>>
    BY <1>4 DEF EscapeKey, LoopIdle, boot
  <2>2. CASE UNCHANGED <<dialogue, auth_state>>
    BY <1>1, <2>1, <2>2
  <2>3. CASE /\ active_pam_transaction_id # 0 /\ ClearDialogue
             /\ auth_state' = "IDLE"
    BY <2>1, <2>3 DEF ClearDialogue, Shown
  <2> QED BY <1>4, <2>2, <2>3 DEF EscapeKey
<1>5. CASE HandlePamEvent
  <2> DEFINE e == Head(snapshot)
  <2>1. /\ e.type # "READY" /\ IsCurrent(e) =>
              active_pam_transaction_id # 0 /\ ~left_loop
        /\ \/ e.type # "READY" /\ IsCurrent(e) /\ HandleCurrent(e)
           \/ UNCHANGED <<auth_state, dialogue, clear_auth_wrong_timeout,
                          pam_auth_fatal, left_loop>>
    BY <1>5, HandledEvent DEF HandlePamEvent
  <2> HIDE DEF e
  <2>2. CASE /\ active_pam_transaction_id # 0 /\ ~left_loop /\ HandleCurrent(e)
    <3>1. /\ ~pam_auth_fatal
          /\ auth_state # "WRONG" /\ clear_auth_wrong_timeout # "armed"
      BY <2>2 DEF Shown
    <3>2. CASE ShowStatus(e)
      BY <1>1, <3>2 DEF ShowStatus
    <3>3. CASE ShowPrompt(e)
      BY <2>2, <3>1, <3>3 DEF ShowPrompt, Shown
    <3>4. CASE Unlock
      BY <2>2, <3>1, <3>4 DEF Unlock, ClearDialogue, Shown
    <3>5. CASE ShowFailure(e)
      BY <3>5 DEF ShowFailure, AuthFailed, ClearDialogue, Shown
    <3>6. CASE ShowCancelled \/ ShowFatal(e)
      BY <2>2, <3>1, <3>6 DEF ShowCancelled, ShowFatal, ClearDialogue, Shown
    <3> QED BY <2>2, <3>2, <3>3, <3>4, <3>5, <3>6 DEF HandleCurrent
  <2> QED BY <1>1, <2>1, <2>2
<1>6. CASE Behind
  BY <1>1, <1>6, BehindKeeps
<1> QED BY <1>2, <1>3, <1>4, <1>5, <1>6, LockActions

LEMMA AskedStep ==
    ASSUME Controller, Life, Agreed, Shown, Asked, [LockNext]_lockVars
    PROVE  Asked'
<1>1. /\ Typed /\ Slot /\ Order /\ Facts /\ WaitingIsReal
      /\ active_transaction_id \in Nat /\ next_prompt_id \in Nat
  BY IndInvParts DEF Controller, Typed, TypeOK, NumberTypeOK
<1>2. ASSUME UNCHANGED <<exchange, dialogue>>, Sent' \subseteq Sent
      PROVE  Asked'
  BY <1>2 DEF Asked, dialogue
<1>3. ASSUME active_pam_transaction_id' = 0, ~pam_waiting_for_prompt'
      PROVE  Asked'
  BY <1>3 DEF Asked
<1>4. CASE Aside
  BY <1>2, <1>4, AsideKeeps, SameSent
<1>5. CASE EnterKey \/ ClearAuthWrong
  <2>1. UNCHANGED ui /\ ~left_loop
    BY <1>5, EnterOrTimer DEF LoopIdle
  <2>2. CASE NoControllerCall /\ UNCHANGED dialogue
    BY <1>2, <2>1, <2>2, SameSent DEF NoControllerCall
  <2>3. CASE PromptAnswered
    <3>1. /\ Sent' = Sent /\ active_pam_transaction_id # 0
          /\ UNCHANGED active_pam_transaction_id /\ ~pam_waiting_for_prompt'
          /\ pam_waiting_for_prompt
      BY <2>1, <2>3, SameSent DEF PromptAnswered, SubmitAnswer, Shown
    <3> QED BY <3>1 DEF Asked
  <2>4. CASE AttemptBegun
    <3>1. /\ Sent' = Sent /\ ~pam_waiting_for_prompt'
          /\ active_pam_transaction_id' = next_transaction_id
      BY <2>1, <2>4, SameSent DEF AttemptBegun, StartAuth
    <3>2. ASSUME NEW e \in Sent PROVE e.transaction_id # next_transaction_id
      <4>1. e \in Events /\ e.transaction_id <= active_transaction_id
        BY <1>1, <3>2, SentKnown
      <4>2. e.transaction_id \in Nat
        BY <4>1 DEF Events
      <4> QED BY <1>1, <4>1, <4>2 DEF Order
    <3> QED BY <3>1, <3>2 DEF Asked
  <2> QED BY <1>5, <2>2, <2>3, <2>4, EnterOrTimer DEF InputKept
<1>6. CASE EscapeKey
  <2>1. CASE NoControllerCall /\ UNCHANGED dialogue
    BY <1>2, <1>6, <2>1, SameSent DEF EscapeKey, NoControllerCall
  <2>2. CASE ClearDialogue
    BY <1>3, <2>2 DEF ClearDialogue
  <2> QED BY <1>6, <2>1, <2>2 DEF EscapeKey
<1>7. CASE HandlePamEvent
  <2> DEFINE e == Head(snapshot)
  <2>1. /\ EventHandled /\ UNCHANGED events /\ e \in Sent
        /\ e.type # "READY" /\ IsCurrent(e) =>
              active_pam_transaction_id # 0 /\ ~left_loop
    BY <1>7, HandledEvent
  <2>2. /\ \/ e.type # "READY" /\ IsCurrent(e) /\ HandleCurrent(e)
           \/ UNCHANGED dialogue
        /\ UNCHANGED exchange
    BY <1>7 DEF HandlePamEvent, Acknowledge, AckTerminal, NoControllerCall
  <2>3. Sent = Sent' \cup {e} /\ \A f \in Sent' : Before(e, f)
    BY <1>1, <2>1, HandleSent
  <2> HIDE DEF e
  <2>4. CASE e.type = "PROMPT" /\ IsCurrent(e) /\ ShowPrompt(e)
    <3>1. /\ waiting_for_answer /\ ~answer_submitted
          /\ waiting_prompt_id = e.prompt_id /\ waiting_prompt_id \in Nat
      BY <1>1, <2>1, <2>4 DEF Asked, IsCurrent, Typed, TypeOK, NumberTypeOK
    <3>2. ASSUME NEW f \in Sent', f.type = "PROMPT",
                 f.transaction_id = active_pam_transaction_id
          PROVE  FALSE
      <4>1. f \in Sent /\ e.prompt_id < f.prompt_id
        BY <2>3, <2>4, <3>2 DEF Before
      <4>2. waiting_prompt_id = f.prompt_id
        BY <2>1, <2>4, <3>2, <4>1 DEF Asked
      <4> QED BY <3>1, <4>1, <4>2
    <3> QED BY <2>2, <2>4, <3>1, <3>2 DEF ShowPrompt, Asked
  <2>5. CASE ShowStatus(e) \/ UNCHANGED dialogue
    BY <1>2, <2>2, <2>3, <2>5 DEF ShowStatus
  <2>6. CASE Unlock \/ ShowFailure(e) \/ ShowCancelled \/ ShowFatal(e)
    BY <1>3, <2>6 DEF Unlock, ShowFailure, ShowCancelled, ShowFatal, ClearDialogue
  <2> QED BY <2>2, <2>4, <2>5, <2>6 DEF HandleCurrent
<1>8. CASE Behind
  <2>1. UNCHANGED dialogue
    BY <1>8, BehindKeeps
  <2>2. CASE DrainStarts \/ Cleanup \/ Finished \/ UNCHANGED lockVars
    <3>1. UNCHANGED <<exchange, events, snapshot>>
      BY <2>2 DEF DrainStarts, DrainPipe, Cleanup, RequestShutdown, Finished,
         lockVars
    <3> QED BY <1>2, <2>1, <3>1, SameSent
  <2>3. CASE DrainTakes
    <3>1. UNCHANGED exchange /\ Sent' = Sent
      BY <1>1, <2>3, TakeSent DEF DrainTakes, TakeEvents
    <3> QED BY <1>2, <2>1, <3>1
  <2>4. CASE CleanedUp
    <3>1. UNCHANGED exchange /\ Sent' = {}
      BY <1>1, <2>4, JoinSent DEF CleanedUp, Join
    <3> QED BY <1>2, <2>1, <3>1
  <2>5. CASE Quiet
    <3>1. UNCHANGED ctrl /\ Sent' = Sent
      BY <1>1, <2>5, QuietFacts
    <3> QED BY <1>2, <2>1, <3>1
  <2>6. ASSUME ~waiting_for_answer, NEW e, Sent' \subseteq Sent \cup {e},
               e.type # "PROMPT"
        PROVE  Asked'
    BY <2>1, <2>6 DEF Asked, dialogue
  <2>7. CASE WorkerStarts
    <3> DEFINE e == Event("READY", 0, 0, FALSE, FALSE)
    <3>1. e \in Events /\ e.type = "READY"
      BY EventType, EventTypesAre DEF Event
    <3>2. PostEvent(e) /\ UNCHANGED snapshot /\ pc = "start"
      BY <2>7 DEF WorkerStarts, RequestLoop
    <3> HIDE DEF e
    <3>3. Sent' \subseteq Sent \cup {e}
      BY <1>1, <3>1, <3>2, PostSent
    <3> QED BY <1>1, <2>6, <3>1, <3>2, <3>3 DEF WaitingIsReal
  <2>8. CASE WorkerIdle \/ AwaitAck \/ ConvDeferred
    <3> DEFINE e == Event("READY", 0, 0, FALSE, FALSE)
    <3>1. e.type = "READY"
      BY DEF Event
    <3>2. UNCHANGED <<events, snapshot>> /\ pc # "await_answer"
      BY <2>8 DEF WorkerIdle, AwaitAck, RequestLoop, ConvDeferred
    <3> HIDE DEF e
    <3> QED BY <1>1, <2>6, <3>1, <3>2, SameSent DEF WaitingIsReal
  <2>9. CASE ConvStatus
    <3> DEFINE e == Event("STATUS", active_transaction_id, 0, FALSE, FALSE)
    <3>1. e \in Events /\ e.type = "STATUS"
      BY <1>1, EventType, EventTypesAre DEF Event
    <3>2. PostEvent(e) /\ UNCHANGED snapshot /\ pc = "conv"
      BY <2>9 DEF ConvStatus
    <3> HIDE DEF e
    <3>3. Sent' \subseteq Sent \cup {e}
      BY <1>1, <3>1, <3>2, PostSent
    <3> QED BY <1>1, <2>6, <3>1, <3>2, <3>3 DEF WaitingIsReal
  <2>10. ASSUME NEW echo_on \in BOOLEAN, ConvPrompt(echo_on) PROVE Asked'
    <3> DEFINE e == Event("PROMPT", active_transaction_id, next_prompt_id,
                          echo_on, FALSE)
    <3>1. /\ e \in Events /\ e.type = "PROMPT"
          /\ e.transaction_id = active_transaction_id
          /\ e.prompt_id = next_prompt_id
      BY <1>1, EventType, EventTypesAre DEF Event
    <3>2. /\ PostEvent(e) /\ UNCHANGED snapshot /\ pc = "conv"
          /\ \/ /\ waiting_for_answer' /\ ~answer_submitted'
                /\ waiting_prompt_id' = next_prompt_id
             \/ ~Fits(events, e)
      BY <2>10 DEF ConvPrompt
    <3>3. ~waiting_for_answer
      BY <1>1, <3>2 DEF WaitingIsReal
    <3> HIDE DEF e
    <3>4. CASE Fits(events, e)
      <4>1. Sent' \subseteq Sent \cup {e}
        BY <1>1, <3>1, <3>2, PostSent
      <4> QED BY <2>1, <3>1, <3>2, <3>3, <3>4, <4>1 DEF Asked, dialogue
    <3>5. CASE ~Fits(events, e)
      <4>1. events' = events
        BY <1>1, <3>1, <3>2, <3>5, EnqueueThinned
        DEF PostEvent, Typed, TypeOK, QueueTypeOK
      <4>2. Sent' = Sent
        BY <3>2, <4>1, SameSent
      <4> QED BY <2>1, <3>3, <4>2 DEF Asked, dialogue
    <3> QED BY <3>4, <3>5
  <2>11. CASE AnswerTaken \/ AnswerAborted
    <3>1. /\ UNCHANGED <<events, snapshot>>
          /\ answer_submitted \/ Stopping
      BY <2>11 DEF AnswerTaken, AnswerAborted
    <3>2. CASE answer_submitted
      BY <2>1, <3>1, <3>2, SameSent DEF Asked, dialogue
    <3>3. CASE Stopping
      <4>1. active_pam_transaction_id = 0 /\ ~pam_waiting_for_prompt
        BY <3>3 DEF Stopping, Agreed, Life, Shown
      <4> QED BY <1>3, <2>1, <4>1 DEF dialogue
    <3> QED BY <3>1, <3>2, <3>3
  <2>12. CASE EndTransaction
    <3> DEFINE e == TerminalEvent
    <3>1. Outcome \in {"SUCCESS", "FAILURE", "CANCELLED", "FATAL"}
      BY DEF Outcome
    <3>2. txn \in Nat /\ Outcome \in EventTypes
      BY <1>1, <3>1, EventTypesAre DEF Typed, TypeOK, ThreadTypeOK
    <3>3. e \in Events
      BY <3>2, EventType DEF TerminalEvent
    <3>4. e.type # "PROMPT"
      BY <3>1 DEF TerminalEvent, Event
    <3>5. PostEvent(e) /\ UNCHANGED snapshot /\ pc = "pam_end"
      BY <2>12 DEF EndTransaction
    <3> HIDE DEF e
    <3>6. Sent' \subseteq Sent \cup {e}
      BY <1>1, <3>3, <3>5, PostSent
    <3> QED BY <1>1, <2>6, <3>4, <3>5, <3>6 DEF WaitingIsReal
  <2> QED
    BY <1>8, <2>2, <2>3, <2>4, <2>5, <2>7, <2>8, <2>9, <2>10, <2>11, <2>12
    DEF Behind, WorkerThread, WorkerStep, Quiet
<1> QED BY <1>4, <1>5, <1>6, <1>7, <1>8, LockActions

LEMMA OnItsWayStep ==
    ASSUME Controller, Life, Agreed, Shown, Asked, OnItsWay, [LockNext]_lockVars
    PROVE  OnItsWay'
<1> SUFFICES ASSUME pc' = "await_answer", ~answer_submitted', ~Stopping'
             PROVE  \/ /\ pam_waiting_for_prompt'
                       /\ active_pam_prompt_id' = waiting_prompt_id'
                    \/ \E e \in Sent' :
                          /\ e.type = "PROMPT"
                          /\ e.prompt_id = waiting_prompt_id'
                          /\ e.transaction_id = active_pam_transaction_id'
  BY DEF OnItsWay
<1>1. /\ Typed /\ Threads /\ Slot /\ Order /\ Facts /\ WaitingIsReal
      /\ active_transaction_id \in Nat /\ next_prompt_id \in Nat
  BY IndInvParts
  DEF Controller, Typed, TypeOK, NumberTypeOK, Threads
<1>2. CASE /\ pc = "await_answer" /\ UNCHANGED <<exchange, dialogue>>
           /\ ~Stopping /\ Sent' = Sent
  BY <1>2 DEF OnItsWay, dialogue
<1>3. CASE Aside
  BY <1>2, <1>3, AsideKeeps, SameSent DEF Stopping
<1>4. CASE EnterKey \/ ClearAuthWrong
  <2>1. UNCHANGED ui
    BY <1>4, EnterOrTimer
  <2>2. CASE NoControllerCall /\ UNCHANGED dialogue
    BY <1>2, <2>1, <2>2, SameSent DEF NoControllerCall, Stopping
  <2>3. CASE PromptAnswered
    BY <2>3 DEF PromptAnswered, SubmitAnswer
  <2>4. CASE AttemptBegun
    BY <1>1, <2>4, PlaceSets DEF AttemptBegun, StartAuth, StartAuthAccepted,
       Slot, RunsActiveTransaction
  <2> QED BY <1>4, <2>2, <2>3, <2>4, EnterOrTimer DEF InputKept
<1>5. CASE EscapeKey
  <2>1. CASE NoControllerCall /\ UNCHANGED dialogue
    BY <1>2, <1>5, <2>1, SameSent DEF EscapeKey, NoControllerCall, Stopping
  <2>2. CASE /\ active_pam_transaction_id # 0
             /\ CancelAuth(active_pam_transaction_id)
    <3>1. pc = "await_answer" /\ auth_in_progress /\ ~terminal_ack_pending
      BY <1>1, <2>2, PlaceSets DEF CancelAuth, Slot, RunsActiveTransaction
    <3>2. active_pam_transaction_id = active_transaction_id
      BY <2>2 DEF Agreed
    <3>3. cancellation_requested'
      BY <2>2, <3>1, <3>2 DEF CancelAuth, TerminalAwaits
    <3> QED BY <3>3 DEF Stopping
  <2> QED BY <1>5, <2>1, <2>2 DEF EscapeKey
<1>6. CASE HandlePamEvent
  <2> DEFINE e == Head(snapshot)
  <2>1. /\ EventHandled /\ UNCHANGED events /\ e \in Sent
        /\ e.type # "READY" /\ IsCurrent(e) =>
              active_pam_transaction_id # 0 /\ ~left_loop
    BY <1>6, HandledEvent
  <2>2. /\ \/ e.type # "READY" /\ IsCurrent(e) /\ HandleCurrent(e)
           \/ UNCHANGED dialogue /\ ~(e.type # "READY" /\ IsCurrent(e))
        /\ UNCHANGED <<exchange, pc, shutdown_requested, cancellation_requested>>
    BY <1>6 DEF HandlePamEvent, Acknowledge, AckTerminal, NoControllerCall
  <2>3. Sent = Sent' \cup {e}
    BY <1>1, <2>1, HandleSent
  <2>4. Live /\ ~(EventIsTerminal(e) /\ IsCurrent(e))
    BY <1>6, <2>2, TerminalIsOver, PlaceSets DEF Live
  <2>5. \/ pam_waiting_for_prompt /\ active_pam_prompt_id = waiting_prompt_id
        \/ \E f \in Sent :
              /\ f.type = "PROMPT"
              /\ f.prompt_id = waiting_prompt_id
              /\ f.transaction_id = active_pam_transaction_id
    BY <2>2 DEF OnItsWay, Stopping
  <2> HIDE DEF e
  <2>6. CASE e.type = "PROMPT" /\ IsCurrent(e)
    <3>1. ShowPrompt(e)
      BY <2>2, <2>6 DEF HandleCurrent
    <3>2. waiting_prompt_id = e.prompt_id
      BY <2>1, <2>6 DEF Asked, IsCurrent
    <3> QED BY <2>2, <3>1, <3>2 DEF ShowPrompt
  <2>7. CASE ~(e.type = "PROMPT" /\ IsCurrent(e))
    <3>1. UNCHANGED dialogue
      <4>1. EventIsTerminal(e) <=> e.type \in {"SUCCESS", "FAILURE", "CANCELLED", "FATAL"}
        BY DEF EventIsTerminal, TerminalTypes
      <4> QED BY <2>2, <2>4, <2>7, <4>1 DEF HandleCurrent, ShowStatus
    <3>2. CASE pam_waiting_for_prompt /\ active_pam_prompt_id = waiting_prompt_id
      BY <2>2, <3>1, <3>2 DEF dialogue
    <3>3. ASSUME NEW f \in Sent, f.type = "PROMPT",
                 f.prompt_id = waiting_prompt_id,
                 f.transaction_id = active_pam_transaction_id
          PROVE  f \in Sent'
      BY <2>3, <2>7, <3>3 DEF IsCurrent
    <3> QED BY <2>2, <2>5, <3>1, <3>2, <3>3 DEF dialogue
  <2> QED BY <2>6, <2>7
<1>7. CASE Behind
  <2>1. UNCHANGED dialogue
    BY <1>7, BehindKeeps
  <2>2. CASE DrainStarts \/ DrainTakes \/ Finished \/ UNCHANGED lockVars
    <3>1. /\ UNCHANGED <<exchange, pc, command>>
          /\ UNCHANGED <<events, snapshot>> \/ TakeEvents
      BY <2>2 DEF DrainStarts, DrainPipe, DrainTakes, TakeEvents, Finished,
         lockVars
    <3>2. Sent' = Sent
      BY <1>1, <3>1, SameSent, TakeSent
    <3> QED BY <1>2, <2>1, <3>1, <3>2 DEF Stopping
  <2>3. CASE Cleanup \/ CleanedUp
    <3>1. shutdown_requested'
      BY <1>1, <2>3 DEF Cleanup, RequestShutdown, CleanedUp, Join, Order
    <3> QED BY <3>1 DEF Stopping
  <2>4. CASE Quiet
    <3>1. UNCHANGED ctrl /\ Sent' = Sent /\ pc = "await_answer"
      BY <1>1, <2>4, QuietFacts
    <3> QED BY <1>2, <2>1, <3>1 DEF Stopping
  <2>5. CASE WorkerStarts \/ WorkerIdle \/ AwaitAck \/ EndTransaction
    BY <1>2, <2>1, <2>5, SameSent DEF WorkerStarts, WorkerIdle, AwaitAck,
       RequestLoop, LoopExit, LoopWait, LoopPickUp, EndTransaction
  <2>6. ASSUME pc \in {"conv", "await_answer"}, NextMessage \/ ReturnFromConv,
               UNCHANGED <<locals, ui>>
        PROVE  FALSE
    BY <1>1, <2>6, NextMessageThreads, PlaceSets
  <2>7. CASE ConvStatus \/ ConvDeferred \/ AnswerTaken \/ AnswerAborted
    BY <2>6, <2>7 DEF ConvStatus, ConvDeferred, AnswerTaken, AnswerAborted,
       ReplyOrFail
  <2>8. ASSUME NEW echo_on \in BOOLEAN, ConvPrompt(echo_on)
        PROVE  \E e \in Sent' :
                  /\ e.type = "PROMPT"
                  /\ e.prompt_id = waiting_prompt_id'
                  /\ e.transaction_id = active_pam_transaction_id'
    <3> DEFINE e == Event("PROMPT", active_transaction_id, next_prompt_id,
                          echo_on, FALSE)
    <3>1. /\ e \in Events /\ e.type = "PROMPT"
          /\ e.transaction_id = active_transaction_id
          /\ e.prompt_id = next_prompt_id
      BY <1>1, EventType, EventTypesAre DEF Event
    <3>2. /\ pc = "conv" /\ ~Stopping /\ PostEvent(e)
          /\ \/ Fits(events, e) /\ waiting_prompt_id' = next_prompt_id
             \/ ReturnFromConv
          /\ UNCHANGED <<locals, ui>>
      BY <2>8 DEF ConvPrompt
    <3> HIDE DEF e
    <3>3. Fits(events, e) /\ waiting_prompt_id' = next_prompt_id
      BY <2>6, <3>2
    <3>4. e \in Sent'
      BY <1>1, <3>1, <3>2, <3>3, PostSent
    <3>5. active_pam_transaction_id' = active_transaction_id
      BY <2>1, <3>2, PlaceSets DEF Agreed, Live, Stopping, dialogue
    <3> QED BY <3>1, <3>3, <3>4, <3>5
  <2> QED
    BY <1>7, <2>2, <2>3, <2>4, <2>5, <2>7, <2>8
    DEF Behind, WorkerThread, WorkerStep, Quiet
<1> QED BY <1>3, <1>4, <1>5, <1>6, <1>7, LockActions

LEMMA PanelStep ==
    ASSUME Controller, Life, Agreed, Shown, Asked, PanelIsCurrent,
           [LockNext]_lockVars
    PROVE  PanelIsCurrent'
<1>1. ASSUME UNCHANGED <<dialogue, display, pam_auth_fatal>>,
             auth_state = "WRONG" => auth_state' = "WRONG"
      PROVE  PanelIsCurrent'
  BY <1>1 DEF PanelIsCurrent, dialogue, display
<1>2. CASE Aside
  <2>1. ~controller_started => auth_state # "WRONG"
    BY DEF Life
  <2> QED BY <1>1, <1>2, <2>1, AsideKeeps
<1>3. CASE EnterKey \/ ClearAuthWrong
  <2>1. /\ LoopIdle /\ UNCHANGED <<pam_auth_fatal, left_loop>>
    BY <1>3, EnterOrTimer DEF boot
  <2>2. ASSUME NEW state, NEW status, NEW expires,
               InputDone(state, status, expires), state # "WRONG",
               state = auth_state \/ (state = "IDLE" /\ auth_state = "WRONG"),
               status # 0 => \/ status = active_pam_transaction_id
                             \/ pam_auth_fatal
        PROVE  PanelIsCurrent'
    <3>1. \/ InputKept /\ UNCHANGED prompt_text /\ status_text' = status
          \/ PromptAnswered /\ prompt_text' = 0 /\ status_text' = status
          \/ AttemptBegun /\ ClearPamDisplayText
      BY <2>1, <2>2, InputDoneOutcome
    <3>2. CASE AttemptBegun /\ ClearPamDisplayText
      BY <2>1, <3>2 DEF AttemptBegun, ClearPamDisplayText, PanelIsCurrent
    <3>3. CASE PromptAnswered /\ prompt_text' = 0 /\ status_text' = status
      BY <2>1, <2>2, <3>3 DEF PromptAnswered, PanelIsCurrent
    <3>4. CASE InputKept /\ UNCHANGED prompt_text /\ status_text' = status
      BY <2>1, <2>2, <3>4 DEF InputKept, PanelIsCurrent, dialogue
    <3> QED BY <3>1, <3>2, <3>3, <3>4
  <2>3. CASE EnterKey
    <3>1. CASE /\ auth_state # "WRONG"
               /\ InputDone(auth_state, status_text,
                            pam_status_expires_with_auth_wrong)
      BY <2>2, <3>1 DEF PanelIsCurrent
    <3>2. CASE UNCHANGED <<auth_state, dialogue, display>>
      BY <1>1, <2>1, <3>2
    <3> QED BY <2>3, <3>1, <3>2 DEF EnterKey
  <2>4. CASE ClearAuthWrong
    <3> DEFINE status == IF pam_status_expires_with_auth_wrong THEN 0
                         ELSE status_text
    <3>1. /\ auth_state = "WRONG"
          /\ status # 0 => \/ status = active_pam_transaction_id
                           \/ pam_auth_fatal
      BY <2>4 DEF ClearAuthWrong, Shown, PanelIsCurrent
    <3>2. CASE InputDone("IDLE", status, FALSE)
      BY <2>2, <3>1, <3>2
    <3>3. CASE /\ UNCHANGED dialogue
               /\ IF pam_status_expires_with_auth_wrong THEN ClearPamDisplayText
                  ELSE UNCHANGED display
      <4>1. ~pam_waiting_for_prompt /\ ~pam_waiting_for_prompt'
        BY <3>1, <3>3 DEF Shown, dialogue
      <4> QED BY <2>1, <3>1, <3>3, <4>1 DEF ClearPamDisplayText, PanelIsCurrent,
            dialogue, display
    <3> QED BY <2>4, <3>2, <3>3 DEF ClearAuthWrong
  <2> QED BY <1>3, <2>3, <2>4
<1>4. CASE EscapeKey
  <2>1. CASE UNCHANGED <<dialogue, display, auth_state>>
    BY <1>1, <1>4, <2>1 DEF EscapeKey, boot
  <2>2. CASE ClearDialogue /\ ClearPamDisplayText
    BY <2>2 DEF ClearDialogue, ClearPamDisplayText, PanelIsCurrent
  <2> QED BY <1>4, <2>1, <2>2 DEF EscapeKey
<1>5. CASE HandlePamEvent
  <2> DEFINE e == Head(snapshot)
  <2>1. /\ e \in Sent
        /\ e.type # "READY" /\ IsCurrent(e) =>
              active_pam_transaction_id # 0 /\ ~left_loop
        /\ \/ e.type # "READY" /\ IsCurrent(e) /\ HandleCurrent(e)
           \/ UNCHANGED <<auth_state, dialogue, display, pam_auth_fatal>>
    BY <1>5, HandledEvent DEF HandlePamEvent
  <2> HIDE DEF e
  <2>2. CASE UNCHANGED <<auth_state, dialogue, display, pam_auth_fatal>>
    BY <1>1, <2>2
  <2>3. CASE IsCurrent(e) /\ ShowStatus(e)
    BY <2>3 DEF ShowStatus, IsCurrent, PanelIsCurrent, dialogue
  <2>4. CASE /\ e.type = "PROMPT" /\ IsCurrent(e) /\ ShowPrompt(e)
             /\ active_pam_transaction_id # 0 /\ ~left_loop
    <3>1. e.prompt_id = waiting_prompt_id /\ waiting_for_answer
      BY <2>1, <2>4 DEF Asked, IsCurrent
    <3>2. waiting_prompt_id # 0
      BY <3>1, IndInvParts DEF Controller, WaitingIsReal
    <3>3. auth_state # "WRONG"
      BY <2>4 DEF Shown
    <3> QED BY <2>4, <3>1, <3>2, <3>3 DEF ShowPrompt, PanelIsCurrent
  <2>5. CASE Unlock \/ ShowCancelled
    BY <2>5 DEF Unlock, ShowCancelled, ClearDialogue, ClearPamDisplayText,
       PanelIsCurrent
  <2>6. CASE ShowFailure(e)
    BY <2>6 DEF ShowFailure, AuthFailed, ClearDialogue, PanelIsCurrent
  <2>7. CASE ShowFatal(e)
    BY <2>7 DEF ShowFatal, ClearDialogue, PanelIsCurrent
  <2> QED BY <2>1, <2>2, <2>3, <2>4, <2>5, <2>6, <2>7 DEF HandleCurrent
<1>6. CASE Behind
  BY <1>1, <1>6, BehindKeeps
<1> QED BY <1>2, <1>3, <1>4, <1>5, <1>6, LockActions

LEMMA LockInitially == LockInit => Controller /\ LockInv
<1> SUFFICES ASSUME LockInit PROVE Controller /\ LockInv
  OBVIOUS
<1>1. Init /\ Controller
  BY ControllerInit DEF LockInit
<1>2. Undelivered = << >>
  BY <1>1 DEF Init, Undelivered
<1>3. Sent = {}
  BY <1>2 DEF Sent, ToSet
<1>4. ~Live /\ pc = "start" /\ main = "loop" /\ ~shutdown_requested
  BY <1>1, PlaceSets DEF Init, Live
<1> QED BY <1>1, <1>3, <1>4 DEF LockInit, LockInv, Life, Agreed, Shown, Asked,
      OnItsWay, PanelIsCurrent

LEMMA LockStep ==
    Controller /\ LockInv /\ [LockNext]_lockVars =>
        /\ (Controller /\ LockInv)'
        /\ [Next]_vars
<1> SUFFICES ASSUME Controller, LockInv, [LockNext]_lockVars
             PROVE  (Controller /\ LockInv)' /\ [Next]_vars
  OBVIOUS
<1>1. Life /\ Agreed /\ Shown /\ Asked /\ OnItsWay /\ PanelIsCurrent
  BY DEF LockInv
<1>2. [Next]_vars
  BY <1>1, KeepsContract
<1>3. Controller'
  BY <1>2, ControllerStep
<1>4. Life' /\ Agreed' /\ Shown' /\ Asked' /\ OnItsWay' /\ PanelIsCurrent'
  BY <1>1, LifeStep, AgreedStep, ShownStep, AskedStep, OnItsWayStep, PanelStep
<1> QED BY <1>2, <1>3, <1>4 DEF LockInv

\* The inductive invariant holds of the lock screen and its controller.
THEOREM LockInductive == LockSpec => [](Controller /\ LockInv)
<1> HIDE DEF vars, ctrl, worker, ui
<1> QED BY LockInitially, LockStep, PTL DEF LockSpec

-----------------------------------------------------------------------------
(* The properties *)

\* The lock screen is a client that keeps the controller's contract: i3lock.c
\* calls pam_controller.c only as pam_controller.h allows.
THEOREM LockKeepsContract == LockSpec => ControllerContract
<1>1. LockInit => Init
  BY DEF LockInit
<1> HIDE DEF vars, ctrl, worker, ui
<1> QED BY <1>1, LockStep, LockInductive, PTL
    DEF LockSpec, ControllerContract, Spec

\* So the controller keeps its promise to the program.
COROLLARY LockIsPromised == LockSpec => KeepsItsPromise
BY LockKeepsContract, KeepsPromise DEF ControllerContract

\* An answer that the user gives to the prompt on the screen is accepted.
THEOREM AnswersAreAccepted == LockSpec => []AnswerNeverRefused
<1>1. LockInv => AnswerNeverRefused
  BY Accepted DEF LockInv, AnswerNeverRefused
<1> QED BY <1>1, LockInductive, PTL

\* The dialogue on the screen is that of the transaction in the slot.
THEOREM DialogueIsControllers == LockSpec => []DialogueMatchesController
<1>1. LockInv => DialogueMatchesController
  BY DEF LockInv, DialogueMatchesController, Agreed, Shown
<1> QED BY <1>1, LockInductive, PTL

\* A prompt that the worker waits at is on the screen or on its way to it.
THEOREM PromptsReachUser == LockSpec => []PromptReachesUser
<1>1. Controller /\ LockInv => PromptReachesUser
  <2> SUFFICES ASSUME Controller, LockInv PROVE PromptReachesUser
    OBVIOUS
  <2>1. Sent = {Undelivered[i] : i \in DOMAIN Undelivered}
    BY DEF Sent, ToSet
  <2> QED BY <2>1 DEF LockInv, OnItsWay, PromptReachesUser
<1> QED BY <1>1, LockInductive, PTL

\* The panel shows no text that is out of date.
THEOREM PanelStaysCurrent == LockSpec => []PanelIsCurrent
<1>1. LockInv => PanelIsCurrent
  BY DEF LockInv
<1> QED BY <1>1, LockInductive, PTL

\* The screen unlocks only by the success of the current transaction.
THEOREM OnlySuccessUnlocks == LockSpec => UnlocksByCurrentSuccess
<1> DEFINE Unlocks ==
        ~left_loop /\ left_loop' =>
            /\ ret = "SUCCESS" /\ pc = "await_ack"
            /\ active_pam_transaction_id = txn /\ txn = active_transaction_id
            /\ TerminalAwaits(txn)
<1>1. Controller /\ LockInv /\ [LockNext]_lockVars => [Unlocks]_lockVars
  <2> SUFFICES ASSUME Controller, LockInv, [LockNext]_lockVars,
                      ~left_loop, left_loop'
               PROVE  /\ ret = "SUCCESS" /\ pc = "await_ack"
                      /\ active_pam_transaction_id = txn
                      /\ txn = active_transaction_id
                      /\ TerminalAwaits(txn)
    BY DEF lockVars
  <2> DEFINE e == Head(snapshot)
  <2>1. Life /\ Agreed /\ Shown /\ Asked
    BY DEF LockInv
  <2>2. /\ Typed /\ Slot /\ Order /\ Facts
    BY IndInvParts DEF Controller
  <2>3. HandlePamEvent
    <3>1. CASE Aside
      BY <3>1, AsideKeeps
    <3>2. CASE EnterKey \/ ClearAuthWrong
      BY <2>1, <3>2, EnterOrTimer DEF boot
    <3>3. CASE EscapeKey
      BY <3>3 DEF EscapeKey, boot
    <3>4. CASE Behind
      BY <3>4, BehindKeeps
    <3> QED BY <3>1, <3>2, <3>3, <3>4, LockActions
  <2>4. /\ e \in Sent /\ main = "events"
        /\ e.type # "READY" /\ IsCurrent(e) => active_pam_transaction_id # 0
        /\ e.type # "READY" /\ IsCurrent(e) /\ HandleCurrent(e)
    BY <2>1, <2>3, HandledEvent DEF HandlePamEvent
  <2>5. e.type = "SUCCESS"
    BY <2>4 DEF HandleCurrent, ShowStatus, ShowPrompt, ShowFailure,
       ShowCancelled, ShowFatal
  <2>6. EventIsTerminal(e)
    BY <2>5 DEF EventIsTerminal, TerminalTypes
  <2>7. ~Live /\ auth_in_progress
        /\ active_pam_transaction_id = active_transaction_id
    BY <2>1, <2>3, <2>4, <2>6, TerminalIsOver DEF Agreed, Live
  <2>8. pc = "await_ack"
    BY <2>1, <2>2, <2>7 DEF Slot, SlotAgrees, Live, Facts, Life
  <2>9. /\ terminal_ack_pending /\ terminal_transaction_id = txn
        /\ terminal_transaction_id = active_transaction_id
    BY <2>2, <2>7, <2>8 DEF Slot, SlotAgrees, Order
  <2>10. ret = "SUCCESS"
    BY <2>2, <2>4, <2>5, <2>7 DEF Facts, IsCurrent
  <2> QED BY <2>7, <2>8, <2>9, <2>10 DEF TerminalAwaits
<1> HIDE DEF vars, ctrl, worker, ui
<1> QED BY <1>1, LockInductive, PTL DEF LockSpec, UnlocksByCurrentSuccess
=============================================================================

---------------------------- MODULE OutputsProofs ----------------------------
(***************************************************************************)
(* Proofs about Outputs: for every set of sizes and of rectangles, every    *)
(* number of CRTCs and of changes, a program at rest covers the screen and  *)
(* knows the outputs that are on.                                           *)
(***************************************************************************)
EXTENDS Outputs, FiniteSetTheorems, SequenceTheorems, TLAPS

Events == {"configure", "randr"}

Steps == {"randr_init", "randr_query", "crtcs", "main", "loop",
          "handle_screen_resize", "redraw"}

OutputsTypeOK ==
    /\ root \in Sizes /\ last_resolution \in Sizes
    /\ selected \subseteq Events /\ queue \in Seq(Events)
    /\ step \in Steps
    /\ after \in {"main", "handle_screen_resize", "redraw"}
    /\ left \subseteq 1..Crtcs
    /\ step = "crtcs" => extension # "xinerama"

\* Once it is open the window has the size the program knows.
WindowKnown ==
    step \in {"loop", "handle_screen_resize", "redraw"} \/ after # "main" =>
        window = last_resolution

Querying == step \in {"randr_query", "crtcs"}

\* A size the program does not know is announced, or about to be asked for.
SizeComes ==
    "size" \notin missing =>
        \/ last_resolution = root
        \/ queue # << >>
        \/ step = "handle_screen_resize"
        \/ Querying /\ after = "handle_screen_resize"

Waiting(event) == \E i \in 1..Len(queue) : queue[i] = event

\* Outputs the program does not know are announced, or being read: those asked
\* about and those to ask about together are what the server has.
OutputsCome ==
    extension # "xinerama" /\ step # "randr_init" =>
        /\ "randr" \in selected
        /\ "outputs" \notin missing =>
              \/ Waiting("randr")
              \/ step = "randr_query"
              \/ /\ step = "crtcs"
                 /\ found \cup {<<i, crtcs[i]>> : i \in left} = OnRects
              \/ ~Querying /\ xr_resolutions = OnRects

OutputsInv == OutputsTypeOK /\ WindowKnown /\ SizeComes /\ OutputsCome

USE DEF server, copies, control, vars

-----------------------------------------------------------------------------
(* The events of a change of the server *)

LEMMA QueueAppended ==
    ASSUME NEW q \in Seq(Events), NEW order \in Seq(Events)
    PROVE  /\ q \o order \in Seq(Events)
           /\ \A i \in 1..Len(q) : i \in 1..Len(q \o order) /\ (q \o order)[i] = q[i]
           /\ \A i \in 1..Len(order) :
                 /\ Len(q) + i \in 1..Len(q \o order)
                 /\ (q \o order)[Len(q) + i] = order[i]
           /\ Len(q \o order) = Len(q) + Len(order)
OBVIOUS

\* Every event the server tells of is in the order it is told in.
LEMMA OrderIsComplete ==
    ASSUME NEW told, told \subseteq Events, NEW order \in SetToSeqs(told)
    PROVE  /\ order \in Seq(Events)
           /\ told # {} => Len(order) > 0
           /\ \A e \in told : \E i \in 1..Len(order) : order[i] = e
<1>1. Cardinality({}) = 0
  BY FS_EmptySet
<1>2. \A x : IsFiniteSet({x}) /\ Cardinality({x}) = 1
  BY FS_Singleton
<1>3. Cardinality(Events) = 2
  <2>1. Cardinality({"configure"} \cup {"randr"})
          = IF "randr" \in {"configure"} THEN Cardinality({"configure"})
            ELSE Cardinality({"configure"}) + 1
    <3>1. IsFiniteSet({"configure"})
      BY <1>2
    <3> QED BY <3>1, FS_AddElement
  <2>2. Cardinality({"configure"}) = 1
    BY <1>2
  <2>3. {"configure"} \cup {"randr"} = Events /\ "randr" \notin {"configure"}
    BY DEF Events
  <2> QED BY <2>1, <2>2, <2>3
<1>4. told = {} \/ (\E x : told = {x}) \/ told = Events
  BY DEF Events
<1>5. /\ Cardinality(told) \in Nat
      /\ told # {} => Cardinality(told) > 0
      /\ told = Events => Cardinality(told) = 2
      /\ (\E x : told = {x}) => Cardinality(told) = 1
  <2>1. ASSUME NEW x, told = {x} PROVE Cardinality(told) = 1
    BY <2>1, <1>2
  <2>2. told = Events => Cardinality(told) = 2
    BY <1>3
  <2>3. told = {} => Cardinality(told) = 0
    BY <1>1
  <2> QED BY <1>4, <2>1, <2>2, <2>3
<1>6. /\ order \in [1..Cardinality(told) -> told]
      /\ \A i, j \in 1..Cardinality(told) : i # j => order[i] # order[j]
  BY DEF SetToSeqs
<1>7. order \in Seq(told) /\ Len(order) = Cardinality(told)
  BY <1>5, <1>6
<1>8. order \in Seq(Events)
  BY <1>6, <1>7, <1>5
<1>9. told # {} => Len(order) > 0
  BY <1>5, <1>7
<1>10. \A e \in told : \E i \in 1..Len(order) : order[i] = e
  <2>1. CASE \E x : told = {x}
    <3>1. PICK x : told = {x}
      BY <2>1
    <3>2. Cardinality(told) = 1
      BY <2>1, <1>5
    <3>3. order[1] \in told /\ 1 \in 1..Len(order)
      BY <3>2, <1>6, <1>7
    <3> QED BY <3>1, <3>3
  <2>2. CASE told = Events
    <3>1. order[1] \in Events /\ order[2] \in Events /\ order[1] # order[2]
      BY <2>2, <1>5, <1>6
    <3> QED BY <3>1, <2>2, <1>5, <1>7 DEF Events
  <2> QED BY <1>4, <2>1, <2>2
<1> QED BY <1>8, <1>9, <1>10

-----------------------------------------------------------------------------
(* The invariant is inductive *)

LEMMA InitHolds == Init => OutputsInv
BY OutputsAssumption
   DEF Init, OutputsInv, OutputsTypeOK, WindowKnown, SizeComes, OutputsCome,
       Events, Steps

\* What changes is either known already or is told.
LEMMA ServerStep ==
    ASSUME OutputsInv, ServerChanges
    PROVE  OutputsInv'
<1> DEFINE told == {e \in selected : e = "randr" \/ root' # root}
<1>1. PICK order \in SetToSeqs(told) : queue' = queue \o order
  BY DEF ServerChanges
<1>2. told \subseteq Events
  BY DEF OutputsInv, OutputsTypeOK
<1>3. /\ order \in Seq(Events)
      /\ told # {} => Len(order) > 0
      /\ \A e \in told : \E i \in 1..Len(order) : order[i] = e
  BY <1>2, OrderIsComplete
<1>4. queue \in Seq(Events)
  BY DEF OutputsInv, OutputsTypeOK
<1>5. /\ queue' \in Seq(Events)
      /\ queue # << >> \/ told # {} => queue' # << >>
  BY <1>1, <1>3, <1>4, QueueAppended
<1>6. "randr" \in selected => Waiting("randr")'
  <2>1. SUFFICES ASSUME "randr" \in selected PROVE Waiting("randr")'
    OBVIOUS
  <2>2. PICK i \in 1..Len(order) : order[i] = "randr"
    BY <2>1, <1>3
  <2>3. /\ Len(queue) + i \in 1..Len(queue \o order)
        /\ (queue \o order)[Len(queue) + i] = order[i]
    BY <1>3, <1>4, QueueAppended
  <2> QED BY <2>2, <2>3, <1>1 DEF Waiting
<1>7. OutputsTypeOK'
  BY <1>5 DEF ServerChanges, OutputsInv, OutputsTypeOK
<1>8. WindowKnown'
  BY DEF ServerChanges, OutputsInv, WindowKnown
<1>9. SizeComes'
  <2>1. missing' = IF root' # root /\ told = {}
                   THEN missing \cup {"size"} ELSE missing
    BY DEF ServerChanges
  <2>2. UNCHANGED <<last_resolution, step, after>>
    BY DEF ServerChanges
  <2> HIDE DEF told
  <2> QED BY <2>1, <2>2, <1>5 DEF OutputsInv, SizeComes, Querying
<1>10. OutputsCome'
  BY <1>6 DEF ServerChanges, OutputsInv, OutputsCome
<1> QED BY <1>7, <1>8, <1>9, <1>10 DEF OutputsInv

LEMMA StartSteps ==
    ASSUME OutputsInv, RandrInit \/ OpenWindow
    PROVE  OutputsInv'
<1>1. CASE RandrInit
  BY <1>1 DEF RandrInit, OutputsInv, OutputsTypeOK, WindowKnown, SizeComes,
              OutputsCome, Querying, Waiting, Events, Steps
<1>2. CASE OpenWindow
  <2>1. OutputsTypeOK' /\ WindowKnown' /\ SizeComes'
    BY <1>2 DEF OpenWindow, OutputsInv, OutputsTypeOK, WindowKnown, SizeComes,
                Querying, Events, Steps
  <2>2. OutputsCome'
    BY <1>2 DEF OpenWindow, OutputsInv, OutputsCome, Querying, Waiting, OnRects, On
  <2> QED BY <2>1, <2>2 DEF OutputsInv
<1> QED BY <1>1, <1>2

\* The end of a query that read what the server has, or that failed.
LEMMA QueriedStep ==
    ASSUME OutputsInv, NEW resolutions, NEW lost \in BOOLEAN, Queried(resolutions, lost),
           Querying,
           extension = "xinerama" \/ lost \/ resolutions = OnRects
               \/ ("randr" \in selected /\ Waiting("randr"))
    PROVE  OutputsInv'
<1>1. OutputsTypeOK' /\ WindowKnown'
  BY DEF Queried, OutputsInv, OutputsTypeOK, WindowKnown, Steps, Querying
<1>2. SizeComes'
  BY DEF Queried, OutputsInv, OutputsTypeOK, SizeComes, Querying
<1>3. OutputsCome'
  BY DEF Queried, OutputsInv, OutputsTypeOK, OutputsCome, Querying, Waiting, OnRects, On
<1> QED BY <1>1, <1>2, <1>3 DEF OutputsInv

LEMMA QuerySteps ==
    ASSUME OutputsInv, RandrQuery
    PROVE  OutputsInv'
<1>1. CASE Monitors15
  BY <1>1, QueriedStep DEF Monitors15, NoMemory, Querying
<1>2. CASE Resources14
  <2>1. step = "randr_query" /\ extension # "xinerama"
    BY <1>2 DEF Resources14
  <2>2. CASE NoMemory
    BY <2>1, <2>2, QueriedStep DEF NoMemory, Querying
  <2>3. CASE /\ step' = "crtcs" /\ left' = On /\ found' = {}
             /\ missing' = missing \ {"outputs"}
             /\ UNCHANGED <<server, queue, copies, after>>
    <3>1. OutputsTypeOK' /\ WindowKnown' /\ SizeComes'
      BY <2>1, <2>3 DEF OutputsInv, OutputsTypeOK, WindowKnown, SizeComes,
                        Querying, Steps, On
    <3>2. OnRects' = {<<i, crtcs'[i]>> : i \in left'} /\ OnRects' = OnRects
      BY <2>3 DEF OnRects, On
    <3>3. OutputsCome'
      BY <2>1, <2>3, <3>2 DEF OutputsInv, OutputsCome, Querying
    <3> QED BY <3>1, <3>3 DEF OutputsInv
  <2> QED BY <1>2, <2>2, <2>3 DEF Resources14
<1>3. CASE CrtcInfo
  <2>1. PICK i \in left :
           /\ \/ found' = found \cup {<<i, crtcs[i]>>} /\ UNCHANGED missing
              \/ UNCHANGED found /\ missing' = missing \cup {"outputs"}
           /\ left' = left \ {i}
    BY <1>3 DEF CrtcInfo
  <2>2. step = "crtcs" /\ UNCHANGED <<server, queue, copies, step, after>>
    BY <1>3 DEF CrtcInfo
  <2>3. OutputsTypeOK' /\ WindowKnown' /\ SizeComes'
    BY <2>1, <2>2 DEF OutputsInv, OutputsTypeOK, WindowKnown, SizeComes, Querying
  <2>4. found' = found \cup {<<i, crtcs[i]>>} =>
            found' \cup {<<j, crtcs[j]>> : j \in left'}
              = found \cup {<<j, crtcs[j]>> : j \in left}
    BY <2>1
  <2>5. OnRects' = OnRects /\ (Waiting("randr"))' = Waiting("randr")
    BY <2>2 DEF OnRects, On, Waiting
  <2>6. OutputsCome'
    BY <2>1, <2>2, <2>4, <2>5 DEF OutputsInv, OutputsCome, Querying
  <2> QED BY <2>3, <2>6 DEF OutputsInv
<1>4. CASE Outputs14
  <2>1. step = "crtcs" /\ left = {} /\ Queried(found, "outputs" \in missing)
    BY <1>4 DEF Outputs14
  <2>2. {<<i, crtcs[i]>> : i \in left} = {}
    BY <2>1
  <2>3. extension = "xinerama" \/ "outputs" \in missing \/ found = OnRects
          \/ ("randr" \in selected /\ Waiting("randr"))
    BY <2>1, <2>2 DEF OutputsInv, OutputsCome, Querying
  <2>4. Querying
    BY <2>1 DEF Querying
  <2>5. CASE "outputs" \in missing
    <3>1. Queried(found, TRUE)
      BY <2>1, <2>5 DEF Queried
    <3> QED BY <3>1, <2>4, QueriedStep
  <2>6. CASE "outputs" \notin missing
    <3>1. Queried(found, FALSE)
      BY <2>1, <2>6 DEF Queried
    <3> QED BY <3>1, <2>3, <2>4, <2>6, QueriedStep
  <2> QED BY <2>5, <2>6
<1>5. CASE XineramaQueryScreens
  <2>1. step = "randr_query" /\ extension = "xinerama"
    BY <1>5 DEF XineramaQueryScreens
  <2>2. NoMemory \/ \E resolutions : Queried(resolutions, FALSE)
    BY <1>5 DEF XineramaQueryScreens
  <2> QED BY <2>1, <2>2, QueriedStep DEF NoMemory, Querying
<1> QED BY <1>1, <1>2, <1>3, <1>4, <1>5 DEF RandrQuery

LEMMA EventStep ==
    ASSUME OutputsInv, TakeEvent
    PROVE  OutputsInv'
<1>1. /\ queue \in Seq(Events) /\ queue # << >> /\ queue' = Tail(queue)
      /\ step = "loop" /\ UNCHANGED <<server, copies, left, found, missing>>
      /\ HandleEvent(Head(queue))
  BY DEF TakeEvent, OutputsInv, OutputsTypeOK
<1>2. /\ queue' \in Seq(Events)
      /\ Waiting("randr") => Head(queue) = "randr" \/ Waiting("randr")'
  <2>1. queue' \in Seq(Events) /\ Len(queue') = Len(queue) - 1
    BY <1>1
  <2>2. ASSUME NEW i \in 1..Len(queue), queue[i] = "randr", i # 1
        PROVE  Waiting("randr")'
    <3>1. i - 1 \in 1..Len(queue') /\ queue'[i - 1] = queue[i]
      BY <1>1, <2>1, <2>2
    <3> QED BY <3>1, <2>2 DEF Waiting
  <2>3. Head(queue) = queue[1]
    BY <1>1
  <2> QED BY <2>1, <2>2, <2>3 DEF Waiting
<1>3. /\ Head(queue) = "configure" =>
            step' = "handle_screen_resize" /\ after' = after
      /\ Head(queue) = "randr" =>
            step' = "randr_query" /\ after' = "handle_screen_resize"
      /\ Head(queue) \in Events
  BY <1>1 DEF HandleEvent, Events
<1>4. OutputsTypeOK' /\ WindowKnown' /\ SizeComes'
  BY <1>1, <1>2, <1>3 DEF OutputsInv, OutputsTypeOK, WindowKnown, SizeComes,
                          Querying, Steps, Events
<1>5. OnRects' = OnRects
  BY <1>1 DEF OnRects, On
<1>6. OutputsCome'
  BY <1>1, <1>2, <1>3, <1>5 DEF OutputsInv, OutputsCome, Querying, Events
<1> QED BY <1>4, <1>6 DEF OutputsInv

LEMMA ResizeSteps ==
    ASSUME OutputsInv, ResolutionKept \/ ResolutionChanged \/ Redraw
    PROVE  OutputsInv'
<1>1. CASE ResolutionKept
  <2>1. root \in Nat \X Nat /\ last_resolution \in Nat \X Nat
    BY OutputsAssumption DEF OutputsInv, OutputsTypeOK
  <2>2. SameResolution(root) => last_resolution = root
    BY <2>1 DEF SameResolution
  <2>3. OutputsTypeOK' /\ WindowKnown'
    BY <1>1 DEF ResolutionKept, OutputsInv, OutputsTypeOK, WindowKnown, Steps
  <2>4. SizeComes'
    BY <1>1, <2>2 DEF ResolutionKept, SizeComes
  <2>5. OutputsCome'
    BY <1>1 DEF ResolutionKept, OutputsInv, OutputsCome, Querying, Waiting, OnRects, On
  <2> QED BY <2>3, <2>4, <2>5 DEF OutputsInv
<1>2. CASE ResolutionChanged
  <2>1. /\ queue' = Append(queue, "configure") /\ queue \in Seq(Events)
        /\ "configure" \in Events
    BY <1>2 DEF ResolutionChanged, OutputsInv, OutputsTypeOK, Events
  <2>2. /\ queue' \in Seq(Events) /\ queue' # << >>
        /\ Waiting("randr") => Waiting("randr")'
    BY <2>1 DEF Waiting
  <2>3. OutputsTypeOK' /\ WindowKnown' /\ SizeComes'
    BY <1>2, <2>2 DEF ResolutionChanged, OutputsInv, OutputsTypeOK, WindowKnown,
                      SizeComes, Steps
  <2>4. OutputsCome'
    BY <1>2, <2>2 DEF ResolutionChanged, OutputsInv, OutputsCome, Querying
  <2> QED BY <2>3, <2>4 DEF OutputsInv
<1>3. CASE Redraw
  BY <1>3 DEF Redraw, OutputsInv, OutputsTypeOK, WindowKnown, SizeComes,
              OutputsCome, Querying, Waiting, OnRects, On, Steps
<1> QED BY <1>1, <1>2, <1>3

LEMMA StutterStep ==
    ASSUME OutputsInv, UNCHANGED vars
    PROVE  OutputsInv'
BY DEF OutputsInv, OutputsTypeOK, WindowKnown, SizeComes, OutputsCome,
       Querying, Waiting, OnRects, On

\* The invariant holds in every state the program and the server reach.
THEOREM OutputsInductive == Spec => []OutputsInv
<1>1. OutputsInv /\ [Next]_vars => OutputsInv'
  BY ServerStep, StartSteps, QuerySteps, EventStep, ResizeSteps, StutterStep
     DEF Next
<1> QED BY InitHolds, <1>1, PTL DEF Spec

-----------------------------------------------------------------------------
(* What it implies *)

\* However often the screen changes its size, also while an earlier change is
\* handled, the window of a program at rest covers it (handle_screen_resize).
THEOREM RestCoversRoot == Spec => []WindowCoversRoot
<1>1. OutputsInv => WindowCoversRoot
  BY DEF OutputsInv, WindowKnown, SizeComes, Querying, WindowCoversRoot, AtRest
<1> QED BY OutputsInductive, <1>1, PTL

\* And the outputs it draws on are the ones that are on, although RandR 1.4 is
\* asked about them one after the other (randr_query).
THEOREM RestKnowsOutputs == Spec => []OutputsFollowServer
<1>1. OutputsInv => OutputsFollowServer
  <2>1. queue = << >> => ~Waiting("randr")
    BY DEF Waiting
  <2> QED BY <2>1 DEF OutputsInv, OutputsCome, Querying, OutputsFollowServer, AtRest
<1> QED BY OutputsInductive, <1>1, PTL
=============================================================================

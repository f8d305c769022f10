------------------------------- MODULE Outputs -------------------------------
(***************************************************************************)
(* The geometry i3lock draws with (randr.c, handle_screen_resize): the size *)
(* of the screen, the window that covers it, the outputs the indicator is   *)
(* drawn on and the background pixmap.  All of them are copies of what the  *)
(* X server had at some moment; the server goes on changing, also between   *)
(* two replies to the program, and tells it by events it must have asked    *)
(* for.                                                                     *)
(***************************************************************************)
EXTENDS Naturals, Sequences, SequencesExt, FiniteSets

CONSTANTS
    Sizes,       \* sizes of the screen, pairs of width and height
    Crtcs,       \* number of CRTCs
    Rects,       \* what a CRTC that is on may show of the screen
    Off,         \* the rectangle of a CRTC that is off, whose size is zero
    Garbage,     \* a rectangle nobody wrote
    Extensions,  \* what the server may have: "1.5", "1.4", "xinerama"
    MaxChanges   \* bound: changes of the server's configuration

ASSUME OutputsAssumption ==
    /\ Sizes \subseteq Nat \X Nat /\ Crtcs \in Nat /\ MaxChanges \in Nat
    /\ Off \notin Rects /\ Garbage \notin Rects /\ Garbage # Off
    /\ Extensions \subseteq {"1.5", "1.4", "xinerama"}

VARIABLES
    \* the X server: its screen, its CRTCs, the events it has been asked for
    \* and those on their way; the number of changes
    root, crtcs, selected, queue, changes,
    \* the program's copies; the outputs as pairs of a CRTC and its rectangle
    extension, last_resolution, window, xr_resolutions, bg_pixmap,
    \* where the main line is, where it goes after randr_query, and that
    \* function's locals: the outputs to ask about and those asked about
    step, after, left, found,
    \* history: what could not be read, or changed before anyone asked for
    \* the event; the program cannot know it
    missing

server  == <<root, crtcs, selected, changes>>
copies  == <<extension, last_resolution, window, xr_resolutions, bg_pixmap>>
control == <<step, after, left, found>>
vars    == <<server, queue, copies, control, missing>>

None == <<0, 0>>

\* A server of xcb_connect's set-up, whose size the program keeps.
Init ==
    /\ root \in Sizes
    /\ crtcs \in [1..Crtcs -> Rects \cup {Off}]
    /\ extension \in Extensions
    /\ selected = {} /\ queue = << >> /\ changes = 0
    /\ last_resolution = root /\ window = None
    /\ xr_resolutions = {} /\ bg_pixmap = None
    /\ step = "randr_init" /\ after = "main" /\ left = {} /\ found = {}
    /\ missing = {}

-----------------------------------------------------------------------------
(* The X server, external *)

\* It reports every change of its configuration to who selected RandR events,
\* and a change of its size to who selected structure events, in any order.
ServerChanges ==
    /\ changes < MaxChanges
    /\ changes' = changes + 1
    /\ root' \in Sizes
    /\ crtcs' \in [1..Crtcs -> Rects \cup {Off}]
    /\ <<root, crtcs>>' # <<root, crtcs>>
    /\ LET told == {e \in selected : e = "randr" \/ root' # root}
       IN  /\ \E order \in SetToSeqs(told) : queue' = queue \o order
           /\ missing' = IF root' # root /\ told = {}
                         THEN missing \cup {"size"} ELSE missing
    /\ UNCHANGED <<selected, copies, control>>

\* The CRTCs that are on, and what they show.
On      == {i \in 1..Crtcs : crtcs[i] # Off}
OnRects == {<<i, crtcs[i]>> : i \in On}

-----------------------------------------------------------------------------
(* Start-up *)

\* Without RandR there is no event to ask for.
RandrInit ==
    /\ step = "randr_init"
    /\ selected' = IF extension = "xinerama" THEN {} ELSE {"randr"}
    /\ step' = "randr_query"
    /\ UNCHANGED <<root, crtcs, changes, queue, copies, after, left, found, missing>>

\* From here on the changes of the root window are reported too; the window is
\* opened with the size the program knows.
OpenWindow ==
    /\ step = "main"
    /\ selected' = selected \cup {"configure"}
    /\ window' = last_resolution
    /\ step' = "loop"
    /\ UNCHANGED <<root, crtcs, changes, queue, extension, last_resolution,
                   xr_resolutions, bg_pixmap, after, left, found, missing>>

-----------------------------------------------------------------------------
(* randr_query: RandR 1.5, or RandR 1.4, or Xinerama *)

Queried(resolutions, lost) ==
    /\ xr_resolutions' = resolutions
    /\ missing' = IF lost THEN missing \cup {"outputs"} ELSE missing \ {"outputs"}
    /\ step' = after
    /\ left' = {} /\ found' = {}
    /\ UNCHANGED <<server, queue, extension, last_resolution, window, bg_pixmap,
                   after>>

\* "No memory?  Just keep on using the old information."
NoMemory == Queried(xr_resolutions, TRUE)

Monitors15 ==
    /\ step = "randr_query"
    /\ extension = "1.5"
    /\ Queried(OnRects, FALSE) \/ NoMemory

\* RandR 1.4, or 1.5 whose request failed: the resources and the outputs are
\* read first, then the CRTC of each output in a round trip of its own.
\* Without the resources Xinerama is tried, which is not active beside RandR.
Resources14 ==
    /\ step = "randr_query"
    /\ extension \in {"1.4", "1.5"}
    /\ \/ /\ step' = "crtcs"
          /\ left' = On /\ found' = {}
          /\ missing' = missing \ {"outputs"}
          /\ UNCHANGED <<server, queue, copies, after>>
       \/ NoMemory

\* One after the other; a CRTC about which there is no reply is skipped.
CrtcInfo ==
    /\ step = "crtcs"
    /\ \E i \in left :
          /\ \A j \in left : i <= j
          /\ \/ found' = found \cup {<<i, crtcs[i]>>} /\ UNCHANGED missing
             \/ UNCHANGED found /\ missing' = missing \cup {"outputs"}
          /\ left' = left \ {i}
    /\ UNCHANGED <<server, queue, copies, step, after>>

Outputs14 ==
    /\ step = "crtcs"
    /\ left = {}
    /\ Queried(found, "outputs" \in missing)

\* The loop that copies the screens runs to the count of the query before.
\* (Where that is the greater one it also writes behind the array.)
XineramaQueryScreens ==
    /\ step = "randr_query"
    /\ extension = "xinerama"
    /\ LET copied(i) == Cardinality({j \in On : j <= i}) <= Cardinality(xr_resolutions)
       IN  Queried({<<i, IF copied(i) THEN crtcs[i] ELSE Garbage>> : i \in On}, FALSE)
           \/ NoMemory

-----------------------------------------------------------------------------
(* The event loop *)

\* The pixmap is allocated by the first redraw and never again.
RedrawScreen ==
    bg_pixmap' = IF bg_pixmap = None THEN last_resolution ELSE bg_pixmap

\* Mutant: a RandR event does not renew the outputs.
RandrEventOnlyResizes(event) ==
    /\ step' = "handle_screen_resize"
    /\ UNCHANGED after

HandleEvent(event) ==
    \/ /\ event = "configure"
       /\ step' = "handle_screen_resize"
       /\ UNCHANGED after
    \/ /\ event = "randr"
       /\ step' = "randr_query"
       /\ after' = "handle_screen_resize"

TakeEvent ==
    /\ step = "loop"
    /\ queue # << >>
    /\ HandleEvent(Head(queue))
    /\ queue' = Tail(queue)
    /\ UNCHANGED <<server, copies, left, found, missing>>

\* Mutant: one of the two sizes is enough.
SameInOne(geom) ==
    last_resolution[1] = geom[1] \/ last_resolution[2] = geom[2]

SameResolution(geom) ==
    last_resolution[1] = geom[1] /\ last_resolution[2] = geom[2]

\* handle_screen_resize: there may be no reply, or nothing to do.
ResolutionKept ==
    /\ step = "handle_screen_resize"
    /\ \/ missing' = missing \cup {"size"}
       \/ SameResolution(root) /\ missing' = missing \ {"size"}
    /\ step' = "loop"
    /\ UNCHANGED <<server, queue, copies, after, left, found>>

\* The window gets the new size, which the server reports too.
ResolutionChanged ==
    /\ step = "handle_screen_resize"
    /\ ~SameResolution(root)
    /\ last_resolution' = root
    /\ bg_pixmap' = IF bg_pixmap = None THEN root ELSE bg_pixmap
    /\ window' = root
    /\ queue' = Append(queue, "configure")
    /\ missing' = missing \ {"size"}
    /\ step' = "randr_query" /\ after' = "redraw"
    /\ UNCHANGED <<server, extension, xr_resolutions, left, found>>

\* The end of handle_screen_resize, and all other redraws.
Redraw ==
    /\ step \in {"redraw", "loop"}
    /\ RedrawScreen
    /\ step' = "loop"
    /\ UNCHANGED <<server, queue, extension, last_resolution, window,
                   xr_resolutions, after, left, found, missing>>

RandrQuery == Monitors15 \/ Resources14 \/ CrtcInfo \/ Outputs14 \/ XineramaQueryScreens

Next ==
    \/ ServerChanges
    \/ RandrInit \/ OpenWindow
    \/ RandrQuery
    \/ TakeEvent \/ ResolutionKept \/ ResolutionChanged \/ Redraw

Spec == Init /\ [][Next]_vars

-----------------------------------------------------------------------------
(* Properties *)

\* The program has nothing left to do.
AtRest == step = "loop" /\ queue = << >>

\* Once the program has handled its events the window covers the whole screen,
\* whatever the order and number of changes, some of them made while an earlier
\* one was being handled, or between the selection of the one and of the other
\* kind of event (handle_screen_resize, xcb_check_cb).
WindowCoversRoot ==
    AtRest /\ "size" \notin missing => last_resolution = root /\ window = root

\* And the indicator's outputs are those of the server: a query that the server
\* overtook between two replies is followed by another one (randr_query).
OutputsFollowServer ==
    AtRest /\ "outputs" \notin missing /\ extension # "xinerama" =>
        xr_resolutions = OnRects

\* The background pixmap has the size of the screen: "the next redraw_screen()
\* call will allocate a new one with the updated resolution"
\* (unlock_indicator.c).
PixmapFollowsResolution ==
    AtRest => bg_pixmap \in {None, last_resolution}
=============================================================================

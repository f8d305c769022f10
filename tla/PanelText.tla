------------------------------ MODULE PanelText ------------------------------
(***************************************************************************)
(* How unlock_indicator.c lays out one drawing's texts: the status and the  *)
(* prompt of PAM as the lines of the panel above the circle, and the        *)
(* echoed input in the circle.  A text is a sequence of bytes of valid      *)
(* UTF-8; positions count from 1, and a range of bytes ends before its      *)
(* second bound as in the code.                                             *)
(***************************************************************************)
EXTENDS Integers, Sequences, SequencesExt, FiniteSetsExt

CONSTANTS
    MaxLines,        \* PAM_PANEL_MAX_LINES
    StatusMaxLines,  \* PAM_PANEL_STATUS_MAX_LINES, beside a prompt
    PromptMaxLines,  \* PAM_PANEL_PROMPT_MAX_LINES, beside a status
    MaxText,         \* bound: characters of the texts of one drawing
    Widths           \* what an output leaves for a line, and a circle for the input

ASSUME PanelAssumption ==
    /\ {MaxLines, StatusMaxLines, PromptMaxLines} \subseteq Nat \ {0}
    /\ StatusMaxLines + PromptMaxLines <= MaxLines
    /\ MaxText \in Nat /\ Widths \subseteq Nat

VARIABLES
    pam_display,    \* the texts drawn, which do not change meanwhile
    maximum_width,  \* of this output
    section,        \* "status", "prompt", "button", "done"
    line, offset,   \* append_wrapped_panel_lines: the loop's locals
    layout,         \* the panel's lines; from and next tell what of the text
                    \* a line was made of (history)
    bounded_text    \* what is shown of the input

vars == <<pam_display, maximum_width, section, line, offset, layout, bounded_text>>

\* A letter, a space, a newline, and a letter of two bytes.
Letter == <<"a">>    Space == <<"sp">>    Newline == <<"nl">>    Wide == <<"lead", "cont">>

\* The ellipsis is never cut: its bytes count as one.
Ellipsis == <<"dots">>

Blank(byte) == byte \in {"sp", "nl"}

-----------------------------------------------------------------------------
(* cairo_text_extents, external: the width of a text's ink, which does not   *)
(* count the spaces around it.  A character is as wide as it has bytes; the  *)
(* prompt is set in a larger, bold font.                                     *)

Extent(text, kind) ==
    LET ink == {i \in DOMAIN text : text[i] # "sp"}
    IN  IF ink = {} THEN 0
        ELSE (IF kind = "prompt" THEN 2 ELSE 1) * (Max(ink) - Min(ink) + 1)

\* Where the ink ends, from where draw_pam_panel starts the line: spaces in
\* front of it count.  display_button_text centres the ink, whose width counts.
Reach(text, kind) ==
    LET ink == {i \in DOMAIN text : text[i] # "sp"}
    IN  IF ink = {} THEN 0 ELSE (IF kind = "prompt" THEN 2 ELSE 1) * Max(ink)

-----------------------------------------------------------------------------
(* Byte positions *)

\* utf8_truncate_to_char_boundary: the positions where a prefix may end.
Boundary(text, len) == len = Len(text) \/ text[len + 1] # "cont"

\* Mutant: the ellipsis is put behind a full line.
EllipsisBehindLine(text, kind, max_width) == text \o Ellipsis

\* append_ellipsis_to_line and truncate_text_to_width: as much of the line as
\* leaves room for the ellipsis, or the ellipsis alone.
WithEllipsis(text, kind, max_width) ==
    LET fits(len) == Extent(SubSeq(text, 1, len) \o Ellipsis, kind) <= max_width
        ends == {len \in 1..Len(text) : Boundary(text, len) /\ fits(len)}
    IN  SubSeq(text, 1, Max(ends \cup {0})) \o Ellipsis

ParagraphEnd(text, start) ==
    Min({p \in start..Len(text) : text[p] = "nl"} \cup {Len(text) + 1})

\* The characters of the range that end at or before its end.
CharEnds(text, start, end) == {p \in start + 1..end : Boundary(text, p - 1)}

\* The end of the longest part of the paragraph that fits on a line.
FittingEnd(text, kind, start, max_width) ==
    LET ends == CharEnds(text, start, ParagraphEnd(text, start))
        fits(p) == Extent(SubSeq(text, start, p - 1), kind) <= max_width
    IN  Max({start} \cup {p \in ends : \A q \in ends : q <= p => fits(q)})

\* Mutant: a line that is full is broken wherever it is.
NoWordBreak(text, start, fitting_end) == start

\* The last space of a part of the line, or its start.
WordBreak(text, start, fitting_end) ==
    Max({start} \cup {p \in start..fitting_end - 1 : text[p] = "sp"})

\* Where the line ends and where the next one starts, in that order: at the
\* end of the paragraph, at a space, or as a last resort inside a word.
LineBreak(text, kind, start, max_width) ==
    LET paragraph_end == ParagraphEnd(text, start)
        fitting_end   == FittingEnd(text, kind, start, max_width)
        word_break    == WordBreak(text, start, fitting_end)
        first_char    == Min(CharEnds(text, start, paragraph_end))
    IN  CASE fitting_end = paragraph_end ->
                <<paragraph_end, Min({paragraph_end, Len(text)}) + 1>>
          [] fitting_end # paragraph_end /\ word_break > start ->
                <<word_break, Min({p \in word_break + 1..paragraph_end :
                                       p = paragraph_end \/ text[p] # "sp"})>>
          [] OTHER ->
                <<Max({fitting_end, first_char}), Max({fitting_end, first_char})>>

\* wrap_next_text_line: the line without the spaces behind it.
WrapNextTextLine(text, kind, start, max_width) ==
    LET break == LineBreak(text, kind, start, max_width)
        end   == Max({start} \cup {p \in start + 1..break[1] : text[p - 1] # "sp"})
    IN  IF text[start] = "nl"
        THEN [kind |-> kind, text |-> << >>, from |-> start, next |-> start + 1]
        ELSE [kind |-> kind, text |-> SubSeq(text, start, end - 1),
              from |-> start, next |-> break[2]]

-----------------------------------------------------------------------------
(* The layout *)

\* The widest line of the texts, if the output has that much room.
MaxExplicitLineWidth(kind) ==
    LET text   == pam_display[kind]
        starts == {p \in 1..Len(text) : p = 1 \/ text[p - 1] = "nl"}
    IN  Max({0} \cup {Extent(SubSeq(text, p, ParagraphEnd(text, p) - 1), kind) : p \in starts})

TextWidth == Min({maximum_width, Max({MaxExplicitLineWidth(k) : k \in {"status", "prompt"}})})

\* Mutant: the status may fill the panel also beside a prompt.
StatusMayFillPanel(kind) == MaxLines

SectionMaxLines(kind) ==
    CASE kind = "status" /\ pam_display.prompt # << >> -> StatusMaxLines
      [] kind = "prompt" /\ pam_display.status # << >> -> PromptMaxLines
      [] OTHER -> MaxLines

SectionAfter == [status |-> "prompt", prompt |-> "button", button |-> "done"]

EndSection(kind) == section' = SectionAfter[kind] /\ line' = 0 /\ offset' = 1

\* The texts of one drawing: of PAM, or input, which has no newline.
Texts(n, chars) == {FlattenSeq(s) : s \in UNION {[1..k -> chars] : k \in 0..n}}

Displays ==
    LET chars == {Letter, Space, Newline, Wide}
        panels == UNION {Texts(k, chars) \X Texts(MaxText - k, chars) : k \in 0..MaxText}
    IN  {[status |-> p[1], prompt |-> p[2], visible_input |-> << >>] : p \in panels}
        \cup {[status |-> << >>, prompt |-> << >>, visible_input |-> t] :
                 t \in Texts(MaxText, chars \ {Newline})}

Init ==
    /\ pam_display \in Displays
    /\ maximum_width \in Widths
    /\ section = "status" /\ line = 0 /\ offset = 1
    /\ layout = << >> /\ bounded_text = << >>

NothingToAppend(kind) ==
    /\ section = kind
    /\ pam_display[kind] = << >> \/ Len(layout) >= MaxLines
    /\ EndSection(kind)
    /\ UNCHANGED <<pam_display, maximum_width, layout, bounded_text>>

\* One round of the loop: the text ends, or the section's last line gets an
\* ellipsis, or the loop goes on.
AppendWrappedPanelLine(kind) ==
    LET text == pam_display[kind]
        next == WrapNextTextLine(text, kind, offset, TextWidth)
    IN  /\ section = kind /\ text # << >> /\ Len(layout) < MaxLines
        /\ \/ /\ next.next > Len(text)
              /\ layout' = Append(layout, next)
              /\ EndSection(kind)
           \/ /\ next.next <= Len(text) /\ line = SectionMaxLines(kind) - 1
              /\ layout' = Append(layout,
                     [next EXCEPT !.text = WithEllipsis(@, kind, TextWidth)])
              /\ EndSection(kind)
           \/ /\ next.next <= Len(text) /\ line < SectionMaxLines(kind) - 1
              /\ layout' = Append(layout, next)
              /\ line' = line + 1 /\ offset' = next.next
              /\ UNCHANGED section
        /\ UNCHANGED <<pam_display, maximum_width, bounded_text>>

\* display_button_text_bounded, after the panel has been drawn.
DisplayButtonTextBounded ==
    LET text == pam_display.visible_input
    IN  /\ section = "button"
        /\ bounded_text' = IF Extent(text, "button") <= maximum_width THEN text
                           ELSE WithEllipsis(text, "button", maximum_width)
        /\ EndSection("button")
        /\ UNCHANGED <<pam_display, maximum_width, layout>>

Next ==
    \/ \E kind \in {"status", "prompt"} : NothingToAppend(kind) \/ AppendWrappedPanelLine(kind)
    \/ DisplayButtonTextBounded

Spec == Init /\ [][Next]_vars

-----------------------------------------------------------------------------
(* Properties *)

Marked(text)      == text # << >> /\ Last(text) = "dots"
WithoutMark(text) == IF Marked(text) THEN Front(text) ELSE text
Words(text) ==
    FlattenSeq([i \in DOMAIN text |-> IF Blank(text[i]) THEN << >> ELSE <<text[i]>>])

\* All words of the text in their order, or those of a part of it and a mark.
Shows(shown, text, marked) ==
    /\ IsPrefix(Words(shown), Words(text))
    /\ Words(shown) # Words(text) => marked

\* What the panel's lines of a kind say, one after the other.
Said(kind) ==
    FlattenSeq([i \in DOMAIN layout |->
        IF layout[i].kind = kind THEN WithoutMark(layout[i].text) ELSE << >>])

LastLineMarked(kind) ==
    \E i \in DOMAIN layout :
        /\ layout[i].kind = kind /\ Marked(layout[i].text)
        /\ \A j \in i + 1..Len(layout) : layout[j].kind # kind

\* Nothing of a message, a prompt label or an input disappears unnoticed: the
\* lines of the panel, of which status and prompt share at most five, and the
\* text in the circle show everything or end in an ellipsis
\* (append_wrapped_panel_lines, wrap_next_text_line, truncate_text_to_width).
TextIsKept ==
    section = "done" =>
        /\ \A kind \in {"status", "prompt"} :
              Shows(Said(kind), pam_display[kind], LastLineMarked(kind))
        /\ Shows(WithoutMark(bounded_text), pam_display.visible_input, Marked(bounded_text))

Single(text) ==
    \E i \in DOMAIN text : {j \in DOMAIN text : text[j] # "cont"} = {i}

Indented(text) == text # << >> /\ text[1] = "sp"

\* A line ends where the panel's margin begins, which is as wide as its widest
\* paragraph or the output allows, unless it is a single character or only the
\* ellipsis; of an indented line that is only true of its width, for it is
\* drawn as much further right as it is indented.  The input fits into the
\* circle.  An ellipsis is put only where there is room for it
\* (wrap_next_text_line, append_ellipsis_to_line, truncate_text_to_width).
LinesFit ==
    /\ \A l \in ToSet(layout) :
          \/ Reach(l.text, l.kind) <= TextWidth
          \/ Indented(l.text) /\ Extent(l.text, l.kind) <= TextWidth
          \/ Single(l.text)
    /\ Extent(bounded_text, "button") <= maximum_width \/ bounded_text = Ellipsis

\* The word around the byte at p.
WordAt(text, p) ==
    LET inside(i, j) == \A q \in i..j : ~Blank(text[q])
    IN  SubSeq(text, Min({i \in 1..p : inside(i, p)}),
                     Max({j \in p..Len(text) : inside(p, j)}))

\* No character is split between two lines, and a word only when it is too
\* wide for a line of its own: "an oversized word is split only as a last
\* resort" (wrap_next_text_line).
WordsStayWhole ==
    \A l \in ToSet(layout) :
        LET text == pam_display[l.kind]
        IN  l.next <= Len(text) =>
                /\ text[l.next] # "cont"
                /\ ~Blank(text[l.next - 1]) /\ ~Blank(text[l.next]) =>
                      Extent(WordAt(text, l.next), l.kind) > TextWidth
=============================================================================

--------------------------- MODULE PanelTextProofs ---------------------------
(***************************************************************************)
(* Proofs about PanelText: for every text, of any length, every width and   *)
(* every division of the panel's lines, nothing is dropped without a mark,  *)
(* no line is too wide and no word is split that fits on a line.            *)
(***************************************************************************)
EXTENDS PanelText, SequenceLemmas

Kinds == {"status", "prompt", "button"}

\* What PAM and the user send, and what a line of the panel is made of.
TextByte == {"a", "sp", "nl", "lead", "cont"}
LineByte == TextByte \cup {"dots"}

\* A text is whole characters.
Whole(text) ==
    /\ text \in Seq(TextByte)
    /\ \A i \in 1..Len(text) : text[i] = "cont" => i # 1 /\ text[i - 1] = "lead"

-----------------------------------------------------------------------------
(* Least and greatest positions *)

LEMMA MaxIs ==
    ASSUME NEW b \in Nat, NEW S \in SUBSET (0..b), S # {}
    PROVE  Max(S) \in S /\ \A x \in S : x <= Max(S)
<1>1. \E i \in S : \A j \in S : i >= j
  BY GreatestNumber
<1>2. Max(S) \in S /\ \A x \in S : Max(S) >= x
  BY <1>1 DEF Max
<1> QED BY <1>2

LEMMA MinIs ==
    ASSUME NEW S \in SUBSET Nat, S # {}
    PROVE  Min(S) \in S /\ \A x \in S : Min(S) <= x
<1>1. PICK i \in S : \A j \in S : ~(j < i)
  BY LeastNumber
<1>2. \A j \in S : i <= j
  BY <1>1
<1> QED BY <1>2 DEF Min

LEMMA LargerOf ==
    ASSUME NEW a \in Nat, NEW b \in Nat
    PROVE  /\ Max({a, b}) \in {a, b} /\ a <= Max({a, b}) /\ b <= Max({a, b})
           /\ Min({a, b}) \in {a, b} /\ Min({a, b}) <= a /\ Min({a, b}) <= b
<1>1. {a, b} \in SUBSET (0..a + b) /\ a + b \in Nat /\ {a, b} \in SUBSET Nat
  OBVIOUS
<1> QED BY <1>1, MaxIs, MinIs

-----------------------------------------------------------------------------
(* The width of a text's ink *)

Ink(text) == {i \in DOMAIN text : text[i] # "sp"}

Factor(kind) == IF kind = "prompt" THEN 2 ELSE 1

LEMMA ExtentIs ==
    ASSUME NEW text, NEW kind
    PROVE  Extent(text, kind) = IF Ink(text) = {} THEN 0
                                ELSE Factor(kind) * (Max(Ink(text)) - Min(Ink(text)) + 1)
BY DEF Extent, Ink, Factor

LEMMA NoWider ==
    ASSUME NEW T, NEW text \in Seq(T), NEW kind, NEW a \in Nat, NEW n \in Nat,
           \A i \in 1..Len(text) : text[i] # "sp" => i \in a + 1..a + n
    PROVE  Extent(text, kind) \in 0..Factor(kind) * n
<1>1. CASE Ink(text) = {}
  BY <1>1, ExtentIs DEF Factor
<1>2. CASE Ink(text) # {}
  <2>1. /\ Ink(text) \in SUBSET (0..Len(text)) /\ Ink(text) \in SUBSET Nat
        /\ \A i \in Ink(text) : i \in a + 1..a + n
        /\ Len(text) \in Nat
    BY DEF Ink
  <2> DEFINE x == Max(Ink(text))
             y == Min(Ink(text))
  <2>2. x \in Ink(text) /\ y \in Ink(text) /\ y <= x
    <3>1. x \in Ink(text) /\ \A i \in Ink(text) : i <= x
      BY <1>2, <2>1, MaxIs
    <3>2. y \in Ink(text)
      BY <1>2, <2>1, MinIs
    <3> QED BY <3>1, <3>2
  <2>3. Extent(text, kind) = Factor(kind) * (x - y + 1)
    BY <1>2, ExtentIs
  <2> HIDE DEF x, y
  <2>4. x \in Nat /\ y \in Nat /\ x - y + 1 \in 1..n
    BY <2>1, <2>2
  <2> QED BY <2>3, <2>4 DEF Factor
<1> QED BY <1>1, <1>2

\* A text without spaces is as wide as it is long.
LEMMA FullWidth ==
    ASSUME NEW T, NEW text \in Seq(T), NEW kind, text # << >>,
           \A i \in 1..Len(text) : text[i] # "sp"
    PROVE  Extent(text, kind) = Factor(kind) * Len(text)
<1>1. Ink(text) = 1..Len(text) /\ Len(text) \in Nat \ {0}
  BY DEF Ink
<1>2. Max(1..Len(text)) = Len(text) /\ Min(1..Len(text)) = 1
  <2>1. /\ 1..Len(text) \in SUBSET (0..Len(text)) /\ 1..Len(text) \in SUBSET Nat
        /\ 1..Len(text) # {} /\ 1 \in 1..Len(text) /\ Len(text) \in 1..Len(text)
    BY <1>1
  <2>2. Max(1..Len(text)) \in 1..Len(text) /\ Len(text) <= Max(1..Len(text))
    BY <1>1, <2>1, MaxIs
  <2>3. Min(1..Len(text)) \in 1..Len(text) /\ Min(1..Len(text)) <= 1
    BY <2>1, MinIs
  <2> QED BY <1>1, <2>2, <2>3
<1>3. Extent(text, kind) = Factor(kind) * (Len(text) - 1 + 1)
  <2>1. 1..Len(text) # {}
    BY <1>1
  <2> QED BY <1>1, <1>2, <2>1, ExtentIs
<1> QED BY <1>1, <1>3 DEF Factor

LEMMA PartOf ==
    ASSUME NEW T, NEW text \in Seq(T), NEW a \in 1..Len(text) + 1,
           NEW b \in a - 1..Len(text)
    PROVE  /\ SubSeq(text, a, b) \in Seq(T) /\ Len(SubSeq(text, a, b)) = b - a + 1
           /\ DOMAIN SubSeq(text, a, b) = 1..b - a + 1
           /\ \A i \in 1..b - a + 1 : SubSeq(text, a, b)[i] = text[a + i - 1]
OBVIOUS

\* The spaces behind a line have no width.
LEMMA TrimmedWidth ==
    ASSUME NEW T, NEW text \in Seq(T), NEW kind, NEW start \in 1..Len(text) + 1,
           NEW break \in start..Len(text) + 1, NEW end \in start..break,
           \A q \in end..break - 1 : text[q] = "sp"
    PROVE  Extent(SubSeq(text, start, end - 1), kind)
             = Extent(SubSeq(text, start, break - 1), kind)
<1> DEFINE s == SubSeq(text, start, end - 1)
           t == SubSeq(text, start, break - 1)
<1>1. /\ DOMAIN s = 1..end - start
      /\ \A i \in 1..end - start : s[i] = text[start + i - 1]
  <2>1. end - 1 \in start - 1..Len(text) /\ (end - 1) - start + 1 = end - start
    OBVIOUS
  <2> QED BY <2>1, PartOf
<1>2. /\ DOMAIN t = 1..break - start
      /\ \A i \in 1..break - start : t[i] = text[start + i - 1]
  <2>1. break - 1 \in start - 1..Len(text) /\ (break - 1) - start + 1 = break - start
    OBVIOUS
  <2> QED BY <2>1, PartOf
<1> HIDE DEF s, t
<1>3. \A i \in 1..break - start : i \notin 1..end - start => t[i] = "sp"
  <2>1. SUFFICES ASSUME NEW i \in 1..break - start, i \notin 1..end - start
                 PROVE  t[i] = "sp"
    OBVIOUS
  <2>2. start + i - 1 \in end..break - 1
    BY <2>1
  <2> QED BY <1>2, <2>2
<1>4. Ink(s) = Ink(t)
  <2>1. \A i \in 1..end - start : i \in 1..break - start
    OBVIOUS
  <2> QED BY <1>1, <1>2, <1>3, <2>1 DEF Ink
<1> QED BY <1>4, ExtentIs DEF s, t
-----------------------------------------------------------------------------
(* Where a line ends *)

Fits(text, kind, start, p, width) == Extent(SubSeq(text, start, p - 1), kind) <= width

LEMMA ParagraphIs ==
    ASSUME NEW T, NEW text \in Seq(T), NEW start \in 1..Len(text), text[start] # "nl"
    PROVE  /\ ParagraphEnd(text, start) \in start + 1..Len(text) + 1
           /\ \A q \in start..ParagraphEnd(text, start) - 1 : text[q] # "nl"
           /\ ParagraphEnd(text, start) <= Len(text) =>
                 text[ParagraphEnd(text, start)] = "nl"
<1> DEFINE S == {p \in start..Len(text) : text[p] = "nl"} \cup {Len(text) + 1}
           pe == ParagraphEnd(text, start)
<1>1. S \in SUBSET Nat /\ S # {} /\ Len(text) \in Nat
  OBVIOUS
<1>2. pe \in S /\ \A q \in S : pe <= q
  <2>1. pe = Min(S)
    BY DEF ParagraphEnd
  <2> HIDE DEF S, pe
  <2> QED BY <1>1, <2>1, MinIs
<1> HIDE DEF pe
<1>3. pe \in start + 1..Len(text) + 1
  BY <1>1, <1>2
<1>4. ASSUME NEW q \in start..pe - 1 PROVE text[q] # "nl"
  BY <1>1, <1>2, <1>3
<1> QED BY <1>2, <1>3, <1>4 DEF pe

LEMMA CharEndsAre ==
    ASSUME NEW T, NEW text \in Seq(T), NEW start \in 1..Len(text),
           NEW end \in start + 1..Len(text) + 1,
           end <= Len(text) => text[end] # "cont"
    PROVE  /\ end \in CharEnds(text, start, end)
           /\ CharEnds(text, start, end) \in SUBSET Nat
           /\ \A p : p \in CharEnds(text, start, end) <=>
                 p \in start + 1..end /\ (p = Len(text) + 1 \/ text[p] # "cont")
<1>1. Len(text) \in Nat
  OBVIOUS
<1>2. \A p \in start + 1..end : p \in Nat /\ (p - 1 = Len(text) <=> p = Len(text) + 1) /\ (p - 1) + 1 = p
  BY <1>1
<1>3. \A p : p \in CharEnds(text, start, end) <=>
         p \in start + 1..end /\ (p = Len(text) + 1 \/ text[p] # "cont")
  BY <1>2 DEF CharEnds, Boundary
<1>4. end \in start + 1..end
  BY <1>1
<1> QED BY <1>1, <1>2, <1>3, <1>4

\* Up to the fitting end every prefix fits, and the next one does not.
LEMMA FittingIs ==
    ASSUME NEW T, NEW text \in Seq(T), NEW kind, NEW width,
           NEW start \in 1..Len(text), text[start] # "nl",
           NEW fe, fe = FittingEnd(text, kind, start, width),
           NEW pe, pe = ParagraphEnd(text, start),
           NEW ends, ends = CharEnds(text, start, pe)
    PROVE  /\ fe \in start..pe
           /\ fe # start => fe \in ends
           /\ \A q \in ends : q <= fe => Fits(text, kind, start, q, width)
           /\ fe # pe => \E q \in ends : /\ fe < q /\ ~Fits(text, kind, start, q, width)
                                         /\ \A r \in ends : fe < r => q <= r
<1>1. /\ pe \in start + 1..Len(text) + 1 /\ Len(text) \in Nat
      /\ pe <= Len(text) => text[pe] # "cont"
  BY ParagraphIs
<1>2. /\ pe \in ends /\ ends \in SUBSET Nat
      /\ \A p \in ends : p \in start + 1..pe
  BY <1>1, CharEndsAre
<1> DEFINE S == {p \in ends : \A q \in ends : q <= p => Fits(text, kind, start, q, width)}
<1>3. fe = Max({start} \cup S)
  BY DEF FittingEnd, Fits
<1>4. {start} \cup S \in SUBSET (0..pe) /\ pe \in Nat
  BY <1>1, <1>2
<1>5. fe \in {start} \cup S /\ \A p \in {start} \cup S : p <= fe
  <2> HIDE DEF S
  <2> QED BY <1>3, <1>4, MaxIs
<1>6. fe \in start..pe
  BY <1>1, <1>2, <1>5
<1>7. ASSUME NEW q \in ends, q <= fe
      PROVE  Fits(text, kind, start, q, width)
  <2>1. fe # start
    BY <1>1, <1>2, <1>7
  <2> QED BY <2>1, <1>5, <1>7
<1>8. ASSUME fe # pe
      PROVE  \E q \in ends : /\ fe < q /\ ~Fits(text, kind, start, q, width)
                             /\ \A r \in ends : fe < r => q <= r
  <2> DEFINE R == {r \in ends : fe < r}
  <2>1. pe \in R /\ R \in SUBSET Nat
    BY <1>1, <1>2, <1>6, <1>8
  <2>2. PICK q \in R : \A r \in R : q <= r
    <3>1. Min(R) \in R /\ \A r \in R : Min(R) <= r
      <4> HIDE DEF R
      <4> QED BY <2>1, MinIs
    <3> HIDE DEF R
    <3> QED BY <3>1
  <2>3. q \in ends /\ fe < q /\ q \in Nat
    BY <1>2, <2>2
  <2>4. ~Fits(text, kind, start, q, width)
    <3>1. SUFFICES ASSUME Fits(text, kind, start, q, width) PROVE FALSE
      OBVIOUS
    <3>2. ASSUME NEW p \in ends, p <= q
          PROVE  Fits(text, kind, start, p, width)
      <4>1. CASE p <= fe
        BY <1>7, <4>1
      <4>2. CASE ~(p <= fe)
        <5>1. p \in Nat /\ fe \in Nat
          BY <1>1, <1>2, <1>6
        <5>2. p \in R
          BY <4>2, <5>1
        <5>3. q <= p
          BY <2>2, <5>2
        <5>4. p = q
          BY <2>3, <3>2, <5>1, <5>3
        <5> QED BY <3>1, <5>4
      <4> QED BY <4>1, <4>2
    <3>3. q \in S
      BY <2>3, <3>2
    <3>4. q <= fe
      BY <1>5, <3>3
    <3> QED BY <1>1, <1>6, <2>3, <3>4
  <2> QED BY <2>2, <2>3, <2>4
<1> QED BY <1>2, <1>5, <1>6, <1>7, <1>8

\* What a break between lines is like, with the width it was made for.
GoodBreak(text, kind, start, width, end, next) ==
    /\ end \in start + 1..Len(text) + 1 /\ next \in end..Len(text) + 1
    /\ \A q \in end..next - 1 : Blank(text[q])
    /\ next <= Len(text) => text[next] # "cont"
    /\ \/ Fits(text, kind, start, end, width)
       \/ \A q \in start + 1..end - 1 : text[q] = "cont"
    /\ next <= Len(text) /\ ~Blank(text[next - 1]) /\ ~Blank(text[next]) =>
          \E q \in next..Len(text) + 1 :
              /\ ~Fits(text, kind, start, q, width)
              /\ \A i \in start + 1..q - 1 : ~Blank(text[i])

LEMMA AtParagraphEnd ==
    ASSUME NEW text, Whole(text), NEW kind, NEW width, NEW start \in 1..Len(text),
           NEW pe \in start + 1..Len(text) + 1, pe <= Len(text) => text[pe] = "nl",
           Fits(text, kind, start, pe, width)
    PROVE  GoodBreak(text, kind, start, width, pe, Min({pe, Len(text)}) + 1)
<1>1. Len(text) \in Nat /\ text \in Seq(TextByte) /\ pe \in Nat
  BY DEF Whole
<1> DEFINE next == Min({pe, Len(text)}) + 1
<1>2. next = IF pe <= Len(text) THEN pe + 1 ELSE Len(text) + 1
  <2>1. LET m == Min({pe, Len(text)}) IN m \in {pe, Len(text)} /\ m <= pe /\ m <= Len(text)
    BY <1>1, LargerOf
  <2> QED BY <1>1, <2>1
<1> HIDE DEF next
<1>3. CASE pe <= Len(text)
  <2>1. next = pe + 1 /\ text[pe] = "nl"
    BY <1>2, <1>3
  <2>2. next <= Len(text) => text[next] # "cont"
    <3>1. next <= Len(text) => next \in 1..Len(text) /\ next - 1 = pe
      BY <1>1, <2>1
    <3> QED BY <2>1, <3>1 DEF Whole
  <2>3. \A q \in pe..next - 1 : q = pe
    BY <1>1, <2>1
  <2>4. next \in pe..Len(text) + 1 /\ next - 1 = pe
    BY <1>1, <1>3, <2>1
  <2> QED BY <2>1, <2>2, <2>3, <2>4 DEF GoodBreak, Blank, next
<1>4. CASE ~(pe <= Len(text))
  <2>1. next = pe /\ next = Len(text) + 1
    BY <1>1, <1>2, <1>4
  <2>2. /\ pe \in start + 1..Len(text) + 1 /\ next \in pe..Len(text) + 1
        /\ \A q : q \notin pe..next - 1
        /\ ~(next <= Len(text))
    BY <1>1, <2>1
  <2> QED BY <2>2 DEF GoodBreak, next
<1> QED BY <1>3, <1>4

LEMMA AtSpace ==
    ASSUME NEW text, Whole(text), NEW kind, NEW width, NEW start \in 1..Len(text),
           NEW pe \in start + 1..Len(text) + 1, NEW wb \in start + 1..pe - 1,
           text[wb] = "sp", Fits(text, kind, start, wb, width)
    PROVE  GoodBreak(text, kind, start, width, wb,
               Min({p \in wb + 1..pe : p = pe \/ text[p] # "sp"}))
<1> DEFINE S == {p \in wb + 1..pe : p = pe \/ text[p] # "sp"}
           next == Min(S)
<1>1. Len(text) \in Nat /\ pe \in S /\ S \in SUBSET Nat
  BY DEF Whole
<1>2. next \in S /\ \A p \in S : next <= p
  <2> HIDE DEF S
  <2> QED BY <1>1, MinIs
<1> HIDE DEF next
<1>3. next \in wb + 1..Len(text) + 1 /\ next <= pe
  BY <1>1, <1>2
<1>4. ASSUME NEW q \in wb..next - 1 PROVE text[q] = "sp"
  <2>1. CASE q = wb
    BY <2>1
  <2>2. CASE q # wb
    <3>1. q \in wb + 1..pe /\ q # pe /\ ~(next <= q)
      BY <1>1, <1>3, <2>2
    <3> QED BY <1>2, <3>1
  <2> QED BY <2>1, <2>2
<1>5. next - 1 \in wb..next - 1
  BY <1>1, <1>3
<1>6. next <= Len(text) => text[next] # "cont"
  <2>1. next <= Len(text) => next \in 1..Len(text)
    BY <1>1, <1>3
  <2> QED BY <1>4, <1>5, <2>1 DEF Whole
<1>7. /\ wb \in start + 1..Len(text) + 1 /\ next \in wb..Len(text) + 1
  BY <1>1, <1>3
<1>8. \A q \in wb..next - 1 : Blank(text[q])
  BY <1>4 DEF Blank
<1> QED BY <1>5, <1>6, <1>7, <1>8 DEF GoodBreak, next, S

LEMMA InWord ==
    ASSUME NEW text, Whole(text), NEW kind, NEW width, NEW start \in 1..Len(text),
           text[start] # "nl",
           NEW fe, fe = FittingEnd(text, kind, start, width),
           NEW pe, pe = ParagraphEnd(text, start), fe # pe,
           NEW ends, ends = CharEnds(text, start, pe),
           \A q \in start + 1..fe - 1 : text[q] # "sp"
    PROVE  GoodBreak(text, kind, start, width, Max({fe, Min(ends)}), Max({fe, Min(ends)}))
<1>1. text \in Seq(TextByte) /\ Len(text) \in Nat
  BY DEF Whole
<1>2. /\ pe \in start + 1..Len(text) + 1
      /\ \A q \in start..pe - 1 : text[q] # "nl"
      /\ pe <= Len(text) => text[pe] # "cont"
  BY <1>1, ParagraphIs
<1>3. /\ pe \in ends /\ ends \in SUBSET Nat
      /\ \A p : p \in ends <=>
            p \in start + 1..pe /\ (p = Len(text) + 1 \/ text[p] # "cont")
  BY <1>1, <1>2, CharEndsAre
<1>4. /\ fe \in start..pe
      /\ fe # start => fe \in ends
      /\ \A q \in ends : q <= fe => Fits(text, kind, start, q, width)
      /\ \E q \in ends : /\ fe < q /\ ~Fits(text, kind, start, q, width)
                         /\ \A r \in ends : fe < r => q <= r
  BY <1>1, FittingIs
<1>5. PICK q \in ends : /\ fe < q /\ ~Fits(text, kind, start, q, width)
                        /\ \A r \in ends : fe < r => q <= r
  BY <1>4
<1> DEFINE fc == Min(ends)
           b == Max({fe, fc})
<1>6. fc \in ends /\ \A p \in ends : fc <= p
  BY <1>3, MinIs
<1>7. /\ fc \in start + 1..pe /\ q \in start + 1..pe
      /\ fe \in Nat /\ fc \in Nat /\ q \in Nat /\ pe \in Nat
  BY <1>1, <1>2, <1>3, <1>4, <1>5, <1>6
<1>8. b \in {fe, fc} /\ fe <= b /\ fc <= b
  BY <1>7, LargerOf
<1> HIDE DEF fc, b
<1>9. ASSUME NEW i \in fe + 1..q - 1 PROVE text[i] = "cont"
  <2>1. i \in start + 1..pe /\ fe < i /\ ~(q <= i) /\ i # Len(text) + 1
    BY <1>1, <1>2, <1>4, <1>7
  <2> QED BY <1>3, <1>5, <2>1
<1>10. CASE fe = start
  <2>1. b = fc /\ fc = q
    BY <1>5, <1>6, <1>7, <1>8, <1>10
  <2>2. q <= Len(text) => text[q] # "cont"
    BY <1>1, <1>3, <1>7
  <2>3. \A i \in start + 1..q - 1 : text[i] = "cont"
    BY <1>9, <1>10
  <2>4. \A i \in start + 1..q - 1 : ~Blank(text[i])
    BY <2>3 DEF Blank
  <2>5. /\ q \in start + 1..Len(text) + 1 /\ q \in q..Len(text) + 1
        /\ \A i : i \notin q..q - 1
    BY <1>1, <1>2, <1>7
  <2> QED BY <1>5, <2>1, <2>2, <2>3, <2>4, <2>5 DEF GoodBreak, b, fc
<1>11. CASE fe # start
  <2>1. fe \in ends /\ b = fe
    BY <1>4, <1>6, <1>7, <1>8, <1>11
  <2>2. fe <= Len(text) => text[fe] # "cont"
    BY <1>1, <1>3, <1>7, <2>1
  <2>3. Fits(text, kind, start, fe, width)
    BY <1>4, <1>7, <2>1
  <2>4. ASSUME NEW i \in start + 1..q - 1, ~Blank(text[fe])
        PROVE  ~Blank(text[i])
    <3>1. CASE i < fe
      <4>1. i \in start + 1..fe - 1 /\ i \in start..pe - 1
        BY <1>4, <1>7, <3>1
      <4> QED BY <1>2, <4>1 DEF Blank
    <3>2. CASE i = fe
      BY <2>4, <3>2
    <3>3. CASE i > fe
      <4>1. i \in fe + 1..q - 1
        BY <1>7, <3>3
      <4> QED BY <1>9, <4>1 DEF Blank
    <3> QED BY <1>7, <3>1, <3>2, <3>3
  <2>5. /\ fe \in start + 1..Len(text) + 1 /\ fe \in fe..Len(text) + 1
        /\ q \in fe..Len(text) + 1 /\ \A i : i \notin fe..fe - 1
    BY <1>1, <1>2, <1>3, <1>5, <1>7, <2>1
  <2> QED BY <1>5, <2>1, <2>2, <2>3, <2>4, <2>5 DEF GoodBreak, b, fc
<1> QED BY <1>10, <1>11

LEMMA BreakIsGood ==
    ASSUME NEW text, Whole(text), NEW kind, NEW width, NEW start \in 1..Len(text),
           text[start] # "nl"
    PROVE  GoodBreak(text, kind, start, width,
                     LineBreak(text, kind, start, width)[1],
                     LineBreak(text, kind, start, width)[2])
<1> DEFINE pe == ParagraphEnd(text, start)
           fe == FittingEnd(text, kind, start, width)
           wb == WordBreak(text, start, fe)
           ends == CharEnds(text, start, pe)
<1>1. text \in Seq(TextByte) /\ Len(text) \in Nat
  BY DEF Whole
<1>2. /\ pe \in start + 1..Len(text) + 1
      /\ pe <= Len(text) => text[pe] = "nl"
  BY <1>1, ParagraphIs
<1>3. /\ pe \in ends /\ ends \in SUBSET Nat
      /\ \A p : p \in ends <=>
            p \in start + 1..pe /\ (p = Len(text) + 1 \/ text[p] # "cont")
  BY <1>1, <1>2, CharEndsAre
<1>4. /\ fe \in start..pe
      /\ \A q \in ends : q <= fe => Fits(text, kind, start, q, width)
  BY <1>1, FittingIs
<1>5. /\ wb = start \/ (wb \in start..fe - 1 /\ text[wb] = "sp")
      /\ \A q \in start..fe - 1 : text[q] = "sp" => q <= wb
  <2> DEFINE S == {start} \cup {p \in start..fe - 1 : text[p] = "sp"}
  <2>1. S \in SUBSET (0..pe) /\ pe \in Nat /\ S # {}
    BY <1>1, <1>2, <1>4
  <2>2. wb \in S /\ \A p \in S : p <= wb
    <3>1. wb = Max(S)
      BY DEF WordBreak
    <3> HIDE DEF S, wb
    <3> QED BY <2>1, <3>1, MaxIs
  <2> QED BY <2>2
<1>6. LineBreak(text, kind, start, width)
        = CASE fe = pe -> <<pe, Min({pe, Len(text)}) + 1>>
            [] fe # pe /\ wb > start ->
                 <<wb, Min({p \in wb + 1..pe : p = pe \/ text[p] # "sp"})>>
            [] OTHER -> <<Max({fe, Min(ends)}), Max({fe, Min(ends)})>>
  BY Zenon DEF LineBreak
<1> HIDE DEF pe, fe, wb, ends
<1>7. CASE fe = pe
  <2>1. LineBreak(text, kind, start, width) = <<pe, Min({pe, Len(text)}) + 1>>
    BY <1>6, <1>7
  <2>2. Fits(text, kind, start, pe, width)
    BY <1>1, <1>2, <1>3, <1>4, <1>7
  <2> QED BY <1>2, <2>1, <2>2, AtParagraphEnd
<1>8. CASE fe # pe /\ wb > start
  <2>1. LineBreak(text, kind, start, width)
          = <<wb, Min({p \in wb + 1..pe : p = pe \/ text[p] # "sp"})>>
    BY <1>6, <1>8
  <2>2. wb \in start + 1..pe - 1 /\ text[wb] = "sp" /\ wb \in start + 1..pe /\ wb <= fe
    BY <1>1, <1>2, <1>4, <1>5, <1>8
  <2>3. Fits(text, kind, start, wb, width)
    BY <1>3, <1>4, <2>2
  <2> QED BY <1>2, <2>1, <2>2, <2>3, AtSpace
<1>9. CASE fe # pe /\ ~(wb > start)
  <2>1. LineBreak(text, kind, start, width) = <<Max({fe, Min(ends)}), Max({fe, Min(ends)})>>
    BY <1>6, <1>9
  <2>2. ASSUME NEW q \in start + 1..fe - 1 PROVE text[q] # "sp"
    <3>1. q \in start..fe - 1 /\ wb = start /\ ~(q <= wb)
      BY <1>1, <1>2, <1>4, <1>5, <1>9
    <3> QED BY <1>5, <3>1
  <2> QED BY <1>9, <2>1, <2>2, InWord DEF pe, fe, ends
<1> QED BY <1>7, <1>8, <1>9

\* A word that is split would not have fitted.
LEMMA SplitWordIsWide ==
    ASSUME NEW text, Whole(text), NEW kind, NEW width \in Int,
           NEW start \in 1..Len(text), text[start] # "nl",
           NEW next \in start + 1..Len(text),
           ~Blank(text[next - 1]), ~Blank(text[next]),
           NEW q \in next..Len(text) + 1, ~Fits(text, kind, start, q, width),
           \A i \in start + 1..q - 1 : ~Blank(text[i])
    PROVE  Extent(WordAt(text, next), kind) > width
<1> DEFINE A == {i \in 1..next : \A k \in i..next : ~Blank(text[k])}
           B == {j \in next..Len(text) : \A k \in next..j : ~Blank(text[k])}
           a == IF text[start] = "sp" THEN start + 1 ELSE start
           x == Min(A)
           y == Max(B)
<1>1. text \in Seq(TextByte) /\ Len(text) \in Nat
  BY DEF Whole
<1>2. /\ WordAt(text, next) = SubSeq(text, x, y)
      /\ A \in SUBSET Nat /\ B \in SUBSET (0..Len(text))
  BY <1>1 DEF WordAt
<1>3. a \in A
  <2>1. a \in 1..next
    BY <1>1
  <2>2. ASSUME NEW k \in a..next PROVE ~Blank(text[k])
    <3>1. CASE k = start
      <4>1. text[start] # "sp"
        BY <1>1, <3>1
      <4> QED BY <3>1, <4>1 DEF Blank
    <3>2. CASE k = next
      BY <3>2
    <3>3. CASE k # start /\ k # next
      <4>1. k \in start + 1..q - 1
        BY <1>1, <3>3
      <4> QED BY <4>1
    <3> QED BY <3>1, <3>2, <3>3
  <2> QED BY <2>1, <2>2
<1>4. x \in A /\ x <= a
  <2> HIDE DEF A, a
  <2> QED BY <1>2, <1>3, MinIs
<1>5. next \in B /\ (next <= q - 1 => q - 1 \in B)
  <2>1. next \in B
    BY <1>1
  <2>2. ASSUME next <= q - 1 PROVE q - 1 \in B
    <3>1. q - 1 \in next..Len(text) /\ \A k \in next..q - 1 : k \in start + 1..q - 1
      BY <1>1, <2>2
    <3> QED BY <3>1
  <2> QED BY <2>1, <2>2
<1>6. y \in B /\ \A j \in B : j <= y
  <2> HIDE DEF B
  <2> QED BY <1>1, <1>2, <1>5, MaxIs
<1>7. q - 1 <= y /\ next <= y
  BY <1>1, <1>5, <1>6
<1>8. /\ x \in 1..next /\ \A k \in x..next : ~Blank(text[k])
      /\ y \in next..Len(text) /\ \A k \in next..y : ~Blank(text[k])
  BY <1>4, <1>6
<1>9. a \in start..start + 1 /\ a \in Nat /\ start \in Nat /\ (text[start] = "sp" => a = start + 1)
  BY <1>1
<1> HIDE DEF A, B, a, x, y
<1> DEFINE w == SubSeq(text, x, y)
           t == SubSeq(text, start, q - 1)
<1>10. /\ w \in Seq(TextByte) /\ Len(w) = y - x + 1
       /\ \A i \in 1..y - x + 1 : w[i] = text[x + i - 1]
  <2>1. x \in 1..Len(text) + 1 /\ y \in x - 1..Len(text)
    BY <1>1, <1>8
  <2> QED BY <1>1, <2>1, PartOf
<1>11. /\ t \in Seq(TextByte) /\ Len(t) = q - start
       /\ \A i \in 1..q - start : t[i] = text[start + i - 1]
  <2>1. /\ start \in 1..Len(text) + 1 /\ q - 1 \in start - 1..Len(text)
        /\ (q - 1) - start + 1 = q - start
    BY <1>1
  <2> QED BY <1>1, <2>1, PartOf
<1> HIDE DEF w, t
<1>12. Extent(w, kind) = Factor(kind) * (y - x + 1)
  <2>1. y - x + 1 \in Nat \ {0}
    BY <1>1, <1>8
  <2>2. w # << >>
    BY <1>10, <2>1
  <2>3. ASSUME NEW i \in 1..Len(w) PROVE w[i] # "sp"
    <3>1. i \in 1..y - x + 1 /\ (x + i - 1 \in x..next \/ x + i - 1 \in next..y)
      BY <1>1, <1>8, <1>10
    <3>2. ~Blank(text[x + i - 1])
      BY <1>8, <3>1
    <3> QED BY <1>10, <3>1, <3>2 DEF Blank
  <2> QED BY <1>10, <2>2, <2>3, FullWidth
<1>13. Extent(t, kind) \in 0..Factor(kind) * (q - a)
  <2>1. /\ a - start \in Nat /\ q - a \in Nat
        /\ (a - start) + (q - a) = q - start
    BY <1>1, <1>9
  <2>2. \A i \in 1..Len(t) : t[i] # "sp" => i \in (a - start) + 1..(a - start) + (q - a)
    <3>1. SUFFICES ASSUME NEW i \in 1..q - start, t[i] # "sp"
                   PROVE  i \in (a - start) + 1..q - start
      BY <1>11, <2>1
    <3>2. CASE a = start
      BY <1>9, <3>2
    <3>3. CASE a # start
      <4>1. a = start + 1 /\ text[start] = "sp"
        BY <1>9, <3>3 DEF a
      <4>2. i # 1
        <5>1. start + 1 - 1 = start
          BY <1>9
        <5> QED BY <1>11, <3>1, <4>1, <5>1
      <4> QED BY <1>9, <4>1, <4>2
    <3> QED BY <3>2, <3>3
  <2> QED BY <1>11, <2>1, <2>2, NoWider
<1>14. ~(Extent(t, kind) <= width)
  BY DEF Fits, t
<1>15. q - a <= y - x + 1 /\ q - a \in Nat /\ y - x + 1 \in Nat
  BY <1>1, <1>4, <1>7, <1>8, <1>9
<1>16. Extent(w, kind) > width
  BY <1>12, <1>13, <1>14, <1>15 DEF Factor
<1> QED BY <1>2, <1>16 DEF w

-----------------------------------------------------------------------------
(* A line *)

WholeWord(text, kind, next, width) ==
    next <= Len(text) =>
        /\ text[next] # "cont"
        /\ ~Blank(text[next - 1]) /\ ~Blank(text[next]) =>
              Extent(WordAt(text, next), kind) > width

\* The part of the text from start to the next line's, without the blanks at
\* its end, as a line that fits.
GoodLine(text, kind, start, width, l) ==
    /\ l = [kind |-> kind, text |-> l.text, from |-> start, next |-> l.next]
    /\ l.text \in Seq(TextByte)
    /\ l.next \in start + 1..Len(text) + 1
    /\ WholeWord(text, kind, l.next, width)
    /\ Extent(l.text, kind) <= width \/ Single(l.text)
    /\ \E end \in start..l.next :
          /\ l.text = SubSeq(text, start, end - 1)
          /\ \A q \in end..l.next - 1 : Blank(text[q])

LEMMA NothingIsNarrow ==
    ASSUME NEW text, NEW kind, text = << >>
    PROVE  Extent(text, kind) = 0
<1>1. Ink(text) = {}
  BY DEF Ink
<1> QED BY <1>1, ExtentIs

LEMMA WrappedLine ==
    ASSUME NEW text, Whole(text), NEW kind, NEW width \in Nat,
           NEW start \in 1..Len(text), text[start] # "cont"
    PROVE  GoodLine(text, kind, start, width, WrapNextTextLine(text, kind, start, width))
<1>1. text \in Seq(TextByte) /\ Len(text) \in Nat
  BY DEF Whole
<1> DEFINE l == WrapNextTextLine(text, kind, start, width)
<1>2. CASE text[start] = "nl"
  <2>1. l = [kind |-> kind, text |-> << >>, from |-> start, next |-> start + 1]
    BY <1>2 DEF WrapNextTextLine
  <2>2. /\ l = [kind |-> kind, text |-> l.text, from |-> start, next |-> l.next]
        /\ l.text = << >> /\ l.next = start + 1
    BY <2>1
  <2> HIDE DEF l
  <2>3. l.text \in Seq(TextByte) /\ l.text = SubSeq(text, start, start - 1)
    BY <1>1, <2>2
  <2>4. start + 1 \in start + 1..Len(text) + 1 /\ (start + 1) - 1 = start
    BY <1>1
  <2>5. WholeWord(text, kind, start + 1, width)
    <3>1. start + 1 <= Len(text) => start + 1 \in 1..Len(text)
      BY <1>1
    <3>2. start + 1 <= Len(text) => text[start + 1] # "cont"
      BY <1>2, <2>4, <3>1 DEF Whole
    <3> QED BY <1>2, <2>4, <3>2 DEF WholeWord, Blank
  <2>6. Extent(l.text, kind) <= width
    BY <2>2, NothingIsNarrow
  <2>7. start \in start..start + 1 /\ \A q \in start..(start + 1) - 1 : Blank(text[q])
    BY <1>1, <1>2 DEF Blank
  <2> QED BY <2>2, <2>3, <2>4, <2>5, <2>6, <2>7 DEF GoodLine, l
<1>3. CASE text[start] # "nl"
  <2> DEFINE break == LineBreak(text, kind, start, width)[1]
             next == LineBreak(text, kind, start, width)[2]
             S == {start} \cup {p \in start + 1..break : text[p - 1] # "sp"}
             end == Max(S)
  <2>1. GoodBreak(text, kind, start, width, break, next)
    BY <1>3, BreakIsGood
  <2>2. l = [kind |-> kind, text |-> SubSeq(text, start, end - 1), from |-> start, next |-> next]
    BY <1>3 DEF WrapNextTextLine
  <2> HIDE DEF break, next, l
  <2>3. /\ l = [kind |-> kind, text |-> l.text, from |-> start, next |-> l.next]
        /\ l.text = SubSeq(text, start, end - 1) /\ l.next = next
    <3> HIDE DEF end
    <3> QED BY <2>2
  <2>4. /\ break \in start + 1..Len(text) + 1 /\ next \in break..Len(text) + 1
        /\ \A q \in break..next - 1 : Blank(text[q])
        /\ next <= Len(text) => text[next] # "cont"
    BY <2>1 DEF GoodBreak
  <2>5. end \in S /\ \A p \in S : p <= end
    <3>1. S \in SUBSET (0..break) /\ break \in Nat /\ S # {}
      BY <1>1, <2>4
    <3> HIDE DEF S
    <3> QED BY <3>1, MaxIs
  <2> HIDE DEF end
  <2>6. end \in start..break
    BY <1>1, <2>4, <2>5
  <2>7. ASSUME NEW q \in end..break - 1 PROVE text[q] = "sp"
    <3>1. q + 1 \in start + 1..break /\ (q + 1) - 1 = q /\ ~(q + 1 <= end)
      BY <1>1, <2>4, <2>6
    <3> QED BY <2>5, <3>1
  <2>8. Extent(l.text, kind) = Extent(SubSeq(text, start, break - 1), kind)
    <3>1. start \in 1..Len(text) + 1 /\ break \in start..Len(text) + 1
      BY <1>1, <2>4
    <3> QED BY <1>1, <2>3, <2>6, <2>7, <3>1, TrimmedWidth
  <2>9. /\ l.text \in Seq(TextByte) /\ DOMAIN l.text = 1..end - start
        /\ \A i \in 1..end - start : l.text[i] = text[start + i - 1]
    <3>1. /\ start \in 1..Len(text) + 1 /\ end - 1 \in start - 1..Len(text)
          /\ (end - 1) - start + 1 = end - start
      BY <1>1, <2>4, <2>6
    <3> QED BY <1>1, <2>3, <3>1, PartOf
  <2>10. Extent(l.text, kind) <= width \/ Single(l.text)
    <3>1. CASE Fits(text, kind, start, break, width)
      BY <2>8, <3>1 DEF Fits
    <3>2. CASE end = start
      <4>1. l.text = << >>
        BY <1>1, <2>3, <3>2
      <4> QED BY <4>1, NothingIsNarrow
    <3>3. CASE end # start /\ \A q \in start + 1..break - 1 : text[q] = "cont"
      <4>1. 1 \in 1..end - start /\ start + 1 - 1 = start
        BY <1>1, <2>6, <3>3
      <4>2. l.text[1] # "cont"
        BY <2>9, <4>1
      <4>3. ASSUME NEW j \in 1..end - start, j # 1 PROVE l.text[j] = "cont"
        <5>1. start + j - 1 \in start + 1..break - 1
          BY <1>1, <2>4, <2>6, <4>3
        <5> QED BY <2>9, <3>3, <5>1
      <4>4. {j \in DOMAIN l.text : l.text[j] # "cont"} = {1}
        BY <2>9, <4>1, <4>2, <4>3
      <4> QED BY <2>9, <4>1, <4>4 DEF Single
    <3> QED BY <2>1, <3>1, <3>2, <3>3 DEF GoodBreak
  <2>11. WholeWord(text, kind, next, width)
    <3>1. SUFFICES ASSUME next <= Len(text), ~Blank(text[next - 1]), ~Blank(text[next])
                   PROVE  Extent(WordAt(text, next), kind) > width
      BY <2>4 DEF WholeWord
    <3>2. next \in start + 1..Len(text)
      BY <1>1, <2>4, <3>1
    <3>3. PICK q \in next..Len(text) + 1 :
             /\ ~Fits(text, kind, start, q, width)
             /\ \A i \in start + 1..q - 1 : ~Blank(text[i])
      BY <2>1, <3>1 DEF GoodBreak
    <3> QED BY <1>3, <3>1, <3>2, <3>3, SplitWordIsWide
  <2>12. ASSUME NEW q \in end..next - 1 PROVE Blank(text[q])
    <3>1. q \in end..break - 1 \/ q \in break..next - 1
      BY <1>1, <2>4, <2>6
    <3> QED BY <2>4, <2>7, <3>1 DEF Blank
  <2>13. next \in start + 1..Len(text) + 1 /\ end \in start..next
    BY <1>1, <2>4, <2>6
  <2> QED BY <2>3, <2>9, <2>10, <2>11, <2>12, <2>13 DEF GoodLine, l
<1> QED BY <1>2, <1>3

\* What WithEllipsis leaves of a line, which fits or leaves only the mark.
LEMMA WithEllipsisIs ==
    ASSUME NEW text \in Seq(TextByte), NEW kind, NEW width
    PROVE  \E n \in 0..Len(text) :
              /\ WithEllipsis(text, kind, width) = SubSeq(text, 1, n) \o Ellipsis
              /\ \/ Extent(WithEllipsis(text, kind, width), kind) <= width
                 \/ WithEllipsis(text, kind, width) = Ellipsis
<1> DEFINE S == {len \in 1..Len(text) :
                    /\ Boundary(text, len)
                    /\ Extent(SubSeq(text, 1, len) \o Ellipsis, kind) <= width} \cup {0}
           n == Max(S)
<1>1. S \in SUBSET (0..Len(text)) /\ Len(text) \in Nat /\ S # {}
  OBVIOUS
<1>2. n \in S
  <2> HIDE DEF S
  <2> QED BY <1>1, MaxIs
<1>3. WithEllipsis(text, kind, width) = SubSeq(text, 1, n) \o Ellipsis
  BY DEF WithEllipsis
<1> HIDE DEF n
<1>4. CASE n = 0
  <2>1. SubSeq(text, 1, 0) = << >> /\ Ellipsis \in Seq({"dots"})
    BY DEF Ellipsis
  <2>2. SubSeq(text, 1, n) \o Ellipsis = Ellipsis
    BY <1>4, <2>1
  <2> QED BY <1>1, <1>3, <1>4, <2>2
<1>5. CASE n # 0
  BY <1>1, <1>2, <1>3, <1>5
<1> QED BY <1>4, <1>5

LEMMA EllipsisIsSingle == Single(Ellipsis)
<1>1. DOMAIN Ellipsis = {1} /\ Ellipsis[1] = "dots"
  BY DEF Ellipsis
<1>2. {j \in DOMAIN Ellipsis : Ellipsis[j] # "cont"} = {1}
  BY <1>1
<1> QED BY <1>1, <1>2 DEF Single

-----------------------------------------------------------------------------
(* What a line says *)

Pieces(text) == [i \in DOMAIN text |-> IF Blank(text[i]) THEN << >> ELSE <<text[i]>>]

LEMMA PiecesAre ==
    ASSUME NEW text \in Seq(LineByte)
    PROVE  /\ Pieces(text) \in Seq(Seq(LineByte)) /\ Len(Pieces(text)) = Len(text)
           /\ \A i \in 1..Len(text) :
                 Pieces(text)[i] = IF Blank(text[i]) THEN << >> ELSE <<text[i]>>
           /\ Words(text) = FlattenSeq(Pieces(text))
           /\ Words(text) \in Seq(LineByte)
<1>1. /\ Len(text) \in Nat /\ DOMAIN text = 1..Len(text)
      /\ \A i \in 1..Len(text) : text[i] \in LineByte
  OBVIOUS
<1>2. \A b \in LineByte : <<b>> \in Seq(LineByte)
  OBVIOUS
<1>3. << >> \in Seq(LineByte)
  OBVIOUS
<1>4. Pieces(text) \in [1..Len(text) -> Seq(LineByte)]
  <2> DEFINE Q == Seq(LineByte)
  <2>1. \A i \in 1..Len(text) :
          (IF Blank(text[i]) THEN << >> ELSE <<text[i]>>) \in Q
    BY <1>1, <1>2, <1>3
  <2> HIDE DEF Q
  <2>2. Pieces(text) \in [1..Len(text) -> Q]
    BY <1>1, <2>1 DEF Pieces
  <2> QED BY <2>2 DEF Q
<1>5. Pieces(text) \in Seq(Seq(LineByte)) /\ Len(Pieces(text)) = Len(text)
  <2> DEFINE Q == Seq(LineByte)
             p == Pieces(text)
  <2>1. p \in [1..Len(text) -> Q]
    BY <1>4
  <2> HIDE DEF Q, p
  <2>2. p \in Seq(Q) /\ Len(p) = Len(text)
    BY <1>1, <2>1
  <2> QED BY <2>2 DEF Q, p
<1>6. Words(text) = FlattenSeq(Pieces(text))
  BY DEF Words, Pieces
<1>7. FlattenSeq(Pieces(text)) \in Seq(LineByte)
  BY <1>5, FlattenType
<1> QED BY <1>1, <1>5, <1>6, <1>7 DEF Pieces

LEMMA WordsConcat ==
    ASSUME NEW s \in Seq(LineByte), NEW t \in Seq(LineByte)
    PROVE  /\ Words(s \o t) = Words(s) \o Words(t)
           /\ Words(s) \in Seq(LineByte) /\ Words(t) \in Seq(LineByte)
<1> DEFINE a == Pieces(s)
           b == Pieces(t)
           c == Pieces(s \o t)
           Q == Seq(LineByte)
<1>1. /\ s \o t \in Seq(LineByte) /\ Len(s \o t) = Len(s) + Len(t)
      /\ Len(s) \in Nat /\ Len(t) \in Nat
      /\ \A i \in 1..Len(s) : (s \o t)[i] = s[i]
      /\ \A i \in 1..Len(t) : (s \o t)[Len(s) + i] = t[i]
  BY Concatenated
<1>2. /\ a \in Seq(Q) /\ Len(a) = Len(s) /\ b \in Seq(Q) /\ Len(b) = Len(t)
      /\ c \in Seq(Q) /\ Len(c) = Len(s) + Len(t)
  BY <1>1, PiecesAre
<1>3. /\ \A i \in 1..Len(s) : c[i] = a[i]
      /\ \A i \in 1..Len(t) : c[Len(s) + i] = b[i]
  <2>1. /\ \A i \in 1..Len(s) : i \in 1..Len(s \o t)
        /\ \A i \in 1..Len(t) : Len(s) + i \in 1..Len(s \o t)
    BY <1>1
  <2>2. /\ \A i \in 1..Len(s) : a[i] = IF Blank(s[i]) THEN << >> ELSE <<s[i]>>
        /\ \A i \in 1..Len(t) : b[i] = IF Blank(t[i]) THEN << >> ELSE <<t[i]>>
    BY PiecesAre
  <2>3. \A i \in 1..Len(s \o t) :
          c[i] = IF Blank((s \o t)[i]) THEN << >> ELSE <<(s \o t)[i]>>
    BY <1>1, PiecesAre
  <2> HIDE DEF a, b, c
  <2> QED BY <1>1, <2>1, <2>2, <2>3
<1> HIDE DEF a, b, c, Q
<1>4. c = a \o b
  <2>1. /\ a \o b \in Seq(Q) /\ Len(a \o b) = Len(s) + Len(t)
        /\ \A i \in 1..Len(s) : (a \o b)[i] = a[i]
        /\ \A i \in 1..Len(t) : (a \o b)[Len(s) + i] = b[i]
    <3>1. ASSUME NEW q \in Seq(Q), NEW r \in Seq(Q)
          PROVE  /\ q \o r \in Seq(Q) /\ Len(q \o r) = Len(q) + Len(r)
                 /\ \A i \in 1..Len(q) : (q \o r)[i] = q[i]
                 /\ \A i \in 1..Len(r) : (q \o r)[Len(q) + i] = r[i]
      BY Concatenated
    <3>2. /\ a \o b \in Seq(Q) /\ Len(a \o b) = Len(a) + Len(b)
          /\ \A i \in 1..Len(a) : (a \o b)[i] = a[i]
          /\ \A i \in 1..Len(b) : (a \o b)[Len(a) + i] = b[i]
      BY <1>2, <3>1, Zenon
    <3> QED BY <1>2, <3>2
  <2>2. ASSUME NEW i \in 1..Len(c) PROVE c[i] = (a \o b)[i]
    <3>1. CASE i \in 1..Len(s)
      BY <1>3, <2>1, <3>1
    <3>2. CASE i \notin 1..Len(s)
      <4>1. i - Len(s) \in 1..Len(t) /\ Len(s) + (i - Len(s)) = i
        BY <1>1, <1>2, <3>2
      <4> QED BY <1>3, <2>1, <4>1
    <3> QED BY <3>1, <3>2
  <2> QED BY <1>2, <2>1, <2>2, SameElements
<1>5. FlattenSeq(a \o b) = FlattenSeq(a) \o FlattenSeq(b)
  BY <1>2, FlattenConcat DEF Q
<1>6. /\ Words(s) = FlattenSeq(a) /\ Words(t) = FlattenSeq(b)
      /\ Words(s \o t) = FlattenSeq(c)
      /\ Words(s) \in Seq(LineByte) /\ Words(t) \in Seq(LineByte)
  BY <1>1, PiecesAre DEF a, b, c
<1> QED BY <1>4, <1>5, <1>6

LEMMA BlankSaysNothing ==
    ASSUME NEW s \in Seq(LineByte), \A i \in 1..Len(s) : Blank(s[i])
    PROVE  Words(s) = << >>
<1> DEFINE a == Pieces(s)
<1>1. a \in Seq(Seq(LineByte)) /\ \A i \in 1..Len(a) : a[i] = << >>
  BY PiecesAre
<1>2. Words(s) = FlattenSeq(a)
  BY PiecesAre
<1> HIDE DEF a
<1> QED BY <1>1, <1>2, FlattenNothing

LEMMA PartsOf ==
    ASSUME NEW T, NEW text \in Seq(T), NEW a \in 1..Len(text) + 1,
           NEW b \in a - 1..Len(text)
    PROVE  SubSeq(text, 1, b) = SubSeq(text, 1, a - 1) \o SubSeq(text, a, b)
OBVIOUS

\* A prefix of the text says a prefix of what the text says.
LEMMA PrefixSaysPrefix ==
    ASSUME NEW text \in Seq(LineByte), NEW n \in 0..Len(text)
    PROVE  /\ SubSeq(text, 1, n) \in Seq(LineByte)
           /\ IsPrefix(Words(SubSeq(text, 1, n)), Words(text))
<1> DEFINE s == SubSeq(text, 1, n)
           t == SubSeq(text, n + 1, Len(text))
<1>1. Len(text) \in Nat /\ n + 1 \in 1..Len(text) + 1 /\ Len(text) \in (n + 1) - 1..Len(text)
      /\ (n + 1) - 1 = n
  OBVIOUS
<1>2. s \in Seq(LineByte) /\ t \in Seq(LineByte)
  OBVIOUS
<1>3. text = s \o t
  <2>1. SubSeq(text, 1, Len(text)) = text
    OBVIOUS
  <2> QED BY <1>1, <2>1, PartsOf
<1> HIDE DEF s, t
<1>4. /\ Words(text) = Words(s) \o Words(t)
      /\ Words(s) \in Seq(LineByte) /\ Words(t) \in Seq(LineByte)
  BY <1>2, <1>3, WordsConcat
<1>5. \A x, y \in Seq(LineByte) : IsPrefix(x, x \o y)
  <2>1. \A x, y \in Seq(LineByte) : /\ Len(x) <= Len(x \o y)
                                     /\ SubSeq(x, 1, Len(x)) = SubSeq(x \o y, 1, Len(x))
    OBVIOUS
  <2> QED BY <2>1 DEF IsPrefix
<1> QED BY <1>2, <1>4, <1>5 DEF s

\* Said up to the line, and by the line: said up to the next line.
LEMMA LineSays ==
    ASSUME NEW text, Whole(text), NEW kind, NEW width, NEW start \in 1..Len(text),
           NEW l, GoodLine(text, kind, start, width, l)
    PROVE  Words(SubSeq(text, 1, l.next - 1))
             = Words(SubSeq(text, 1, start - 1)) \o Words(l.text)
<1>1. text \in Seq(TextByte) /\ text \in Seq(LineByte) /\ Len(text) \in Nat
  <2>1. text \in Seq(TextByte)
    BY DEF Whole
  <2> QED BY <2>1 DEF LineByte
<1>2. PICK end \in start..l.next :
          /\ l.text = SubSeq(text, start, end - 1)
          /\ \A q \in end..l.next - 1 : Blank(text[q])
  BY DEF GoodLine
<1> DEFINE n == l.next
           b == SubSeq(text, 1, start - 1)
           m == SubSeq(text, start, end - 1)
           e == SubSeq(text, end, n - 1)
<1>3. n \in start + 1..Len(text) + 1
  BY DEF GoodLine
<1>4. /\ b \in Seq(LineByte) /\ m \in Seq(LineByte) /\ e \in Seq(LineByte)
      /\ SubSeq(text, 1, end - 1) \in Seq(LineByte)
  BY <1>1, <1>2, <1>3
<1>5. SubSeq(text, 1, end - 1) = b \o m
  <2>1. start \in 1..Len(text) + 1 /\ end - 1 \in start - 1..Len(text)
    BY <1>1, <1>2, <1>3
  <2> QED BY <1>1, <2>1, PartsOf
<1>6. SubSeq(text, 1, n - 1) = SubSeq(text, 1, end - 1) \o e
  <2>1. end \in 1..Len(text) + 1 /\ n - 1 \in end - 1..Len(text)
    BY <1>1, <1>2, <1>3
  <2> QED BY <1>1, <2>1, PartsOf
<1>7. ASSUME NEW i \in 1..Len(e) PROVE Blank(e[i])
  <2>1. /\ end \in 1..Len(text) + 1 /\ n - 1 \in end - 1..Len(text)
        /\ (n - 1) - end + 1 = n - end
    BY <1>1, <1>2, <1>3
  <2>2. Len(e) = n - end /\ \A k \in 1..n - end : e[k] = text[end + k - 1]
    BY <1>1, <2>1, PartOf
  <2>3. i \in 1..n - end /\ end + i - 1 \in end..n - 1
    BY <2>1, <2>2
  <2> QED BY <1>2, <2>2, <2>3
<1> HIDE DEF b, m, e
<1>8. Words(e) = << >>
  BY <1>4, <1>7, BlankSaysNothing
<1>9. Words(SubSeq(text, 1, n - 1)) = Words(SubSeq(text, 1, end - 1)) \o << >>
  BY <1>4, <1>6, <1>8, WordsConcat
<1>10. /\ Words(SubSeq(text, 1, end - 1)) = Words(b) \o Words(m)
       /\ Words(SubSeq(text, 1, end - 1)) \in Seq(LineByte)
  BY <1>4, <1>5, WordsConcat, PiecesAre
<1>11. \A x \in Seq(LineByte) : x \o << >> = x
  OBVIOUS
<1> QED BY <1>2, <1>9, <1>10, <1>11 DEF b, m

-----------------------------------------------------------------------------
(* The mark at the end of what is cut off *)

LEMMA Unmarked ==
    ASSUME NEW text \in Seq(TextByte)
    PROVE  text \in Seq(LineByte) /\ ~Marked(text) /\ WithoutMark(text) = text
<1>1. text # << >> => Last(text) \in TextByte
  BY FrontAndLast
<1>2. ~Marked(text)
  BY <1>1 DEF Marked, TextByte
<1>3. text \in Seq(LineByte)
  BY DEF LineByte
<1> QED BY <1>2, <1>3 DEF WithoutMark

LEMMA MarkedPart ==
    ASSUME NEW text \in Seq(TextByte), NEW n \in 0..Len(text),
           NEW t, t = SubSeq(text, 1, n) \o Ellipsis
    PROVE  /\ t \in Seq(LineByte) /\ Marked(t)
           /\ WithoutMark(t) = SubSeq(text, 1, n)
<1> DEFINE q == SubSeq(text, 1, n)
<1>1. q \in Seq(LineByte) /\ "dots" \in LineByte
  BY DEF LineByte
<1> HIDE DEF q
<1>2. t = Append(q, "dots")
  <2>1. t = q \o <<"dots">>
    BY DEF Ellipsis, q
  <2> QED BY <1>1, <2>1
<1>3. t \in Seq(LineByte) /\ t # << >>
  <2>1. \A d \in LineByte : Append(q, d) \in Seq(LineByte) /\ Append(q, d) # << >>
    BY <1>1, Appended
  <2> QED BY <1>1, <1>2, <2>1
<1>4. Last(t) = "dots" /\ Front(t) = q
  <2>1. \A d \in LineByte : /\ Append(q, d)[Len(Append(q, d))] = d
                            /\ SubSeq(Append(q, d), 1, Len(Append(q, d)) - 1) = q
    BY <1>1
  <2> QED BY <1>1, <1>2, <2>1 DEF Last, Front
<1> QED BY <1>3, <1>4 DEF Marked, WithoutMark, q

LEMMA WithoutMarkIs ==
    ASSUME NEW text \in Seq(LineByte)
    PROVE  WithoutMark(text) \in Seq(LineByte)
<1>1. text # << >> => Front(text) \in Seq(LineByte)
  BY FrontAndLast
<1> QED BY <1>1 DEF WithoutMark, Marked

-----------------------------------------------------------------------------
(* The lines of a layout *)

Lines == [kind : {"status", "prompt"}, text : Seq(LineByte), from : Nat, next : Nat]

LineSaid(l, kind) == IF l.kind = kind THEN WithoutMark(l.text) ELSE << >>

SaidBy(lines, kind) == FlattenSeq([i \in DOMAIN lines |-> LineSaid(lines[i], kind)])

LastMarked(lines, kind) ==
    \E i \in DOMAIN lines :
        /\ lines[i].kind = kind /\ Marked(lines[i].text)
        /\ \A j \in i + 1..Len(lines) : lines[j].kind # kind

LEMMA LineSaidIs ==
    ASSUME NEW l \in Lines, NEW kind
    PROVE  LineSaid(l, kind) \in Seq(LineByte)
<1>1. l.text \in Seq(LineByte)
  BY DEF Lines
<1>2. WithoutMark(l.text) \in Seq(LineByte)
  BY <1>1, WithoutMarkIs
<1> QED BY <1>2 DEF LineSaid

LEMMA OneMoreLine ==
    ASSUME NEW lines \in Seq(Lines), NEW l \in Lines, NEW kind
    PROVE  /\ SaidBy(lines, kind) \in Seq(LineByte)
           /\ SaidBy(Append(lines, l), kind) = SaidBy(lines, kind) \o LineSaid(l, kind)
           /\ l.kind = kind /\ Marked(l.text) => LastMarked(Append(lines, l), kind)
           /\ l.kind # kind /\ LastMarked(lines, kind) => LastMarked(Append(lines, l), kind)
<1> DEFINE Q == Seq(LineByte)
           more == Append(lines, l)
           S(ls) == [i \in DOMAIN ls |-> LineSaid(ls[i], kind)]
<1>1. /\ more \in Seq(Lines) /\ Len(lines) \in Nat /\ Len(more) = Len(lines) + 1
      /\ DOMAIN more = 1..Len(lines) + 1 /\ DOMAIN lines = 1..Len(lines)
      /\ more[Len(lines) + 1] = l
      /\ \A i \in 1..Len(lines) : more[i] = lines[i] /\ lines[i] \in Lines
  BY Appended
<1> HIDE DEF more
<1>2. \A i \in 1..Len(lines) : LineSaid(lines[i], kind) \in Q
  BY <1>1, LineSaidIs
<1>3. LineSaid(l, kind) \in Q
  BY LineSaidIs
<1>4. S(lines) \in Seq(Q) /\ Len(S(lines)) = Len(lines)
  <2> HIDE DEF Q
  <2>1. S(lines) \in [1..Len(lines) -> Q]
    BY <1>1, <1>2
  <2> HIDE DEF S
  <2> QED BY <1>1, <2>1
<1>5. S(more) = Append(S(lines), LineSaid(l, kind))
  <2> HIDE DEF Q
  <2> DEFINE r == Append(S(lines), LineSaid(l, kind))
  <2>1. /\ r \in Seq(Q) /\ Len(r) = Len(lines) + 1 /\ r[Len(lines) + 1] = LineSaid(l, kind)
        /\ \A i \in 1..Len(lines) : r[i] = S(lines)[i]
    <3> HIDE DEF S
    <3> QED BY <1>1, <1>3, <1>4, Appended
  <2>2. \A i \in 1..Len(lines) : r[i] = LineSaid(more[i], kind)
    BY <1>1, <2>1
  <2>3. r = [i \in 1..Len(lines) + 1 |-> r[i]]
    <3> HIDE DEF r
    <3> QED BY <1>1, <2>1
  <2> HIDE DEF r
  <2>4. \A i \in 1..Len(lines) + 1 : r[i] = LineSaid(more[i], kind)
    BY <1>1, <2>1, <2>2
  <2> QED BY <1>1, <2>3, <2>4 DEF r
<1>6. FlattenSeq(S(lines)) \in Seq(LineByte)
  <2> HIDE DEF S
  <2> QED BY <1>4, FlattenType
<1>7. FlattenSeq(S(more)) = FlattenSeq(S(lines)) \o LineSaid(l, kind)
  <2> HIDE DEF S
  <2> QED BY <1>3, <1>4, <1>5, FlattenAppend
<1>8. /\ SaidBy(lines, kind) = FlattenSeq(S(lines))
      /\ SaidBy(more, kind) = FlattenSeq(S(more))
  BY DEF SaidBy
<1>9. ASSUME l.kind = kind, Marked(l.text) PROVE LastMarked(more, kind)
  <2>1. /\ Len(lines) + 1 \in DOMAIN more
        /\ \A j : j \notin (Len(lines) + 1) + 1..Len(more)
    BY <1>1
  <2> QED BY <1>1, <1>9, <2>1 DEF LastMarked
<1>10. ASSUME l.kind # kind, LastMarked(lines, kind) PROVE LastMarked(more, kind)
  <2>1. PICK i \in 1..Len(lines) :
           /\ lines[i].kind = kind /\ Marked(lines[i].text)
           /\ \A j \in i + 1..Len(lines) : lines[j].kind # kind
    BY <1>1, <1>10 DEF LastMarked
  <2>2. ASSUME NEW j \in i + 1..Len(more) PROVE more[j].kind # kind
    <3>1. (j \in i + 1..Len(lines) /\ j \in 1..Len(lines)) \/ j = Len(lines) + 1
      BY <1>1
    <3> QED BY <1>1, <1>10, <2>1, <3>1
  <2>3. i \in DOMAIN more /\ more[i] = lines[i]
    BY <1>1
  <2> QED BY <2>1, <2>2, <2>3 DEF LastMarked
<1> QED BY <1>6, <1>7, <1>8, <1>9, <1>10 DEF more
-----------------------------------------------------------------------------
(* The texts of a drawing *)

Chars == {Letter, Space, Newline, Wide}

LEMMA CharIs ==
    ASSUME NEW c \in Chars
    PROVE  Whole(c)
<1>1. ASSUME NEW b \in TextByte, b # "cont", c = <<b>> PROVE Whole(c)
  <2>1. c \in Seq(TextByte) /\ Len(c) = 1 /\ c[1] = b
    BY <1>1
  <2> QED BY <1>1, <2>1 DEF Whole
<1>2. CASE c = Wide
  <2>1. "lead" \in TextByte /\ "cont" \in TextByte
    BY DEF TextByte
  <2>2. c \in Seq(TextByte) /\ Len(c) = 2 /\ c[1] = "lead" /\ c[2] = "cont"
    BY <1>2, <2>1 DEF Wide
  <2> QED BY <2>2 DEF Whole
<1>3. CASE c \in {Letter, Space, Newline}
  <2>1. "a" \in TextByte /\ "sp" \in TextByte /\ "nl" \in TextByte
    BY DEF TextByte
  <2> QED BY <1>1, <1>3, <2>1 DEF Letter, Space, Newline
<1> QED BY <1>2, <1>3 DEF Chars

LEMMA WholeGrows ==
    ASSUME NEW t, Whole(t), NEW c, Whole(c)
    PROVE  Whole(t \o c)
<1>1. t \in Seq(TextByte) /\ c \in Seq(TextByte)
  BY DEF Whole
<1>2. /\ t \o c \in Seq(TextByte) /\ Len(t \o c) = Len(t) + Len(c)
      /\ Len(t) \in Nat /\ Len(c) \in Nat
      /\ \A i \in 1..Len(t) : (t \o c)[i] = t[i]
      /\ \A i \in 1..Len(c) : (t \o c)[Len(t) + i] = c[i]
  BY <1>1, Concatenated
<1>3. ASSUME NEW i \in 1..Len(t) + Len(c), (t \o c)[i] = "cont"
      PROVE  i # 1 /\ (t \o c)[i - 1] = "lead"
  <2>1. CASE i \in 1..Len(t)
    <3>1. i # 1 /\ t[i - 1] = "lead"
      BY <1>2, <1>3, <2>1 DEF Whole
    <3>2. i - 1 \in 1..Len(t)
      BY <1>2, <2>1, <3>1
    <3> QED BY <1>2, <3>1, <3>2
  <2>2. CASE i \notin 1..Len(t)
    <3> DEFINE k == i - Len(t)
    <3>1. k \in 1..Len(c) /\ Len(t) + k = i
      BY <1>2, <2>2
    <3> HIDE DEF k
    <3>2. c[k] = "cont"
      BY <1>2, <1>3, <3>1
    <3>3. k # 1 /\ c[k - 1] = "lead"
      BY <3>1, <3>2 DEF Whole
    <3>4. k - 1 \in 1..Len(c) /\ Len(t) + (k - 1) = i - 1 /\ i # 1
      BY <1>2, <3>1, <3>3
    <3> QED BY <1>2, <3>3, <3>4
  <2> QED BY <2>1, <2>2
<1> QED BY <1>2, <1>3 DEF Whole

LEMMA TextsAreWhole ==
    ASSUME NEW n \in Nat, NEW chars \in SUBSET Chars, NEW t \in Texts(n, chars)
    PROVE  Whole(t)
<1>1. PICK k \in 0..n : \E s \in [1..k -> chars] : t = FlattenSeq(s)
  BY DEF Texts
<1>2. PICK s \in [1..k -> chars] : t = FlattenSeq(s)
  BY <1>1
<1>3. s \in Seq(Seq(TextByte)) /\ Len(s) = k /\ \A i \in 1..k : Whole(s[i])
  <2> DEFINE Q == Seq(TextByte)
  <2>1. \A i \in 1..k : s[i] \in Q /\ Whole(s[i])
    BY <1>2, CharIs DEF Whole
  <2> HIDE DEF Q
  <2>2. s \in [1..k -> Q]
    BY <1>2, <2>1
  <2>3. s \in Seq(Q) /\ Len(s) = k
    BY <2>2
  <2> QED BY <2>1, <2>3 DEF Q
<1> DEFINE B(m) == SubSeq(s, 1, m)
           G == {m \in Nat : Whole(FlattenSeq(B(m)))}
<1>4. k \in Nat /\ B(k) = s /\ B(0) = << >>
  BY <1>3, WholePrefix
<1>5. 0 \in G
  <2>1. Whole(<< >>)
    <3>1. << >> \in Seq(TextByte) /\ Len(<< >>) = 0
      OBVIOUS
    <3> QED BY <3>1 DEF Whole
  <2> QED BY <1>4, <2>1, FlattenEmpty
<1>6. ASSUME NEW m \in 0..k - 1, m \in G PROVE m + 1 \in G
  <2>1. FlattenSeq(B(m + 1)) = FlattenSeq(B(m)) \o s[m + 1]
    BY <1>3, <1>6, FlattenPrefixGrows
  <2>2. m + 1 \in 1..k /\ m + 1 \in Nat /\ Whole(FlattenSeq(B(m)))
    BY <1>6
  <2> HIDE DEF B
  <2>3. Whole(FlattenSeq(B(m + 1)))
    BY <1>3, <2>1, <2>2, WholeGrows
  <2> QED BY <2>2, <2>3
<1>7. k \in G
  <2> HIDE DEF G
  <2>1. \A m \in 0..k : m \in G
    BY <1>4, <1>5, <1>6, UpTo
  <2> QED BY <1>4, <2>1
<1> QED
  <2>1. Whole(FlattenSeq(B(k)))
    BY <1>7
  <2> HIDE DEF B
  <2> QED BY <1>2, <1>4, <2>1

LEMMA LineWidthIs ==
    ASSUME NEW kind, pam_display[kind] \in Seq(TextByte)
    PROVE  MaxExplicitLineWidth(kind) \in Nat
<1> DEFINE text == pam_display[kind]
           starts == {p \in 1..Len(text) : p = 1 \/ text[p - 1] = "nl"}
           E(p) == Extent(SubSeq(text, p, ParagraphEnd(text, p) - 1), kind)
           S == {0} \cup {E(p) : p \in starts}
<1>1. Len(text) \in Nat
  OBVIOUS
<1>2. ASSUME NEW p \in 1..Len(text) PROVE E(p) \in 0..2 * Len(text)
  <2> DEFINE N == {q \in p..Len(text) : text[q] = "nl"} \cup {Len(text) + 1}
             e == ParagraphEnd(text, p)
  <2>1. e \in N
    <3>1. N \in SUBSET Nat /\ N # {}
      BY <1>1
    <3>2. e = Min(N)
      BY DEF ParagraphEnd
    <3> HIDE DEF N, e
    <3> QED BY <3>1, <3>2, MinIs
  <2>2. e \in p..Len(text) + 1
    BY <1>1, <2>1
  <2> HIDE DEF e
  <2> DEFINE s == SubSeq(text, p, e - 1)
  <2>3. s \in Seq(TextByte) /\ Len(s) = e - p
    <3>1. p \in 1..Len(text) + 1 /\ e - 1 \in p - 1..Len(text) /\ (e - 1) - p + 1 = e - p
      BY <1>1, <2>2
    <3> HIDE DEF text
    <3> QED BY <3>1, PartOf DEF text
  <2> HIDE DEF s
  <2>4. Extent(s, kind) \in 0..Factor(kind) * Len(s)
    <3>1. Len(s) \in Nat /\ \A i \in 1..Len(s) : i \in 0 + 1..0 + Len(s)
      BY <2>3
    <3> QED BY <2>3, <3>1, NoWider
  <2>5. Extent(s, kind) \in 0..2 * Len(text)
    BY <1>1, <2>2, <2>3, <2>4 DEF Factor
  <2> QED BY <2>5 DEF s, e
<1> HIDE DEF E
<1>3. /\ S \in SUBSET (0..2 * Len(text)) /\ S # {} /\ 2 * Len(text) \in Nat
      /\ S \in SUBSET Nat
  <2>1. \A p \in starts : E(p) \in 0..2 * Len(text)
    BY <1>2
  <2>2. 2 * Len(text) \in Nat /\ 0 \in 0..2 * Len(text)
    BY <1>1
  <2> HIDE DEF starts, text
  <2> QED BY <2>1, <2>2
<1>4. MaxExplicitLineWidth(kind) = Max(S)
  BY DEF MaxExplicitLineWidth, E
<1> HIDE DEF S
<1>5. Max(S) \in S
  BY <1>3, MaxIs
<1> QED BY <1>3, <1>4, <1>5

LEMMA TextWidthIs ==
    ASSUME maximum_width \in Nat,
           \A kind \in {"status", "prompt"} : pam_display[kind] \in Seq(TextByte)
    PROVE  TextWidth \in Nat
<1> DEFINE a == MaxExplicitLineWidth("status")
           b == MaxExplicitLineWidth("prompt")
<1>1. a \in Nat /\ b \in Nat
  BY LineWidthIs
<1>2. TextWidth = Min({maximum_width, Max({a, b})})
  <2>1. {MaxExplicitLineWidth(k) : k \in {"status", "prompt"}} = {a, b}
    OBVIOUS
  <2> HIDE DEF a, b
  <2> QED BY <2>1 DEF TextWidth
<1> HIDE DEF a, b
<1>3. Max({a, b}) \in Nat
  BY <1>1, LargerOf
<1> QED BY <1>2, <1>3, LargerOf
-----------------------------------------------------------------------------
(* The inductive invariant *)

PanelKinds == {"status", "prompt"}

TypeOK ==
    /\ \A kind \in PanelKinds : Whole(pam_display[kind])
    /\ Whole(pam_display.visible_input)
    /\ maximum_width \in Nat
    /\ section \in {"status", "prompt", "button", "done"}
    /\ line \in Nat /\ offset \in Nat
    /\ layout \in Seq(Lines) /\ bounded_text \in Seq(LineByte)

\* The loop stands before a character of its text, with a line left for it.
Place ==
    \A kind \in PanelKinds : section = kind =>
        IF pam_display[kind] = << >> THEN offset = 1 /\ line = 0
        ELSE /\ offset \in 1..Len(pam_display[kind]) /\ pam_display[kind][offset] # "cont"
             /\ line < SectionMaxLines(kind)

\* The lines a section may still take are left in the panel.
Room ==
    /\ section = "status" => Len(layout) = line
    /\ section = "prompt" /\ pam_display.prompt # << >> =>
          Len(layout) + SectionMaxLines("prompt") <= MaxLines + line

FitLine(l) ==
    /\ WholeWord(pam_display[l.kind], l.kind, l.next, TextWidth)
    /\ Extent(l.text, l.kind) <= TextWidth \/ Single(l.text)

Fit ==
    /\ \A i \in 1..Len(layout) : FitLine(layout[i])
    /\ Extent(bounded_text, "button") <= maximum_width \/ bounded_text = Ellipsis

\* The lines say the text up to the offset, and nothing of a later text.
SaidSoFar ==
    /\ \A kind \in PanelKinds : section = kind =>
          Words(SaidBy(layout, kind)) = Words(SubSeq(pam_display[kind], 1, offset - 1))
    /\ section = "status" => SaidBy(layout, "prompt") = << >>

Over(kind) == section \notin {"status", kind}

KeptSoFar ==
    /\ \A kind \in PanelKinds : Over(kind) =>
          Shows(SaidBy(layout, kind), pam_display[kind], LastMarked(layout, kind))
    /\ section = "done" =>
          Shows(WithoutMark(bounded_text), pam_display.visible_input, Marked(bounded_text))

PanelInv == TypeOK /\ Place /\ Room /\ Fit /\ SaidSoFar /\ KeptSoFar

LEMMA NothingSaid ==
    ASSUME NEW kind
    PROVE  SaidBy(<< >>, kind) = << >>
<1>1. [i \in DOMAIN << >> |-> LineSaid(<< >>[i], kind)] = << >>
  OBVIOUS
<1> QED BY <1>1, FlattenEmpty DEF SaidBy

LEMMA ShowsAll ==
    ASSUME NEW shown, NEW text \in Seq(LineByte), NEW marked, Words(shown) = Words(text)
    PROVE  Shows(shown, text, marked)
<1>1. Words(text) \in Seq(LineByte)
  BY PiecesAre
<1>2. \A x \in Seq(LineByte) : IsPrefix(x, x)
  BY DEF IsPrefix
<1> QED BY <1>1, <1>2 DEF Shows

LEMMA AtStart ==
    ASSUME NEW text, Whole(text)
    PROVE  /\ text \in Seq(TextByte) /\ text \in Seq(LineByte)
           /\ text # << >> => 1 \in 1..Len(text) /\ text[1] # "cont"
           /\ SubSeq(text, 1, 1 - 1) = << >>
<1>1. text \in Seq(TextByte)
  BY DEF Whole
<1>2. text \in Seq(LineByte)
  BY <1>1 DEF LineByte
<1>3. text # << >> => 1 \in 1..Len(text)
  BY <1>1
<1>4. SubSeq(text, 1, 1 - 1) = << >>
  BY <1>1
<1> QED BY <1>1, <1>2, <1>3, <1>4 DEF Whole

LEMMA LimitsAre ==
    /\ \A kind \in PanelKinds :
          SectionMaxLines(kind) \in Nat \ {0} /\ SectionMaxLines(kind) <= MaxLines
    /\ pam_display.status # << >> /\ pam_display.prompt # << >> =>
          SectionMaxLines("status") + SectionMaxLines("prompt") <= MaxLines
    /\ MaxLines \in Nat
<1>1. /\ MaxLines \in Nat \ {0} /\ StatusMaxLines \in Nat \ {0} /\ PromptMaxLines \in Nat \ {0}
      /\ StatusMaxLines + PromptMaxLines <= MaxLines
  BY PanelAssumption
<1> QED BY <1>1 DEF SectionMaxLines, PanelKinds

LEMMA SameDrawing ==
    ASSUME UNCHANGED <<pam_display, maximum_width>>
    PROVE  /\ pam_display' = pam_display /\ maximum_width' = maximum_width
           /\ TextWidth' = TextWidth
           /\ \A kind : SectionMaxLines(kind)' = SectionMaxLines(kind)
<1>1. \A kind : MaxExplicitLineWidth(kind)' = MaxExplicitLineWidth(kind)
  BY DEF MaxExplicitLineWidth
<1> QED BY <1>1 DEF TextWidth, SectionMaxLines

LEMMA PanelInit == Init => PanelInv
<1>1. SUFFICES ASSUME Init PROVE PanelInv
  OBVIOUS
<1>2. /\ \A kind \in PanelKinds : Whole(pam_display[kind])
      /\ Whole(pam_display.visible_input)
  <2> DEFINE chars == {Letter, Space, Newline, Wide}
  <2>1. Whole(<< >>)
    <3>1. << >> \in Seq(TextByte) /\ Len(<< >>) = 0
      OBVIOUS
    <3> QED BY <3>1 DEF Whole
  <2>2. pam_display \in Displays /\ MaxText \in Nat
    BY <1>1, PanelAssumption DEF Init
  <2>3. CASE \E k \in 0..MaxText : \E p \in Texts(k, chars) \X Texts(MaxText - k, chars) :
                pam_display = [status |-> p[1], prompt |-> p[2], visible_input |-> << >>]
    <3>1. PICK k \in 0..MaxText : \E p \in Texts(k, chars) \X Texts(MaxText - k, chars) :
             pam_display = [status |-> p[1], prompt |-> p[2], visible_input |-> << >>]
      BY <2>3
    <3> PICK s \in Texts(k, chars), p \in Texts(MaxText - k, chars) :
             pam_display = [status |-> s, prompt |-> p, visible_input |-> << >>]
      BY <3>1
    <3>2. k \in Nat /\ MaxText - k \in Nat /\ chars \in SUBSET Chars
      BY <2>2 DEF Chars
    <3>3. Whole(s) /\ Whole(p)
      BY <3>2, TextsAreWhole
    <3> QED BY <2>1, <3>3 DEF PanelKinds
  <2>4. CASE \E t \in Texts(MaxText, chars \ {Newline}) :
                pam_display = [status |-> << >>, prompt |-> << >>, visible_input |-> t]
    <3>1. PICK t \in Texts(MaxText, chars \ {Newline}) :
             pam_display = [status |-> << >>, prompt |-> << >>, visible_input |-> t]
      BY <2>4
    <3>2. chars \ {Newline} \in SUBSET Chars
      BY DEF Chars
    <3>3. Whole(t)
      BY <2>2, <3>1, <3>2, TextsAreWhole
    <3> QED BY <2>1, <3>1, <3>3 DEF PanelKinds
  <2> HIDE DEF chars
  <2> QED BY <2>2, <2>3, <2>4 DEF Displays, chars
<1>3. TypeOK
  <2>1. maximum_width \in Nat
    BY <1>1, PanelAssumption DEF Init
  <2>2. << >> \in Seq(Lines) /\ << >> \in Seq(LineByte)
    OBVIOUS
  <2> QED BY <1>1, <1>2, <2>1, <2>2 DEF Init, TypeOK
<1>4. Place
  <2>1. \A kind \in PanelKinds : 0 < SectionMaxLines(kind)
    BY LimitsAre
  <2> QED BY <1>1, <1>2, <2>1, AtStart DEF Init, Place
<1>5. Room
  BY <1>1 DEF Init, Room
<1>6. Fit
  <2>1. Extent(<< >>, "button") = 0 /\ maximum_width \in Nat
    BY <1>3, NothingIsNarrow DEF TypeOK
  <2>2. 1..Len(<< >>) = {}
    OBVIOUS
  <2> QED BY <1>1, <2>1, <2>2 DEF Init, Fit
<1>7. SaidSoFar
  BY <1>1, <1>2, NothingSaid, AtStart DEF Init, SaidSoFar
<1>8. KeptSoFar
  BY <1>1 DEF Init, KeptSoFar, Over
<1> QED BY <1>3, <1>4, <1>5, <1>6, <1>7, <1>8 DEF PanelInv
-----------------------------------------------------------------------------
(* A line is added *)

LEMMA NextLine ==
    ASSUME PanelInv, NEW kind \in PanelKinds, section = kind, pam_display[kind] # << >>,
           NEW l, l = WrapNextTextLine(pam_display[kind], kind, offset, TextWidth)
    PROVE  /\ GoodLine(pam_display[kind], kind, offset, TextWidth, l)
           /\ l \in Lines /\ l.kind = kind /\ l.text \in Seq(TextByte) /\ FitLine(l)
           /\ Words(SaidBy(Append(layout, l), kind))
                = Words(SubSeq(pam_display[kind], 1, l.next - 1))
<1> DEFINE text == pam_display[kind]
<1>1. Whole(text) /\ text \in Seq(TextByte) /\ text \in Seq(LineByte) /\ Len(text) \in Nat
  BY AtStart DEF PanelInv, TypeOK
<1>2. offset \in 1..Len(text) /\ text[offset] # "cont"
  BY DEF PanelInv, Place
<1>3. TextWidth \in Nat
  BY TextWidthIs DEF PanelInv, TypeOK, PanelKinds, Whole
<1>4. GoodLine(text, kind, offset, TextWidth, l)
  <2> HIDE DEF text
  <2> QED BY <1>1, <1>2, <1>3, WrappedLine DEF text
<1>5. /\ l = [kind |-> kind, text |-> l.text, from |-> offset, next |-> l.next]
      /\ l.text \in Seq(TextByte) /\ l.next \in offset + 1..Len(text) + 1
      /\ WholeWord(text, kind, l.next, TextWidth)
      /\ Extent(l.text, kind) <= TextWidth \/ Single(l.text)
  BY <1>4 DEF GoodLine
<1>6. l.text \in Seq(LineByte) /\ ~Marked(l.text) /\ WithoutMark(l.text) = l.text
  BY <1>5, Unmarked
<1>7. l \in Lines /\ l.kind = kind
  <2>1. l.next \in Nat /\ offset \in Nat
    BY <1>1, <1>2, <1>5
  <2> QED BY <1>5, <1>6, <2>1 DEF Lines, PanelKinds
<1>8. FitLine(l)
  BY <1>5, <1>7 DEF FitLine
<1>9. Words(SaidBy(Append(layout, l), kind)) = Words(SubSeq(text, 1, l.next - 1))
  <2>1. /\ SaidBy(layout, kind) \in Seq(LineByte)
        /\ SaidBy(Append(layout, l), kind) = SaidBy(layout, kind) \o l.text
    BY <1>6, <1>7, OneMoreLine DEF PanelInv, TypeOK, LineSaid
  <2>2. Words(SaidBy(layout, kind) \o l.text) = Words(SaidBy(layout, kind)) \o Words(l.text)
    BY <1>6, <2>1, WordsConcat
  <2>3. Words(SaidBy(layout, kind)) = Words(SubSeq(text, 1, offset - 1))
    BY DEF PanelInv, SaidSoFar
  <2> HIDE DEF text
  <2>4. Words(SubSeq(text, 1, l.next - 1))
          = Words(SubSeq(text, 1, offset - 1)) \o Words(l.text)
    BY <1>1, <1>2, <1>4, LineSays
  <2> QED BY <2>1, <2>2, <2>3, <2>4
<1> QED BY <1>4, <1>5, <1>7, <1>8, <1>9

LEMMA PartOfPart ==
    ASSUME NEW T, NEW text \in Seq(T), NEW a \in 1..Len(text) + 1,
           NEW b \in a - 1..Len(text), NEW n \in 0..b - a + 1
    PROVE  SubSeq(SubSeq(text, a, b), 1, n) = SubSeq(text, a, a + n - 1)
OBVIOUS

\* What is left of a cut line says a prefix of what follows the lines before.
LEMMA CutLineSays ==
    ASSUME NEW text, Whole(text), NEW kind, NEW width, NEW start \in 1..Len(text),
           NEW l, GoodLine(text, kind, start, width, l), NEW n \in 0..Len(l.text)
    PROVE  IsPrefix(Words(SubSeq(text, 1, start - 1)) \o Words(SubSeq(l.text, 1, n)),
                    Words(text))
<1>1. text \in Seq(TextByte) /\ text \in Seq(LineByte) /\ Len(text) \in Nat
  BY AtStart
<1>2. l.next \in start + 1..Len(text) + 1
  BY DEF GoodLine
<1>3. PICK end \in start..l.next : l.text = SubSeq(text, start, end - 1)
  BY DEF GoodLine
<1>4. /\ start \in 1..Len(text) + 1 /\ end - 1 \in start - 1..Len(text)
      /\ (end - 1) - start + 1 = end - start
  BY <1>1, <1>2, <1>3
<1>5. Len(l.text) = end - start
  BY <1>1, <1>3, <1>4, PartOf
<1>6. n \in 0..(end - 1) - start + 1
  BY <1>4, <1>5
<1> DEFINE e == start + n - 1
           b == SubSeq(text, 1, start - 1)
           p == SubSeq(text, start, e)
<1>7. SubSeq(l.text, 1, n) = p
  BY <1>1, <1>3, <1>4, <1>6, PartOfPart
<1>8. e \in start - 1..Len(text) /\ e \in 0..Len(text)
  BY <1>1, <1>4, <1>6
<1> HIDE DEF e
<1>9. b \in Seq(LineByte) /\ p \in Seq(LineByte) /\ SubSeq(text, 1, e) = b \o p
  BY <1>1, <1>4, <1>8, PartsOf
<1> HIDE DEF b, p
<1>10. Words(SubSeq(text, 1, e)) = Words(b) \o Words(p)
  BY <1>9, WordsConcat
<1>11. IsPrefix(Words(SubSeq(text, 1, e)), Words(text))
  BY <1>1, <1>8, PrefixSaysPrefix
<1> QED BY <1>7, <1>10, <1>11 DEF b

LEMMA MarkedLine ==
    ASSUME PanelInv, NEW kind \in PanelKinds, section = kind, pam_display[kind] # << >>,
           NEW l, l = WrapNextTextLine(pam_display[kind], kind, offset, TextWidth),
           NEW m, m = [l EXCEPT !.text = WithEllipsis(@, kind, TextWidth)]
    PROVE  /\ m \in Lines /\ m.kind = kind /\ Marked(m.text) /\ FitLine(m)
           /\ IsPrefix(Words(SaidBy(Append(layout, m), kind)), Words(pam_display[kind]))
<1> DEFINE text == pam_display[kind]
<1>1. /\ GoodLine(text, kind, offset, TextWidth, l)
      /\ l \in Lines /\ l.kind = kind /\ l.text \in Seq(TextByte) /\ FitLine(l)
  BY NextLine
<1>2. Whole(text) /\ text \in Seq(TextByte) /\ text \in Seq(LineByte) /\ Len(text) \in Nat
  BY AtStart DEF PanelInv, TypeOK
<1>3. offset \in 1..Len(text)
  BY DEF PanelInv, Place
<1>4. PICK n \in 0..Len(l.text) :
         /\ WithEllipsis(l.text, kind, TextWidth) = SubSeq(l.text, 1, n) \o Ellipsis
         /\ \/ Extent(WithEllipsis(l.text, kind, TextWidth), kind) <= TextWidth
            \/ WithEllipsis(l.text, kind, TextWidth) = Ellipsis
  BY <1>1, WithEllipsisIs
<1>5. m.text = WithEllipsis(l.text, kind, TextWidth) /\ m.kind = kind /\ m.next = l.next
  BY <1>1 DEF Lines
<1>6. /\ m.text \in Seq(LineByte) /\ Marked(m.text)
      /\ WithoutMark(m.text) = SubSeq(l.text, 1, n)
  BY <1>1, <1>4, <1>5, MarkedPart
<1>7. m \in Lines
  <2> DEFINE Q == Seq(LineByte)
  <2>1. l \in [kind : {"status", "prompt"}, text : Q, from : Nat, next : Nat]
    BY <1>1 DEF Lines
  <2>2. WithEllipsis(l.text, kind, TextWidth) \in Q
    BY <1>5, <1>6
  <2> HIDE DEF Q
  <2>3. m \in [kind : {"status", "prompt"}, text : Q, from : Nat, next : Nat]
    BY <2>1, <2>2
  <2> QED BY <2>3 DEF Lines, Q
<1>8. FitLine(m)
  <2>1. Extent(m.text, kind) <= TextWidth \/ Single(m.text)
    BY <1>4, <1>5, EllipsisIsSingle
  <2> QED BY <1>1, <1>5, <2>1 DEF FitLine
<1>9. IsPrefix(Words(SaidBy(Append(layout, m), kind)), Words(text))
  <2> DEFINE b == SubSeq(text, 1, offset - 1)
             p == SubSeq(l.text, 1, n)
  <2>1. /\ SaidBy(layout, kind) \in Seq(LineByte)
        /\ SaidBy(Append(layout, m), kind) = SaidBy(layout, kind) \o p
    BY <1>5, <1>6, <1>7, OneMoreLine DEF PanelInv, TypeOK, LineSaid
  <2>2. p \in Seq(LineByte)
    BY <1>1, <1>4 DEF LineByte
  <2>3. Words(SaidBy(layout, kind)) = Words(b)
    BY DEF PanelInv, SaidSoFar
  <2>4. IsPrefix(Words(b) \o Words(p), Words(text))
    <3> HIDE DEF text
    <3> QED BY <1>1, <1>2, <1>3, <1>4, CutLineSays
  <2> HIDE DEF b, p, text
  <2>5. Words(SaidBy(Append(layout, m), kind)) = Words(b) \o Words(p)
    BY <2>1, <2>2, <2>3, WordsConcat
  <2> QED BY <2>4, <2>5
<1> QED BY <1>5, <1>6, <1>7, <1>8, <1>9
-----------------------------------------------------------------------------
(* Every step preserves the invariant *)

\* The next section begins at its first line, and at its text's beginning.
LEMMA NextSection ==
    ASSUME PanelInv, UNCHANGED <<pam_display, maximum_width>>,
           NEW kind \in PanelKinds, section = kind, EndSection(kind)
    PROVE  /\ section' \in {"prompt", "button"} /\ (section' = "prompt" <=> kind = "status")
           /\ line' = 0 /\ offset' = 1
           /\ Place'
<1>1. /\ section' = IF kind = "status" THEN "prompt" ELSE "button"
      /\ line' = 0 /\ offset' = 1
  BY DEF EndSection, SectionAfter, PanelKinds
<1>2. pam_display.prompt # << >> =>
          1 \in 1..Len(pam_display.prompt) /\ pam_display.prompt[1] # "cont"
  <2>1. Whole(pam_display.prompt)
    BY DEF PanelInv, TypeOK, PanelKinds
  <2> QED BY <2>1, AtStart
<1>3. 0 < SectionMaxLines("prompt") /\ SectionMaxLines("prompt")' = SectionMaxLines("prompt")
  <2>1. SectionMaxLines("prompt") \in Nat \ {0}
    BY LimitsAre DEF PanelKinds
  <2>2. SectionMaxLines("prompt")' = SectionMaxLines("prompt")
    BY DEF SectionMaxLines
  <2> QED BY <2>1, <2>2
<1>4. Place'
  BY <1>1, <1>2, <1>3 DEF Place, PanelKinds
<1> QED BY <1>1, <1>4 DEF PanelKinds

LEMMA LineEndsSection ==
    ASSUME PanelInv, UNCHANGED <<pam_display, maximum_width, bounded_text>>,
           NEW kind \in PanelKinds, section = kind, pam_display[kind] # << >>, EndSection(kind),
           NEW l \in Lines, l.kind = kind, FitLine(l), layout' = Append(layout, l),
           Shows(SaidBy(Append(layout, l), kind), pam_display[kind],
                 LastMarked(Append(layout, l), kind))
    PROVE  PanelInv'
<1>1. /\ section' \in {"prompt", "button"} /\ (section' = "prompt" <=> kind = "status")
      /\ line' = 0 /\ offset' = 1
      /\ Place'
  BY NextSection
<1>2. /\ layout \in Seq(Lines) /\ layout' \in Seq(Lines) /\ Len(layout) \in Nat
      /\ Len(layout') = Len(layout) + 1 /\ layout'[Len(layout) + 1] = l
      /\ \A i \in 1..Len(layout) : layout'[i] = layout[i]
  <2>1. layout \in Seq(Lines)
    BY DEF PanelInv, TypeOK
  <2> QED BY <2>1, Appended
<1>3. /\ pam_display' = pam_display /\ maximum_width' = maximum_width
      /\ TextWidth' = TextWidth /\ \A k : SectionMaxLines(k)' = SectionMaxLines(k)
  BY SameDrawing
<1>4. TypeOK'
  BY <1>1, <1>2 DEF PanelInv, TypeOK
<1>5. Room'
  <2>1. CASE kind = "status" /\ pam_display.prompt # << >>
    <3>1. SectionMaxLines("status") + SectionMaxLines("prompt") <= MaxLines
      BY <2>1, LimitsAre
    <3>2. Len(layout) = line /\ line < SectionMaxLines("status") /\ line \in Nat
      BY <2>1 DEF PanelInv, TypeOK, Place, Room
    <3>3. /\ SectionMaxLines("status") \in Nat /\ SectionMaxLines("prompt") \in Nat
          /\ MaxLines \in Nat
      BY LimitsAre DEF PanelKinds
    <3>4. Len(layout') + SectionMaxLines("prompt") <= MaxLines + 0
      BY <1>2, <3>1, <3>2, <3>3
    <3>5. Len(layout') + SectionMaxLines("prompt")' <= MaxLines + line'
      BY <1>1, <1>3, <3>4
    <3> QED BY <1>1, <3>5 DEF Room
  <2>2. CASE ~(kind = "status" /\ pam_display.prompt # << >>)
    BY <1>1, <1>3, <2>2 DEF Room
  <2> QED BY <2>1, <2>2
<1>6. Fit'
  <2>1. ASSUME NEW x PROVE FitLine(x)' <=> FitLine(x)
    BY <1>3 DEF FitLine
  <2>2. ASSUME NEW i \in 1..Len(layout) + 1 PROVE FitLine(layout'[i])
    <3>1. i \in 1..Len(layout) \/ i = Len(layout) + 1
      BY <1>2
    <3> QED BY <1>2, <3>1 DEF PanelInv, Fit
  <2>3. \A i \in 1..Len(layout') : FitLine(layout[i])'
    BY <1>2, <1>3, <2>2 DEF FitLine
  <2> QED BY <1>3, <2>3 DEF PanelInv, Fit
<1>7. SaidSoFar'
  <2>1. CASE kind = "status"
    <3>1. SaidBy(layout, "prompt") = << >>
      BY <2>1 DEF PanelInv, SaidSoFar
    <3>2. SaidBy(layout', "prompt") = << >>
      <4>1. SaidBy(layout', "prompt") = SaidBy(layout, "prompt") \o << >>
        BY <1>2, <2>1, OneMoreLine DEF LineSaid
      <4>2. << >> \o << >> = << >>
        OBVIOUS
      <4> QED BY <3>1, <4>1, <4>2
    <3>3. SubSeq(pam_display.prompt, 1, 1 - 1) = << >>
      BY AtStart DEF PanelInv, TypeOK, PanelKinds
    <3> QED BY <1>1, <1>3, <2>1, <3>2, <3>3 DEF SaidSoFar
  <2>2. CASE kind # "status"
    BY <1>1, <2>2 DEF SaidSoFar, PanelKinds
  <2> QED BY <2>1, <2>2
<1>8. KeptSoFar'
  <2>1. ASSUME NEW k \in PanelKinds, Over(k)'
        PROVE  Shows(SaidBy(layout', k), pam_display[k], LastMarked(layout', k))
    <3>1. CASE k = kind
      BY <3>1
    <3>2. CASE k # kind
      <4>1. Over(k)
        BY <1>1, <2>1, <3>2 DEF Over, PanelKinds
      <4>2. Shows(SaidBy(layout, k), pam_display[k], LastMarked(layout, k))
        BY <4>1 DEF PanelInv, KeptSoFar
      <4>3. /\ SaidBy(layout', k) = SaidBy(layout, k) \o << >>
            /\ SaidBy(layout, k) \in Seq(LineByte)
            /\ LastMarked(layout, k) => LastMarked(layout', k)
        <5>1. LineSaid(l, k) = << >> /\ l.kind # k
          BY <3>2 DEF LineSaid
        <5>2. layout \in Seq(Lines) /\ layout' = Append(layout, l)
          BY <1>2
        <5> QED BY <5>1, <5>2, OneMoreLine
      <4>4. SaidBy(layout', k) = SaidBy(layout, k)
        BY <4>3, Concatenated
      <4> QED BY <4>2, <4>3, <4>4 DEF Shows
    <3> QED BY <3>1, <3>2
  <2> QED BY <1>1, <1>3, <2>1 DEF KeptSoFar
<1> QED BY <1>1, <1>4, <1>5, <1>6, <1>7, <1>8 DEF PanelInv

LEMMA LineGoesOn ==
    ASSUME PanelInv, UNCHANGED <<pam_display, maximum_width, bounded_text, section>>,
           NEW kind \in PanelKinds, section = kind, pam_display[kind] # << >>,
           NEW l \in Lines, l.kind = kind, FitLine(l), layout' = Append(layout, l),
           GoodLine(pam_display[kind], kind, offset, TextWidth, l),
           Words(SaidBy(Append(layout, l), kind))
             = Words(SubSeq(pam_display[kind], 1, l.next - 1)),
           l.next <= Len(pam_display[kind]), line < SectionMaxLines(kind) - 1,
           line' = line + 1, offset' = l.next
    PROVE  PanelInv'
<1>1. /\ layout \in Seq(Lines) /\ layout' \in Seq(Lines) /\ Len(layout) \in Nat
      /\ Len(layout') = Len(layout) + 1 /\ layout'[Len(layout) + 1] = l
      /\ \A i \in 1..Len(layout) : layout'[i] = layout[i]
  <2>1. layout \in Seq(Lines)
    BY DEF PanelInv, TypeOK
  <2> QED BY <2>1, Appended
<1>2. /\ pam_display' = pam_display /\ maximum_width' = maximum_width
      /\ TextWidth' = TextWidth /\ \A k : SectionMaxLines(k)' = SectionMaxLines(k)
      /\ section' = section
  BY SameDrawing
<1>3. l.next \in 1..Len(pam_display[kind]) /\ line \in Nat
  <2>1. Whole(pam_display[kind]) /\ line \in Nat
    BY DEF PanelInv, TypeOK
  <2>2. Len(pam_display[kind]) \in Nat
    BY <2>1, AtStart
  <2>3. offset \in 1..Len(pam_display[kind])
    BY DEF PanelInv, Place
  <2>4. l.next \in offset + 1..Len(pam_display[kind]) + 1
    BY DEF GoodLine
  <2> QED BY <2>1, <2>2, <2>3, <2>4
<1>4. TypeOK'
  BY <1>1, <1>2, <1>3 DEF PanelInv, TypeOK
<1>5. Place'
  <2>1. pam_display[kind][l.next] # "cont"
    BY DEF GoodLine, WholeWord
  <2>2. line + 1 < SectionMaxLines(kind)
    BY <1>3, LimitsAre
  <2>3. line' < SectionMaxLines(kind)'
    BY <1>2, <2>2
  <2> QED BY <1>2, <1>3, <2>1, <2>3 DEF Place
<1>6. Room'
  <2>1. kind = "status" => Len(layout') = line'
    BY <1>1 DEF PanelInv, Room
  <2>2. kind = "prompt" => Len(layout') + SectionMaxLines("prompt") <= MaxLines + line'
    <3>1. kind = "prompt" => Len(layout) + SectionMaxLines("prompt") <= MaxLines + line
      BY DEF PanelInv, Room
    <3>2. SectionMaxLines("prompt") \in Nat /\ MaxLines \in Nat
      BY LimitsAre DEF PanelKinds
    <3> QED BY <1>1, <1>3, <3>1, <3>2
  <2>3. section' = kind /\ SectionMaxLines("prompt")' = SectionMaxLines("prompt")
    BY <1>2
  <2> QED BY <2>1, <2>2, <2>3 DEF Room
<1>7. Fit'
  <2>1. ASSUME NEW i \in 1..Len(layout) + 1 PROVE FitLine(layout'[i])
    <3>1. i \in 1..Len(layout) \/ i = Len(layout) + 1
      BY <1>1
    <3> QED BY <1>1, <3>1 DEF PanelInv, Fit
  <2>2. \A i \in 1..Len(layout') : FitLine(layout[i])'
    BY <1>1, <1>2, <2>1 DEF FitLine
  <2> QED BY <1>2, <2>2 DEF PanelInv, Fit
<1>8. \A k \in PanelKinds : k # kind =>
          /\ SaidBy(layout', k) = SaidBy(layout, k)
          /\ LastMarked(layout, k) => LastMarked(layout', k)
  <2>1. SUFFICES ASSUME NEW k \in PanelKinds, k # kind
                 PROVE  /\ SaidBy(layout', k) = SaidBy(layout, k)
                        /\ LastMarked(layout, k) => LastMarked(layout', k)
    OBVIOUS
  <2>2. LineSaid(l, k) = << >> /\ l.kind # k
    BY <2>1 DEF LineSaid
  <2>3. layout \in Seq(Lines) /\ layout' = Append(layout, l)
    BY <1>1
  <2>4. /\ SaidBy(layout', k) = SaidBy(layout, k) \o << >>
        /\ SaidBy(layout, k) \in Seq(LineByte)
        /\ LastMarked(layout, k) => LastMarked(layout', k)
    BY <2>2, <2>3, OneMoreLine
  <2> QED BY <2>4, Concatenated
<1>9. SaidSoFar'
  <2>1. Words(SaidBy(layout', kind)) = Words(SubSeq(pam_display'[kind], 1, offset' - 1))
    BY <1>2
  <2>2. kind = "status" => SaidBy(layout', "prompt") = << >>
    BY <1>8 DEF PanelInv, SaidSoFar, PanelKinds
  <2> QED BY <1>2, <2>1, <2>2 DEF SaidSoFar
<1>10. KeptSoFar'
  <2>1. ASSUME NEW k \in PanelKinds, Over(k)'
        PROVE  Shows(SaidBy(layout', k), pam_display[k], LastMarked(layout', k))
    <3>1. k # kind /\ Over(k)
      BY <1>2, <2>1 DEF Over
    <3>2. Shows(SaidBy(layout, k), pam_display[k], LastMarked(layout, k))
      BY <3>1 DEF PanelInv, KeptSoFar
    <3> QED BY <1>8, <3>1, <3>2 DEF Shows
  <2> QED BY <1>2, <2>1 DEF KeptSoFar, PanelKinds
<1> QED BY <1>4, <1>5, <1>6, <1>7, <1>9, <1>10 DEF PanelInv

LEMMA NothingStep ==
    ASSUME PanelInv, NEW kind \in PanelKinds, NothingToAppend(kind)
    PROVE  PanelInv'
<1>1. /\ section = kind /\ pam_display' = pam_display /\ maximum_width' = maximum_width
      /\ layout' = layout /\ bounded_text' = bounded_text /\ EndSection(kind)
      /\ pam_display[kind] = << >> \/ Len(layout) >= MaxLines
  BY DEF NothingToAppend
<1>2. /\ TextWidth' = TextWidth /\ \A k : SectionMaxLines(k)' = SectionMaxLines(k)
  BY <1>1, SameDrawing
<1>3. /\ section' \in {"prompt", "button"} /\ (section' = "prompt" <=> kind = "status")
      /\ line' = 0 /\ offset' = 1
      /\ Place'
  BY <1>1, NextSection
\* While there is text left there is room for a line.
<1>4. pam_display[kind] = << >>
  <2>1. SUFFICES ASSUME pam_display[kind] # << >> PROVE FALSE
    OBVIOUS
  <2>2. /\ SectionMaxLines("status") \in Nat /\ SectionMaxLines("prompt") \in Nat
        /\ SectionMaxLines("status") <= MaxLines /\ MaxLines \in Nat
    BY LimitsAre DEF PanelKinds
  <2>3. line \in Nat /\ line < SectionMaxLines(kind) /\ Len(layout) \in Nat
    BY <1>1, <2>1 DEF PanelInv, TypeOK, Place
  <2>4. CASE kind = "status"
    <3>1. Len(layout) = line
      BY <1>1, <2>4 DEF PanelInv, Room
    <3> QED BY <1>1, <2>1, <2>2, <2>3, <2>4, <3>1
  <2>5. CASE kind = "prompt"
    <3>1. Len(layout) + SectionMaxLines("prompt") <= MaxLines + line
      BY <1>1, <2>1, <2>5 DEF PanelInv, Room
    <3> QED BY <1>1, <2>1, <2>2, <2>3, <2>5, <3>1
  <2> QED BY <2>4, <2>5 DEF PanelKinds
<1>5. TypeOK'
  BY <1>1, <1>3 DEF PanelInv, TypeOK
<1>6. Room'
  <2>1. CASE kind = "status"
    <3>1. Len(layout) = 0
      BY <1>1, <1>4, <2>1 DEF PanelInv, Room, Place
    <3>2. SectionMaxLines("prompt") \in Nat /\ SectionMaxLines("prompt") <= MaxLines /\ MaxLines \in Nat
      BY LimitsAre DEF PanelKinds
    <3>3. Len(layout') + SectionMaxLines("prompt")' <= MaxLines + line'
      BY <1>1, <1>2, <1>3, <3>1, <3>2
    <3> QED BY <1>3, <3>3 DEF Room
  <2>2. CASE kind # "status"
    BY <1>3, <2>2 DEF Room
  <2> QED BY <2>1, <2>2
<1>7. Fit'
  BY <1>1, <1>2 DEF PanelInv, Fit, FitLine
<1>8. SaidSoFar'
  <2>1. CASE kind = "status"
    <3>1. SaidBy(layout, "prompt") = << >>
      BY <1>1, <2>1 DEF PanelInv, SaidSoFar
    <3>2. SubSeq(pam_display.prompt, 1, 1 - 1) = << >>
      BY AtStart DEF PanelInv, TypeOK, PanelKinds
    <3> QED BY <1>1, <1>3, <2>1, <3>1, <3>2 DEF SaidSoFar
  <2>2. CASE kind # "status"
    BY <1>3, <2>2 DEF SaidSoFar, PanelKinds
  <2> QED BY <2>1, <2>2
<1>9. KeptSoFar'
  <2>1. ASSUME NEW k \in PanelKinds, Over(k)'
        PROVE  Shows(SaidBy(layout, k), pam_display[k], LastMarked(layout, k))
    <3>1. CASE k = kind
      <4>1. Words(SaidBy(layout, k)) = Words(SubSeq(<< >>, 1, offset - 1)) /\ offset = 1
        BY <1>1, <1>4, <3>1 DEF PanelInv, SaidSoFar, Place
      <4>2. SubSeq(<< >>, 1, 1 - 1) = << >>
        OBVIOUS
      <4>3. << >> \in Seq(LineByte) /\ pam_display[k] = << >>
        BY <1>4, <3>1
      <4>4. Words(SaidBy(layout, k)) = Words(<< >>)
        BY <4>1, <4>2
      <4> QED BY <4>3, <4>4, ShowsAll
    <3>2. CASE k # kind
      <4>1. Over(k)
        BY <1>1, <1>3, <2>1, <3>2 DEF Over, PanelKinds
      <4> QED BY <4>1 DEF PanelInv, KeptSoFar
    <3> QED BY <3>1, <3>2
  <2> QED BY <1>1, <1>3, <2>1 DEF KeptSoFar
<1> QED BY <1>3, <1>5, <1>6, <1>7, <1>8, <1>9 DEF PanelInv

LEMMA LineStep ==
    ASSUME PanelInv, NEW kind \in PanelKinds, AppendWrappedPanelLine(kind)
    PROVE  PanelInv'
<1> DEFINE text == pam_display[kind]
           l == WrapNextTextLine(text, kind, offset, TextWidth)
           m == [l EXCEPT !.text = WithEllipsis(@, kind, TextWidth)]
<1>1. /\ section = kind /\ text # << >>
      /\ UNCHANGED <<pam_display, maximum_width, bounded_text>>
  BY DEF AppendWrappedPanelLine
<1>2. \/ l.next > Len(text) /\ layout' = Append(layout, l) /\ EndSection(kind)
      \/ layout' = Append(layout, m) /\ EndSection(kind)
      \/ /\ l.next <= Len(text) /\ line < SectionMaxLines(kind) - 1
         /\ layout' = Append(layout, l) /\ line' = line + 1 /\ offset' = l.next
         /\ UNCHANGED section
  BY DEF AppendWrappedPanelLine
<1>3. /\ GoodLine(text, kind, offset, TextWidth, l)
      /\ l \in Lines /\ l.kind = kind /\ FitLine(l)
      /\ Words(SaidBy(Append(layout, l), kind)) = Words(SubSeq(text, 1, l.next - 1))
  <2> HIDE DEF l
  <2>1. \A x : x = WrapNextTextLine(pam_display[kind], kind, offset, TextWidth) =>
            /\ GoodLine(pam_display[kind], kind, offset, TextWidth, x)
            /\ x \in Lines /\ x.kind = kind /\ FitLine(x)
            /\ Words(SaidBy(Append(layout, x), kind))
                 = Words(SubSeq(pam_display[kind], 1, x.next - 1))
    BY <1>1, NextLine
  <2> QED BY <2>1 DEF l
<1>4. /\ m \in Lines /\ m.kind = kind /\ Marked(m.text) /\ FitLine(m)
      /\ IsPrefix(Words(SaidBy(Append(layout, m), kind)), Words(text))
  <2>1. \A x, y : (/\ x = WrapNextTextLine(pam_display[kind], kind, offset, TextWidth)
                   /\ y = [x EXCEPT !.text = WithEllipsis(@, kind, TextWidth)]) =>
            /\ y \in Lines /\ y.kind = kind /\ Marked(y.text) /\ FitLine(y)
            /\ IsPrefix(Words(SaidBy(Append(layout, y), kind)), Words(pam_display[kind]))
    BY <1>1, MarkedLine
  <2> QED BY <2>1
<1>5. text \in Seq(LineByte) /\ Len(text) \in Nat /\ layout \in Seq(Lines)
  BY AtStart DEF PanelInv, TypeOK
<1> HIDE DEF l, m, text
<1>6. CASE l.next > Len(text) /\ layout' = Append(layout, l) /\ EndSection(kind)
  <2>1. l.next - 1 = Len(text)
    <3>1. l.next \in offset + 1..Len(text) + 1
      BY <1>3 DEF GoodLine
    <3>2. offset \in 1..Len(text)
      BY <1>1 DEF PanelInv, Place, text
    <3> QED BY <1>5, <1>6, <3>1, <3>2
  <2>2. SubSeq(text, 1, Len(text)) = text
    BY <1>5, WholePrefix
  <2>3. Words(SaidBy(Append(layout, l), kind)) = Words(text)
    BY <1>3, <2>1, <2>2
  <2>4. Shows(SaidBy(Append(layout, l), kind), text, LastMarked(Append(layout, l), kind))
    BY <1>5, <2>3, ShowsAll
  <2> QED BY <1>1, <1>3, <1>6, <2>4, LineEndsSection DEF text
<1>7. CASE layout' = Append(layout, m) /\ EndSection(kind)
  <2>1. LastMarked(Append(layout, m), kind)
    BY <1>4, <1>5, OneMoreLine
  <2>2. Shows(SaidBy(Append(layout, m), kind), text, LastMarked(Append(layout, m), kind))
    BY <1>4, <2>1 DEF Shows
  <2> QED BY <1>1, <1>4, <1>7, <2>2, LineEndsSection DEF text
<1>8. CASE /\ l.next <= Len(text) /\ line < SectionMaxLines(kind) - 1
           /\ layout' = Append(layout, l) /\ line' = line + 1 /\ offset' = l.next
           /\ UNCHANGED section
  BY <1>1, <1>3, <1>8, LineGoesOn DEF text
<1> QED BY <1>2, <1>6, <1>7, <1>8

LEMMA ButtonStep ==
    ASSUME PanelInv, DisplayButtonTextBounded
    PROVE  PanelInv'
<1> DEFINE text == pam_display.visible_input
           cut == WithEllipsis(text, "button", maximum_width)
<1>1. /\ section = "button" /\ pam_display' = pam_display /\ maximum_width' = maximum_width
      /\ layout' = layout /\ section' = "done" /\ line' = 0 /\ offset' = 1
      /\ bounded_text' = IF Extent(text, "button") <= maximum_width THEN text ELSE cut
  BY DEF DisplayButtonTextBounded, EndSection, SectionAfter
<1>2. text \in Seq(TextByte) /\ text \in Seq(LineByte) /\ maximum_width \in Nat
  BY AtStart DEF PanelInv, TypeOK
<1>3. \/ bounded_text' = text /\ Extent(text, "button") <= maximum_width
      \/ bounded_text' = cut
  BY <1>1
<1>4. PICK n \in 0..Len(text) :
         /\ cut = SubSeq(text, 1, n) \o Ellipsis
         /\ Extent(cut, "button") <= maximum_width \/ cut = Ellipsis
  BY <1>2, WithEllipsisIs
<1>5. cut \in Seq(LineByte) /\ Marked(cut) /\ WithoutMark(cut) = SubSeq(text, 1, n)
  BY <1>2, <1>4, MarkedPart
<1>6. Shows(WithoutMark(bounded_text'), text, Marked(bounded_text'))
  <2>1. CASE bounded_text' = text
    BY <1>2, <2>1, Unmarked, ShowsAll
  <2>2. CASE bounded_text' = cut
    <3>1. IsPrefix(Words(SubSeq(text, 1, n)), Words(text))
      BY <1>2, PrefixSaysPrefix
    <3> QED BY <1>5, <2>2, <3>1 DEF Shows
  <2> QED BY <1>3, <2>1, <2>2
<1> HIDE DEF cut
<1>7. TextWidth' = TextWidth
  BY <1>1, SameDrawing
<1>8. TypeOK'
  BY <1>1, <1>2, <1>3, <1>5 DEF PanelInv, TypeOK
<1>9. Place' /\ Room' /\ SaidSoFar'
  BY <1>1 DEF Place, Room, SaidSoFar, PanelKinds
<1>10. Fit'
  <2>1. Extent(bounded_text', "button") <= maximum_width \/ bounded_text' = Ellipsis
    BY <1>3, <1>4
  <2> QED BY <1>1, <1>7, <2>1 DEF PanelInv, Fit, FitLine
<1>11. KeptSoFar'
  <2>1. \A k \in PanelKinds : Over(k)
    BY <1>1 DEF Over, PanelKinds
  <2>2. \A k \in PanelKinds : Shows(SaidBy(layout, k), pam_display[k], LastMarked(layout, k))
    BY <2>1 DEF PanelInv, KeptSoFar
  <2> QED BY <1>1, <1>6, <2>2 DEF KeptSoFar
<1> QED BY <1>8, <1>9, <1>10, <1>11 DEF PanelInv

LEMMA PanelNext == PanelInv /\ [Next]_vars => PanelInv'
<1>1. SUFFICES ASSUME PanelInv, [Next]_vars PROVE PanelInv'
  OBVIOUS
<1>2. CASE \E kind \in PanelKinds : NothingToAppend(kind)
  BY <1>1, <1>2, NothingStep
<1>3. CASE \E kind \in PanelKinds : AppendWrappedPanelLine(kind)
  BY <1>1, <1>3, LineStep
<1>4. CASE DisplayButtonTextBounded
  BY <1>1, <1>4, ButtonStep
<1>5. CASE UNCHANGED vars
  <2>1. /\ pam_display' = pam_display /\ maximum_width' = maximum_width /\ section' = section
        /\ line' = line /\ offset' = offset /\ layout' = layout /\ bounded_text' = bounded_text
    BY <1>5 DEF vars
  <2>2. TextWidth' = TextWidth /\ \A k : SectionMaxLines(k)' = SectionMaxLines(k)
    BY <2>1, SameDrawing
  <2>3. TypeOK' /\ Place' /\ Room' /\ Fit'
    BY <1>1, <2>1, <2>2 DEF PanelInv, TypeOK, Place, Room, Fit, FitLine
  <2>4. SaidSoFar' /\ KeptSoFar'
    BY <1>1, <2>1 DEF PanelInv, SaidSoFar, KeptSoFar, Over
  <2> QED BY <2>3, <2>4 DEF PanelInv
<1> QED BY <1>1, <1>2, <1>3, <1>4, <1>5 DEF Next, PanelKinds

-----------------------------------------------------------------------------
(* The theorems *)

\* While a drawing is laid out, the lines so far say exactly the text before
\* the offset, and there is room in the panel for every line a section may
\* still take (append_wrapped_panel_lines).
THEOREM PanelInductive == Spec => []PanelInv
<1>1. Init => PanelInv
  BY PanelInit
<1>2. PanelInv /\ [Next]_vars => PanelInv'
  BY PanelNext
<1> QED BY <1>1, <1>2, PTL DEF Spec

\* For texts of any length and outputs of any width, the panel and the circle
\* show all words in their order, or some of them and an ellipsis at the end
\* (append_wrapped_panel_lines, wrap_next_text_line, truncate_text_to_width).
THEOREM NoTextDisappears == Spec => []TextIsKept
<1>1. PanelInv => TextIsKept
  <2>1. SUFFICES ASSUME PanelInv, section = "done" PROVE
            /\ \A kind \in PanelKinds :
                  Shows(Said(kind), pam_display[kind], LastLineMarked(kind))
            /\ Shows(WithoutMark(bounded_text), pam_display.visible_input, Marked(bounded_text))
    BY DEF TextIsKept, PanelKinds
  <2>2. ASSUME NEW kind \in PanelKinds
        PROVE  Shows(Said(kind), pam_display[kind], LastLineMarked(kind))
    <3>1. Over(kind)
      BY <2>1 DEF Over, PanelKinds
    <3>2. Shows(SaidBy(layout, kind), pam_display[kind], LastMarked(layout, kind))
      BY <2>1, <3>1 DEF PanelInv, KeptSoFar
    <3>3. SaidBy(layout, kind) = Said(kind)
      BY DEF SaidBy, Said, LineSaid
    <3>4. LastMarked(layout, kind) = LastLineMarked(kind)
      BY DEF LastMarked, LastLineMarked
    <3> QED BY <3>2, <3>3, <3>4
  <2> QED BY <2>1, <2>2 DEF PanelInv, KeptSoFar
<1> QED BY <1>1, PanelInductive, PTL

LEMMA ElementsOf ==
    ASSUME NEW T, NEW q \in Seq(T)
    PROVE  \A x \in ToSet(q) : \E i \in 1..Len(q) : x = q[i]
BY DEF ToSet

\* Without spaces in front of it a line reaches as far as it is wide.
LEMMA ReachOfUnindented ==
    ASSUME NEW T, NEW text \in Seq(T), NEW kind, ~Indented(text)
    PROVE  Reach(text, kind) = Extent(text, kind)
<1>1. Reach(text, kind) = IF Ink(text) = {} THEN 0 ELSE Factor(kind) * Max(Ink(text))
  BY DEF Reach, Ink, Factor
<1>2. CASE Ink(text) = {}
  BY <1>1, <1>2, ExtentIs
<1>3. CASE Ink(text) # {}
  <2>1. /\ Ink(text) \in SUBSET (0..Len(text)) /\ Ink(text) \in SUBSET Nat
        /\ \A i \in Ink(text) : i >= 1
        /\ Len(text) \in Nat
    BY DEF Ink
  <2>2. text # << >> /\ 1 \in DOMAIN text
    BY <1>3, <2>1 DEF Ink
  <2>3. 1 \in Ink(text)
    BY <2>2 DEF Ink, Indented
  <2>4. Min(Ink(text)) = 1
    <3>1. Min(Ink(text)) \in Ink(text) /\ Min(Ink(text)) <= 1
      BY <2>1, <2>3, MinIs
    <3> QED BY <2>1, <3>1
  <2>5. Max(Ink(text)) \in Nat
    BY <1>3, <2>1, MaxIs
  <2> QED BY <1>1, <1>3, <2>4, <2>5, ExtentIs
<1> QED BY <1>2, <1>3

\* A line that is not indented ends before the panel's margin, an indented one
\* is not wider, and the input fits into the circle, but for a single character
\* or the ellipsis (wrap_next_text_line, append_ellipsis_to_line,
\* truncate_text_to_width).
THEOREM NothingIsTooWide == Spec => []LinesFit
<1>1. PanelInv => LinesFit
  <2>1. SUFFICES ASSUME PanelInv PROVE LinesFit
    OBVIOUS
  <2>2. ASSUME NEW l \in ToSet(layout)
        PROVE  \/ Reach(l.text, l.kind) <= TextWidth
               \/ Indented(l.text) /\ Extent(l.text, l.kind) <= TextWidth
               \/ Single(l.text)
    <3>1. PICK i \in 1..Len(layout) : l = layout[i]
      BY <2>1, ElementsOf DEF PanelInv, TypeOK
    <3>2. Extent(l.text, l.kind) <= TextWidth \/ Single(l.text)
      BY <2>1, <3>1 DEF PanelInv, Fit, FitLine
    <3>3. layout \in Seq(Lines)
      BY <2>1 DEF PanelInv, TypeOK
    <3>4. l \in Lines
      BY <3>1, <3>3, ElementIn
    <3>5. l.text \in Seq(LineByte)
      BY <3>4 DEF Lines
    <3> QED BY <3>2, <3>5, ReachOfUnindented
  <2> QED BY <2>1, <2>2 DEF PanelInv, Fit, LinesFit
<1> QED BY <1>1, PanelInductive, PTL

\* A line ends inside a word only if the word alone is wider than the panel,
\* and never inside a character (wrap_next_text_line).
THEOREM WordsAreSplitLast == Spec => []WordsStayWhole
<1>1. PanelInv => WordsStayWhole
  <2>1. SUFFICES ASSUME PanelInv PROVE WordsStayWhole
    OBVIOUS
  <2>2. ASSUME NEW l \in ToSet(layout)
        PROVE  WholeWord(pam_display[l.kind], l.kind, l.next, TextWidth)
    <3>1. PICK i \in 1..Len(layout) : l = layout[i]
      BY <2>1, ElementsOf DEF PanelInv, TypeOK
    <3> QED BY <2>1, <3>1 DEF PanelInv, Fit, FitLine
  <2> QED BY <2>2 DEF WordsStayWhole, WholeWord
<1> QED BY <1>1, PanelInductive, PTL
=============================================================================

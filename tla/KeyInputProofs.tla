---------------------------- MODULE KeyInputProofs ----------------------------
(***************************************************************************)
(* Proofs about KeyInput: for every size of the password buffer, of the    *)
(* echo and of the text a key can have, deleting never leaves the buffer,  *)
(* typing leaves it by no more than a text is longer than the room asked   *)
(* for, no input is added to what a verification has consumed, the buffer  *)
(* holds what the user typed, and the echo shows it.                       *)
(***************************************************************************)
EXTENDS KeyInput, SequenceLemmas

Bytes == {"nul", "ascii", "lead", "cont", "pattern"}

\* What text is made of.
Text1 == {"ascii", "lead", "cont"}

\* The bytes anywhere in the buffer may be continuation bytes in any number,
\* of a pattern or of glyphs half overwritten, but not the one at position 0.
WellStarted(s) == s \in [0..Size - 1 -> Bytes] /\ isutf(s[0])

KeyInv == KeyTypeOK /\ WellStarted(password)

USE DEF options, buffer, echo, dialogue, keys, timer, history, vars

-----------------------------------------------------------------------------
(* Texts *)

LEMMA SizesKnown ==
    /\ Size \in Nat /\ Size > 0 /\ Reserve \in Nat /\ Reserve < Size
    /\ VisibleSize \in Nat \ {0} /\ MaxKeyText \in Nat /\ MaxKeyText < Size
    /\ Overshoot \in Nat /\ Overshoot >= MaxKeyText - Reserve
BY SizesAssumption DEF Overshoot

LEMMA GlyphIs ==
    ASSUME NEW g \in Glyphs
    PROVE  /\ g \in Seq(Text1) /\ Len(g) \in 1..4 /\ g[1] # "cont"
           /\ \A i \in 2..Len(g) : g[i] = "cont"
<1>1. CASE g = <<"ascii">>
  BY <1>1 DEF Text1
<1>2. CASE g = <<"lead", "cont">>
  BY <1>2 DEF Text1
<1>3. CASE g = <<"lead", "cont", "cont">>
  BY <1>3 DEF Text1
<1>4. CASE g = <<"lead", "cont", "cont", "cont">>
  BY <1>4 DEF Text1
<1> QED BY <1>1, <1>2, <1>3, <1>4 DEF Glyphs

LEMMA GlyphsAreText ==
    ASSUME NEW t \in Seq(Glyphs)
    PROVE  /\ t \in Seq(Seq(Text1)) /\ FlattenSeq(t) \in Seq(Text1)
           /\ Len(FlattenSeq(t)) \in Nat
<1>1. t \in Seq(Seq(Text1))
  <2>1. Len(t) \in Nat /\ t \in [1..Len(t) -> Glyphs]
    OBVIOUS
  <2>2. t \in [1..Len(t) -> Seq(Text1)]
    <3>1. \A i \in 1..Len(t) : t[i] \in Seq(Text1)
      BY <2>1, GlyphIs
    <3> QED BY <2>1, <3>1
  <2> QED BY <2>1, <2>2
<1>2. FlattenSeq(t) \in Seq(Text1)
  BY <1>1, FlattenType
<1> QED BY <1>1, <1>2

\* The text of a key begins with the start of a glyph.
LEMMA KeyTextIs ==
    ASSUME NEW text \in KeyTexts
    PROVE  /\ text \in Seq(Glyphs) /\ FlattenSeq(text) \in Seq(Text1)
           /\ Len(FlattenSeq(text)) \in 1..MaxKeyText
           /\ FlattenSeq(text)[1] # "cont"
<1>1. PICK n \in 1..MaxKeyText : text \in [1..n -> Glyphs]
  BY DEF KeyTexts
<1>2. /\ text \in Seq(Glyphs) /\ Len(text) = n /\ n \in Nat /\ n >= 1
      /\ MaxKeyText \in Nat
  BY <1>1, SizesKnown
<1>3. /\ text \in Seq(Seq(Text1)) /\ FlattenSeq(text) \in Seq(Text1)
      /\ Len(FlattenSeq(text)) \in Nat
  BY <1>2, GlyphsAreText
<1>4. Len(FlattenSeq(text)) <= MaxKeyText
  BY DEF KeyTexts
<1> DEFINE g == text[1]
           F(k) == FlattenSeq(SubSeq(text, 1, k))
<1>5. g \in Seq(Text1) /\ Len(g) \in 1..4 /\ g[1] # "cont"
  BY <1>2, GlyphIs
<1>6. 0 \in 0..Len(text) - 1 /\ 1 \in 0..Len(text) /\ 0 + 1 = 1
  BY <1>2
<1>7. F(1) = F(0) \o g
  BY <1>3, <1>6, FlattenPrefixGrows
<1>8. F(0) = << >>
  BY <1>2, WholePrefix, FlattenEmpty, Zenon
<1>9. F(1) = g
  BY <1>5, <1>7, <1>8, Concatenated
<1>10. /\ Len(F(1)) <= Len(FlattenSeq(text))
       /\ \A i \in 1..Len(F(1)) : F(1)[i] = FlattenSeq(text)[i]
  BY <1>3, <1>6, FlattenPrefix
<1> HIDE DEF g, F
<1>11. Len(FlattenSeq(text)) >= 1 /\ FlattenSeq(text)[1] = g[1]
  BY <1>3, <1>5, <1>9, <1>10
<1> QED BY <1>2, <1>3, <1>4, <1>5, <1>11

-----------------------------------------------------------------------------
(* The buffer *)

LEMMA RestOfSmall ==
    ASSUME NEW c \in Nat, c >= 4
    PROVE  0 % c = 0 /\ 1 % c = 1
OBVIOUS

LEMMA WipedStays ==
    ASSUME NEW s, WellStarted(s)
    PROVE  WellStarted(Wiped(s)) /\ WellStarted(Emptied(s))
<1> DEFINE t == Wiped(s)
<1>1. DOMAIN s = 0..Size - 1 /\ Size \in Nat /\ 0 \in 0..Size - 1
  BY SizesKnown DEF WellStarted
<1>2. \A value : ByteOf(value) \in Bytes
  BY DEF ByteOf, Bytes
<1>3. t \in [0..Size - 1 -> Bytes]
  BY <1>1, <1>2 DEF Wiped, WellStarted, Bytes
<1>4. isutf(t[0])
  <2>1. CASE explicit_bzero
    BY <2>1, <1>1 DEF Wiped, WellStarted, isutf
  <2>2. CASE ~explicit_bzero
    <3>1. CharSize \in Nat /\ CharSize >= 4
      BY SizesAssumption
    <3>2. 0 % CharSize = 0 /\ 1 % CharSize = 1
      BY <3>1, RestOfSmall
    <3>3. t[0] = ByteOf(0) \/ t[0] = ByteOf(1)
      BY <2>2, <3>2, <1>1 DEF Wiped
    <3>4. ByteOf(0) # "cont" /\ ByteOf(1) # "cont"
      BY <3>1 DEF ByteOf
    <3> QED BY <3>3, <3>4 DEF isutf
  <2> QED BY <2>1, <2>2
<1> HIDE DEF t
<1>5. WellStarted(t)
  BY <1>3, <1>4 DEF WellStarted
<1>6. WellStarted([t EXCEPT ![0] = "nul"])
  BY <1>1, <1>3 DEF WellStarted, Bytes, isutf
<1> QED BY <1>5, <1>6 DEF t, Emptied

LEMMA NulStays ==
    ASSUME NEW s, WellStarted(s), NEW p \in 0..Size - 1
    PROVE  /\ WellStarted([s EXCEPT ![p] = "nul"])
           /\ [s EXCEPT ![p] = "nul"][p] = "nul"
BY SizesKnown DEF WellStarted, Bytes, isutf

\* What lies inside the array of a text that is stored is well started.
LEMMA StoredStays ==
    ASSUME NEW s, WellStarted(s), NEW p \in Nat, NEW text \in KeyTexts
    PROVE  LET bytes == FlattenSeq(text)
           IN  /\ WellStarted(Stored(s, p, bytes))
               /\ p + Len(bytes) < Size => Stored(s, p, bytes)[p + Len(bytes)] = "nul"
<1> DEFINE b == FlattenSeq(text)
           t == Stored(s, p, b)
<1>1. /\ b \in Seq(Text1) /\ Len(b) \in Nat /\ Len(b) >= 1 /\ b[1] # "cont"
      /\ Size \in Nat /\ Size > 0
  BY KeyTextIs, SizesKnown
<1> HIDE DEF b
<1>2. \A k \in 1..Len(b) : b[k] \in Bytes
  BY <1>1 DEF Text1, Bytes
<1>3. /\ DOMAIN t = 0..Size - 1
      /\ \A i \in 0..Size - 1 :
            t[i] = IF i \in p..p + Len(b) - 1 THEN b[i - p + 1]
                   ELSE IF i = p + Len(b) THEN "nul" ELSE s[i]
  BY DEF Stored, WellStarted
<1>4. t \in [0..Size - 1 -> Bytes]
  <2>1. ASSUME NEW i \in 0..Size - 1
        PROVE  IF i \in p..p + Len(b) - 1 THEN b[i - p + 1] \in Bytes
               ELSE IF i = p + Len(b) THEN "nul" \in Bytes ELSE s[i] \in Bytes
    BY <1>1, <1>2 DEF WellStarted, Bytes
  <2> QED BY <2>1 DEF Stored, WellStarted
<1>5. isutf(t[0])
  <2>1. 0 \in 0..Size - 1
    BY <1>1
  <2>2. CASE p = 0
    <3>1. 0 \in p..p + Len(b) - 1 /\ 0 - p + 1 = 1
      BY <1>1, <2>2
    <3> QED BY <1>1, <1>3, <2>1, <3>1 DEF isutf
  <2>3. CASE p # 0
    <3>1. 0 \notin p..p + Len(b) - 1 /\ 0 # p + Len(b)
      BY <1>1, <2>3
    <3> QED BY <1>3, <2>1, <3>1 DEF WellStarted
  <2> QED BY <2>2, <2>3
<1>6. ASSUME p + Len(b) < Size PROVE t[p + Len(b)] = "nul"
  <2>1. p + Len(b) \in 0..Size - 1 /\ p + Len(b) \notin p..p + Len(b) - 1
    BY <1>1, <1>6
  <2> QED BY <1>3, <2>1
<1> QED BY <1>4, <1>5, <1>6 DEF WellStarted, b

\* The start of the glyph before i is the nearest of three bytes that starts
\* one, or else the fourth, and is never in front of the buffer.
LEMMA DecIsGlyphStart ==
    ASSUME NEW s, WellStarted(s), NEW i \in 1..Size - 1
    PROVE  /\ \A j \in 0..i - 1 :
                 /\ i - j \in 1..3 /\ isutf(s[j])
                 /\ \A k \in j + 1..i - 1 : ~isutf(s[k])
                 => u8_dec(s, i) = j
           /\ (\A k \in i - 3..i - 1 : ~isutf(s[k])) => u8_dec(s, i) = i - 4
           /\ u8_dec(s, i) \in 0..i - 1
<1> DEFINE starts == {j \in i - 3..i - 1 : j \in DOMAIN s /\ isutf(s[j])}
<1>1. DOMAIN s = 0..Size - 1 /\ Size \in Nat /\ i \in Nat /\ isutf(s[0])
  BY SizesKnown DEF WellStarted
<1>2. u8_dec(s, i) = IF starts = {} THEN i - 4
                     ELSE CHOOSE j \in starts : \A k \in starts : k <= j
  BY DEF u8_dec
<1>3. ASSUME NEW j \in 0..i - 1, i - j \in 1..3, isutf(s[j]),
             \A k \in j + 1..i - 1 : ~isutf(s[k])
      PROVE  u8_dec(s, i) = j
  <2>1. j \in starts
    BY <1>1, <1>3
  <2>2. \A k \in starts : k \in Int /\ k <= j
    BY <1>1, <1>3
  <2>3. \A m \in starts : (\A k \in starts : k <= m) => m = j
    <3> HIDE DEF starts
    <3> QED BY <1>1, <2>1, <2>2
  <2> HIDE DEF starts
  <2> QED BY <1>2, <2>1, <2>2, <2>3
<1>4. ASSUME \A k \in i - 3..i - 1 : ~isutf(s[k])
      PROVE  u8_dec(s, i) = i - 4
  BY <1>2, <1>4
<1>5. u8_dec(s, i) \in 0..i - 1
  <2>1. CASE starts = {}
    <3>1. i > 3
      <4>1. i <= 3 => 0 \in starts
        BY <1>1
      <4> QED BY <2>1, <4>1, <1>1
    <3> QED BY <1>1, <1>2, <2>1, <3>1
  <2>2. CASE starts # {}
    <3> DEFINE D == {i - j : j \in starts}
    <3>1. D \in SUBSET Nat /\ D # {}
      BY <1>1, <2>2
    <3>2. PICK d \in D : \A e \in D : ~(e < d)
      BY <3>1, LeastNumber
    <3>3. PICK j \in starts : d = i - j
      BY <3>2
    <3>4. starts \in SUBSET (0..i - 1)
      BY <1>1
    <3>5. ASSUME NEW k \in starts PROVE k <= j
      <4>1. i - k \in D
        OBVIOUS
      <4>2. ~(i - k < i - j)
        BY <3>2, <3>3, <4>1
      <4>3. k \in Int /\ j \in Int
        BY <3>4
      <4> HIDE DEF starts, D
      <4> QED BY <4>2, <4>3, <1>1
    <3> HIDE DEF starts, D
    <3>6. (CHOOSE m \in starts : \A k \in starts : k <= m) \in starts
      BY <3>3, <3>5
    <3> QED BY <1>2, <2>2, <3>4, <3>6
  <2> QED BY <2>1, <2>2
<1> QED BY <1>3, <1>4, <1>5

LEMMA StrlenInside ==
    ASSUME NEW s, WellStarted(s), NEW p \in 0..Size - 1, s[p] = "nul"
    PROVE  strlen(s) \in 0..Size - 1
<1> DEFINE N == {n \in Nat : n \in 0..Size - 1 /\ s[n] = "nul"}
<1>1. DOMAIN s = 0..Size - 1 /\ Size \in Nat
  BY SizesKnown DEF WellStarted
<1>2. p \in N /\ N \in SUBSET Nat
  BY <1>1
<1>3. PICK n \in N : \A m \in N : ~(m < n)
  BY <1>2, LeastNumber
<1>4. n \in DOMAIN s /\ s[n] = "nul" /\ \A i \in 0..n - 1 : s[i] # "nul"
  BY <1>1, <1>3
<1> HIDE DEF N
<1>5. strlen(s) \in DOMAIN s
  BY <1>4 DEF strlen
<1> QED BY <1>1, <1>5

\* The echo is cut at the start of a glyph, inside its array.
LEMMA VisibleFits ==
    ASSUME NEW s, WellStarted(s), NEW p \in 0..Size - 1, s[p] = "nul"
    PROVE  Len(VisibleOf(s)) < VisibleSize
<1>1. /\ strlen(s) \in 0..Size - 1 /\ VisibleSize \in Nat \ {0} /\ Size \in Nat
  BY StrlenInside, SizesKnown
<1>2. utf8_truncate_to_char_boundary(s, VisibleSize - 1) \in 0..VisibleSize - 1
  <2> DEFINE S == {n \in 0..VisibleSize - 1 : n = 0 \/ isutf(s[n])}
  <2>1. 0 \in S /\ VisibleSize - 1 \in Nat
    BY <1>1
  <2>2. PICK n \in S : \A m \in S : m <= n
    BY <2>1, GreatestNumber
  <2>3. \A k \in n + 1..VisibleSize - 1 : ~isutf(s[k])
    BY <2>1, <2>2
  <2> QED BY <2>2, <2>3 DEF utf8_truncate_to_char_boundary
<1> DEFINE len == strlen(s)
           n == IF len >= VisibleSize
                THEN utf8_truncate_to_char_boundary(s, VisibleSize - 1) ELSE len
<1>3. n \in 0..VisibleSize - 1
  BY <1>1, <1>2
<1>4. VisibleOf(s) = IF prompt_echo_on THEN [i \in 1..n |-> s[i - 1]] ELSE << >>
  BY DEF VisibleOf
<1> HIDE DEF n
<1>5. Len([i \in 1..n |-> s[i - 1]]) = n
  BY <1>3, <1>1
<1> QED BY <1>1, <1>3, <1>4, <1>5

-----------------------------------------------------------------------------
(* The buffer and the glyphs the user has typed *)

\* The glyphs of t, one after the other, and a NUL.
Holds(s, p, t) ==
    /\ t \in Seq(Glyphs)
    /\ p \in 0..Size - 1 /\ s[p] = "nul"
    /\ p = Len(FlattenSeq(t)) /\ \A i \in 1..p : s[i - 1] = FlattenSeq(t)[i]

LEMMA StrlenIs ==
    ASSUME NEW s, DOMAIN s = 0..Size - 1, NEW p \in 0..Size - 1,
           s[p] = "nul", \A i \in 0..p - 1 : s[i] # "nul"
    PROVE  strlen(s) = p
<1>1. Size \in Nat
  BY SizesKnown
<1>2. \A n \in DOMAIN s :
        s[n] = "nul" /\ (\A i \in 0..n - 1 : s[i] # "nul") => n = p
  BY <1>1
<1> QED BY <1>2 DEF strlen

\* The string in the buffer is what was typed.
LEMMA HoldsMeans ==
    ASSUME NEW s, WellStarted(s), NEW p, NEW t, Holds(s, p, t)
    PROVE  strlen(s) = p /\ Text(s) = FlattenSeq(t)
<1> DEFINE f == FlattenSeq(t)
<1>1. f \in Seq(Text1) /\ p = Len(f) /\ p \in 0..Size - 1
  BY GlyphsAreText DEF Holds
<1>2. \A i \in 1..p : s[i - 1] = f[i] /\ f[i] \in Text1
  BY <1>1 DEF Holds
<1>3. DOMAIN s = 0..Size - 1 /\ Size \in Nat
  BY SizesKnown DEF WellStarted
<1>4. \A i \in 0..p - 1 : s[i] # "nul"
  <2>1. ASSUME NEW i \in 0..p - 1 PROVE s[i] # "nul"
    <3>1. i + 1 \in 1..p /\ (i + 1) - 1 = i
      BY <1>1, <1>3
    <3> QED BY <3>1, <1>2 DEF Text1
  <2> QED BY <2>1
<1>5. strlen(s) = p
  BY <1>1, <1>3, <1>4, StrlenIs DEF Holds
<1>6. Text(s) = [i \in 1..p |-> s[i - 1]]
  BY <1>5 DEF Text
<1>7. f = [i \in 1..p |-> f[i]]
  BY <1>1
<1> HIDE DEF f
<1>8. [i \in 1..p |-> s[i - 1]] = [i \in 1..p |-> f[i]]
  BY <1>2
<1> QED BY <1>5, <1>6, <1>7, <1>8 DEF f

LEMMA HoldsNothing ==
    ASSUME NEW s, s[0] = "nul"
    PROVE  Holds(s, 0, << >>)
BY FlattenEmpty, SizesKnown DEF Holds

\* A text that is stored behind the others is typed behind the others.
LEMMA HoldsStored ==
    ASSUME NEW s, WellStarted(s), NEW p, NEW t, Holds(s, p, t),
           NEW text \in KeyTexts, p + Len(FlattenSeq(text)) < Size
    PROVE  Holds(Stored(s, p, FlattenSeq(text)), p + Len(FlattenSeq(text)), t \o text)
<1> DEFINE f == FlattenSeq(t)
           g == FlattenSeq(text)
           u == Stored(s, p, g)
<1>1. /\ t \in Seq(Glyphs) /\ text \in Seq(Glyphs)
      /\ t \in Seq(Seq(Text1)) /\ text \in Seq(Seq(Text1))
      /\ f \in Seq(Text1) /\ g \in Seq(Text1)
      /\ t \o text \in Seq(Glyphs)
  <2>1. t \in Seq(Glyphs) /\ text \in Seq(Glyphs)
    BY KeyTextIs DEF Holds
  <2> QED BY <2>1, GlyphsAreText, Concatenated
<1>2. /\ p \in Nat /\ Len(g) \in Nat /\ Len(g) >= 1 /\ p = Len(f) /\ Size \in Nat
      /\ p \in 0..Size - 1 /\ p + Len(g) < Size
  BY KeyTextIs, SizesKnown DEF Holds
<1>3. FlattenSeq(t \o text) = f \o g
  BY <1>1, FlattenConcat
<1>4. /\ Len(f \o g) = p + Len(g)
      /\ \A i \in 1..p : (f \o g)[i] = f[i]
      /\ \A i \in 1..Len(g) : (f \o g)[p + i] = g[i]
  BY <1>1, <1>2, Concatenated
<1>5. \A i \in 0..Size - 1 :
        u[i] = IF i \in p..p + Len(g) - 1 THEN g[i - p + 1]
               ELSE IF i = p + Len(g) THEN "nul" ELSE s[i]
  BY DEF Stored, WellStarted
<1>6. \A i \in 1..p : s[i - 1] = f[i]
  BY DEF Holds
<1> HIDE DEF f, g, u
<1>7. p + Len(g) \in 0..Size - 1 /\ u[p + Len(g)] = "nul"
  BY <1>2, <1>5
<1>8. ASSUME NEW i \in 1..p + Len(g)
      PROVE  u[i - 1] = (f \o g)[i]
  <2>1. i - 1 \in 0..Size - 1 /\ i - 1 # p + Len(g)
    BY <1>2, <1>7
  <2>2. CASE i \in 1..p
    <3>1. i - 1 \notin p..p + Len(g) - 1
      BY <1>2, <2>2
    <3> QED BY <2>1, <2>2, <3>1, <1>4, <1>5, <1>6
  <2>3. CASE i \notin 1..p
    <3>1. /\ i - p \in 1..Len(g) /\ p + (i - p) = i
          /\ i - 1 \in p..p + Len(g) - 1 /\ (i - 1) - p + 1 = i - p
      BY <1>2, <2>3
    <3> QED BY <2>1, <3>1, <1>4, <1>5
  <2> QED BY <2>2, <2>3
<1>9. Holds(u, p + Len(g), t \o text)
  BY <1>1, <1>3, <1>4, <1>7, <1>8 DEF Holds
<1> QED BY <1>9 DEF u, g

\* The glyph that is cut off is the one typed last.
LEMMA HoldsDeleted ==
    ASSUME NEW s, WellStarted(s), NEW p, NEW t, Holds(s, p, t), p # 0
    PROVE  /\ t # << >>
           /\ Holds([s EXCEPT ![u8_dec(s, p)] = "nul"], u8_dec(s, p), Front(t))
<1>1. t \in Seq(Glyphs) /\ t # << >>
  BY FlattenEmpty DEF Holds
<1> DEFINE r == Front(t)
           g == Last(t)
           f == FlattenSeq(r)
           q == Len(f)
<1>2. r \in Seq(Glyphs) /\ g \in Glyphs /\ t = Append(r, g)
  BY <1>1, FrontAndLast
<1>3. f \in Seq(Text1) /\ r \in Seq(Seq(Text1)) /\ g \in Seq(Text1) /\ q \in Nat
  BY <1>2, GlyphsAreText, GlyphIs
<1>4. FlattenSeq(t) = f \o g
  BY <1>2, <1>3, FlattenAppend
<1> HIDE DEF r, g, f, q
<1>5. /\ Len(f \o g) = q + Len(g)
      /\ \A i \in 1..q : (f \o g)[i] = f[i]
      /\ \A i \in 1..Len(g) : (f \o g)[q + i] = g[i]
  BY <1>3, Concatenated DEF q
<1>6. /\ Len(g) \in 1..4 /\ g[1] # "cont"
      /\ \A i \in 2..Len(g) : g[i] = "cont"
  BY <1>2, GlyphIs
<1>7. /\ p = q + Len(g) /\ p \in 1..Size - 1 /\ Size \in Nat
      /\ \A i \in 1..p : s[i - 1] = (f \o g)[i]
  <2>1. /\ p = Len(f \o g) /\ p \in 0..Size - 1
        /\ \A i \in 1..p : s[i - 1] = (f \o g)[i]
    BY <1>4 DEF Holds
  <2>2. Size \in Nat
    BY SizesKnown
  <2>3. p \in 1..Size - 1
    BY <2>1, <2>2
  <2> QED BY <1>5, <2>1, <2>2, <2>3
<1>8. u8_dec(s, p) = q
  <2> DEFINE n == Len(g)
  <2>0. p = q + n /\ q \in Nat /\ n \in 1..4 /\ p \in 1..Size - 1
    BY <1>3, <1>6, <1>7
  <2> HIDE DEF n
  <2>1. \A k \in q..p - 1 : k - q + 1 \in 1..Len(g) /\ s[k] = g[k - q + 1]
    <3>1. ASSUME NEW k \in q..p - 1
          PROVE  k - q + 1 \in 1..Len(g) /\ s[k] = g[k - q + 1]
      <4>1. /\ k + 1 \in 1..p /\ (k + 1) - 1 = k
            /\ k - q + 1 \in 1..Len(g) /\ q + (k - q + 1) = k + 1
        BY <2>0 DEF n
      <4>2. s[k] = (f \o g)[k + 1]
        BY <4>1, <1>7
      <4>3. (f \o g)[q + (k - q + 1)] = g[k - q + 1]
        BY <4>1, <1>5
      <4> QED BY <4>1, <4>2, <4>3
    <3> QED BY <3>1
  <2>2. q \in 0..p - 1 /\ q \in q..p - 1 /\ q - q + 1 = 1 /\ p - q = n
    BY <2>0
  <2>3. isutf(s[q])
    <3>1. s[q] = g[q - q + 1]
      BY <2>1, <2>2
    <3> QED BY <2>2, <3>1, <1>6 DEF isutf
  <2>4. ASSUME NEW k \in q + 1..p - 1 PROVE ~isutf(s[k])
    <3>1. k \in q..p - 1 /\ k - q + 1 \in 2..n
      BY <2>0
    <3> QED BY <2>1, <3>1, <1>6 DEF isutf, n
  <2>5. CASE n \in 1..3
    BY <2>0, <2>2, <2>3, <2>4, <2>5, DecIsGlyphStart
  <2>6. CASE n = 4
    <3>1. p = q + 4 /\ p - 3 = q + 1 /\ p - 4 = q
      BY <2>0, <2>6
    <3>2. \A k \in p - 3..p - 1 : ~isutf(s[k])
      BY <2>4, <3>1
    <3> QED BY <2>0, <3>1, <3>2, DecIsGlyphStart
  <2> QED BY <2>0, <2>5, <2>6
<1> DEFINE u == [s EXCEPT ![q] = "nul"]
<1>9. q \in 0..Size - 1 /\ q < p
  BY <1>3, <1>6, <1>7
<1>10. u[q] = "nul" /\ \A i \in 1..q : u[i - 1] = s[i - 1]
  BY <1>3, <1>9 DEF WellStarted
<1>11. ASSUME NEW i \in 1..q PROVE u[i - 1] = f[i]
  <2>1. i \in 1..p
    BY <1>3, <1>7, <1>9
  <2>2. u[i - 1] = s[i - 1]
    BY <1>10
  <2> QED BY <2>1, <2>2, <1>5, <1>7
<1>12. Holds(u, q, r)
  <2> HIDE DEF u
  <2> QED BY <1>2, <1>9, <1>10, <1>11 DEF Holds, f, q
<1> QED BY <1>1, <1>8, <1>12 DEF r

\* The cut is the start of the glyph that does not fit.
LEMMA TruncatedIs ==
    ASSUME NEW s, NEW len \in Nat, NEW n \in 0..len, isutf(s[n]),
           \A k \in n + 1..len : ~isutf(s[k])
    PROVE  utf8_truncate_to_char_boundary(s, len) = n
<1>1. \A m \in 0..len :
        (m = 0 \/ isutf(s[m])) /\ (\A k \in m + 1..len : ~isutf(s[k])) => m = n
  OBVIOUS
<1> QED BY <1>1 DEF utf8_truncate_to_char_boundary

\* How many glyphs of the input are echoed.
Fitting(t) ==
    {n \in 0..Len(t) : Len(FlattenSeq(SubSeq(t, 1, n))) < VisibleSize}

LEMMA FittingHasMax ==
    ASSUME NEW t \in Seq(Glyphs)
    PROVE  LET N == CHOOSE n \in Fitting(t) : \A m \in Fitting(t) : m <= n
           IN  N \in Fitting(t) /\ \A m \in Fitting(t) : m <= N
<1>1. Len(t) \in Nat /\ SubSeq(t, 1, 0) = << >>
  OBVIOUS
<1>2. Fitting(t) \in SUBSET (0..Len(t))
  BY DEF Fitting
<1>3. 0 \in Fitting(t)
  <2>1. Len(FlattenSeq(SubSeq(t, 1, 0))) = 0
    <3>1. FlattenSeq(SubSeq(t, 1, 0)) = << >>
      BY <1>1, FlattenEmpty, Zenon
    <3> QED BY <3>1
  <2> QED BY <1>1, <2>1, SizesKnown DEF Fitting
<1>4. \E n \in Fitting(t) : \A m \in Fitting(t) : m <= n
  BY <1>1, <1>2, <1>3, GreatestNumber
<1> QED BY <1>4

Echoed(t) ==
    FlattenSeq(SubSeq(t, 1, CHOOSE n \in Fitting(t) : \A m \in Fitting(t) : m <= n))

LEMMA NothingEchoed == Echoed(<< >>) = << >>
<1> DEFINE N == CHOOSE n \in Fitting(<< >>) : \A m \in Fitting(<< >>) : m <= n
<1>1. << >> \in Seq(Glyphs) /\ Len(<< >>) = 0 /\ SubSeq(<< >>, 1, 0) = << >>
  OBVIOUS
<1>2. N \in Fitting(<< >>)
  BY <1>1, FittingHasMax
<1>3. N = 0
  <2> HIDE DEF N
  <2> QED BY <1>1, <1>2 DEF Fitting
<1>4. Echoed(<< >>) = FlattenSeq(SubSeq(<< >>, 1, 0))
  <2>1. Echoed(<< >>) = FlattenSeq(SubSeq(<< >>, 1, N))
    BY DEF Echoed
  <2> HIDE DEF N
  <2> QED BY <2>1, <1>3
<1> QED BY <1>1, <1>4, FlattenEmpty, Zenon

\* What is echoed of the buffer are the first glyphs it holds.
LEMMA VisibleShows ==
    ASSUME NEW s, WellStarted(s), NEW p, NEW t, Holds(s, p, t), prompt_echo_on
    PROVE  VisibleOf(s) = Echoed(t)
<1> DEFINE N == CHOOSE n \in Fitting(t) : \A m \in Fitting(t) : m <= n
           F(n) == FlattenSeq(SubSeq(t, 1, n))
           f == FlattenSeq(t)
           c == IF p >= VisibleSize
                THEN utf8_truncate_to_char_boundary(s, VisibleSize - 1) ELSE p
<1>1. /\ t \in Seq(Glyphs) /\ Len(t) \in Nat /\ t \in Seq(Seq(Text1))
      /\ SubSeq(t, 1, Len(t)) = t
  BY GlyphsAreText, WholePrefix DEF Holds
<1>2. /\ N \in 0..Len(t) /\ Len(F(N)) < VisibleSize
      /\ \A m \in 0..Len(t) : Len(F(m)) < VisibleSize => m <= N
  <2>1. N \in Fitting(t) /\ \A m \in Fitting(t) : m <= N
    BY <1>1, FittingHasMax
  <2> HIDE DEF N
  <2> QED BY <2>1 DEF Fitting
<1> HIDE DEF N
<1>3. VisibleOf(s) = [i \in 1..c |-> s[i - 1]]
  <2>1. strlen(s) = p
    BY HoldsMeans
  <2> QED BY <2>1 DEF VisibleOf
<1>4. /\ p \in Nat /\ p = Len(f) /\ f \in Seq(Text1)
      /\ \A i \in 1..p : s[i - 1] = f[i]
      /\ VisibleSize \in Nat \ {0} /\ Size \in Nat
  BY <1>1, GlyphsAreText, SizesKnown DEF Holds
<1>5. /\ F(N) \in Seq(Text1) /\ Len(F(N)) \in 0..p
      /\ \A i \in 1..Len(F(N)) : F(N)[i] = f[i]
  BY <1>1, <1>2, <1>4, FlattenPrefix
<1>6. c = Len(F(N))
  <2>1. CASE p < VisibleSize
    <3>1. F(Len(t)) = f
      BY <1>1
    <3>2. N = Len(t)
      <4> HIDE DEF F, f
      <4>1. Len(t) \in 0..Len(t) /\ Len(F(Len(t))) < VisibleSize
        BY <2>1, <3>1, <1>1, <1>4
      <4>2. Len(t) <= N
        BY <4>1, <1>2
      <4>3. N \in 0..Len(t) /\ Len(t) \in Nat
        BY <1>1, <1>2
      <4> QED BY <4>2, <4>3
    <3> QED BY <2>1, <3>1, <3>2, <1>4
  <2>2. CASE p >= VisibleSize
    <3>1. N \in 0..Len(t) - 1
      <4>1. F(Len(t)) = f
        BY <1>1
      <4> HIDE DEF F, f
      <4> QED BY <2>2, <4>1, <1>1, <1>2, <1>4
    <3> DEFINE g == t[N + 1]
    <3>2. N + 1 \in 1..Len(t) /\ g \in Glyphs
      BY <3>1, <1>1
    <3>3. F(N + 1) = F(N) \o g /\ g \in Seq(Text1)
      BY <3>1, <1>1, FlattenPrefixGrows
    <3>4. /\ F(N + 1) \in Seq(Text1) /\ Len(F(N + 1)) <= p
          /\ \A i \in 1..Len(F(N + 1)) : F(N + 1)[i] = f[i]
      BY <3>2, <1>1, <1>4, FlattenPrefix
    <3>5. /\ Len(F(N + 1)) = Len(F(N)) + Len(g)
          /\ \A i \in 1..Len(g) : F(N + 1)[Len(F(N)) + i] = g[i]
      <4> HIDE DEF F, g
      <4> QED BY <3>3, <1>5, Concatenated
    <3>6. /\ Len(g) \in 1..4 /\ g[1] # "cont"
          /\ \A i \in 2..Len(g) : g[i] = "cont"
      BY <3>2, GlyphIs
    <3> DEFINE b == Len(F(N))
    <3>7. Len(F(N + 1)) >= VisibleSize
      <4>1. ~(N + 1 <= N) /\ N + 1 \in 0..Len(t)
        BY <3>1, <1>1
      <4>2. ~(Len(F(N + 1)) < VisibleSize)
        BY <4>1, <1>2
      <4>3. Len(F(N + 1)) \in Nat
        BY <3>4
      <4> HIDE DEF F
      <4> QED BY <4>2, <4>3, <1>4
    <3> HIDE DEF g, F, f
    <3>8. b \in 0..VisibleSize - 1
      BY <1>2, <1>4, <1>5
    <3>9. \A i \in 1..Len(g) : s[b + i - 1] = g[i]
      <4>1. SUFFICES ASSUME NEW i \in 1..Len(g) PROVE s[b + i - 1] = g[i]
        OBVIOUS
      <4>2. b + i \in 1..Len(F(N + 1)) /\ b + i \in 1..p
        BY <3>4, <3>5, <3>6, <3>8, <1>4
      <4>3. f[b + i] = g[i] /\ s[(b + i) - 1] = f[b + i]
        BY <4>2, <3>4, <3>5, <1>4
      <4> QED BY <4>3
    <3>10. s[b] = g[1]
      <4>1. 1 \in 1..Len(g) /\ b + 1 - 1 = b
        BY <3>6, <3>8
      <4> QED BY <4>1, <3>9
    <3>11. isutf(s[b])
      BY <3>6, <3>10 DEF isutf
    <3>12. ASSUME NEW k \in b + 1..VisibleSize - 1 PROVE ~isutf(s[k])
      <4>1. b + Len(g) >= VisibleSize
        BY <3>5, <3>7
      <4>2. VisibleSize \in Nat /\ b \in Nat
        BY <3>8, <1>4
      <4> HIDE DEF b
      <4>3. k - b + 1 \in 2..Len(g) /\ b + (k - b + 1) - 1 = k
        BY <4>1, <4>2, <3>6
      <4>4. s[k] = g[k - b + 1]
        <5>1. k - b + 1 \in 1..Len(g)
          BY <4>3
        <5>2. s[b + (k - b + 1) - 1] = g[k - b + 1]
          BY <5>1, <3>9
        <5> QED BY <5>2, <4>3
      <4> QED BY <4>3, <4>4, <3>6 DEF isutf
    <3>13. utf8_truncate_to_char_boundary(s, VisibleSize - 1) = b
      BY <3>8, <3>11, <3>12, <1>4, TruncatedIs
    <3> QED BY <2>2, <3>13
  <2> QED BY <1>4, <2>1, <2>2
<1> HIDE DEF c, F, f
<1>7. VisibleOf(s) = [i \in 1..Len(F(N)) |-> F(N)[i]]
  <2>1. \A i \in 1..Len(F(N)) : s[i - 1] = F(N)[i]
    BY <1>4, <1>5
  <2> QED BY <2>1, <1>3, <1>6
<1>8. F(N) = [i \in 1..Len(F(N)) |-> F(N)[i]]
  BY <1>5
<1> QED BY <1>7, <1>8 DEF N, F, Echoed

-----------------------------------------------------------------------------
(* The invariant is inductive *)

USE DEF KeyInv

\* What the options and the dialogue may be, which the buffer does not read.
Flags ==
    /\ {explicit_bzero, beep, ignore_empty_password} \subseteq BOOLEAN
    /\ prompt_echo_on \in BOOLEAN
    /\ auth_state \in {"IDLE", "VERIFY", "WRONG", "LOCK_FAILED"}
    /\ {retry_verification, skip_repeated_empty_password, discard_passwd_timeout,
        pam_waiting_for_prompt, pam_auth_fatal, controller_started} \subseteq BOOLEAN
    /\ slot \in {"free", "running", "ending", "fatal", "success"}

Input ==
    /\ WellStarted(password)
    /\ input_position \in 0..Size - 1 + Overshoot
    /\ Len(visible_input) < VisibleSize
    /\ typed \in Seq(Glyphs) /\ consumed \in {"no", "accepted", "refused"}

LEMMA TwoParts == KeyInv <=> Flags /\ Input
<1>1. {"nul", "ascii", "lead", "cont", "pattern"} = Bytes
  BY DEF Bytes
<1> QED BY <1>1 DEF KeyTypeOK, Flags, Input, WellStarted

LEMMA InitHolds == Init => KeyInv
<1> SUFFICES ASSUME Init PROVE Flags /\ Input
  BY TwoParts
<1>1. Flags
  BY SizesAssumption DEF Init, Flags
<1>2. Input
  BY SizesKnown DEF Init, Input, WellStarted, Bytes
<1> QED BY <1>1, <1>2

LEMMA Cleared ==
    ASSUME Input, clear_input
    PROVE  Input'
<1>1. WellStarted(password')
  BY WipedStays DEF Input, clear_input
<1> QED BY <1>1, SizesKnown DEF Input, clear_input, WellStarted

\* Nothing but the position is left of a buffer that was submitted.
LEMMA Submitted ==
    ASSUME Input, InArray, NEW accepted \in BOOLEAN, Submits(accepted),
           visible_input' \in {visible_input, << >>}
    PROVE  Input'
<1>1. input_position \in 0..Size - 1
  BY SizesKnown DEF Input, InArray
<1>2. WellStarted(Terminated)
  BY <1>1, NulStays DEF Input, Terminated
<1>3. WellStarted(password')
  BY <1>2, WipedStays DEF Submits
<1> QED BY <1>3, SizesKnown DEF Input, Submits, WellStarted

LEMMA Finished ==
    ASSUME Flags, Input, InArray, finish_input,
           UNCHANGED <<options, discard_passwd_timeout, controller_started>>,
           {retry_verification', skip_repeated_empty_password'} \subseteq BOOLEAN
    PROVE  Flags' /\ Input'
<1>1. CASE /\ NotSubmitted("LOCK_FAILED")
           /\ clear_input
  BY <1>1, Cleared DEF NotSubmitted, Flags
<1>2. CASE /\ NotSubmitted("VERIFY") \/ NotSubmitted("LOCK_FAILED")
           /\ password' = Terminated
           /\ UNCHANGED <<input_position, visible_input, history>>
  <2>1. WellStarted(password')
    <3>1. input_position \in 0..Size - 1
      BY SizesKnown DEF Input, InArray
    <3> QED BY <1>2, <3>1, NulStays DEF Input, Terminated
  <2>2. Input'
    BY <1>2, <2>1 DEF Input, WellStarted
  <2> QED BY <1>2, <2>2 DEF NotSubmitted, Flags
<1>3. CASE SubmitsAnswer
  BY <1>3, Submitted DEF SubmitsAnswer, ClearDisplay, Flags
<1>4. CASE StartsTransaction
  BY <1>4, Submitted DEF StartsTransaction, ClearDisplay, Flags
<1>5. CASE StartRefused
  BY <1>5, Submitted DEF StartRefused, Flags
<1> QED BY <1>1, <1>2, <1>3, <1>4, <1>5 DEF finish_input

LEMMA EnterStep ==
    ASSUME Flags, Input, InArray, EnterKey
    PROVE  Flags' /\ Input'
<1>1. CASE retry_verification' = TRUE /\ UNCHANGED <<buffer, echo, dialogue, skip_repeated_empty_password, history>>
  <2>1. Flags'
    BY <1>1 DEF EnterKey, Flags
  <2>2. Input'
    BY <1>1 DEF Input, WellStarted
  <2> QED BY <2>1, <2>2
<1>2. CASE clear_input /\ UNCHANGED <<prompt_echo_on, dialogue, keys>>
  BY <1>2, Cleared DEF EnterKey, Flags
<1>3. CASE finish_input /\ skip_repeated_empty_password' = TRUE /\ UNCHANGED retry_verification
  BY <1>3, Finished DEF EnterKey, Flags
<1> QED BY <1>1, <1>2, <1>3 DEF EnterKey

LEMMA TypeStep ==
    ASSUME Flags, Input, InArray, TypeText
    PROVE  Flags' /\ Input'
<1>1. PICK text \in KeyTexts :
        \/ /\ password' = Stored(Emptied(password), 0, FlattenSeq(text))
           /\ input_position' = Len(FlattenSeq(text))
           /\ typed' = text /\ consumed' = "no"
        \/ /\ HasRoom(input_position)
           /\ password' = Stored(password, input_position, FlattenSeq(text))
           /\ input_position' = input_position + Len(FlattenSeq(text))
           /\ typed' = typed \o text
           /\ UNCHANGED consumed
  BY DEF TypeText
<1> DEFINE b == FlattenSeq(text)
<1>2. /\ Len(b) \in Nat /\ Len(b) <= MaxKeyText /\ MaxKeyText \in Nat
      /\ MaxKeyText < Size /\ Overshoot \in Nat /\ Overshoot >= MaxKeyText - Reserve
      /\ Size \in Nat /\ Size > 0 /\ Reserve \in Nat
  BY KeyTextIs, SizesKnown
<1>3. /\ WellStarted(password') /\ input_position' \in 0..Size - 1 + Overshoot
      /\ InArray' => password'[input_position'] = "nul"
  <2>1. CASE /\ password' = Stored(Emptied(password), 0, b)
             /\ input_position' = Len(b)
    <3>1. WellStarted(Emptied(password))
      BY WipedStays DEF Input
    <3>2. 0 \in Nat /\ 0 + Len(b) < Size /\ 0 + Len(b) = Len(b)
      BY <1>2
    <3>3. /\ WellStarted(Stored(Emptied(password), 0, b))
          /\ Stored(Emptied(password), 0, b)[0 + Len(b)] = "nul"
      BY <3>1, <3>2, StoredStays
    <3> QED BY <2>1, <3>2, <3>3, <1>2
  <2>2. CASE /\ HasRoom(input_position)
             /\ password' = Stored(password, input_position, b)
             /\ input_position' = input_position + Len(b)
    <3>1. /\ input_position \in Nat /\ input_position + Reserve < Size
          /\ WellStarted(password)
      BY <1>2, <2>2 DEF HasRoom, Input
    <3>2. /\ WellStarted(Stored(password, input_position, b))
          /\ input_position + Len(b) < Size =>
                Stored(password, input_position, b)[input_position + Len(b)] = "nul"
      BY <3>1, StoredStays
    <3>3. input_position' \in 0..Size - 1 + Overshoot
      <4> HIDE DEF b
      <4> QED BY <1>2, <2>2, <3>1
    <3> QED BY <2>2, <3>2, <3>3 DEF InArray
  <2> QED BY <1>1, <2>1, <2>2
<1>4. Len(visible_input') < VisibleSize
  <2>1. CASE InArray'
    <3>1. input_position' \in 0..Size - 1
      BY <1>2, <1>3, <2>1 DEF InArray
    <3>2. Len(VisibleOf(password')) < VisibleSize
      BY <1>3, <2>1, <3>1, VisibleFits
    <3> QED BY <2>1, <3>2 DEF TypeText
  <2>2. CASE ~InArray'
    BY <2>2 DEF TypeText, Input
  <2> QED BY <2>1, <2>2
<1>5. typed' \in Seq(Glyphs) /\ consumed' \in {"no", "accepted", "refused"}
  <2>1. typed \in Seq(Glyphs) /\ consumed \in {"no", "accepted", "refused"}
    BY DEF Input
  <2>2. text \in Seq(Glyphs) /\ typed \o text \in Seq(Glyphs)
    BY <2>1, KeyTextIs, Concatenated
  <2>3. typed' \in Seq(Glyphs)
    BY <1>1, <2>2
  <2>4. consumed' \in {"no", "accepted", "refused"}
    BY <1>1, <2>1
  <2> QED BY <2>3, <2>4
<1>6. Input'
  BY <1>3, <1>4, <1>5 DEF Input, WellStarted
<1>7. Flags'
  BY DEF TypeText, OtherKey, Flags
<1> QED BY <1>6, <1>7

LEMMA BackSpaceStep ==
    ASSUME Flags, Input, InArray, BackSpace
    PROVE  Flags' /\ Input'
<1>1. Flags'
  BY DEF BackSpace, OtherKey, Flags
<1>2. CASE clear_input
  BY <1>1, <1>2, Cleared
<1>3. CASE UNCHANGED <<buffer, visible_input, history>>
  BY <1>1, <1>3 DEF Input, WellStarted
<1>4. CASE /\ input_position # 0
           /\ input_position' = u8_dec(password, input_position)
           /\ password' = [password EXCEPT ![input_position'] = "nul"]
           /\ visible_input' = VisibleOf(password')
           /\ typed' = IF typed = << >> THEN typed ELSE Front(typed)
           /\ UNCHANGED <<consumed, submitted>>
  <2>1. input_position \in 1..Size - 1 /\ WellStarted(password) /\ Size \in Nat
    BY <1>4, SizesKnown DEF Input, InArray
  <2>2. input_position' \in 0..Size - 1
    <3>1. u8_dec(password, input_position) \in 0..input_position - 1
      BY <2>1, DecIsGlyphStart
    <3> QED BY <1>4, <2>1, <3>1
  <2>3. WellStarted(password') /\ password'[input_position'] = "nul"
    BY <1>4, <2>1, <2>2, NulStays
  <2>4. Len(visible_input') < VisibleSize
    BY <1>4, <2>2, <2>3, VisibleFits
  <2>5. typed' \in Seq(Glyphs)
    <3>1. typed \in Seq(Glyphs)
      BY DEF Input
    <3>2. CASE typed = << >>
      BY <1>4, <3>1, <3>2
    <3>3. CASE typed # << >>
      <4>1. Front(typed) = [i \in 1..Len(typed) - 1 |-> typed[i]]
        BY <3>1, <3>3 DEF Front
      <4> QED BY <1>4, <3>1, <3>3, <4>1
    <3> QED BY <3>2, <3>3
  <2>6. Input'
    BY <1>4, <2>2, <2>3, <2>4, <2>5, SizesKnown DEF Input, WellStarted
  <2> QED BY <1>1, <2>6
<1> QED BY <1>2, <1>3, <1>4 DEF BackSpace

LEMMA OtherSteps ==
    ASSUME Flags, Input, InArray,
           \/ DeadKey \/ CtrlU \/ EscapeKey \/ DiscardPassword \/ ClearAuthWrong
           \/ ShowPrompt \/ ShowFailure \/ Unlocks \/ CancelledEnds
           \/ ControllerStarts
    PROVE  Flags' /\ Input'
<1>1. CASE DeadKey
  <2>1. Flags'
    BY <1>1 DEF DeadKey, OtherKey, Flags
  <2>2. CASE clear_input
    BY <2>1, <2>2, Cleared
  <2>3. CASE UNCHANGED <<buffer, visible_input, history>>
    BY <2>1, <2>3 DEF Input, WellStarted
  <2> QED BY <1>1, <2>2, <2>3 DEF DeadKey
<1>2. CASE CtrlU
  BY <1>2, Cleared DEF CtrlU, OtherKey, Flags
<1>3. CASE EscapeKey
  BY <1>3, Cleared DEF EscapeKey, OtherKey, Flags
<1>4. CASE DiscardPassword
  BY <1>4, Cleared DEF DiscardPassword, Flags
<1>5. CASE ClearAuthWrong
  <2>1. CASE finish_input
    BY <1>5, <2>1, Finished DEF ClearAuthWrong, Flags
  <2>2. CASE auth_state' = "IDLE" /\ UNCHANGED <<buffer, echo, pam_waiting_for_prompt, pam_auth_fatal, slot, history>>
    <3>1. Flags'
      BY <1>5, <2>2 DEF ClearAuthWrong, Flags
    <3> QED BY <2>2, <3>1 DEF Input, WellStarted
  <2> QED BY <1>5, <2>1, <2>2 DEF ClearAuthWrong
<1>6. CASE ShowPrompt
  BY <1>6, Cleared DEF ShowPrompt, EventFrame, Flags
<1>7. CASE ShowFailure
  BY <1>7, Cleared DEF ShowFailure, EventFrame, Flags
<1>8. CASE Unlocks
  <2>1. WellStarted(password')
    BY <1>8, WipedStays DEF Unlocks, Input
  <2>2. Input'
    BY <1>8, <2>1, SizesKnown DEF Unlocks, ClearDisplay, Input, WellStarted
  <2> QED BY <1>8, <2>2 DEF Unlocks, ClearDisplay, EventFrame, Flags
<1>9. CASE CancelledEnds
  BY <1>9 DEF CancelledEnds, Flags, Input, WellStarted
<1>10. CASE ControllerStarts
  BY <1>10 DEF ControllerStarts, Flags, Input, WellStarted
<1> QED BY <1>1, <1>2, <1>3, <1>4, <1>5, <1>6, <1>7, <1>8, <1>9, <1>10

LEMMA SameStep ==
    ASSUME Flags, Input, UNCHANGED vars
    PROVE  Flags' /\ Input'
BY DEF Flags, Input, WellStarted

\* In every state the bytes of the buffer are known, position 0 starts a glyph
\* or is NUL -- so that deleting finds a start in the buffer, also when what it
\* deletes is a wiping pattern with any run of continuation bytes -- and the
\* position is bounded.
THEOREM KeyInductive == Spec => []KeyInv
<1>1. KeyInv /\ [Next]_vars => KeyInv'
  <2> SUFFICES ASSUME KeyInv, [Next]_vars PROVE KeyInv'
    OBVIOUS
  <2>1. Flags /\ Input
    BY TwoParts
  <2>2. Flags' /\ Input'
    BY <2>1, EnterStep, TypeStep, BackSpaceStep, OtherSteps, SameStep
       DEF Next, Keyboard, Ended
  <2>3. (Flags /\ Input => KeyInv)'
    BY TwoParts, PTL
  <2> QED BY <2>2, <2>3
<1> QED BY InitHolds, <1>1, PTL DEF Spec

\* Whatever the user types, deletes and submits, and wherever a refused attempt
\* has left the position, the echo stays inside its array, and the position
\* inside the buffer with room for the NUL, except by what the longest text of
\* a key is longer than the room asked for (handle_key_press, u8_dec).
THEOREM StaysInside == Spec => []KeyTypeOK
BY KeyInductive, PTL

\* So the buffer is never left if the room asked for is that of the longest
\* text, which 8 bytes are of a key but not of a compose sequence.
THEOREM RoomSuffices == ASSUME MaxKeyText <= Reserve PROVE Spec => []InArray
<1>1. KeyInv => InArray
  BY SizesKnown DEF KeyTypeOK, Overshoot, InArray
<1> QED BY <1>1, KeyInductive, PTL

\* What PAM has consumed is never the beginning of the next input: the user can
\* type again only after the position was reset (handle_pam_event).
THEOREM ConsumedIsReset == Spec => []ResetBeforeNextInput
<1>1. Init => ResetBeforeNextInput
  BY DEF Init, ResetBeforeNextInput
<1>2. ResetBeforeNextInput /\ [Next]_vars => ResetBeforeNextInput'
  <2> SUFFICES ASSUME ResetBeforeNextInput, [Next]_vars
               PROVE  ResetBeforeNextInput'
    OBVIOUS
  <2> USE DEF ResetBeforeNextInput, Locked
  <2>1. finish_input => ResetBeforeNextInput'
    BY DEF finish_input, NotSubmitted, clear_input, SubmitsAnswer,
           StartsTransaction, StartRefused, Submits
  <2>2. EnterKey => ResetBeforeNextInput'
    BY <2>1 DEF EnterKey, clear_input
  <2>3. TypeText \/ DeadKey \/ BackSpace \/ CtrlU \/ EscapeKey =>
          ResetBeforeNextInput'
    BY DEF TypeText, DeadKey, BackSpace, CtrlU, EscapeKey, OtherKey, clear_input
  <2>4. DiscardPassword \/ ClearAuthWrong => ResetBeforeNextInput'
    BY <2>1 DEF DiscardPassword, ClearAuthWrong, clear_input
  <2>5. ShowPrompt \/ ShowFailure \/ Unlocks \/ CancelledEnds =>
          ResetBeforeNextInput'
    BY DEF ShowPrompt, ShowFailure, Unlocks, CancelledEnds, clear_input
  <2>6. ControllerStarts \/ UNCHANGED vars => ResetBeforeNextInput'
    BY DEF ControllerStarts
  <2> QED BY <2>2, <2>3, <2>4, <2>5, <2>6 DEF Next, Keyboard, Ended
<1> QED BY <1>1, <1>2, PTL DEF Spec

-----------------------------------------------------------------------------
(* What is typed is held, and echoed while a visible prompt waits *)

\* Only a waiting prompt echoes, and it waits for input that is not consumed.
Echoing ==
    /\ prompt_echo_on => pam_waiting_for_prompt
    /\ pam_waiting_for_prompt => slot = "running" /\ consumed = "no"

Content ==
    consumed = "no" /\ Locked /\ InArray => Holds(password, input_position, typed)

Shown == InArray => visible_input = IF prompt_echo_on THEN Echoed(typed) ELSE << >>

Held == Echoing /\ Content /\ Shown

LEMMA ShownIsVisible == Shown <=> VisibleIsTyped
BY DEF Shown, VisibleIsTyped, Echoed, Fitting

LEMMA InitHeld == Init => Held
<1> SUFFICES ASSUME Init PROVE Held
  OBVIOUS
<1>1. password[0] = "nul" /\ input_position = 0 /\ typed = << >>
  BY SizesKnown DEF Init
<1> QED BY <1>1, HoldsNothing DEF Init, Held, Echoing, Content, Shown

LEMMA ClearedHeld ==
    ASSUME Input, clear_input
    PROVE  Content' /\ Shown'
<1>1. password'[0] = "nul"
  BY SizesKnown, WipedStays DEF clear_input, Emptied, Input, WellStarted
<1>2. input_position' = 0 /\ typed' = << >> /\ visible_input' = << >>
  BY DEF clear_input
<1>3. Holds(password', 0, << >>)
  BY <1>1, HoldsNothing
<1>4. Shown'
  BY <1>2, NothingEchoed DEF Shown
<1> QED BY <1>2, <1>3, <1>4 DEF Content

\* The NUL that finish_input writes is there already.
LEMMA TerminatedHeld ==
    ASSUME Input, Held, password' = Terminated,
           UNCHANGED <<input_position, echo, history, pam_waiting_for_prompt, slot>>
    PROVE  Held'
<1>1. CASE consumed = "no" /\ Locked /\ InArray
  <2>1. Terminated = password
    BY <1>1 DEF Terminated, Held, Content, Holds, Input, WellStarted
  <2> QED BY <2>1 DEF Held, Content, Echoing, Shown, Locked, InArray
<1>2. CASE ~(consumed = "no" /\ Locked /\ InArray)
  BY <1>2 DEF Held, Content, Echoing, Shown, Locked, InArray
<1> QED BY <1>1, <1>2

LEMMA FinishedHeld ==
    ASSUME Input, Held, finish_input
    PROVE  Held'
<1>1. CASE NotSubmitted("LOCK_FAILED") /\ clear_input
  BY <1>1, ClearedHeld DEF NotSubmitted, Held, Echoing, clear_input
<1>2. CASE /\ NotSubmitted("VERIFY") \/ NotSubmitted("LOCK_FAILED")
           /\ password' = Terminated
           /\ UNCHANGED <<input_position, visible_input, history>>
  BY <1>2, TerminatedHeld DEF NotSubmitted
<1>3. CASE SubmitsAnswer
  BY <1>3 DEF SubmitsAnswer, Submits, ClearDisplay, Held, Echoing, Content, Shown, InArray
<1>4. CASE ~pam_waiting_for_prompt /\ StartsTransaction
  BY <1>4 DEF StartsTransaction, Submits, ClearDisplay, Held, Echoing, Content, Shown, InArray
<1>5. CASE ~pam_waiting_for_prompt /\ StartRefused
  BY <1>5 DEF StartRefused, Submits, Held, Echoing, Content, Shown, InArray
<1> QED BY <1>1, <1>2, <1>3, <1>4, <1>5 DEF finish_input

LEMMA EnterHeld ==
    ASSUME Input, Held, EnterKey
    PROVE  Held'
<1>1. CASE UNCHANGED <<buffer, echo, dialogue, skip_repeated_empty_password, history>>
  BY <1>1 DEF Held, Echoing, Content, Shown, Locked, InArray
<1>2. CASE clear_input /\ UNCHANGED <<prompt_echo_on, dialogue, keys>>
  BY <1>2, ClearedHeld DEF Held, Echoing, clear_input
<1>3. CASE finish_input
  BY <1>3, FinishedHeld
<1> QED BY <1>1, <1>2, <1>3 DEF EnterKey

LEMMA TypeHeld ==
    ASSUME Input, Input', Held, InArray, TypeText
    PROVE  Held'
<1>1. PICK text \in KeyTexts :
        \/ /\ password' = Stored(Emptied(password), 0, FlattenSeq(text))
           /\ input_position' = Len(FlattenSeq(text))
           /\ typed' = text /\ consumed' = "no"
        \/ /\ password' = Stored(password, input_position, FlattenSeq(text))
           /\ input_position' = input_position + Len(FlattenSeq(text))
           /\ typed' = typed \o text
           /\ UNCHANGED consumed
  BY DEF TypeText
<1>2. /\ visible_input' = IF InArray' THEN VisibleOf(password') ELSE visible_input
      /\ WellStarted(password')
      /\ UNCHANGED <<prompt_echo_on, pam_waiting_for_prompt, slot>> /\ Locked
  BY DEF TypeText, OtherKey, Input
<1> DEFINE b == FlattenSeq(text)
<1>3. /\ Len(b) \in Nat /\ Len(b) < Size /\ Size \in Nat /\ Size > 0
      /\ text \in Seq(Glyphs)
  BY KeyTextIs, SizesKnown
<1>4. consumed' = "no" /\ InArray' => Holds(password', input_position', typed')
  <2>1. CASE /\ password' = Stored(Emptied(password), 0, b)
             /\ input_position' = Len(b)
             /\ typed' = text
    <3>1. WellStarted(Emptied(password)) /\ Emptied(password)[0] = "nul"
      <4>1. WellStarted(Wiped(password)) /\ WellStarted(Emptied(password))
        BY WipedStays DEF Input
      <4>2. 0 \in DOMAIN Wiped(password)
        BY <4>1, <1>3 DEF WellStarted
      <4> QED BY <4>1, <4>2 DEF Emptied
    <3>2. Holds(Emptied(password), 0, << >>)
      BY <3>1, HoldsNothing
    <3>3. 0 + Len(b) < Size /\ 0 + Len(b) = Len(b) /\ << >> \o text = text
      BY <1>3
    <3>4. Holds(Stored(Emptied(password), 0, b), 0 + Len(b), << >> \o text)
      BY <3>1, <3>2, <3>3, HoldsStored
    <3> QED BY <2>1, <3>3, <3>4
  <2>2. CASE /\ password' = Stored(password, input_position, b)
             /\ input_position' = input_position + Len(b)
             /\ typed' = typed \o text
             /\ UNCHANGED consumed
    <3>1. SUFFICES ASSUME consumed = "no", InArray'
                   PROVE  Holds(password', input_position', typed')
      BY <2>2
    <3>2. Holds(password, input_position, typed) /\ WellStarted(password)
      BY <3>1, <1>2 DEF Held, Content, Input
    <3>3. input_position + Len(b) < Size
      BY <2>2, <3>1 DEF InArray
    <3>4. Holds(Stored(password, input_position, b),
                input_position + Len(b), typed \o text)
      BY <3>2, <3>3, HoldsStored
    <3> QED BY <2>2, <3>4
  <2> QED BY <1>1, <2>1, <2>2
<1>5. prompt_echo_on => consumed' = "no"
  BY <1>1 DEF Held, Echoing
<1>6. Shown'
  <2>1. prompt_echo_on /\ InArray' => VisibleOf(password') = Echoed(typed')
    BY <1>2, <1>4, <1>5, VisibleShows
  <2>2. ~prompt_echo_on => VisibleOf(password') = << >>
    BY DEF VisibleOf
  <2> QED BY <2>1, <2>2, <1>2 DEF Shown
<1>7. Echoing'
  BY <1>1, <1>2 DEF Held, Echoing
<1>8. Content'
  BY <1>4 DEF Content
<1> QED BY <1>6, <1>7, <1>8 DEF Held

LEMMA BackSpaceHeld ==
    ASSUME Input, Input', Held, InArray, BackSpace
    PROVE  Held'
<1>1. UNCHANGED <<prompt_echo_on, pam_waiting_for_prompt, slot>> /\ Locked
  BY DEF BackSpace, OtherKey
<1>2. CASE clear_input
  BY <1>1, <1>2, ClearedHeld DEF Held, Echoing, clear_input
<1>3. CASE UNCHANGED <<buffer, visible_input, history>>
  BY <1>1, <1>3 DEF Held, Echoing, Content, Shown, Locked, InArray
<1>4. CASE /\ input_position # 0
           /\ input_position' = u8_dec(password, input_position)
           /\ password' = [password EXCEPT ![input_position'] = "nul"]
           /\ visible_input' = VisibleOf(password')
           /\ typed' = IF typed = << >> THEN typed ELSE Front(typed)
           /\ UNCHANGED <<consumed, submitted>>
  <2>1. consumed = "no" => Holds(password', input_position', typed')
    <3>1. SUFFICES ASSUME consumed = "no"
                   PROVE  Holds(password', input_position', typed')
      OBVIOUS
    <3>2. Holds(password, input_position, typed) /\ WellStarted(password)
      BY <3>1, <1>1 DEF Held, Content, Input
    <3>3. /\ typed # << >>
          /\ Holds([password EXCEPT ![u8_dec(password, input_position)] = "nul"],
                   u8_dec(password, input_position), Front(typed))
      BY <3>2, <1>4, HoldsDeleted
    <3> QED BY <3>3, <1>4
  <2>2. prompt_echo_on => consumed = "no"
    BY DEF Held, Echoing
  <2>3. Shown'
    <3>1. WellStarted(password')
      BY DEF Input
    <3>2. prompt_echo_on => VisibleOf(password') = Echoed(typed')
      BY <2>1, <2>2, <3>1, VisibleShows
    <3>3. ~prompt_echo_on => VisibleOf(password') = << >>
      BY DEF VisibleOf
    <3> QED BY <3>2, <3>3, <1>1, <1>4 DEF Shown
  <2>4. Echoing'
    BY <1>1, <1>4 DEF Held, Echoing
  <2> QED BY <2>1, <2>3, <2>4, <1>4 DEF Held, Content
<1> QED BY <1>2, <1>3, <1>4 DEF BackSpace

LEMMA OtherHeld ==
    ASSUME Input, Held,
           \/ DeadKey \/ CtrlU \/ EscapeKey \/ DiscardPassword \/ ClearAuthWrong
           \/ ShowPrompt \/ ShowFailure \/ Unlocks \/ CancelledEnds
           \/ ControllerStarts \/ UNCHANGED vars
    PROVE  Held'
<1>1. CASE DeadKey
  <2>1. CASE clear_input
    BY <1>1, <2>1, ClearedHeld DEF DeadKey, OtherKey, Held, Echoing, clear_input
  <2>2. CASE UNCHANGED <<buffer, visible_input, history>>
    BY <1>1, <2>2 DEF DeadKey, OtherKey, Held, Echoing, Content, Shown, Locked, InArray
  <2> QED BY <1>1, <2>1, <2>2 DEF DeadKey
<1>2. CASE CtrlU
  BY <1>2, ClearedHeld DEF CtrlU, Held, Echoing, clear_input
<1>3. CASE EscapeKey
  BY <1>3, ClearedHeld DEF EscapeKey, Held, Echoing, clear_input
<1>4. CASE DiscardPassword
  BY <1>4, ClearedHeld DEF DiscardPassword, Held, Echoing, clear_input
<1>5. CASE ClearAuthWrong
  <2>1. CASE finish_input
    BY <2>1, FinishedHeld
  <2>2. CASE UNCHANGED <<buffer, echo, pam_waiting_for_prompt, pam_auth_fatal, slot, history>>
    BY <2>2 DEF Held, Echoing, Content, Shown, Locked, InArray
  <2> QED BY <1>5, <2>1, <2>2 DEF ClearAuthWrong
<1>6. CASE ShowPrompt
  BY <1>6, ClearedHeld DEF ShowPrompt, Verifying, Held, Echoing, clear_input
<1>7. CASE ShowFailure
  BY <1>7, ClearedHeld DEF ShowFailure, Held, Echoing, clear_input
<1>8. CASE Unlocks
  BY <1>8 DEF Unlocks, ClearDisplay, Held, Echoing, Content, Shown, Locked, InArray
<1>9. CASE CancelledEnds
  BY <1>9 DEF CancelledEnds, Held, Echoing, Content, Shown, Locked, InArray
<1>10. CASE ControllerStarts \/ UNCHANGED vars
  BY <1>10 DEF ControllerStarts, Held, Echoing, Content, Shown, Locked, InArray
<1> QED BY <1>1, <1>2, <1>3, <1>4, <1>5, <1>6, <1>7, <1>8, <1>9, <1>10

\* In every state the buffer holds what was typed since it was cleared.
THEOREM HeldInductive == Spec => []Held
<1>1. KeyInv /\ KeyInv' /\ Held /\ [Next]_vars => Held'
  <2> SUFFICES ASSUME KeyInv, KeyInv', Held, [Next]_vars PROVE Held'
    OBVIOUS
  <2>1. Input
    BY TwoParts
  <2>2. (KeyInv => Input)'
    BY TwoParts, PTL
  <2>3. Input'
    BY <2>2
  <2> QED BY <2>1, <2>3, EnterHeld, TypeHeld, BackSpaceHeld, OtherHeld
             DEF Next, Keyboard, Ended
<1> QED BY InitHeld, <1>1, KeyInductive, PTL DEF Spec

\* However the user types, deletes, clears and is interrupted by prompts,
\* failures and timers, the NUL-terminated string in the buffer is the glyphs
\* typed since it was cleared and ends at the position (handle_key_press).
THEOREM BufferIsWhatWasTyped == Spec => []BufferHoldsTyped
<1>1. KeyInv /\ Held => BufferHoldsTyped
  <2> SUFFICES ASSUME KeyInv, Held, consumed = "no", Locked, InArray
               PROVE  /\ Text(password) = FlattenSeq(typed)
                      /\ input_position = strlen(password)
    BY DEF BufferHoldsTyped
  <2>1. WellStarted(password) /\ Holds(password, input_position, typed)
    BY DEF Held, Content
  <2> QED BY <2>1, HoldsMeans
<1> QED BY <1>1, KeyInductive, HeldInductive, PTL

\* A visible prompt echoes the typed glyphs up to the last one that fits whole
\* in the display's array, and without one nothing is echoed
\* (update_pam_visible_input, utf8_truncate_to_char_boundary).
THEOREM EchoIsWhatWasTyped == Spec => []VisibleIsTyped
<1>1. Held => VisibleIsTyped
  BY ShownIsVisible DEF Held
<1> QED BY <1>1, HeldInductive, PTL
=============================================================================

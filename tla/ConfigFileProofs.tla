-------------------------- MODULE ConfigFileProofs --------------------------
(***************************************************************************)
(* What CConfig reads is what the file says, for files of any length whose *)
(* lines are as FileAssumption has them: first what the searches in a text *)
(* find, then what StAnalyzeIni makes of a line of each kind, and last the *)
(* map after any number of lines.                                          *)
(***************************************************************************)
EXTENDS ConfigFile, SequenceTheorems, WellFoundedInduction, TLAPS

(***************************************************************************)
(* Text.                                                                   *)
(***************************************************************************)
\* A nonempty set of positions has a first one.
LEMMA FirstExists ==
  ASSUME NEW S, S \subseteq Nat, S # {}
  PROVE  \E m \in S : \A n \in S : m <= n
<1>. DEFINE Less == {ss \in Nat \X Nat : ss[1] < ss[2]}
<1>1. IsWellFoundedOn(Less, Nat)
  BY NatLessThanWellFounded DEF OpToRel
<1>2. PICK m \in S : \A n \in S : <<n, m>> \notin Less
  <2>. HIDE DEF Less
  <2>. QED  BY <1>1, WFMin
<1>3. ASSUME NEW n \in S PROVE m <= n
  <2>1. <<n, m>> \in Nat \X Nat /\ <<n, m>>[1] = n /\ <<n, m>>[2] = m
    OBVIOUS
  <2>. QED  BY <1>2, <2>1
<1>. QED  BY <1>3

\* A nonempty set of the positions of a text has a last one.
LEMMA LastExists ==
  ASSUME NEW n \in Nat, NEW S, S \subseteq 1 .. n, S # {}
  PROVE  \E m \in S : \A k \in S : k <= m
<1>. DEFINE T == {n - k : k \in S}
<1>1. T \subseteq Nat /\ T # {}
  <2>1. \A k \in S : n - k \in Nat
    OBVIOUS
  <2>2. T \subseteq Nat
    BY <2>1
  <2>. QED  BY <2>2
<1>2. PICK t \in T : \A k \in T : t <= k
  <2>. HIDE DEF T
  <2>. QED  BY <1>1, FirstExists
<1>3. PICK m \in S : t = n - m
  OBVIOUS
<1>4. ASSUME NEW k \in S PROVE k <= m
  <2>1. t <= n - k
    BY <1>2
  <2>. QED  BY <2>1, <1>3
<1>. QED  BY <1>4

\* Min and Max of positions.
LEMMA MinIsFirst ==
  ASSUME NEW S, S \subseteq Nat, S # {}
  PROVE  Min(S) \in S /\ \A n \in S : Min(S) <= n
BY FirstExists DEF Min

\* The last of a set of positions is its Max.
LEMMA MaxIsLast ==
  ASSUME NEW n \in Nat, NEW S, S \subseteq 1 .. n, S # {}
  PROVE  Max(S) \in S /\ \A k \in S : k <= Max(S)
BY LastExists DEF Max

\* find of a character: where it stands first, or 0.
LEMMA FindFacts ==
  ASSUME NEW t \in Text, NEW c
  PROVE  /\ Find(t, c) \in 0 .. Len(t)
         /\ Find(t, c) = 0 <=> \A i \in 1 .. Len(t) : t[i] # c
         /\ Find(t, c) # 0 => t[Find(t, c)] = c
         /\ \A i \in 1 .. Len(t) : t[i] = c => Find(t, c) <= i
<1>. DEFINE I == {i \in 1 .. Len(t) : t[i] = c}
<1>1. Find(t, c) = IF I # {} THEN Min(I) ELSE 0
  BY DEF Find, SelectInSeq
<1>2. Len(t) \in Nat
  BY DEF Text
<1>3. I # {} => Min(I) \in I /\ \A i \in I : Min(I) <= i
  <2>1. I \subseteq Nat
    BY <1>2
  <2>. HIDE DEF I
  <2>. QED  BY <2>1, MinIsFirst
<1>. QED  BY <1>1, <1>2, <1>3

\* rfind: where it stands last, or 0.
LEMMA RFindFacts ==
  ASSUME NEW t \in Text, NEW c
  PROVE  /\ RFind(t, c) \in 0 .. Len(t)
         /\ RFind(t, c) # 0 => t[RFind(t, c)] = c
         /\ \A i \in 1 .. Len(t) : t[i] = c => i <= RFind(t, c)
<1>. DEFINE I == {i \in 1 .. Len(t) : t[i] = c}
<1>1. RFind(t, c) = IF I # {} THEN Max(I) ELSE 0
  BY DEF RFind, SelectLastInSeq
<1>2. Len(t) \in Nat
  BY DEF Text
<1>3. I # {} => Max(I) \in I /\ \A i \in I : i <= Max(I)
  <2>1. I \subseteq 1 .. Len(t)
    OBVIOUS
  <2>. HIDE DEF I
  <2>. QED  BY <2>1, <1>2, MaxIsLast
<1>. QED  BY <1>1, <1>2, <1>3

\* find_first_not_of.
LEMMA FirstNotOfFacts ==
  ASSUME NEW t \in Text, NEW cs
  PROVE  /\ FirstNotOf(t, cs) \in 0 .. Len(t)
         /\ FirstNotOf(t, cs) = 0 <=> \A i \in 1 .. Len(t) : t[i] \in cs
         /\ FirstNotOf(t, cs) # 0 => t[FirstNotOf(t, cs)] \notin cs
         /\ \A i \in 1 .. Len(t) : t[i] \notin cs => FirstNotOf(t, cs) <= i
<1>. DEFINE I == {i \in 1 .. Len(t) : t[i] \notin cs}
<1>1. FirstNotOf(t, cs) = IF I # {} THEN Min(I) ELSE 0
  BY DEF FirstNotOf, SelectInSeq
<1>2. Len(t) \in Nat
  BY DEF Text
<1>3. I # {} => Min(I) \in I /\ \A i \in I : Min(I) <= i
  <2>1. I \subseteq Nat
    BY <1>2
  <2>. HIDE DEF I
  <2>. QED  BY <2>1, MinIsFirst
<1>. QED  BY <1>1, <1>2, <1>3

\* find_last_not_of.
LEMMA LastNotOfFacts ==
  ASSUME NEW t \in Text, NEW cs
  PROVE  /\ LastNotOf(t, cs) \in 0 .. Len(t)
         /\ LastNotOf(t, cs) = 0 <=> \A i \in 1 .. Len(t) : t[i] \in cs
         /\ LastNotOf(t, cs) # 0 => t[LastNotOf(t, cs)] \notin cs
         /\ \A i \in 1 .. Len(t) : t[i] \notin cs => i <= LastNotOf(t, cs)
<1>. DEFINE I == {i \in 1 .. Len(t) : t[i] \notin cs}
<1>1. LastNotOf(t, cs) = IF I # {} THEN Max(I) ELSE 0
  BY DEF LastNotOf, SelectLastInSeq
<1>2. Len(t) \in Nat
  BY DEF Text
<1>3. I # {} => Max(I) \in I /\ \A i \in I : i <= Max(I)
  <2>1. I \subseteq 1 .. Len(t)
    OBVIOUS
  <2>. HIDE DEF I
  <2>. QED  BY <2>1, <1>2, MaxIsLast
<1>. QED  BY <1>1, <1>2, <1>3

\* A part of a text, character by character.
LEMMA PartFacts ==
  ASSUME NEW t \in Text, NEW a \in Nat, NEW b \in Nat, 1 <= a, b <= Len(t)
  PROVE  /\ SubSeq(t, a, b) \in Text
         /\ Len(SubSeq(t, a, b)) = IF a <= b THEN b - a + 1 ELSE 0
         /\ \A i \in 1 .. b - a + 1 : SubSeq(t, a, b)[i] = t[a + i - 1]
<1>1. \A i \in a .. b : t[i] \in Char
  BY DEF Text
<1>. QED  BY <1>1, SubSeqProperties DEF Text

\* A part of a text that reads as another text is that text.
LEMMA PartIs ==
  ASSUME NEW t \in Text, NEW a \in Nat, NEW b \in Nat, 1 <= a, b <= Len(t),
         NEW v \in Text, a + Len(v) = b + 1,
         \A i \in 1 .. Len(v) : v[i] = t[a + i - 1]
  PROVE  SubSeq(t, a, b) = v
<1>0. Len(v) \in Nat
  BY DEF Text
<1>1. SubSeq(t, a, b) \in Text /\ Len(SubSeq(t, a, b)) = Len(v)
  BY <1>0, PartFacts
<1>2. \A i \in 1 .. Len(v) : SubSeq(t, a, b)[i] = v[i]
  <2>1. b - a + 1 = Len(v)
    BY <1>0
  <2>. QED  BY <2>1, PartFacts
<1>. QED  BY <1>1, <1>2, SeqEqual DEF Text

\* The first b characters are v if they are v's.
LEMMA FirstPartIs ==
  ASSUME NEW t \in Text, NEW b \in Nat, b <= Len(t),
         NEW v \in Text, Len(v) = b, \A i \in 1 .. b : t[i] = v[i]
  PROVE  SubSeq(t, 1, b) = v
<1>1. /\ 1 \in Nat /\ 1 <= 1 /\ 1 + Len(v) = b + 1
      /\ \A i \in 1 .. b : 1 + i - 1 = i
  OBVIOUS
<1>2. \A i \in 1 .. Len(v) : v[i] = t[1 + i - 1]
  BY <1>1
<1>. QED  BY <1>1, <1>2, PartIs

\* Strip, when it is known where the first and the last other character are.
LEMMA StripIs ==
  ASSUME NEW t \in Text, NEW cs, NEW a \in 1 .. Len(t), NEW b \in 1 .. Len(t),
         t[a] \notin cs, t[b] \notin cs,
         \A i \in 1 .. a - 1 : t[i] \in cs,
         \A i \in b + 1 .. Len(t) : t[i] \in cs
  PROVE  Strip(t, cs) = SubSeq(t, a, b)
<1>0. Len(t) \in Nat
  BY DEF Text
<1>1. FirstNotOf(t, cs) = a
  BY <1>0, FirstNotOfFacts
<1>2. LastNotOf(t, cs) = b
  BY <1>0, LastNotOfFacts
<1>. QED  BY <1>0, <1>1, <1>2 DEF Strip

\* Nothing is left of a text of characters that are stripped.
LEMMA StripNone ==
  ASSUME NEW t \in Text, NEW cs, \A i \in 1 .. Len(t) : t[i] \in cs
  PROVE  Strip(t, cs) = <<>>
BY FirstNotOfFacts DEF Strip

\* A stripped text begins with the first other character.
LEMMA StripBegins ==
  ASSUME NEW t \in Text, NEW cs, NEW a \in 1 .. Len(t),
         t[a] \notin cs, \A i \in 1 .. a - 1 : t[i] \in cs
  PROVE  /\ Strip(t, cs) \in Text
         /\ Len(Strip(t, cs)) >= 1
         /\ Strip(t, cs)[1] = t[a]
<1>0. Len(t) \in Nat
  BY DEF Text
<1>1. FirstNotOf(t, cs) = a
  BY <1>0, FirstNotOfFacts
<1>2. LastNotOf(t, cs) \in a .. Len(t)
  BY <1>0, LastNotOfFacts
<1>3. Strip(t, cs) = SubSeq(t, a, LastNotOf(t, cs))
  <2>1. FirstNotOf(t, cs) # 0
    BY <1>0, <1>1
  <2>. QED  BY <1>1, <2>1, Zenon DEF Strip
<1>. QED  BY <1>0, <1>2, <1>3, PartFacts

\* Any stripped text is a text.
LEMMA StripIsText == ASSUME NEW t \in Text, NEW cs PROVE Strip(t, cs) \in Text
<1>0. Len(t) \in Nat
  BY DEF Text
<1>1. CASE \A i \in 1 .. Len(t) : t[i] \in cs
  BY <1>1, StripNone, EmptySeq DEF Text
<1>2. CASE \E i \in 1 .. Len(t) : t[i] \notin cs
  <2>1. /\ FirstNotOf(t, cs) \in 1 .. Len(t)
        /\ LastNotOf(t, cs) \in 1 .. Len(t)
    BY <1>0, <1>2, FirstNotOfFacts, LastNotOfFacts
  <2>. QED  BY <1>0, <2>1, PartFacts DEF Strip
<1>. QED  BY <1>1, <1>2

\* Two texts one behind the other.
Cat(x, y) == x \o y

\* Where the characters of a concatenation come from.
LEMMA CatFacts ==
  ASSUME NEW s \in Text, NEW t \in Text
  PROVE  /\ Cat(s, t) \in Text
         /\ Len(s) \in Nat /\ Len(t) \in Nat /\ Len(Cat(s, t)) = Len(s) + Len(t)
         /\ \A i \in 1 .. Len(s) : Cat(s, t)[i] = s[i]
         /\ \A i \in 1 .. Len(t) : Cat(s, t)[Len(s) + i] = t[i]
<1>1. Len(s) \in Nat /\ Len(t) \in Nat
  BY DEF Text
<1>2. /\ Cat(s, t) \in Text
      /\ Len(Cat(s, t)) = Len(s) + Len(t)
      /\ \A i \in 1 .. Len(s) + Len(t) : Cat(s, t)[i] =
                   IF i <= Len(s) THEN s[i] ELSE t[i - Len(s)]
  BY ConcatProperties DEF Text, Cat
<1>3. \A i \in 1 .. Len(s) : Cat(s, t)[i] = s[i]
  BY <1>1, <1>2
<1>4. \A i \in 1 .. Len(t) : Cat(s, t)[Len(s) + i] = t[i]
  BY <1>1, <1>2
<1>. QED  BY <1>1, <1>2, <1>3, <1>4

\* Two texts with the same positions are equally long.
LEMMA SameLength ==
  ASSUME NEW n \in Nat, NEW m \in Nat, 1 .. n = 1 .. m PROVE n = m
<1>1. n <= m
  <2>1. n # 0 => n \in 1 .. m
    OBVIOUS
  <2>. QED  BY <2>1
<1>2. m <= n
  <2>1. m # 0 => m \in 1 .. n
    OBVIOUS
  <2>. QED  BY <2>1
<1>. QED  BY <1>1, <1>2

\* The blanks an editor puts in.
LEMMA SpacesFacts ==
  ASSUME NEW n \in Nat
  PROVE  /\ Spaces(n) \in Text /\ Len(Spaces(n)) = n
         /\ \A i \in 1 .. n : Spaces(n)[i] = " "
<1>. DEFINE s == [i \in 1 .. n |-> " "]
<1>1. s \in [1 .. n -> Char] /\ DOMAIN s = 1 .. n /\ \A i \in 1 .. n : s[i] = " "
  <2>1. " " \in Char
    BY FileAssumption DEF White, Blank
  <2>. QED  BY <2>1, Zenon
<1>. HIDE DEF s
<1>2. s \in Seq(Char)
  BY <1>1, SeqDef
<1>3. Len(s) = n
  <2>1. Len(s) \in Nat /\ DOMAIN s = 1 .. Len(s)
    BY <1>2, LenProperties
  <2>. QED  BY <1>1, <2>1, SameLength
<1>. QED  BY <1>1, <1>2, <1>3 DEF s, Spaces, Text

-----------------------------------------------------------------------------
(***************************************************************************)
(* The text of an entry.                                                   *)
(***************************************************************************)
IsEntry(l) == IsLine(l) /\ l.kind = "entry"

Before(l) == Cat(Cat(<<" ">>, l.key), <<" ", "=">>)
LineEnd(l) == IF l.cr THEN <<"\r">> ELSE <<>>
Behind(l) == Cat(Cat(Cat(Cat(Cat(Spaces(l.lead), l.value), Spaces(l.gap)), l.mark),
                      l.comment), LineEnd(l))

\* Its parts are texts.
LEMMA EntryParts ==
  ASSUME NEW l, IsEntry(l)
  PROVE  /\ l.key \in Text /\ Len(l.key) \in Nat \ {0}
         /\ l.key[1] \notin White /\ l.key[1] # "#" /\ l.key[Len(l.key)] \notin Blank
         /\ \A i \in 1 .. Len(l.key) : l.key[i] # "="
         /\ l.value \in Text /\ Len(l.value) \in Nat
         /\ l.value # <<>> => Len(l.value) >= 1 /\ l.value[1] \notin White
                                /\ l.value[Len(l.value)] \notin White
         /\ l.value = <<>> => Len(l.value) = 0
         /\ \A i \in 1 .. Len(l.value) - 1 :
              l.value[i] \in Blank => l.value[i + 1] \notin {"#", "\\"}
         /\ l.lead \in Nat /\ l.gap \in Nat /\ l.cr \in BOOLEAN
         /\ l.mark = <<>> \/ l.mark \in Blank \X {"#", "\\"}
         /\ l.comment \in Text
         /\ l.mark = <<>> => l.comment = <<>>
<1>1. /\ IsKey(l.key) /\ IsValue(l.value)
      /\ l.lead \in Nat /\ l.gap \in Nat /\ l.cr \in BOOLEAN
      /\ \/ l.mark = <<>> /\ l.comment = <<>>
         \/ l.mark \in Blank \X {"#", "\\"} /\ l.comment \in Text
  BY DEF IsEntry, IsLine
<1>2. /\ l.key \in Text /\ Len(l.key) \in Nat \ {0}
      /\ l.key[1] \notin White /\ l.key[1] # "#" /\ l.key[Len(l.key)] \notin Blank
      /\ \A i \in 1 .. Len(l.key) : l.key[i] # "="
  BY <1>1, EmptySeq DEF IsKey, Text
<1>3. /\ l.value \in Text /\ Len(l.value) \in Nat
      /\ l.value # <<>> => Len(l.value) \in Nat \ {0}
      /\ l.value = <<>> => Len(l.value) = 0
  BY <1>1, EmptySeq DEF IsValue, Text
<1>4. /\ l.value # <<>> => l.value[1] \notin White /\ l.value[Len(l.value)] \notin White
      /\ \A i \in 1 .. Len(l.value) - 1 :
              l.value[i] \in Blank => l.value[i + 1] \notin {"#", "\\"}
  BY <1>1 DEF IsValue
<1>5. l.comment \in Text /\ (l.mark = <<>> => l.comment = <<>>)
  <2>1. <<>> \in Text
    BY EmptySeq DEF Text
  <2>2. ASSUME l.mark \in Blank \X {"#", "\\"} PROVE l.mark # <<>>
    <3>1. PICK b \in Blank, m \in {"#", "\\"} : l.mark = <<b, m>>
      BY <2>2
    <3>2. <<b, m>> # <<>>
      OBVIOUS
    <3>. QED  BY <3>1, <3>2
  <2>. QED  BY <1>1, <2>1, <2>2
<1>. QED  BY <1>1, <1>2, <1>3, <1>4, <1>5

\* So are the ends of a line.
LEMMA EndsAreTexts ==
  ASSUME NEW l, IsEntry(l)
  PROVE  l.mark \in Text /\ l.comment \in Text /\ LineEnd(l) \in Text
<1>1. l.mark \in Text
  <2>1. CASE l.mark = <<>>
    BY <2>1, EmptySeq DEF Text
  <2>2. CASE l.mark \in Blank \X {"#", "\\"}
    <3>1. PICK b \in Blank, m \in {"#", "\\"} : l.mark = <<b, m>>
      BY <2>2
    <3>2. b \in Char /\ m \in Char
      BY FileAssumption DEF White
    <3>. QED  BY <3>1, <3>2 DEF Text
  <2>. QED  BY <2>1, <2>2, EntryParts
<1>2. l.comment \in Text
  BY EntryParts
<1>3. LineEnd(l) \in Text
  <2>1. "\r" \in Char
    BY FileAssumption DEF White
  <2>. QED  BY <2>1, EmptySeq DEF LineEnd, Text
<1>. QED  BY <1>1, <1>2, <1>3

\* x stands in r behind the first k characters.
Has(r, k, x) ==
  k \in Nat /\ k + Len(x) <= Len(r) /\ \A i \in 1 .. Len(x) : r[k + i] = x[i]

\* What stands somewhere in a text, character by character.
LEMMA HasAt ==
  \A r, k, x : Has(r, k, x) => \A i \in 1 .. Len(x) : r[k + i] = x[i]
BY DEF Has

\* A text behind another one, and what stands in that one.
LEMMA CatHas ==
  ASSUME NEW r \in Text, NEW s \in Text
  PROVE  /\ Cat(r, s) \in Text
         /\ Len(r) \in Nat /\ Len(s) \in Nat /\ Len(Cat(r, s)) = Len(r) + Len(s)
         /\ Has(Cat(r, s), 0, r) /\ Has(Cat(r, s), Len(r), s)
         /\ \A x \in Text, k \in Nat : Has(r, k, x) => Has(Cat(r, s), k, x)
<1>. DEFINE t == Cat(r, s)
<1>1. /\ t \in Text
      /\ Len(r) \in Nat /\ Len(s) \in Nat /\ Len(t) = Len(r) + Len(s)
      /\ \A i \in 1 .. Len(r) : t[i] = r[i]
      /\ \A i \in 1 .. Len(s) : t[Len(r) + i] = s[i]
  BY CatFacts
<1>. HIDE DEF t
<1>2. Has(t, 0, r) /\ Has(t, Len(r), s)
  BY <1>1 DEF Has
<1>3. ASSUME NEW x \in Text, NEW k \in Nat, Has(r, k, x) PROVE Has(t, k, x)
  <2>1. Len(x) \in Nat /\ k + Len(x) <= Len(r) /\ \A i \in 1 .. Len(x) : r[k + i] = x[i]
    BY <1>3 DEF Has, Text
  <2>2. \A i \in 1 .. Len(x) : k + i \in 1 .. Len(r)
    BY <1>1, <2>1
  <2>3. \A i \in 1 .. Len(x) : t[k + i] = x[i]
    BY <1>1, <2>1, <2>2
  <2>. QED  BY <1>1, <2>1, <2>3 DEF Has
<1>. QED  BY <1>1, <1>2, <1>3 DEF t

\* Behind one text the others may be put together first.
LEMMA CatMove ==
  \A x, y, z \in Text : Cat(y, z) \in Text /\ Cat(Cat(x, y), z) = Cat(x, Cat(y, z))
BY ConcatProperties, ConcatAssociative DEF Text, Cat

\* A character as a text.
LEMMA OneCharacter ==
  ASSUME NEW a \in Char PROVE <<a>> \in Text /\ Len(<<a>>) = 1 /\ <<a>>[1] = a
BY DEF Text

\* Two characters as a text.
LEMMA TwoCharacters ==
  ASSUME NEW a \in Char, NEW b \in Char
  PROVE  <<a, b>> \in Text /\ Len(<<a, b>>) = 2 /\ <<a, b>>[1] = a /\ <<a, b>>[2] = b
BY DEF Text

\* What stands behind "=", part by part.
LEMMA BehindFacts ==
  ASSUME NEW l, IsEntry(l)
  PROVE  /\ Behind(l) \in Text
         /\ Len(Behind(l)) = l.lead + Len(l.value) + l.gap + Len(l.mark)
                               + Len(l.comment) + Len(LineEnd(l))
         /\ Len(l.mark) \in Nat /\ Len(l.comment) \in Nat /\ Len(LineEnd(l)) \in Nat
         /\ Has(Behind(l), 0, Spaces(l.lead))
         /\ Has(Behind(l), l.lead, l.value)
         /\ Has(Behind(l), l.lead + Len(l.value), Spaces(l.gap))
         /\ Has(Behind(l), l.lead + Len(l.value) + l.gap, l.mark)
         /\ Has(Behind(l), l.lead + Len(l.value) + l.gap + Len(l.mark), l.comment)
         /\ Has(Behind(l), l.lead + Len(l.value) + l.gap + Len(l.mark) + Len(l.comment),
                LineEnd(l))
<1>1. /\ Spaces(l.lead) \in Text /\ Len(Spaces(l.lead)) = l.lead
      /\ Spaces(l.gap) \in Text /\ Len(Spaces(l.gap)) = l.gap
      /\ l.value \in Text
  BY EntryParts, SpacesFacts
<1>2. l.mark \in Text /\ l.comment \in Text /\ LineEnd(l) \in Text
  BY EndsAreTexts
<1>3. Behind(l) = Cat(Cat(Cat(Cat(Cat(Spaces(l.lead), l.value), Spaces(l.gap)), l.mark),
                            l.comment), LineEnd(l))
  BY Zenon DEF Behind
<1>. DEFINE x1 == Spaces(l.lead)
            x2 == l.value
            x3 == Spaces(l.gap)
            x4 == l.mark
            x5 == l.comment
            x6 == LineEnd(l)
<1>4. /\ x1 \in Text /\ x2 \in Text /\ x3 \in Text
      /\ x4 \in Text /\ x5 \in Text /\ x6 \in Text
      /\ Len(x1) \in Nat /\ Len(x2) \in Nat /\ Len(x3) \in Nat
      /\ Len(x4) \in Nat /\ Len(x5) \in Nat /\ Len(x6) \in Nat
      /\ Len(x1) = l.lead /\ Len(x3) = l.gap
  <2>1. \A x \in Text : Len(x) \in Nat
    BY DEF Text
  <2>. QED  BY <1>1, <1>2, <2>1
<1>. HIDE DEF x1, x2, x3, x4, x5, x6
<1>. DEFINE A2 == Cat(x1, x2)
            A3 == Cat(A2, x3)
            A4 == Cat(A3, x4)
            A5 == Cat(A4, x5)
            R == Cat(A5, x6)
<1>11. /\ A2 \in Text /\ Len(A2) = Len(x1) + Len(x2)
      /\ Has(A2, 0, x1) /\ Has(A2, Len(x1), x2)
  BY <1>4, CatHas, Zenon
<1>12. /\ A3 \in Text /\ Len(A3) = Len(A2) + Len(x3) /\ Has(A3, Len(A2), x3)
      /\ \A x \in Text, k \in Nat : Has(A2, k, x) => Has(A3, k, x)
  <2>. HIDE DEF A2
  <2>. QED  BY <1>4, <1>11, CatHas, Zenon
<1>13. /\ A4 \in Text /\ Len(A4) = Len(A3) + Len(x4) /\ Has(A4, Len(A3), x4)
      /\ \A x \in Text, k \in Nat : Has(A3, k, x) => Has(A4, k, x)
  <2>. HIDE DEF A3
  <2>. QED  BY <1>4, <1>12, CatHas, Zenon
<1>14. /\ A5 \in Text /\ Len(A5) = Len(A4) + Len(x5) /\ Has(A5, Len(A4), x5)
      /\ \A x \in Text, k \in Nat : Has(A4, k, x) => Has(A5, k, x)
  <2>. HIDE DEF A4
  <2>. QED  BY <1>4, <1>13, CatHas, Zenon
<1>15. /\ R \in Text /\ Len(R) = Len(A5) + Len(x6) /\ Has(R, Len(A5), x6)
      /\ \A x \in Text, k \in Nat : Has(A5, k, x) => Has(R, k, x)
  <2>. HIDE DEF A5
  <2>. QED  BY <1>4, <1>14, CatHas, Zenon
<1>. HIDE DEF A2, A3, A4, A5, R
<1>16. /\ Len(x1) \in Nat /\ Len(x2) \in Nat /\ Len(x3) \in Nat
      /\ Len(x4) \in Nat /\ Len(x5) \in Nat /\ Len(x6) \in Nat
      /\ Len(A2) \in Nat /\ Len(A3) \in Nat /\ Len(A4) \in Nat /\ Len(A5) \in Nat /\ 0 \in Nat
  BY <1>4, <1>11, <1>12, <1>13, <1>14
<1>17. Has(R, 0, x1) /\ Has(R, Len(x1), x2)
  BY <1>4, <1>11, <1>12, <1>13, <1>14, <1>15, <1>16, Zenon
<1>18. Has(R, Len(A2), x3)
  BY <1>4, <1>11, <1>12, <1>13, <1>14, <1>15, <1>16, Zenon
<1>19. Has(R, Len(A3), x4) /\ Has(R, Len(A4), x5)
  BY <1>4, <1>11, <1>12, <1>13, <1>14, <1>15, <1>16, Zenon
<1>20. /\ Len(A3) = Len(x1) + Len(x2) + Len(x3)
       /\ Len(A4) = Len(x1) + Len(x2) + Len(x3) + Len(x4)
       /\ Len(A5) = Len(x1) + Len(x2) + Len(x3) + Len(x4) + Len(x5)
       /\ Len(R) = Len(x1) + Len(x2) + Len(x3) + Len(x4) + Len(x5) + Len(x6)
  BY <1>11, <1>12, <1>13, <1>14, <1>15, Zenon
<1>21. Behind(l) = R
  BY <1>3, Zenon DEF R, A5, A4, A3, A2, x1, x2, x3, x4, x5, x6
<1>22. /\ Has(R, 0, x1)
       /\ Has(R, l.lead, x2)
       /\ Has(R, l.lead + Len(x2), x3)
       /\ Has(R, l.lead + Len(x2) + l.gap, x4)
       /\ Has(R, l.lead + Len(x2) + l.gap + Len(x4), x5)
       /\ Has(R, l.lead + Len(x2) + l.gap + Len(x4) + Len(x5), x6)
       /\ Len(R) = l.lead + Len(x2) + l.gap + Len(x4) + Len(x5) + Len(x6)
  BY <1>4, <1>11, <1>15, <1>17, <1>18, <1>19, <1>20, Zenon
<1>. QED  BY <1>4, <1>15, <1>21, <1>22, Zenon DEF x1, x2, x3, x4, x5, x6

\* The line is what stands before "=", "=" itself, and what stands behind.
LEMMA EntryText ==
  ASSUME NEW l, IsEntry(l)
  PROVE  /\ Render(l) = Cat(Before(l), Behind(l))
         /\ Before(l) \in Text /\ Len(Before(l)) = Len(l.key) + 3
         /\ Before(l)[1] = " " /\ Before(l)[Len(l.key) + 2] = " "
         /\ Before(l)[Len(l.key) + 3] = "="
         /\ \A i \in 1 .. Len(l.key) : Before(l)[i + 1] = l.key[i]
<1>. DEFINE B == <<" ">>
            Q == <<" ", "=">>
            B1 == Cat(B, l.key)
            B2 == Cat(B1, Q)
<1>1. /\ B \in Text /\ Len(B) = 1 /\ B[1] = " "
      /\ Q \in Text /\ Len(Q) = 2 /\ Q[1] = " " /\ Q[2] = "="
  <2>1. " " \in Char /\ "=" \in Char
    BY FileAssumption DEF White, Blank
  <2>. QED  BY <2>1, OneCharacter, TwoCharacters, Zenon
<1>2. l.key \in Text /\ Len(l.key) \in Nat
  BY EntryParts
<1>3. Before(l) = B2
  BY DEF Before
<1>4. Render(l) = Cat(Cat(Cat(Cat(Cat(Cat(B2, Spaces(l.lead)), l.value), Spaces(l.gap)),
                               l.mark), l.comment), LineEnd(l))
  BY Zenon DEF IsEntry, Render, LineEnd, Cat
<1>. HIDE DEF B, Q
<1>5. B1 \in Text /\ Len(B1) = Len(B) + Len(l.key) /\ Has(B1, 0, B) /\ Has(B1, Len(B), l.key)
  BY <1>1, <1>2, CatHas, Zenon
<1>. HIDE DEF B1
<1>6. /\ B2 \in Text /\ Len(B2) = Len(B1) + Len(Q) /\ Has(B2, Len(B1), Q)
      /\ \A x \in Text, k \in Nat : Has(B1, k, x) => Has(B2, k, x)
  BY <1>1, <1>5, CatHas, Zenon
<1>. HIDE DEF B2
<1>7. Has(B2, 0, B) /\ Has(B2, 1, l.key) /\ Has(B2, Len(l.key) + 1, Q) /\ Len(B2) = Len(l.key) + 3
  <2>1. 0 \in Nat /\ 1 \in Nat /\ 1 + Len(l.key) = Len(l.key) + 1
        /\ 1 + Len(l.key) + 2 = Len(l.key) + 3
    BY <1>2
  <2>. QED  BY <1>1, <1>2, <1>5, <1>6, <2>1, Zenon
<1>8. B2[1] = B[1]
  <2>1. 1 \in 1 .. 1 /\ 1 = 0 + 1
    OBVIOUS
  <2>2. \A i \in 1 .. Len(B) : B2[0 + i] = B[i]
    BY <1>7, HasAt
  <2>. QED  BY <1>1, <2>1, <2>2, Zenon
<1>9. \A i \in 1 .. Len(l.key) : B2[i + 1] = l.key[i]
  <2>1. \A i \in 1 .. Len(l.key) : B2[1 + i] = l.key[i] /\ 1 + i = i + 1
    BY <1>2, <1>7 DEF Has
  <2>. QED  BY <2>1, Zenon
<1>10. B2[Len(l.key) + 2] = " " /\ B2[Len(l.key) + 3] = "="
  <2>1. B2[(Len(l.key) + 1) + 1] = Q[1] /\ B2[(Len(l.key) + 1) + 2] = Q[2]
    <3>1. 1 \in 1 .. 2 /\ 2 \in 1 .. 2
      OBVIOUS
    <3>2. \A i \in 1 .. Len(Q) : B2[(Len(l.key) + 1) + i] = Q[i]
      BY <1>7, HasAt
    <3>. QED  BY <1>1, <3>1, <3>2, Zenon
  <2>2. (Len(l.key) + 1) + 1 = Len(l.key) + 2 /\ (Len(l.key) + 1) + 2 = Len(l.key) + 3
    BY <1>2
  <2>. QED  BY <1>1, <2>1, <2>2, Zenon
<1>11. Render(l) = Cat(B2, Behind(l))
  <2>2. /\ Spaces(l.lead) \in Text /\ Spaces(l.gap) \in Text /\ l.value \in Text
        /\ l.mark \in Text /\ l.comment \in Text /\ LineEnd(l) \in Text
    BY EntryParts, SpacesFacts, EndsAreTexts
  <2>. DEFINE x1 == Spaces(l.lead)
              x2 == l.value
              x3 == Spaces(l.gap)
              x4 == l.mark
              x5 == l.comment
              x6 == LineEnd(l)
              y2 == Cat(x1, x2)
              y3 == Cat(y2, x3)
              y4 == Cat(y3, x4)
              y5 == Cat(y4, x5)
  <2>3. Behind(l) = Cat(y5, x6)
    BY Zenon DEF Behind
  <2>4. Render(l) = Cat(Cat(Cat(Cat(Cat(Cat(B2, x1), x2), x3), x4), x5), x6)
    BY <1>4
  <2>5. /\ x1 \in Text /\ x2 \in Text /\ x3 \in Text
        /\ x4 \in Text /\ x5 \in Text /\ x6 \in Text /\ B2 \in Text
    BY <1>6, <2>2
  <2>. HIDE DEF x1, x2, x3, x4, x5, x6
  <2>6. y2 \in Text /\ y3 \in Text /\ y4 \in Text /\ y5 \in Text
    BY <2>5, CatMove
  <2>7. Cat(Cat(B2, x1), x2) = Cat(B2, y2)
    BY <2>5, CatMove
  <2>8. Cat(Cat(B2, y2), x3) = Cat(B2, y3)
    BY <2>5, <2>6, CatMove
  <2>9. Cat(Cat(B2, y3), x4) = Cat(B2, y4)
    BY <2>5, <2>6, CatMove
  <2>10. Cat(Cat(B2, y4), x5) = Cat(B2, y5)
    BY <2>5, <2>6, CatMove
  <2>11. Cat(Cat(B2, y5), x6) = Cat(B2, Cat(y5, x6))
    BY <2>5, <2>6, CatMove
  <2>. HIDE DEF y2, y3, y4, y5
  <2>. QED  BY <2>3, <2>4, <2>7, <2>8, <2>9, <2>10, <2>11, Zenon
<1>. QED  BY <1>1, <1>3, <1>6, <1>7, <1>8, <1>9, <1>10, <1>11, Zenon

\* A text is no comment if the first character that is no white space is not "#".
LEMMA NoCommentAt ==
  ASSUME NEW t \in Text, NEW a \in 1 .. Len(t),
         t[a] \notin White, \A i \in 1 .. a - 1 : t[i] \in White, t[a] # "#"
  PROVE  ~IsComment(t)
<1>1. TrimSpace(t) \in Text /\ TrimSpace(t)[1] = t[a]
  BY StripBegins DEF TrimSpace
<1>2. Find(TrimSpace(t), "#") = 1 => TrimSpace(t)[1] = "#"
  BY <1>1, FindFacts
<1>. QED  BY <1>1, <1>2 DEF IsComment

\* The first "=" of an entry, its key and what it leaves for the value; an entry
\* is no comment and no header.
LEMMA EntryIsRead ==
  ASSUME NEW l, IsEntry(l)
  PROVE  /\ Render(l) \in Text
         /\ Find(Render(l), "=") = Len(l.key) + 3
         /\ KeyOf(Render(l)) = l.key
         /\ SubSeq(Render(l), Find(Render(l), "=") + 1, Len(Render(l))) = Behind(l)
         /\ ~IsComment(Render(l)) /\ ~IsHeader(Render(l))
<1>. DEFINE t == Render(l)
            b == Before(l)
            r == Behind(l)
            n == Len(l.key)
<1>1. /\ n \in Nat \ {0} /\ l.key \in Text
      /\ l.key[1] \notin White /\ l.key[1] # "#" /\ l.key[n] \notin Blank
      /\ \A i \in 1 .. n : l.key[i] # "="
  BY EntryParts
<1>2. /\ t = Cat(b, r)
      /\ b \in Text /\ Len(b) = n + 3
      /\ b[1] = " " /\ b[n + 2] = " " /\ b[n + 3] = "="
      /\ \A i \in 1 .. n : b[i + 1] = l.key[i]
  BY EntryText
<1>3. r \in Text
  BY BehindFacts
<1>. HIDE DEF t, b, r, n
<1>4. /\ t \in Text /\ Len(t) = n + 3 + Len(r) /\ Len(r) \in Nat
      /\ \A i \in 1 .. n + 3 : t[i] = b[i]
      /\ \A i \in 1 .. Len(r) : t[n + 3 + i] = r[i]
  <2>1. /\ Cat(b, r) \in Text /\ Len(r) \in Nat /\ Len(Cat(b, r)) = Len(b) + Len(r)
        /\ \A i \in 1 .. Len(b) : Cat(b, r)[i] = b[i]
        /\ \A i \in 1 .. Len(r) : Cat(b, r)[Len(b) + i] = r[i]
    BY <1>2, <1>3, CatFacts
  <2>. QED  BY <1>2, <2>1, Zenon
<1>5. /\ t[1] = " " /\ t[n + 2] = " " /\ t[n + 3] = "="
      /\ \A i \in 1 .. n : t[i + 1] = l.key[i]
  <2>1. /\ 1 \in 1 .. n + 3 /\ n + 2 \in 1 .. n + 3 /\ n + 3 \in 1 .. n + 3
        /\ \A i \in 1 .. n : i + 1 \in 1 .. n + 3
    BY <1>1
  <2>. QED  BY <1>2, <1>4, <2>1
<1>6. \A i \in 1 .. n + 2 : t[i] # "="
  <2>1. ASSUME NEW i \in 2 .. n + 1 PROVE t[i] # "="
    <3>1. i - 1 \in 1 .. n /\ (i - 1) + 1 = i
      BY <1>1
    <3>2. t[(i - 1) + 1] = l.key[i - 1]
      BY <1>5, <3>1
    <3>. QED  BY <1>1, <3>1, <3>2
  <2>2. \A i \in 1 .. n + 2 : i = 1 \/ i = n + 2 \/ i \in 2 .. n + 1
    BY <1>1
  <2>. QED  BY <1>5, <2>1, <2>2
<1>7. Find(t, "=") = n + 3
  <2>1. Find(t, "=") \in 0 .. Len(t) /\ Find(t, "=") # 0 /\ t[Find(t, "=")] = "="
        /\ Find(t, "=") <= n + 3
    <3>1. n + 3 \in 1 .. Len(t)
      BY <1>1, <1>4
    <3>. QED  BY <1>4, <1>5, <3>1, FindFacts
  <2>2. Find(t, "=") \notin 1 .. n + 2
    BY <1>6, <2>1
  <2>. QED  BY <1>1, <1>4, <2>1, <2>2
<1>8. KeyOf(t) = l.key
  <2>. DEFINE p == SubSeq(t, 1, n + 2)
  <2>1. /\ p \in Text /\ Len(p) = n + 2 /\ \A i \in 1 .. n + 2 : p[i] = t[i]
    <3>1. 1 \in Nat /\ n + 2 \in Nat /\ n + 2 <= Len(t) /\ (n + 2) - 1 + 1 = n + 2
          /\ \A i \in 1 .. n + 2 : 1 + i - 1 = i
      BY <1>1, <1>4
    <3>2. /\ SubSeq(t, 1, n + 2) \in Text
          /\ Len(SubSeq(t, 1, n + 2)) = IF 1 <= n + 2 THEN (n + 2) - 1 + 1 ELSE 0
          /\ \A i \in 1 .. (n + 2) - 1 + 1 : SubSeq(t, 1, n + 2)[i] = t[1 + i - 1]
      BY <1>4, <3>1, PartFacts
    <3>. QED  BY <1>1, <3>1, <3>2
  <2>2. (n + 3) - 1 = n + 2
    BY <1>1
  <2>3. KeyOf(t) = Strip(p, Blank)
    BY <1>7, <2>2 DEF KeyOf
  <2>. HIDE DEF p
  <2>4. p[2] = l.key[1] /\ p[n + 1] = l.key[n] /\ p[1] = " " /\ p[n + 2] = " "
    <3>1. /\ 1 + 1 = 2 /\ 1 \in 1 .. n /\ n \in 1 .. n
          /\ 1 \in 1 .. n + 2 /\ 2 \in 1 .. n + 2 /\ n + 1 \in 1 .. n + 2 /\ n + 2 \in 1 .. n + 2
      BY <1>1
    <3>. QED  BY <1>5, <2>1, <3>1
  <2>5. Strip(p, Blank) = SubSeq(p, 2, n + 1)
    <3>1. 2 \in 1 .. Len(p) /\ n + 1 \in 1 .. Len(p)
      BY <1>1, <2>1
    <3>2. p[2] \notin Blank /\ p[n + 1] \notin Blank
      BY <1>1, <2>4 DEF White
    <3>3. /\ \A i \in 1 .. 2 - 1 : p[i] \in Blank
          /\ \A i \in n + 1 + 1 .. Len(p) : p[i] \in Blank
      <4>1. " " \in Blank
        BY DEF Blank
      <4>2. \A i \in 1 .. 2 - 1 : i = 1
        OBVIOUS
      <4>3. \A i \in n + 1 + 1 .. Len(p) : i = n + 2
        BY <1>1, <2>1
      <4>. QED  BY <2>4, <4>1, <4>2, <4>3
    <3>. QED  BY <2>1, <3>1, <3>2, <3>3, StripIs
  <2>6. SubSeq(p, 2, n + 1) = l.key
    <3>1. /\ 2 \in Nat /\ n + 1 \in Nat /\ n + 1 <= Len(p) /\ 2 + n = n + 1 + 1
      BY <1>1, <2>1
    <3>2. \A i \in 1 .. n : l.key[i] = p[2 + i - 1]
      <4>1. \A i \in 1 .. n : 2 + i - 1 = i + 1 /\ i + 1 \in 1 .. n + 2
        BY <1>1
      <4>. QED  BY <1>5, <2>1, <4>1
    <3>3. n = Len(l.key)
      BY DEF n
    <3>4. /\ 2 + Len(l.key) = (n + 1) + 1
          /\ \A i \in 1 .. Len(l.key) : l.key[i] = p[2 + i - 1]
      BY <3>1, <3>2, <3>3
    <3>5. 1 <= 2
      OBVIOUS
    <3>6. p \in Text /\ l.key \in Text
      BY <1>1, <2>1
    <3>. QED  BY <3>1, <3>4, <3>5, <3>6, PartIs, Zenon
  <2>. QED  BY <2>3, <2>5, <2>6
<1>9. SubSeq(t, Find(t, "=") + 1, Len(t)) = r
  <2>1. /\ n + 4 \in Nat /\ Len(t) \in Nat /\ n + 4 + Len(r) = Len(t) + 1
        /\ 1 <= n + 4 /\ Len(t) <= Len(t) /\ (n + 3) + 1 = n + 4
    BY <1>1, <1>4
  <2>2. \A i \in 1 .. Len(r) : r[i] = t[n + 4 + i - 1]
    <3>1. \A i \in 1 .. Len(r) : n + 4 + i - 1 = n + 3 + i
      BY <1>1
    <3>. QED  BY <1>4, <3>1
  <2>3. SubSeq(t, n + 4, Len(t)) = r
    BY <1>3, <1>4, <2>1, <2>2, PartIs
  <2>. QED  BY <1>7, <2>1, <2>3
<1>10. ~IsComment(t)
  <2>1. 2 \in 1 .. Len(t) /\ 1 + 1 = 2 /\ 1 \in 1 .. n
    BY <1>1, <1>4
  <2>2. t[2] = l.key[1]
    BY <1>5, <2>1
  <2>3. \A i \in 1 .. 2 - 1 : t[i] \in White
    <3>1. \A i \in 1 .. 2 - 1 : i = 1
      OBVIOUS
    <3>. QED  BY <1>5, <3>1 DEF White, Blank
  <2>. QED  BY <1>1, <1>4, <2>1, <2>2, <2>3, NoCommentAt
<1>11. ~IsHeader(t)
  BY <1>1, <1>7 DEF IsHeader
<1>. QED  BY <1>4, <1>7, <1>8, <1>9, <1>10, <1>11 DEF t, r, n

-----------------------------------------------------------------------------
(***************************************************************************)
(* The value of an entry.                                                  *)
(***************************************************************************)
\* A text of a blanks, a value of m characters that is not empty, g blanks, and a
\* mark p with a comment c or nothing, with a CR or without.
Value(v, m) ==
  /\ m \in Nat /\ v \in Text /\ Len(v) = m
  /\ m # 0 => v[1] \notin White /\ v[m] \notin White
  /\ \A i \in 1 .. m - 1 : v[i] \in Blank => v[i + 1] \notin {"#", "\\"}

Shape(r, n, v, a, m, g) ==
  /\ a \in Nat /\ m \in Nat /\ g \in Nat
  /\ r \in Text /\ n \in Nat /\ Len(r) = n
  /\ \A i \in 1 .. a : r[i] = " "
  /\ \A i \in 1 .. m : r[a + i] = v[i]
  /\ \A i \in 1 .. g : r[a + m + i] = " "

PlainEnd(r, n, k) ==
  n = k \/ (n = k + 1 /\ r[k + 1] = "\r")

CommentEnd(r, n, k, p, c) ==
  /\ p \in Blank \X {"#", "\\"} /\ c \in Text /\ Len(c) \in Nat
  /\ n = k + 2 + Len(c) \/ (n = k + 3 + Len(c) /\ r[k + 3 + Len(c)] = "\r")
  /\ r[k + 1] = p[1] /\ r[k + 2] = p[2]
  /\ \A i \in 1 .. Len(c) : r[k + 2 + i] = c[i]

\* What stands behind "=" has this shape.
LEMMA BehindShape ==
  ASSUME NEW l, IsEntry(l),
         NEW a, a = l.lead, NEW m, m = Len(l.value), NEW g, g = l.gap
  PROVE  LET r == Behind(l)
             n == Len(r)
         IN  /\ Value(l.value, m) /\ Shape(r, n, l.value, a, m, g)
             /\ l.mark = <<>> => PlainEnd(r, n, a + m + g) /\ (~l.cr <=> n = a + m + g)
             /\ l.mark # <<>> => CommentEnd(r, n, a + m + g, l.mark, l.comment)
<1>. DEFINE r == Behind(l)
<1>1. /\ a \in Nat /\ m \in Nat /\ g \in Nat /\ l.cr \in BOOLEAN
      /\ l.mark = <<>> \/ l.mark \in Blank \X {"#", "\\"}
  BY EntryParts
<1>2. /\ r \in Text
      /\ Len(r) = a + m + g + Len(l.mark) + Len(l.comment) + Len(LineEnd(l))
      /\ Has(r, 0, Spaces(a)) /\ Has(r, a, l.value) /\ Has(r, a + m, Spaces(g))
      /\ Has(r, a + m + g, l.mark)
      /\ Has(r, a + m + g + Len(l.mark), l.comment)
      /\ Has(r, a + m + g + Len(l.mark) + Len(l.comment), LineEnd(l))
  BY BehindFacts, Zenon
<1>. HIDE DEF r
<1>3. \A i \in 1 .. a : r[i] = " "
  <2>1. \A i \in 1 .. Len(Spaces(a)) : r[0 + i] = Spaces(a)[i]
    BY <1>2, HasAt
  <2>2. Len(Spaces(a)) = a /\ \A i \in 1 .. a : Spaces(a)[i] = " "
    BY <1>1, SpacesFacts
  <2>3. \A i \in 1 .. a : 0 + i = i
    BY <1>1
  <2>. QED  BY <2>1, <2>2, <2>3, Zenon
<1>4. \A i \in 1 .. m : r[a + i] = l.value[i]
  BY <1>2 DEF Has
<1>5. \A i \in 1 .. g : r[a + m + i] = " "
  <2>1. \A i \in 1 .. Len(Spaces(g)) : r[a + m + i] = Spaces(g)[i]
    BY <1>2, HasAt
  <2>2. Len(Spaces(g)) = g /\ \A i \in 1 .. g : Spaces(g)[i] = " "
    BY <1>1, SpacesFacts
  <2>. QED  BY <2>1, <2>2, Zenon
<1>6. LineEnd(l) = IF l.cr THEN <<"\r">> ELSE <<>>
  BY Zenon DEF LineEnd
<1>7. Len(<<"\r">>) = 1 /\ <<"\r">>[1] = "\r"
  <2>1. "\r" \in Char
    BY FileAssumption DEF White
  <2>. QED  BY <2>1, OneCharacter, Zenon
<1>8. ASSUME l.mark = <<>>
      PROVE  /\ ~l.cr => Len(r) = a + m + g
             /\ l.cr => Len(r) = a + m + g + 1 /\ r[a + m + g + 1] = "\r"
  <2>1. Len(l.mark) = 0 /\ Len(l.comment) = 0
    <3>1. l.comment = <<>>
      BY <1>8, EntryParts
    <3>. QED  BY <1>8, <3>1, EmptySeq
  <2>2. Len(r) = a + m + g + Len(LineEnd(l)) /\ Has(r, a + m + g, LineEnd(l))
    <3>1. /\ a + m + g + 0 + 0 = a + m + g
          /\ a + m + g + 0 + 0 + Len(LineEnd(l)) = a + m + g + Len(LineEnd(l))
      BY <1>1
    <3>. QED  BY <1>2, <2>1, <3>1, Zenon
  <2>3. CASE ~l.cr
    <3>1. Len(LineEnd(l)) = 0
      BY <1>6, <2>3
    <3>. QED  BY <1>1, <2>2, <2>3, <3>1
  <2>4. CASE l.cr
    <3>1. LineEnd(l) = <<"\r">>
      BY <1>6, <2>4, Zenon
    <3>2. \A i \in 1 .. 1 : r[a + m + g + i] = <<"\r">>[i]
      <4>1. \A i \in 1 .. Len(LineEnd(l)) : r[a + m + g + i] = LineEnd(l)[i]
        BY <2>2, HasAt
      <4>. QED  BY <1>7, <3>1, <4>1, Zenon
    <3>3. 1 \in 1 .. 1
      OBVIOUS
    <3>4. r[a + m + g + 1] = "\r"
      BY <1>7, <3>2, <3>3, Zenon
    <3>5. Len(r) = a + m + g + 1
      BY <1>7, <2>2, <3>1, Zenon
    <3>. QED  BY <2>4, <3>4, <3>5
  <2>. QED  BY <2>3, <2>4
<1>9. ASSUME l.mark # <<>>
      PROVE  CommentEnd(r, Len(r), a + m + g, l.mark, l.comment)
  <2>1. PICK k, c : k = a + m + g /\ c = Len(l.comment)
    OBVIOUS
  <2>2. PICK b \in Blank, d \in {"#", "\\"} : l.mark = <<b, d>>
    BY <1>1, <1>9
  <2>3. Len(l.mark) = 2 /\ l.mark[1] = b /\ l.mark[2] = d
    BY <2>2
  <2>4. l.comment \in Text /\ c \in Nat /\ k \in Nat
    BY <1>1, <2>1, EntryParts DEF Text
  <2>5. r[k + 1] = l.mark[1] /\ r[k + 2] = l.mark[2]
    <3>1. \A i \in 1 .. 2 : r[k + i] = l.mark[i]
      <4>1. Has(r, k, l.mark)
        BY <1>2, <2>1, Zenon
      <4>2. \A i \in 1 .. Len(l.mark) : r[k + i] = l.mark[i]
        BY <4>1, HasAt
      <4>. QED  BY <2>3, <4>2, Zenon
    <3>2. 1 \in 1 .. 2 /\ 2 \in 1 .. 2
      OBVIOUS
    <3>. QED  BY <3>1, <3>2, Zenon
  <2>6. \A i \in 1 .. Len(l.comment) : r[k + 2 + i] = l.comment[i]
    <3>1. Has(r, k + 2, l.comment)
      BY <1>2, <2>1, <2>3, Zenon
    <3>. QED  BY <3>1, HasAt
  <2>7. Len(r) = k + 2 + c + Len(LineEnd(l)) /\ Has(r, k + 2 + c, LineEnd(l))
    BY <1>2, <2>1, <2>3, Zenon
  <2>8. Len(r) = k + 2 + c \/ (Len(r) = k + 3 + c /\ r[k + 3 + c] = "\r")
    <3>1. CASE ~l.cr
      <4>1. Len(LineEnd(l)) = 0
        BY <1>6, <3>1
      <4>. QED  BY <2>4, <2>7, <4>1
    <3>2. CASE l.cr
      <4>1. LineEnd(l) = <<"\r">>
        BY <1>6, <3>2, Zenon
      <4>2. \A i \in 1 .. 1 : r[k + 2 + c + i] = <<"\r">>[i]
        <5>1. \A i \in 1 .. Len(LineEnd(l)) : r[k + 2 + c + i] = LineEnd(l)[i]
          BY <2>7, HasAt
        <5>. QED  BY <1>7, <4>1, <5>1, Zenon
      <4>3. 1 \in 1 .. 1 /\ k + 2 + c + 1 = k + 3 + c
        BY <2>4
      <4>. QED  BY <1>7, <2>7, <4>1, <4>2, <4>3, Zenon
    <3>. QED  BY <1>1, <3>1, <3>2
  <2>. QED  BY <1>1, <1>9, <2>1, <2>4, <2>5, <2>6, <2>8, Zenon DEF CommentEnd
<1>10. r \in Text /\ Len(r) \in Nat
  BY <1>2 DEF Text
<1>11. Value(l.value, m)
  <2>1. /\ l.value \in Text
        /\ l.value # <<>> => l.value[1] \notin White /\ l.value[m] \notin White
        /\ l.value = <<>> => m = 0
        /\ \A i \in 1 .. m - 1 : l.value[i] \in Blank => l.value[i + 1] \notin {"#", "\\"}
    BY EntryParts
  <2>. QED  BY <1>1, <2>1, Zenon DEF Value
<1>12. Shape(r, Len(r), l.value, a, m, g)
  BY <1>1, <1>3, <1>4, <1>5, <1>10, Zenon DEF Shape
<1>13. l.mark = <<>> => PlainEnd(r, Len(r), a + m + g) /\ (~l.cr <=> Len(r) = a + m + g)
  <2>1. a + m + g + 1 # a + m + g
    BY <1>1
  <2>. QED  BY <1>1, <1>8, <2>1, Zenon DEF PlainEnd
<1>14. l.mark # <<>> => CommentEnd(r, Len(r), a + m + g, l.mark, l.comment)
  BY <1>9
<1>. QED  BY <1>11, <1>12, <1>13, <1>14 DEF r

\* What find of two characters finds: where they stand, if it is in one place
\* only, or 0.
Mark(r, i) == r[i] \in Blank /\ r[i + 1] \in {"#", "\\"}

\* Two neighbouring characters, as the part of a text they are.
LEMMA PairAt ==
  ASSUME NEW r \in Text, NEW i \in Nat, 1 <= i, i + 1 <= Len(r)
  PROVE  SubSeq(r, i, i + 1) = <<r[i], r[i + 1]>>
<1>1. r[i] \in Char /\ r[i + 1] \in Char
  <2>1. i \in 1 .. Len(r) /\ i + 1 \in 1 .. Len(r)
    BY DEF Text
  <2>. QED  BY <2>1, ElementOfSeq DEF Text
<1>. DEFINE v == <<r[i], r[i + 1]>>
<1>2. v \in Text /\ Len(v) = 2 /\ v[1] = r[i] /\ v[2] = r[i + 1]
  BY <1>1, TwoCharacters
<1>. HIDE DEF v
<1>3. /\ i + 1 \in Nat /\ i + Len(v) = (i + 1) + 1
      /\ \A j \in 1 .. Len(v) : v[j] = r[i + j - 1]
  <2>1. i + 1 - 1 = i /\ i + 2 - 1 = i + 1 /\ i + 2 = (i + 1) + 1
    OBVIOUS
  <2>2. \A j \in 1 .. 2 : j = 1 \/ j = 2
    OBVIOUS
  <2>. QED  BY <1>2, <2>1, <2>2
<1>4. SubSeq(r, i, i + 1) = v
  BY <1>2, <1>3, PartIs
<1>. QED  BY <1>4 DEF v

\* The marks are those of FindMark.
LEMMA MarksAre ==
  /\ \A k \in 1 .. 4 : Marks[k] \in Blank \X {"#", "\\"}
  /\ \A p \in Blank \X {"#", "\\"} : \E k \in 1 .. 4 : Marks[k] = p
  /\ \A j, k \in 1 .. 4 : Marks[j] = Marks[k] => j = k
<1>. DEFINE h == "#"
            z == "\\"
            b == " "
            y == "\t"
<1>1. h # z /\ b # y
  OBVIOUS
<1>2. Blank = {b, y} /\ {"#", "\\"} = {h, z}
  BY DEF Blank
<1>3. Marks = << <<y, h>>, <<b, h>>, <<y, z>>, <<b, z>> >>
  BY DEF Marks
<1>. HIDE DEF h, z, b, y
<1>4. Marks[1] = <<y, h>> /\ Marks[2] = <<b, h>> /\ Marks[3] = <<y, z>> /\ Marks[4] = <<b, z>>
  BY <1>3
<1>5. \A k \in 1 .. 4 : k = 1 \/ k = 2 \/ k = 3 \/ k = 4
  OBVIOUS
<1>6. 1 \in 1 .. 4 /\ 2 \in 1 .. 4 /\ 3 \in 1 .. 4 /\ 4 \in 1 .. 4
  OBVIOUS
<1>7. \A k \in 1 .. 4 : Marks[k] \in Blank \X {"#", "\\"}
  BY <1>2, <1>4, <1>5
<1>8. \A p \in Blank \X {"#", "\\"} : \E k \in 1 .. 4 : Marks[k] = p
  <2>1. ASSUME NEW p \in Blank \X {"#", "\\"} PROVE \E k \in 1 .. 4 : Marks[k] = p
    <3>1. PICK p1 \in {b, y}, p2 \in {h, z} : p = <<p1, p2>>
      BY <1>2
    <3>2. p = Marks[1] \/ p = Marks[2] \/ p = Marks[3] \/ p = Marks[4]
      BY <1>4, <3>1
    <3>. QED  BY <1>6, <3>2
  <2>. QED  BY <2>1
<1>9. ASSUME NEW j \in 1 .. 4, NEW k \in 1 .. 4, Marks[j] = Marks[k] PROVE j = k
  BY <1>1, <1>4, <1>5, <1>9
<1>. QED  BY <1>7, <1>8, <1>9

\* FindMark in a text without a mark.
LEMMA FindMarkNone ==
  ASSUME NEW r \in Text, NEW from \in Nat,
         \A i \in 1 .. Len(r) - 1 : i >= from => ~Mark(r, i)
  PROVE  FindMark(r, from) = 0
<1>1. ASSUME NEW k \in 1 .. 4 PROVE FindPair(r, Marks[k], from) = 0
  <2>. DEFINE at == {i \in 1 .. Len(r) - 1 : from # 0 /\ i >= from
                                               /\ SubSeq(r, i, i + 1) = Marks[k]}
  <2>1. ASSUME NEW i \in at PROVE FALSE
    <3>1. i \in Nat /\ 1 <= i /\ i + 1 <= Len(r) /\ i >= from /\ SubSeq(r, i, i + 1) = Marks[k]
      BY DEF Text
    <3>2. <<r[i], r[i + 1]>> \in Blank \X {"#", "\\"}
      BY <3>1, PairAt, MarksAre
    <3>3. Mark(r, i)
      BY <3>2 DEF Mark
    <3>. QED  BY <3>1, <3>3
  <2>2. at = {}
    BY <2>1
  <2>. QED  BY <2>2, Zenon DEF FindPair
<1>2. {k \in 1 .. 4 : FindPair(r, Marks[k], from) # 0} = {}
  BY <1>1
<1>. QED  BY <1>2, Zenon DEF FindMark

\* FindMark in a text that has no mark before position q, and behind it none that is
\* preferred to the one there.
LEMMA FindMarkFirst ==
  ASSUME NEW r \in Text, NEW from \in Nat, from # 0,
         NEW q \in 1 .. Len(r) - 1, q >= from,
         NEW n \in 1 .. 4, Marks[n] = <<r[q], r[q + 1]>>,
         \A i \in 1 .. Len(r) - 1 : i >= from /\ Mark(r, i) =>
           /\ q <= i
           /\ \A j \in 1 .. n - 1 : Marks[j] # <<r[i], r[i + 1]>>
  PROVE  FindMark(r, from) = q
<1>0. Len(r) \in Nat /\ q \in Nat /\ q # 0 /\ n \in Nat
  BY DEF Text
<1>1. \A i \in 1 .. Len(r) - 1 : i \in Nat /\ SubSeq(r, i, i + 1) = <<r[i], r[i + 1]>>
  BY <1>0, PairAt
<1>. DEFINE at(k) == {i \in 1 .. Len(r) - 1 : from # 0 /\ i >= from
                                                /\ SubSeq(r, i, i + 1) = Marks[k]}
<1>2. ASSUME NEW k \in 1 .. 4, NEW i \in at(k) PROVE q <= i /\ k >= n
  <2>1. i \in 1 .. Len(r) - 1 /\ i >= from /\ <<r[i], r[i + 1]>> = Marks[k]
    BY <1>1
  <2>2. <<r[i], r[i + 1]>> \in Blank \X {"#", "\\"}
    BY <2>1, MarksAre
  <2>3. Mark(r, i)
    BY <2>2 DEF Mark
  <2>4. q <= i /\ \A j \in 1 .. n - 1 : Marks[j] # Marks[k]
    BY <2>1, <2>3
  <2>5. ~(k >= n) => k \in 1 .. n - 1
    BY <1>0
  <2>. QED  BY <2>4, <2>5
<1>3. q \in at(n)
  BY <1>1
<1>4. /\ \A k \in 1 .. 4 : at(k) \subseteq Nat
      /\ \A k \in 1 .. 4 : k < n => at(k) = {}
  <2>1. \A k \in 1 .. 4 : k < n => ~(k >= n)
    BY <1>0
  <2>. QED  BY <1>1, <1>2, <2>1
<1>5. \A k \in 1 .. 4 : FindPair(r, Marks[k], from) = IF at(k) = {} THEN 0 ELSE Min(at(k))
  BY Zenon DEF FindPair
<1>6. \A i \in at(n) : q <= i
  BY <1>2
<1>. HIDE DEF at
<1>7. Min(at(n)) = q
  <2>1. Min(at(n)) \in at(n) /\ \A i \in at(n) : Min(at(n)) <= i
    BY <1>3, <1>4, MinIsFirst
  <2>2. Min(at(n)) \in Nat /\ Min(at(n)) <= q /\ q <= Min(at(n))
    BY <1>3, <1>4, <1>6, <2>1
  <2>. QED  BY <1>0, <2>2
<1>8. FindPair(r, Marks[n], from) = q
  BY <1>3, <1>5, <1>7
<1>. DEFINE found == {k \in 1 .. 4 : FindPair(r, Marks[k], from) # 0}
<1>9. n \in found /\ \A k \in found : n <= k
  <2>1. n \in found
    BY <1>0, <1>8
  <2>2. ASSUME NEW k \in found PROVE n <= k
    <3>1. k \in 1 .. 4 /\ at(k) # {}
      BY <1>5
    <3>. QED  BY <1>0, <1>4, <3>1
  <2>. QED  BY <2>1, <2>2
<1>10. found \subseteq Nat
  OBVIOUS
<1>11. FindMark(r, from) = IF found = {} THEN 0 ELSE FindPair(r, Marks[Min(found)], from)
  BY Zenon DEF FindMark
<1>. HIDE DEF found
<1>12. Min(found) = n
  <2>1. Min(found) \in found /\ \A k \in found : Min(found) <= k
    BY <1>9, <1>10, MinIsFirst
  <2>2. Min(found) \in Nat /\ Min(found) <= n /\ n <= Min(found)
    BY <1>9, <1>10, <2>1
  <2>. QED  BY <1>0, <2>2
<1>13. found # {}
  BY <1>9
<1>. QED  BY <1>8, <1>11, <1>12, <1>13, Zenon

\* Where a mark can stand in it, at or after the value's first character: behind the
\* blanks that follow the value, or in the comment.
LEMMA OnlyMark ==
  ASSUME NEW r, NEW n, NEW v, NEW a, NEW m, NEW g,
         Shape(r, n, v, a, m, g), Value(v, m), m # 0,
         NEW k, k = a + m + g, NEW p, NEW c,
         PlainEnd(r, n, k) \/ CommentEnd(r, n, k, p, c),
         NEW i \in Nat, i >= a + 1, i + 1 <= n, Mark(r, i)
  PROVE  /\ CommentEnd(r, n, k, p, c)
         /\ \/ i = k + 1
            \/ \E j \in 1 .. Len(c) - 1 : i > k + 1 /\ r[i] = c[j] /\ r[i + 1] = c[j + 1]
<1>1. a \in Nat /\ m \in Nat /\ g \in Nat /\ n \in Nat /\ m >= 1 /\ k \in Nat
  <2>1. a \in Nat /\ m \in Nat /\ g \in Nat /\ n \in Nat
    BY Zenon DEF Shape
  <2>. QED  BY <2>1
<1>3. r[i] \in Blank /\ r[i + 1] \in {"#", "\\"}
  BY DEF Mark
<1>4. ASSUME i < a + m PROVE FALSE
  <2>1. PICK j \in 1 .. m - 1 : i = a + j
    <3>1. i - a \in 1 .. m - 1 /\ i = a + (i - a)
      BY <1>1, <1>4
    <3>. QED  BY <3>1
  <2>2. /\ j \in 1 .. m /\ j + 1 \in 1 .. m /\ i + 1 = a + (j + 1)
    BY <1>1, <2>1
  <2>3. r[i] = v[j] /\ r[i + 1] = v[j + 1]
    BY <2>1, <2>2 DEF Shape
  <2>. QED  BY <1>3, <2>3 DEF Value
<1>5. i # a + m
  <2>1. m \in 1 .. m
    BY <1>1
  <2>2. r[a + m] = v[m] /\ v[m] \notin White
    BY <2>1 DEF Shape, Value
  <2>. QED  BY <1>3, <2>2 DEF White
<1>6. ASSUME i > a + m, i < k PROVE FALSE
  <2>1. PICK j \in 1 .. g : i + 1 = a + m + j
    <3>1. i + 1 - (a + m) \in 1 .. g /\ i + 1 = a + m + (i + 1 - (a + m))
      BY <1>1, <1>6
    <3>. QED  BY <3>1
  <2>2. r[i + 1] = " "
    BY <2>1 DEF Shape
  <2>. QED  BY <1>3, <2>2
<1>7. i >= k
  <2>1. i >= a + m + 1
    BY <1>1, <1>4, <1>5
  <2>. QED  BY <1>1, <1>6, <2>1
<1>8. CASE PlainEnd(r, n, k)
  <2>1. n = k + 1 /\ r[k + 1] = "\r"
    BY <1>1, <1>7, <1>8 DEF PlainEnd
  <2>2. i = k
    BY <1>1, <1>7, <2>1
  <2>. QED  BY <1>3, <2>1, <2>2
<1>9. CASE CommentEnd(r, n, k, p, c)
  <2>0. /\ p \in Blank \X {"#", "\\"} /\ c \in Text /\ Len(c) \in Nat
        /\ n = k + 2 + Len(c) \/ (n = k + 3 + Len(c) /\ r[k + 3 + Len(c)] = "\r")
        /\ r[k + 1] = p[1] /\ r[k + 2] = p[2]
        /\ \A j \in 1 .. Len(c) : r[k + 2 + j] = c[j]
    BY <1>9 DEF CommentEnd
  <2>1. r[k + 1] \notin {"#", "\\"} /\ r[k + 2] \notin Blank
    <3>1. p[1] \in Blank /\ p[2] \in {"#", "\\"}
      BY <2>0
    <3>2. \A x \in Blank : x # "#" /\ x # "\\"
      BY DEF Blank
    <3>. QED  BY <2>0, <3>1, <3>2
  <2>2. i # k /\ i # k + 2
    BY <1>3, <2>1
  <2>3. CASE i = k + 1
    BY <1>9, <2>3
  <2>4. CASE i # k + 1
    <3>1. PICK j \in Nat : i = k + 2 + j /\ j >= 1
      <4>1. i - (k + 2) \in Nat /\ i = k + 2 + (i - (k + 2)) /\ i - (k + 2) >= 1
        BY <1>1, <1>7, <2>2, <2>4
      <4>. QED  BY <4>1
    <3>2. j + 1 # Len(c) + 1
      <4>1. ASSUME j = Len(c) PROVE FALSE
        <5>1. i + 1 = k + 3 + Len(c)
          BY <1>1, <2>0, <3>1, <4>1
        <5>2. n = k + 3 + Len(c)
          BY <1>1, <2>0, <5>1
        <5>3. r[i + 1] = "\r"
          BY <1>1, <2>0, <5>1, <5>2
        <5>. QED  BY <1>3, <5>3
      <4>. QED  BY <2>0, <3>1, <4>1
    <3>3. j + 1 <= Len(c) + 1
      BY <1>1, <2>0, <3>1
    <3>4. j \in 1 .. Len(c) - 1 /\ j \in 1 .. Len(c) /\ j + 1 \in 1 .. Len(c)
          /\ i + 1 = k + 2 + (j + 1) /\ i > k + 1
      BY <1>1, <2>0, <3>1, <3>2, <3>3
    <3>5. r[i] = c[j] /\ r[i + 1] = c[j + 1]
      BY <2>0, <3>1, <3>4
    <3>. QED  BY <1>9, <3>4, <3>5
  <2>. QED  BY <2>3, <2>4
<1>. QED  BY <1>8, <1>9

\* The first character of a value is the first behind "=" that is no blank.
LEMMA ValueBegins ==
  ASSUME NEW r, NEW n, NEW v, NEW a, NEW m, NEW g,
         Shape(r, n, v, a, m, g), Value(v, m), m # 0, n >= a + 1
  PROVE  FirstNotOf(r, Blank) = a + 1
<1>1. a \in Nat /\ m \in Nat /\ n \in Nat /\ m >= 1 /\ r \in Text /\ Len(r) = n
  <2>1. a \in Nat /\ m \in Nat /\ n \in Nat /\ r \in Text /\ Len(r) = n
    BY Zenon DEF Shape
  <2>. QED  BY <2>1
<1>2. r[a + 1] = v[1] /\ v[1] \notin Blank
  <2>1. 1 \in 1 .. m
    BY <1>1
  <2>. QED  BY <2>1 DEF Shape, Value, White
<1>3. \A j \in 1 .. a : r[j] \in Blank
  BY DEF Shape, Blank
<1>4. a + 1 \in 1 .. Len(r)
  BY <1>1
<1>5. /\ FirstNotOf(r, Blank) \in 0 .. Len(r)
      /\ FirstNotOf(r, Blank) # 0
      /\ r[FirstNotOf(r, Blank)] \notin Blank
      /\ FirstNotOf(r, Blank) <= a + 1
  BY <1>1, <1>2, <1>4, FirstNotOfFacts
<1>. QED  BY <1>1, <1>3, <1>5

\* The characters between the value and what ends the line are blanks.
LEMMA BlanksBehind ==
  ASSUME NEW r, NEW n, NEW v, NEW a, NEW m, NEW g, Shape(r, n, v, a, m, g),
         NEW i \in a + m + 1 .. a + m + g
  PROVE  r[i] = " "
<1>1. a \in Nat /\ m \in Nat /\ g \in Nat
  BY Zenon DEF Shape
<1>2. PICK j \in 1 .. g : i = a + m + j
  <2>1. i - (a + m) \in 1 .. g /\ i = a + m + (i - (a + m))
    BY <1>1
  <2>. QED  BY <2>1
<1>. QED  BY <1>2 DEF Shape

\* What StAnalyzeIni takes of an uncommented value, and Get_Profile_Str of that.
LEMMA StripPlain ==
  ASSUME NEW r, NEW n, NEW v, NEW a, NEW m, NEW g,
         Shape(r, n, v, a, m, g), Value(v, m), m # 0, n >= a + 1,
         NEW k, k = a + m + g, PlainEnd(r, n, k)
  PROVE  /\ Strip(r, Blank) \in Text /\ Len(Strip(r, Blank)) >= 1
         /\ TrimSpace(Strip(r, Blank)) = v
<1>1. a \in Nat /\ m \in Nat /\ g \in Nat /\ n \in Nat /\ m >= 1 /\ k \in Nat
  <2>1. a \in Nat /\ m \in Nat /\ g \in Nat /\ n \in Nat
    BY Zenon DEF Shape
  <2>. QED  BY <2>1
<1>2. r \in Text /\ Len(r) = n /\ v \in Text /\ Len(v) = m
  BY Zenon DEF Shape, Value
<1>3. /\ \A i \in 1 .. a : r[i] = " "
      /\ \A i \in 1 .. m : r[a + i] = v[i]
  BY Zenon DEF Shape
<1>4. v[1] \notin White /\ v[m] \notin White
  BY Zenon DEF Value
<1>5. \A i \in a + m + 1 .. k : r[i] = " "
  BY BlanksBehind
<1>6. PICK b \in a + m .. n : (n = k => b = a + m) /\ (n # k => b = n)
  <2>1. n >= a + m
    BY <1>1 DEF PlainEnd
  <2>2. CASE n = k
    BY <1>1, <2>1, <2>2
  <2>3. CASE n # k
    BY <1>1, <2>1, <2>3
  <2>. QED  BY <2>2, <2>3
<1>7. n # k => n = k + 1 /\ r[n] = "\r"
  BY DEF PlainEnd
<1>8. " " \in Blank /\ Blank \subseteq White /\ "\r" \in White /\ "\r" \notin Blank
  BY DEF Blank, White
<1>9. b \in Nat /\ b >= a + m /\ b <= n /\ 1 \in 1 .. m /\ m \in 1 .. m
  BY <1>1, <1>6
<1>10. r[a + 1] = v[1] /\ r[a + m] = v[m]
  BY <1>3, <1>9
<1>11. r[b] \notin Blank
  <2>1. v[m] \notin Blank
    BY <1>4, <1>8
  <2>2. CASE n = k
    BY <1>6, <1>10, <2>1, <2>2, Zenon
  <2>3. CASE n # k
    BY <1>6, <1>7, <1>8, <2>3, Zenon
  <2>. QED  BY <2>2, <2>3
<1>12. \A i \in b + 1 .. n : r[i] \in Blank
  <2>1. ASSUME NEW i \in b + 1 .. n PROVE r[i] \in Blank
    <3>1. n = k /\ b = a + m
      <4>1. b # n
        BY <1>1, <1>9, <2>1
      <4>. QED  BY <1>6, <4>1, Zenon
    <3>2. i \in a + m + 1 .. k
      BY <3>1
    <3>. QED  BY <1>5, <1>8, <3>2
  <2>. QED  BY <2>1
<1>13. Strip(r, Blank) = SubSeq(r, a + 1, b)
  <2>1. /\ a + 1 \in 1 .. n /\ b \in 1 .. n
    BY <1>1, <1>9
  <2>2. /\ r[a + 1] \notin Blank
        /\ \A i \in 1 .. (a + 1) - 1 : r[i] \in Blank
    <3>1. (a + 1) - 1 = a
      BY <1>1
    <3>. QED  BY <1>3, <1>4, <1>8, <1>10, <3>1, Zenon
  <2>. QED  BY <1>2, <1>11, <1>12, <2>1, <2>2, StripIs
<1>14. PICK w : w = SubSeq(r, a + 1, b)
  OBVIOUS
<1>15. /\ w \in Text /\ Len(w) = b - a
       /\ \A i \in 1 .. b - a : w[i] = r[a + i]
  <2>1. /\ a + 1 \in Nat /\ 1 <= a + 1 /\ a + 1 <= b /\ b - (a + 1) + 1 = b - a
        /\ \A i \in 1 .. b - a : (a + 1) + i - 1 = a + i
    BY <1>1, <1>9
  <2>2. /\ SubSeq(r, a + 1, b) \in Text
        /\ Len(SubSeq(r, a + 1, b)) = IF a + 1 <= b THEN b - (a + 1) + 1 ELSE 0
        /\ \A i \in 1 .. b - (a + 1) + 1 : SubSeq(r, a + 1, b)[i] = r[(a + 1) + i - 1]
    BY <1>2, <1>9, <2>1, PartFacts
  <2>. QED  BY <1>14, <2>1, <2>2, Zenon
<1>16. b - a \in Nat /\ b - a >= m
  BY <1>1, <1>9
<1>17. \A i \in 1 .. m : w[i] = v[i]
  <2>1. \A i \in 1 .. m : i \in 1 .. b - a
    BY <1>1, <1>16
  <2>. QED  BY <1>3, <1>15, <2>1
<1>18. \A i \in m + 1 .. b - a : w[i] \in White
  <2>1. ASSUME NEW i \in m + 1 .. b - a PROVE w[i] \in White
    <3>1. i \in 1 .. b - a /\ w[i] = r[a + i]
      BY <1>1, <1>15, <1>16
    <3>2. n # k /\ b = n /\ n = k + 1
      <4>1. b - a >= m + 1
        BY <1>1, <1>16, <2>1
      <4>2. b # a + m
        BY <1>1, <1>9, <4>1
      <4>. QED  BY <1>6, <1>7, <4>2, Zenon
    <3>3. a + i \in a + m + 1 .. k \/ a + i = n
      BY <1>1, <2>1, <3>2
    <3>. QED  BY <1>5, <1>7, <1>8, <3>1, <3>2, <3>3
  <2>. QED  BY <2>1
<1>19. TrimSpace(w) = SubSeq(w, 1, m)
  <2>1. /\ 1 \in 1 .. b - a /\ m \in 1 .. b - a
        /\ \A i \in 1 .. 1 - 1 : FALSE
    BY <1>1, <1>16
  <2>2. w[1] \notin White /\ w[m] \notin White
    BY <1>4, <1>9, <1>17
  <2>3. Strip(w, White) = SubSeq(w, 1, m)
    BY <1>15, <1>18, <2>1, <2>2, StripIs
  <2>. QED  BY <2>3 DEF TrimSpace
<1>20. SubSeq(w, 1, m) = v
  <2>1. m <= Len(w)
    BY <1>1, <1>15, <1>16
  <2>. QED  BY <1>1, <1>2, <1>15, <1>17, <2>1, FirstPartIs
<1>21. Len(w) >= 1
  BY <1>1, <1>15, <1>16
<1>. QED  BY <1>13, <1>14, <1>15, <1>19, <1>20, <1>21

\* What is left of a value from the beginning, when blanks around it are taken off.
LEMMA TrimPrefix ==
  ASSUME NEW v, NEW m, Value(v, m), NEW j \in 1 .. m
  PROVE  /\ SubSeq(v, 1, j) \in Text /\ Len(SubSeq(v, 1, j)) = j
         /\ \E h \in 1 .. j : TrimSpace(SubSeq(v, 1, j)) = SubSeq(v, 1, h)
         /\ TrimSpace(v) = v
<1>1. /\ m \in Nat /\ v \in Text /\ Len(v) = m /\ m # 0
      /\ v[1] \notin White /\ v[m] \notin White
  BY DEF Value
<1>2. PICK w : w = SubSeq(v, 1, j)
  OBVIOUS
<1>3. w \in Text /\ Len(w) = j /\ \A i \in 1 .. j : w[i] = v[i]
  <2>1. /\ 1 \in Nat /\ j \in Nat /\ 1 <= j /\ j <= m /\ j - 1 + 1 = j
        /\ \A i \in 1 .. j : 1 + i - 1 = i
    BY <1>1
  <2>2. /\ SubSeq(v, 1, j) \in Text
        /\ Len(SubSeq(v, 1, j)) = IF 1 <= j THEN j - 1 + 1 ELSE 0
        /\ \A i \in 1 .. j - 1 + 1 : SubSeq(v, 1, j)[i] = v[1 + i - 1]
    BY <1>1, <2>1, PartFacts
  <2>. QED  BY <1>2, <2>1, <2>2, Zenon
<1>4. PICK h : h = LastNotOf(w, White)
  OBVIOUS
<1>5. 1 \in 1 .. j /\ w[1] \notin White
  BY <1>1, <1>3
<1>6. h \in 1 .. j
  <2>1. /\ LastNotOf(w, White) \in 0 .. Len(w)
        /\ 1 <= LastNotOf(w, White)
    BY <1>3, <1>5, LastNotOfFacts
  <2>. QED  BY <1>3, <1>4, <2>1
<1>7. FirstNotOf(w, White) = 1
  <2>1. FirstNotOf(w, White) \in 0 .. Len(w) /\ FirstNotOf(w, White) <= 1
        /\ FirstNotOf(w, White) # 0
    BY <1>3, <1>5, FirstNotOfFacts
  <2>. QED  BY <2>1, <1>3
<1>8. TrimSpace(w) = SubSeq(w, 1, h)
  <2>1. 1 # 0
    OBVIOUS
  <2>. QED  BY <1>4, <1>7, <2>1, Zenon DEF TrimSpace, Strip
<1>9. \A t \in 1 .. j : SubSeq(w, 1, t) = SubSeq(v, 1, t)
  <2>1. ASSUME NEW t \in 1 .. j PROVE SubSeq(w, 1, t) = SubSeq(v, 1, t)
    <3>1. PICK u : u = SubSeq(v, 1, t)
      OBVIOUS
    <3>2. u \in Text /\ Len(u) = t /\ \A i \in 1 .. t : u[i] = v[i]
      <4>1. /\ 1 \in Nat /\ t \in Nat /\ 1 <= t /\ t <= m /\ t - 1 + 1 = t
            /\ \A i \in 1 .. t : 1 + i - 1 = i
        BY <1>1
      <4>2. /\ SubSeq(v, 1, t) \in Text
            /\ Len(SubSeq(v, 1, t)) = IF 1 <= t THEN t - 1 + 1 ELSE 0
            /\ \A i \in 1 .. t - 1 + 1 : SubSeq(v, 1, t)[i] = v[1 + i - 1]
        BY <1>1, <4>1, PartFacts
      <4>. QED  BY <3>1, <4>1, <4>2, Zenon
    <3>3. t \in Nat /\ t <= j /\ \A i \in 1 .. t : i \in 1 .. j
      OBVIOUS
    <3>4. \A i \in 1 .. t : w[i] = u[i]
      BY <1>3, <3>2, <3>3
    <3>5. SubSeq(w, 1, t) = u
      BY <1>3, <3>2, <3>3, <3>4, FirstPartIs
    <3>. QED  BY <3>1, <3>5
  <2>. QED  BY <2>1
<1>10. TrimSpace(v) = v
  <2>1. 1 \in 1 .. m /\ m \in 1 .. m
        /\ (\A i \in 1 .. 1 - 1 : FALSE) /\ (\A i \in m + 1 .. m : FALSE)
    BY <1>1
  <2>2. Strip(v, White) = SubSeq(v, 1, m)
    BY <1>1, <2>1, StripIs
  <2>3. SubSeq(v, 1, m) = v
    BY <1>1, SubSeqFull DEF Text
  <2>. QED  BY <2>2, <2>3 DEF TrimSpace
<1>. QED  BY <1>2, <1>3, <1>6, <1>8, <1>9, <1>10

\* What StAnalyzeIni takes of a value with a comment: the first m + g characters
\* behind "=", stripped.
Cut(cut, r, n, v, a, m, g) ==
  /\ Shape(r, n, v, a, m, g) /\ Value(v, m) /\ m # 0 /\ n >= a + m + g
  /\ cut = SubSeq(r, 1, m + g)

\* What is left of a value, its gap and what the search left of the mark.
LEMMA StripCommented ==
  ASSUME NEW r, NEW n, NEW v, NEW a, NEW m, NEW g, NEW cut, Cut(cut, r, n, v, a, m, g)
  PROVE  /\ \/ Strip(cut, Blank) = <<>>
            \/ \E j \in 1 .. m : Strip(cut, Blank) = SubSeq(v, 1, j)
         /\ g >= a => Strip(cut, Blank) = v
<1>0. /\ Shape(r, n, v, a, m, g) /\ Value(v, m) /\ m # 0 /\ n >= a + m + g
      /\ cut = SubSeq(r, 1, m + g)
  BY DEF Cut
<1>1. a \in Nat /\ m \in Nat /\ g \in Nat /\ n \in Nat /\ m >= 1
  <2>1. a \in Nat /\ m \in Nat /\ g \in Nat /\ n \in Nat
    BY <1>0, Zenon DEF Shape
  <2>. QED  BY <1>0, <2>1
<1>2. r \in Text /\ Len(r) = n /\ v \in Text /\ Len(v) = m
  BY <1>0, Zenon DEF Shape, Value
<1>3. /\ \A i \in 1 .. a : r[i] = " "
      /\ \A i \in 1 .. m : r[a + i] = v[i]
  BY <1>0, Zenon DEF Shape
<1>4. \A i \in a + m + 1 .. a + m + g : r[i] = " "
  BY <1>0, BlanksBehind
<1>5. " " \in Blank /\ v[1] \notin Blank /\ v[m] \notin Blank
  BY <1>0 DEF Value, White, Blank
<1>6. /\ cut \in Text /\ Len(cut) = m + g
      /\ \A i \in 1 .. m + g : cut[i] = r[i]
  <2>1. /\ 1 \in Nat /\ m + g \in Nat /\ 1 <= m + g /\ m + g <= n /\ (m + g) - 1 + 1 = m + g
        /\ \A i \in 1 .. m + g : 1 + i - 1 = i
    BY <1>0, <1>1
  <2>2. /\ SubSeq(r, 1, m + g) \in Text
        /\ Len(SubSeq(r, 1, m + g)) = IF 1 <= m + g THEN (m + g) - 1 + 1 ELSE 0
        /\ \A i \in 1 .. (m + g) - 1 + 1 : SubSeq(r, 1, m + g)[i] = r[1 + i - 1]
    BY <1>2, <2>1, PartFacts
  <2>. QED  BY <1>0, <2>1, <2>2, Zenon
<1>7. CASE m + g <= a
  <2>1. \A i \in 1 .. m + g : i \in 1 .. a
    BY <1>1, <1>7
  <2>2. \A i \in 1 .. Len(cut) : cut[i] \in Blank
    BY <1>3, <1>5, <1>6, <2>1
  <2>3. Strip(cut, Blank) = <<>>
    BY <1>6, <2>2, StripNone
  <2>4. ~(g >= a)
    BY <1>1, <1>7
  <2>. QED  BY <2>3, <2>4
<1>8. CASE m + g > a
  <2>1. a + 1 \in 1 .. m + g /\ 1 \in 1 .. m /\ m \in 1 .. m
    BY <1>1, <1>8
  <2>2. cut[a + 1] \notin Blank
    BY <1>3, <1>5, <1>6, <2>1
  <2>3. \A i \in 1 .. a : cut[i] \in Blank
    <3>1. \A i \in 1 .. a : i \in 1 .. m + g
      BY <1>1, <1>8
    <3>. QED  BY <1>3, <1>5, <1>6, <3>1
  <2>4. FirstNotOf(cut, Blank) = a + 1
    <3>1. /\ FirstNotOf(cut, Blank) \in 0 .. m + g
          /\ FirstNotOf(cut, Blank) # 0
          /\ cut[FirstNotOf(cut, Blank)] \notin Blank
          /\ FirstNotOf(cut, Blank) <= a + 1
      BY <1>6, <2>1, <2>2, FirstNotOfFacts
    <3>. QED  BY <1>1, <2>3, <3>1
  <2>5. PICK b : b = LastNotOf(cut, Blank)
    OBVIOUS
  <2>6. /\ b \in 0 .. m + g /\ b >= a + 1
        /\ cut[b] \notin Blank
        /\ \A i \in 1 .. m + g : cut[i] \notin Blank => i <= b
    <3>1. /\ b \in 0 .. m + g
          /\ b # 0 => cut[b] \notin Blank
          /\ \A i \in 1 .. m + g : cut[i] \notin Blank => i <= b
      BY <1>6, <2>5, LastNotOfFacts
    <3>2. b >= a + 1
      BY <2>1, <2>2, <3>1
    <3>3. b # 0
      BY <1>1, <3>1, <3>2
    <3>. QED  BY <3>1, <3>2, <3>3
  <2>7. b <= a + m
    <3>1. ASSUME b > a + m PROVE FALSE
      <4>1. b \in a + m + 1 .. a + m + g /\ b \in 1 .. m + g
        BY <1>1, <2>6, <3>1
      <4>. QED  BY <1>4, <1>5, <1>6, <2>6, <4>1
    <3>. QED  BY <1>1, <2>6, <3>1
  <2>8. PICK j \in 1 .. m : b = a + j
    <3>1. b - a \in 1 .. m /\ b = a + (b - a)
      BY <1>1, <2>6, <2>7
    <3>. QED  BY <3>1
  <2>9. Strip(cut, Blank) = SubSeq(cut, a + 1, b)
    <3>1. a + 1 # 0
      BY <1>1
    <3>. QED  BY <2>4, <2>5, <3>1, Zenon DEF Strip
  <2>10. SubSeq(cut, a + 1, b) = SubSeq(v, 1, j)
    <3>1. PICK u : u = SubSeq(v, 1, j)
      OBVIOUS
    <3>2. u \in Text /\ Len(u) = j /\ \A i \in 1 .. j : u[i] = v[i]
      <4>1. /\ 1 \in Nat /\ j \in Nat /\ 1 <= j /\ j <= m /\ j - 1 + 1 = j
            /\ \A i \in 1 .. j : 1 + i - 1 = i
        BY <1>1
      <4>2. /\ SubSeq(v, 1, j) \in Text
            /\ Len(SubSeq(v, 1, j)) = IF 1 <= j THEN j - 1 + 1 ELSE 0
            /\ \A i \in 1 .. j - 1 + 1 : SubSeq(v, 1, j)[i] = v[1 + i - 1]
        BY <1>2, <4>1, PartFacts
      <4>. QED  BY <3>1, <4>1, <4>2, Zenon
    <3>3. /\ a + 1 \in Nat /\ b \in Nat /\ 1 <= a + 1 /\ b <= m + g
          /\ a + 1 + j = b + 1
          /\ \A i \in 1 .. j : /\ i \in 1 .. m /\ a + i \in 1 .. m + g
                               /\ (a + 1) + i - 1 = a + i
      BY <1>1, <2>6, <2>8
    <3>4. \A i \in 1 .. Len(u) : u[i] = cut[(a + 1) + i - 1]
      BY <1>3, <1>6, <3>2, <3>3
    <3>5. SubSeq(cut, a + 1, b) = u
      BY <1>6, <3>2, <3>3, <3>4, PartIs
    <3>. QED  BY <3>1, <3>5
  <2>11. ASSUME g >= a PROVE j = m
    <3>1. a + m \in 1 .. m + g
      BY <1>1, <2>11
    <3>2. cut[a + m] \notin Blank
      BY <1>3, <1>5, <1>6, <2>1, <3>1
    <3>3. a + m <= b
      BY <2>6, <3>1, <3>2
    <3>. QED  BY <1>1, <2>8, <3>3
  <2>12. SubSeq(v, 1, m) = v
    BY <1>2, SubSeqFull DEF Text
  <2>. QED  BY <2>8, <2>9, <2>10, <2>11, <2>12
<1>. QED  BY <1>1, <1>7, <1>8

-----------------------------------------------------------------------------
\* StAnalyzeIni's value of an entry without an inline comment.
LEMMA PlainEntry ==
  ASSUME NEW l, IsEntry(l), Plain(l)
  PROVE  /\ ~Gives(l) => ValueOf(Render(l)) = <<>>
         /\ Gives(l) => /\ ValueOf(Render(l)) # <<>>
                        /\ TrimSpace(ValueOf(Render(l))) = l.value
<1>. DEFINE t == Render(l)
<1>1. PICK r, n, v, a, m, g :
        /\ r = Behind(l) /\ n = Len(Behind(l)) /\ v = l.value
        /\ a = l.lead /\ m = Len(l.value) /\ g = l.gap
  OBVIOUS
<1>2. /\ Value(v, m) /\ Shape(r, n, v, a, m, g)
      /\ PlainEnd(r, n, a + m + g) /\ (~l.cr <=> n = a + m + g)
  BY <1>1, BehindShape DEF Plain
<1>3. v = <<>> => m = 0
  BY <1>1, EntryParts
<1>4. v # <<>> => m # 0
  BY <1>1, EntryParts
<1>5. /\ a \in Nat /\ m \in Nat /\ g \in Nat /\ n \in Nat /\ r \in Text /\ Len(r) = n
  BY <1>2, Zenon DEF Shape
<1>6. ValueOf(t) =
        LET first == FirstNotOf(r, Blank)
            last  == FindMark(r, first)
            cut   == IF last = 0 THEN r ELSE SubSeq(r, 1, last - first)
        IN  IF first = 0 THEN <<>> ELSE Strip(cut, Blank)
  <2>1. SubSeq(t, Find(t, "=") + 1, Len(t)) = r
    BY <1>1, EntryIsRead
  <2>. HIDE DEF t
  <2>. QED  BY <2>1, Zenon DEF ValueOf
<1>7. CASE v = <<>> /\ ~l.cr
  <2>1. n = a + g /\ m = 0 /\ a + 0 = a /\ a + 0 + g = a + g
    BY <1>2, <1>3, <1>5, <1>7
  <2>2. /\ \A i \in 1 .. a : r[i] = " "
        /\ \A i \in 1 .. g : r[a + m + i] = " "
    BY <1>2, Zenon DEF Shape
  <2>3. \A i \in 1 .. n : r[i] \in Blank
    <3>1. ASSUME NEW i \in 1 .. n PROVE r[i] = " "
      <4>1. CASE i <= a
        <5>1. i \in 1 .. a
          BY <1>5, <4>1
        <5>. QED  BY <2>2, <5>1
      <4>2. CASE i > a
        <5>1. i - a \in 1 .. g /\ a + m + (i - a) = i
          BY <1>5, <2>1, <4>2
        <5>. QED  BY <2>2, <5>1
      <4>3. i <= a \/ i > a
        <5>1. a \in Nat /\ n \in Nat
          BY <1>5
        <5>. QED  BY <5>1
      <4>. QED  BY <4>1, <4>2, <4>3
    <3>. QED  BY <3>1 DEF Blank
  <2>4. FirstNotOf(r, Blank) = 0
    BY <1>5, <2>3, FirstNotOfFacts
  <2>5. ValueOf(t) = <<>>
    BY <1>6, <2>4, Zenon
  <2>. QED  BY <1>1, <1>7, <2>5 DEF Gives
<1>8. CASE v = <<>> /\ l.cr
  <2>1. m = 0 /\ a + m + g = a + g
    BY <1>3, <1>5, <1>8
  <2>2. n = a + g + 1 /\ r[n] = "\r"
    BY <1>1, <1>2, <1>5, <1>8, <2>1 DEF PlainEnd
  <2>3. /\ \A i \in 1 .. a : r[i] = " "
        /\ \A i \in 1 .. g : r[a + m + i] = " "
    BY <1>2, Zenon DEF Shape
  <2>4. \A i \in 1 .. n - 1 : r[i] \in Blank
    <3>1. ASSUME NEW i \in 1 .. n - 1 PROVE r[i] = " "
      <4>1. CASE i <= a
        <5>1. i \in 1 .. a
          BY <1>5, <4>1
        <5>. QED  BY <2>3, <5>1
      <4>2. CASE i > a
        <5>1. i - a \in 1 .. g /\ a + m + (i - a) = i
          BY <1>5, <2>1, <2>2, <4>2
        <5>. QED  BY <2>3, <5>1
      <4>3. i <= a \/ i > a
        <5>1. a \in Nat /\ n \in Nat
          BY <1>5
        <5>. QED  BY <5>1
      <4>. QED  BY <4>1, <4>2, <4>3
    <3>. QED  BY <3>1 DEF Blank
  <2>5. n \in 1 .. Len(r) /\ r[n] \notin Blank /\ n # 0 /\ n \in Nat
    BY <1>5, <2>2 DEF Blank
  <2>6. FirstNotOf(r, Blank) = n
    <3>1. /\ FirstNotOf(r, Blank) \in 0 .. Len(r)
          /\ FirstNotOf(r, Blank) # 0
          /\ r[FirstNotOf(r, Blank)] \notin Blank
          /\ FirstNotOf(r, Blank) <= n
      BY <1>5, <2>5, FirstNotOfFacts
    <3>. QED  BY <1>5, <2>4, <3>1
  <2>7. FindMark(r, n) = 0
    BY <1>5, <2>5, FindMarkNone
  <2>8. ValueOf(t) = Strip(r, Blank)
    BY <1>6, <2>5, <2>6, <2>7, Zenon
  <2>9. PICK w : w = <<"\r">>
    OBVIOUS
  <2>10. w \in Text /\ Len(w) = 1 /\ w[1] = "\r"
    BY <2>9, FileAssumption, OneCharacter DEF White
  <2>11. Strip(r, Blank) = w
    <3>1. (\A i \in n + 1 .. Len(r) : r[i] \in Blank) /\ n + Len(w) = n + 1
      BY <1>5, <2>10
    <3>2. Strip(r, Blank) = SubSeq(r, n, n)
      BY <1>5, <2>4, <2>5, <3>1, StripIs
    <3>3. \A i \in 1 .. Len(w) : w[i] = r[n + i - 1]
      BY <1>5, <2>2, <2>10
    <3>4. 1 <= n /\ n <= Len(r)
      BY <1>5, <2>5
    <3>5. SubSeq(r, n, n) = w
      <4>1. r \in Text /\ n \in Nat /\ w \in Text /\ n + Len(w) = n + 1
        BY <1>5, <2>10, <3>1
      <4>. HIDE DEF t
      <4>. QED  BY <3>3, <3>4, <4>1, PartIs, Zenon
    <3>. QED  BY <3>2, <3>5
  <2>12. TrimSpace(w) = <<>>
    <3>1. \A i \in 1 .. Len(w) : w[i] \in White
      BY <2>10 DEF White
    <3>. QED  BY <2>10, <3>1, StripNone DEF TrimSpace
  <2>13. w # <<>>
    BY <2>9
  <2>. QED  BY <1>1, <1>8, <2>8, <2>11, <2>12, <2>13 DEF Gives
<1>9. CASE v # <<>>
  <2>1. n >= a + 1
    BY <1>2, <1>4, <1>5, <1>9 DEF PlainEnd
  <2>2. FirstNotOf(r, Blank) = a + 1 /\ a + 1 # 0 /\ a + 1 \in Nat
    BY <1>2, <1>4, <1>5, <1>9, <2>1, ValueBegins
  <2>3. FindMark(r, a + 1) = 0
    <3>1. ASSUME NEW i \in 1 .. Len(r) - 1, i >= a + 1, Mark(r, i) PROVE FALSE
      <4>1. i \in Nat /\ i + 1 <= n
        BY <1>5
      <4>2. CommentEnd(r, n, a + m + g, <<>>, <<>>)
        BY <1>2, <1>4, <1>9, <3>1, <4>1, OnlyMark
      <4>. QED  BY <4>2 DEF CommentEnd
    <3>. QED  BY <1>5, <2>2, <3>1, FindMarkNone
  <2>4. ValueOf(t) = Strip(r, Blank)
    BY <1>6, <2>2, <2>3, Zenon
  <2>5. /\ Strip(r, Blank) \in Text /\ Len(Strip(r, Blank)) >= 1
        /\ TrimSpace(Strip(r, Blank)) = v
    BY <1>2, <1>4, <1>9, <2>1, StripPlain
  <2>6. Strip(r, Blank) # <<>>
    BY <2>5
  <2>. QED  BY <1>1, <1>9, <2>4, <2>5, <2>6 DEF Gives
<1>10. l.cr \in BOOLEAN
  BY EntryParts
<1>. QED  BY <1>7, <1>9, <1>8, <1>10

\* StAnalyzeIni's value of an entry with an inline comment.
LEMMA CommentedEntry ==
  ASSUME NEW l, IsEntry(l), Commented(l), ~Misleading(l)
  PROVE  /\ ValueOf(Render(l)) # <<>> =>
              IsPrefix(TrimSpace(ValueOf(Render(l))), l.value)
         /\ l.gap >= l.lead => /\ ValueOf(Render(l)) # <<>>
                               /\ TrimSpace(ValueOf(Render(l))) = l.value
<1>. DEFINE t == Render(l)
<1>1. PICK r, n, v, a, m, g :
        /\ r = Behind(l) /\ n = Len(Behind(l)) /\ v = l.value
        /\ a = l.lead /\ m = Len(l.value) /\ g = l.gap
  OBVIOUS
<1>2. Value(v, m) /\ Shape(r, n, v, a, m, g) /\ CommentEnd(r, n, a + m + g, l.mark, l.comment)
  BY <1>1, BehindShape DEF Commented
<1>3. v # <<>> /\ m # 0
  BY <1>1, EntryParts DEF Commented
<1>4. /\ a \in Nat /\ m \in Nat /\ g \in Nat /\ n \in Nat /\ r \in Text /\ Len(r) = n
  BY <1>2, Zenon DEF Shape
<1>5. v \in Text /\ Len(v) = m
  BY <1>2, Zenon DEF Value
<1>6. ValueOf(t) =
        LET first == FirstNotOf(r, Blank)
            last  == FindMark(r, first)
            cut   == IF last = 0 THEN r ELSE SubSeq(r, 1, last - first)
        IN  IF first = 0 THEN <<>> ELSE Strip(cut, Blank)
  <2>1. SubSeq(t, Find(t, "=") + 1, Len(t)) = r
    BY <1>1, EntryIsRead
  <2>. HIDE DEF t
  <2>. QED  BY <2>1, Zenon DEF ValueOf
<1>7. PICK q : q = a + m + g + 1
  OBVIOUS
<1>8. /\ n >= a + 1 /\ n >= a + m + g /\ q \in 1 .. n - 1 /\ q >= a + 1 /\ q # 0
      /\ q - (a + 1) = m + g
  <2>1. PICK c : c = Len(l.comment)
    OBVIOUS
  <2>2. /\ c \in Nat
        /\ n = a + m + g + 2 + c \/ n = a + m + g + 3 + c
    BY <1>2, <2>1 DEF CommentEnd
  <2>. QED  BY <1>3, <1>4, <1>7, <2>2
<1>9. FirstNotOf(r, Blank) = a + 1 /\ a + 1 # 0 /\ a + 1 \in Nat
  BY <1>2, <1>3, <1>4, <1>8, ValueBegins
<1>10. FindMark(r, a + 1) = q
  <2>1. l.mark \in Blank \X {"#", "\\"} /\ r[q] = l.mark[1] /\ r[q + 1] = l.mark[2]
    <3>1. q + 1 = a + m + g + 2
      BY <1>4, <1>7
    <3>. QED  BY <1>2, <1>7, <3>1 DEF CommentEnd
  <2>2. PICK k \in 1 .. 4 : Marks[k] = l.mark
    BY <2>1, MarksAre
  <2>3. Marks[k] = <<r[q], r[q + 1]>>
    <3>1. l.mark = <<l.mark[1], l.mark[2]>>
      BY <2>1
    <3>. QED  BY <2>1, <2>2, <3>1
  <2>4. ASSUME NEW i \in 1 .. Len(r) - 1, i >= a + 1, Mark(r, i)
        PROVE  q <= i /\ \A j \in 1 .. k - 1 : Marks[j] # <<r[i], r[i + 1]>>
    <3>1. i \in Nat /\ i + 1 <= n
      BY <1>4
    <3>2. \/ i = q
          \/ \E x \in 1 .. Len(l.comment) - 1 :
               i > q /\ r[i] = l.comment[x] /\ r[i + 1] = l.comment[x + 1]
      BY <1>2, <1>3, <1>7, <2>4, <3>1, OnlyMark
    <3>3. CASE i = q
      <4>1. \A j \in 1 .. k - 1 : j \in 1 .. 4 /\ j # k
        OBVIOUS
      <4>. QED  BY <1>8, <2>3, <3>3, <4>1, MarksAre
    <3>4. CASE i # q
      <4>1. PICK x \in 1 .. Len(l.comment) - 1 :
               i > q /\ r[i] = l.comment[x] /\ r[i + 1] = l.comment[x + 1]
        BY <3>2, <3>4
      <4>2. \A j \in 1 .. k - 1 : <<l.comment[x], l.comment[x + 1]>> # Marks[j]
        BY <2>2 DEF Misleading
      <4>3. q <= i
        BY <1>8, <3>1, <4>1
      <4>. QED  BY <4>1, <4>2, <4>3
    <3>. QED  BY <3>3, <3>4
  <2>. QED  BY <1>4, <1>8, <1>9, <2>3, <2>4, FindMarkFirst
<1>11. ValueOf(t) = Strip(SubSeq(r, 1, m + g), Blank)
  BY <1>6, <1>8, <1>9, <1>10, Zenon
<1>12. PICK w, cut : w = ValueOf(t) /\ cut = SubSeq(r, 1, m + g)
  OBVIOUS
<1>13. /\ w = <<>> \/ \E j \in 1 .. m : w = SubSeq(v, 1, j)
       /\ g >= a => w = v
  <2>1. w = Strip(cut, Blank)
    BY <1>11, <1>12
  <2>2. n >= a + m + g /\ cut = SubSeq(r, 1, m + g)
    BY <1>8, <1>12
  <2>3. /\ \/ Strip(cut, Blank) = <<>>
           \/ \E j \in 1 .. m : Strip(cut, Blank) = SubSeq(v, 1, j)
        /\ g >= a => Strip(cut, Blank) = v
    <3>1. Cut(cut, r, n, v, a, m, g)
      BY <1>2, <1>3, <2>2 DEF Cut
    <3>. QED  BY <3>1, StripCommented
  <2>. QED  BY <2>1, <2>3, Zenon
<1>14. ASSUME w # <<>> PROVE IsPrefix(TrimSpace(w), v)
  <2>1. PICK j \in 1 .. m : w = SubSeq(v, 1, j)
    BY <1>13, <1>14
  <2>2. PICK h \in 1 .. j : TrimSpace(w) = SubSeq(v, 1, h)
    BY <1>2, <2>1, TrimPrefix
  <2>3. h \in 1 .. m
    BY <1>4
  <2>4. SubSeq(v, 1, h) \in Text /\ Len(SubSeq(v, 1, h)) = h
    BY <1>2, <2>3, TrimPrefix
  <2>5. SubSeq(SubSeq(v, 1, h), 1, h) = SubSeq(v, 1, h)
    BY <2>4, SubSeqFull DEF Text
  <2>. QED  BY <1>4, <1>5, <2>2, <2>3, <2>4, <2>5 DEF IsPrefix
<1>15. ASSUME g >= a PROVE w # <<>> /\ TrimSpace(w) = v
  <2>1. 1 \in 1 .. m
    BY <1>3, <1>4
  <2>2. TrimSpace(v) = v
    BY <1>2, <2>1, TrimPrefix
  <2>. QED  BY <1>3, <1>13, <1>15, <2>2
<1>. QED  BY <1>1, <1>12, <1>14, <1>15

\* A header is one, with its name, and has no "=".
LEMMA SectionIsRead ==
  ASSUME NEW l, IsLine(l), l.kind = "section"
  PROVE  /\ ~IsComment(Render(l)) /\ IsHeader(Render(l)) /\ HeaderName(Render(l)) = l.name
         /\ Find(Render(l), "=") = 0
<1>. DEFINE A == <<"[">>
            B == <<"]">>
            t == Cat(Cat(A, l.name), B)
            n == Len(l.name)
<1>0. "[" \notin White /\ "[" # "#" /\ "[" # "=" /\ "]" # "="
  BY DEF White, Blank
<1>1. /\ A \in Text /\ Len(A) = 1 /\ A[1] = "["
      /\ B \in Text /\ Len(B) = 1 /\ B[1] = "]"
  <2>1. "[" \in Char /\ "]" \in Char
    BY FileAssumption
  <2>. QED  BY <2>1, OneCharacter, Zenon
<1>2. l.name \in Text /\ n \in Nat /\ \A i \in 1 .. n : l.name[i] # "="
  BY DEF IsLine, Text
<1>3. Render(l) = t
  BY Zenon DEF Render, Cat
<1>. HIDE DEF A, B, n
<1>4. PICK x : x = Cat(A, l.name)
  OBVIOUS
<1>5. /\ x \in Text /\ Len(x) = n + 1 /\ x[1] = "["
      /\ \A i \in 1 .. n : x[1 + i] = l.name[i]
  <2>1. /\ Cat(A, l.name) \in Text /\ Len(Cat(A, l.name)) = Len(A) + Len(l.name)
        /\ \A i \in 1 .. Len(A) : Cat(A, l.name)[i] = A[i]
        /\ \A i \in 1 .. Len(l.name) : Cat(A, l.name)[Len(A) + i] = l.name[i]
    BY <1>1, <1>2, CatFacts
  <2>2. 1 \in 1 .. 1 /\ 1 + n = n + 1
    BY <1>2
  <2>3. n = Len(l.name)
    BY DEF n
  <2>. QED  BY <1>1, <1>4, <2>1, <2>2, <2>3, Zenon
<1>6. /\ t \in Text /\ Len(t) = n + 2 /\ t[1] = "[" /\ t[n + 2] = "]"
      /\ \A i \in 1 .. n : t[1 + i] = l.name[i]
  <2>1. /\ Cat(x, B) \in Text /\ Len(Cat(x, B)) = Len(x) + Len(B)
        /\ \A i \in 1 .. Len(x) : Cat(x, B)[i] = x[i]
        /\ \A i \in 1 .. Len(B) : Cat(x, B)[Len(x) + i] = B[i]
    BY <1>1, <1>5, CatFacts
  <2>2. /\ 1 \in 1 .. 1 /\ 1 \in 1 .. n + 1 /\ n + 1 + 1 = n + 2
        /\ \A i \in 1 .. n : 1 + i \in 1 .. n + 1
    BY <1>2
  <2>3. t = Cat(x, B)
    BY <1>4
  <2>. HIDE DEF t
  <2>. QED  BY <1>1, <1>5, <2>1, <2>2, <2>3, Zenon
<1>. HIDE DEF t
<1>7. \A i \in 1 .. n + 2 : t[i] # "="
  <2>1. ASSUME NEW i \in 1 .. n + 2 PROVE t[i] # "="
    <3>1. CASE i = 1 \/ i = n + 2
      BY <1>0, <1>6, <3>1
    <3>2. CASE ~(i = 1 \/ i = n + 2)
      <4>1. i - 1 \in 1 .. n /\ 1 + (i - 1) = i
        BY <1>2, <3>2
      <4>2. t[1 + (i - 1)] = l.name[i - 1]
        BY <1>6, <4>1
      <4>. QED  BY <1>2, <4>1, <4>2
    <3>. QED  BY <3>1, <3>2
  <2>. QED  BY <2>1
<1>8. Find(t, "=") = 0
  BY <1>6, <1>7, FindFacts
<1>9. Find(t, "[") = 1
  <2>1. 1 \in 1 .. n + 2
    BY <1>2
  <2>2. /\ Find(t, "[") \in 0 .. n + 2 /\ Find(t, "[") # 0 /\ Find(t, "[") <= 1
    BY <1>6, <2>1, FindFacts
  <2>. QED  BY <1>2, <2>2
<1>10. RFind(t, "]") = n + 2
  <2>1. n + 2 \in 1 .. n + 2
    BY <1>2
  <2>2. RFind(t, "]") \in 0 .. n + 2 /\ n + 2 <= RFind(t, "]")
    BY <1>6, <2>1, RFindFacts
  <2>. QED  BY <1>2, <2>2
<1>11. IsHeader(t)
  <2>1. 1 # 0 /\ n + 2 # 0 /\ 1 # n + 2 + 1
    BY <1>2
  <2>. QED  BY <1>8, <1>9, <1>10, <2>1, Zenon DEF IsHeader
<1>12. HeaderName(t) = l.name
  <2>2. HeaderName(t) = SubSeq(t, 2, n + 1)
    <3>1. PICK f, h : f = Find(t, "[") /\ h = RFind(t, "]")
      OBVIOUS
    <3>2. HeaderName(t) = SubSeq(t, f + 1, IF h < f THEN Len(t) ELSE h - 1)
      BY <3>1 DEF HeaderName
    <3>3. f = 1 /\ h = n + 2
      BY <1>9, <1>10, <3>1
    <3>4. f + 1 = 2 /\ ~(h < f) /\ h - 1 = n + 1
      BY <1>2, <3>3
    <3>. QED  BY <3>2, <3>4, Zenon
  <2>3. PICK v : v = l.name
    OBVIOUS
  <2>4. v \in Text /\ Len(v) = n
    BY <1>2, <2>3 DEF n
  <2>5. /\ 2 \in Nat /\ n + 1 \in Nat /\ 1 <= 2 /\ n + 1 <= Len(t) /\ 2 + n = n + 1 + 1
        /\ \A i \in 1 .. n : 2 + i - 1 = 1 + i
    BY <1>2, <1>6
  <2>6. \A i \in 1 .. Len(v) : v[i] = t[2 + i - 1]
    BY <1>6, <2>3, <2>4, <2>5
  <2>7. SubSeq(t, 2, n + 1) = v
    BY <1>6, <2>4, <2>5, <2>6, PartIs
  <2>. QED  BY <2>2, <2>3, <2>7
<1>13. ~IsComment(t)
  <2>1. 1 \in 1 .. Len(t) /\ \A i \in 1 .. 1 - 1 : FALSE
    BY <1>2, <1>6
  <2>. QED  BY <1>0, <1>6, <2>1, NoCommentAt
<1>. QED  BY <1>3, <1>8, <1>11, <1>12, <1>13

\* A noise line changes neither the section nor the map.
LEMMA NoiseIsSkipped ==
  ASSUME NEW l, IsLine(l), l.kind = "noise"
  PROVE  \/ IsComment(Render(l))
         \/ /\ ~IsHeader(Render(l))
            /\ Find(Render(l), "=") = 0 \/ KeyOf(Render(l)) = <<>>
<1>. DEFINE t == l.text
<1>1. Render(l) = t
  BY Zenon DEF Render
<1>2. t \in Text /\ (Comment(t) \/ NoEntry(t) \/ NoKey(t))
  BY DEF IsLine
<1>3. Len(t) \in Nat
  BY <1>2 DEF Text
<1>. HIDE DEF t
<1>4. CASE Comment(t)
  <2>1. PICK i \in 1 .. Len(t) : t[i] = "#" /\ \A j \in 1 .. i - 1 : t[j] \in White
    BY <1>4 DEF Comment
  <2>2. "#" \notin White
    BY DEF White, Blank
  <2>3. PICK w : w = TrimSpace(t)
    OBVIOUS
  <2>4. w \in Text /\ Len(w) >= 1 /\ w[1] = "#"
    BY <1>2, <2>1, <2>2, <2>3, StripBegins DEF TrimSpace
  <2>5. Len(w) \in Nat /\ 1 \in 1 .. Len(w)
    BY <2>4 DEF Text
  <2>6. Find(w, "#") \in 0 .. Len(w) /\ Find(w, "#") # 0 /\ Find(w, "#") <= 1
    BY <2>4, <2>5, FindFacts
  <2>7. Find(w, "#") = 1
    BY <2>5, <2>6
  <2>. QED  BY <1>1, <2>3, <2>7 DEF IsComment
<1>5. CASE NoEntry(t)
  <2>1. \A i \in 1 .. Len(t) : t[i] # "=" /\ t[i] # "["
    BY <1>5 DEF NoEntry
  <2>2. Find(t, "=") = 0 /\ Find(t, "[") = 0
    BY <1>2, <2>1, FindFacts
  <2>. QED  BY <1>1, <2>2 DEF IsHeader
<1>6. CASE NoKey(t)
  <2>1. PICK i \in 1 .. Len(t) : t[i] = "=" /\ \A j \in 1 .. i - 1 : t[j] \in Blank
    BY <1>6 DEF NoKey
  <2>2. PICK f : f = Find(t, "=")
    OBVIOUS
  <2>3. f \in 0 .. Len(t) /\ f # 0 /\ t[f] = "=" /\ f <= i
    BY <1>2, <2>1, <2>2, FindFacts
  <2>4. f = i
    <3>1. "=" \notin Blank
      BY DEF Blank
    <3>2. f \notin 1 .. i - 1
      BY <2>1, <2>3, <3>1
    <3>. QED  BY <1>3, <2>1, <2>3, <3>2
  <2>5. KeyOf(t) = Strip(SubSeq(t, 1, i - 1), Blank)
    BY <2>2, <2>4 DEF KeyOf
  <2>6. PICK p : p = SubSeq(t, 1, i - 1)
    OBVIOUS
  <2>7. /\ p \in Text /\ Len(p) = i - 1 /\ \A j \in 1 .. i - 1 : p[j] = t[j]
    <3>1. /\ 1 \in Nat /\ i - 1 \in Nat /\ i - 1 <= Len(t) /\ (i - 1) - 1 + 1 = i - 1
          /\ (~(1 <= i - 1) => i - 1 = 0)
          /\ \A j \in 1 .. i - 1 : 1 + j - 1 = j
      BY <1>3, <2>1
    <3>2. /\ SubSeq(t, 1, i - 1) \in Text
          /\ Len(SubSeq(t, 1, i - 1)) = IF 1 <= i - 1 THEN (i - 1) - 1 + 1 ELSE 0
          /\ \A j \in 1 .. (i - 1) - 1 + 1 : SubSeq(t, 1, i - 1)[j] = t[1 + j - 1]
      BY <1>2, <3>1, PartFacts
    <3>. QED  BY <2>6, <3>1, <3>2, Zenon
  <2>8. Strip(p, Blank) = <<>>
    BY <2>1, <2>7, StripNone
  <2>. QED  BY <1>1, <2>2, <2>3, <2>5, <2>6, <2>8 DEF IsHeader
<1>. QED  BY <1>2, <1>4, <1>5, <1>6

-----------------------------------------------------------------------------
(***************************************************************************)
(* The map after any number of lines.                                      *)
(***************************************************************************)
\* The entries for sk among the lines analyzed so far that gave it a value.
Live(sk) == {n \in 1 .. pos : n \in EntriesFor(sk) /\ ValueOf(Render(file[n])) # <<>>}

\* The map has the last one's value.
MapInv ==
  \A sk \in Settings :
    /\ sk \in DOMAIN m_IniMap <=> Live(sk) # {}
    /\ \A n \in Live(sk) :
         (\A k \in Live(sk) : k <= n) => m_IniMap[sk] = ValueOf(Render(file[n]))

ConfigInv ==
  \/ DOMAIN config = {}
  \/ pos = Len(file) /\ \A sk \in Settings : config[sk] = Get_Profile_Str(sk)

IInv ==
  /\ file \in Files /\ pos \in 0 .. Len(file)
  /\ strSect = SectionAt(pos)
  /\ MapInv /\ ConfigInv

\* The lines of a file are lines.
LEMMA LinesAre ==
  ASSUME file \in Files
  PROVE  Len(file) \in Nat /\ \A n \in 1 .. Len(file) : IsLine(file[n])
BY FileAssumption

\* The section of a line is its own, or that of the line before.
LEMMA SectionStep ==
  ASSUME NEW n \in Nat
  PROVE  SectionAt(n + 1) = IF file[n + 1].kind = "section" THEN file[n + 1].name
                            ELSE SectionAt(n)
<1>. DEFINE heads(k) == {i \in 1 .. k : file[i].kind = "section"}
            last(S) == CHOOSE i \in S : \A j \in S : j <= i
            name(S) == IF S = {} THEN <<>> ELSE file[last(S)].name
<1>1. \A k : SectionAt(k) = name(heads(k))
  BY DEF SectionAt
<1>. HIDE DEF name
<1>2. CASE file[n + 1].kind # "section"
  <2>1. \A i \in 1 .. n + 1 : i \in 1 .. n \/ i = n + 1
    OBVIOUS
  <2>2. \A i \in 1 .. n : i \in 1 .. n + 1
    OBVIOUS
  <2>3. heads(n + 1) = heads(n)
    BY <1>2, <2>1, <2>2
  <2>. HIDE DEF heads
  <2>. QED  BY <1>1, <1>2, <2>3
<1>3. CASE file[n + 1].kind = "section"
  <2>1. n + 1 \in heads(n + 1) /\ \A j \in heads(n + 1) : j <= n + 1 /\ j \in Nat
    BY <1>3
  <2>. HIDE DEF heads
  <2>2. last(heads(n + 1)) = n + 1
    <3>1. PICK c : c = last(heads(n + 1))
      OBVIOUS
    <3>2. c \in heads(n + 1) /\ \A j \in heads(n + 1) : j <= c
      BY <2>1, <3>1
    <3>3. c = n + 1
      BY <2>1, <3>2
    <3>. QED  BY <3>1, <3>3
  <2>. QED  BY <1>1, <1>3, <2>1, <2>2 DEF name
<1>. QED  BY <1>2, <1>3

\* The next line, its text and the pair it gives a value to if it is an entry.
NextLine(l, t, at) == l = file[pos + 1] /\ t = Render(l) /\ at = <<strSect, l.key>>

\* What one line does to the section and to the map, by its kind.
LineEffect(l, t, at) ==
  /\ file' = file /\ config' = config /\ pos' = pos + 1 /\ pos + 1 \in 1 .. Len(file)
  /\ strSect' = IF l.kind = "section" THEN l.name ELSE strSect
  /\ l.kind # "entry" \/ strSect = <<>> \/ ValueOf(t) = <<>> => m_IniMap' = m_IniMap
  /\ l.kind = "entry" /\ strSect # <<>> /\ ValueOf(t) # <<>> =>
       m_IniMap' = [sk \in DOMAIN m_IniMap \cup {at} |->
                      IF sk = at THEN ValueOf(t) ELSE m_IniMap[sk]]

\* The effect is that of AnalyzeLine, for a line of each kind.
LEMMA LineStep ==
  ASSUME IInv, AnalyzeLine, NEW l, NEW t, NEW at, NextLine(l, t, at)
  PROVE  LineEffect(l, t, at)
<1>0. l = file[pos + 1] /\ t = Render(l) /\ at = <<strSect, l.key>>
  BY DEF NextLine
<1>1. Len(file) \in Nat /\ pos \in Nat /\ pos < Len(file)
  BY LinesAre DEF IInv, AnalyzeLine
<1>2. pos + 1 \in 1 .. Len(file) /\ IsLine(l)
  BY <1>0, <1>1, LinesAre DEF IInv
<1>3. /\ file' = file /\ config' = config /\ pos' = pos + 1
      /\ strSect' = IF ~IsComment(t) /\ IsHeader(t) THEN HeaderName(t) ELSE strSect
      /\ m_IniMap' = IF \/ IsComment(t) \/ strSect = <<>> \/ Find(t, "=") = 0
                        \/ KeyOf(t) = <<>> \/ ValueOf(t) = <<>> THEN m_IniMap
                     ELSE [sk \in DOMAIN m_IniMap \cup {<<strSect, KeyOf(t)>>} |->
                             IF sk = <<strSect, KeyOf(t)>> THEN ValueOf(t) ELSE m_IniMap[sk]]
  BY <1>0, Zenon DEF AnalyzeLine
<1>4. CASE l.kind = "section"
  <2>1. ~IsComment(t) /\ IsHeader(t) /\ HeaderName(t) = l.name /\ Find(t, "=") = 0
    BY <1>0, <1>2, <1>4, SectionIsRead
  <2>2. l.kind # "entry"
    BY <1>4
  <2>. QED  BY <1>2, <1>3, <1>4, <2>1, <2>2, Zenon DEF LineEffect
<1>5. CASE l.kind = "noise"
  <2>1. IsComment(t) \/ (~IsHeader(t) /\ (Find(t, "=") = 0 \/ KeyOf(t) = <<>>))
    BY <1>0, <1>2, <1>5, NoiseIsSkipped
  <2>2. l.kind # "entry" /\ l.kind # "section"
    BY <1>5
  <2>. QED  BY <1>2, <1>3, <2>1, <2>2, Zenon DEF LineEffect
<1>6. CASE l.kind = "entry"
  <2>1. IsEntry(l)
    BY <1>2, <1>6 DEF IsEntry
  <2>2. /\ Find(t, "=") = Len(l.key) + 3 /\ KeyOf(t) = l.key
        /\ ~IsComment(t) /\ ~IsHeader(t)
    BY <1>0, <2>1, EntryIsRead
  <2>3. Len(l.key) \in Nat \ {0}
    BY <2>1, EntryParts
  <2>4. Find(t, "=") # 0 /\ l.key # <<>>
    BY <2>2, <2>3
  <2>5. l.kind # "section"
    BY <1>6
  <2>. QED  BY <1>0, <1>2, <1>3, <1>6, <2>2, <2>4, <2>5, Zenon DEF LineEffect
<1>7. l.kind = "section" \/ l.kind = "noise" \/ l.kind = "entry"
  BY <1>2 DEF IsLine
<1>. QED  BY <1>4, <1>5, <1>6, <1>7

\* A line that gives sk no value leaves the lines that do as they were; one that
\* does comes behind them.
LEMMA LiveStep ==
  ASSUME IInv, AnalyzeLine, NEW sk \in Settings
  PROVE  Live(sk)' = IF /\ file[pos + 1].kind = "entry"
                        /\ sk = <<strSect, file[pos + 1].key>>
                        /\ ValueOf(Render(file[pos + 1])) # <<>>
                     THEN Live(sk) \cup {pos + 1} ELSE Live(sk)
<1>1. pos \in Nat /\ pos' = pos + 1 /\ file' = file /\ pos + 1 \in 1 .. Len(file)
  <2>1. PICK f : f = file
    OBVIOUS
  <2>2. Len(f) \in Nat /\ pos \in 0 .. Len(f) /\ pos < Len(f)
    BY <2>1, LinesAre, Zenon DEF IInv, AnalyzeLine
  <2>3. pos' = pos + 1 /\ file' = file
    BY Zenon DEF AnalyzeLine
  <2>4. pos \in Nat /\ pos + 1 \in 1 .. Len(f)
    BY <2>2
  <2>. QED  BY <2>1, <2>3, <2>4
<1>2. \A k : SectionAt(k)' = SectionAt(k)
  BY <1>1 DEF SectionAt
<1>3. EntriesFor(sk)' = EntriesFor(sk)
  BY <1>1, <1>2 DEF EntriesFor
<1>4. Live(sk)' = {n \in 1 .. pos + 1 : n \in EntriesFor(sk) /\ ValueOf(Render(file[n])) # <<>>}
  BY <1>1, <1>3 DEF Live
<1>. DEFINE l == file[pos + 1]
            new == pos + 1 \in EntriesFor(sk) /\ ValueOf(Render(l)) # <<>>
<1>5. Live(sk)' = IF new THEN Live(sk) \cup {pos + 1} ELSE Live(sk)
  <2>1. \A i : i \in 1 .. pos + 1 <=> i \in 1 .. pos \/ i = pos + 1
    BY <1>1
  <2>2. \A i : i \in Live(sk)' <=> i \in Live(sk) \/ (i = pos + 1 /\ new)
    BY <1>4, <2>1 DEF Live
  <2>. HIDE DEF new
  <2>3. CASE new
    BY <2>2, <2>3
  <2>4. CASE ~new
    BY <2>2, <2>4
  <2>. QED  BY <2>3, <2>4
<1>6. pos + 1 \in EntriesFor(sk) <=> l.kind = "entry" /\ sk = <<strSect, l.key>>
  <2>1. SectionAt(pos + 1) = IF l.kind = "section" THEN l.name ELSE SectionAt(pos)
    BY <1>1, SectionStep
  <2>2. strSect = SectionAt(pos)
    BY DEF IInv
  <2>3. l.kind = "entry" => l.kind # "section"
    OBVIOUS
  <2>4. l.kind = "entry" => SectionAt(pos + 1) = strSect
    BY <2>1, <2>2, <2>3, Zenon
  <2>5. sk = <<sk[1], sk[2]>>
    BY FileAssumption
  <2>6. sk = <<strSect, l.key>> <=> sk[1] = strSect /\ sk[2] = l.key
    BY <2>5
  <2>. HIDE DEF l
  <2>7. pos + 1 \in EntriesFor(sk) <=>
          l.kind = "entry" /\ l.key = sk[2] /\ SectionAt(pos + 1) = sk[1]
    BY <1>1 DEF EntriesFor, l
  <2>. QED  BY <2>4, <2>6, <2>7
<1>. QED  BY <1>5, <1>6

\* An empty map has no live entry.
LEMMA InitIInv == ASSUME Init PROVE IInv
<1>1. file \in Files /\ pos = 0 /\ strSect = <<>>
      /\ DOMAIN m_IniMap = {} /\ DOMAIN config = {}
  BY DEF Init
<1>2. Len(file) \in Nat /\ pos \in 0 .. Len(file)
  BY <1>1, LinesAre
<1>3. SectionAt(0) = <<>>
  <2>1. {i \in 1 .. 0 : file[i].kind = "section"} = {}
    OBVIOUS
  <2>. QED  BY <2>1, Zenon DEF SectionAt
<1>4. \A sk : Live(sk) = {}
  BY <1>1 DEF Live
<1>5. MapInv
  BY <1>1, <1>4 DEF MapInv
<1>. QED  BY <1>1, <1>2, <1>3, <1>5 DEF IInv, ConfigInv

\* A line analyzed keeps the invariant.
LEMMA AnalyzeIInv == ASSUME IInv, AnalyzeLine PROVE IInv'
<1>0. PICK l, t, at : NextLine(l, t, at)
  BY DEF NextLine
<1>1. l = file[pos + 1] /\ t = Render(l) /\ at = <<strSect, l.key>>
  BY <1>0 DEF NextLine
<1>2. /\ file' = file /\ config' = config /\ pos' = pos + 1 /\ pos + 1 \in 1 .. Len(file)
      /\ strSect' = IF l.kind = "section" THEN l.name ELSE strSect
      /\ l.kind # "entry" \/ strSect = <<>> \/ ValueOf(t) = <<>> => m_IniMap' = m_IniMap
      /\ l.kind = "entry" /\ strSect # <<>> /\ ValueOf(t) # <<>> =>
           m_IniMap' = [sk \in DOMAIN m_IniMap \cup {at} |->
                          IF sk = at THEN ValueOf(t) ELSE m_IniMap[sk]]
  <2>1. LineEffect(l, t, at)
    BY <1>0, LineStep, Zenon
  <2>. QED  BY <2>1 DEF LineEffect
<1>3. pos \in Nat /\ Len(file) \in Nat
  BY LinesAre DEF IInv
<1>4. file' \in Files /\ pos' \in 0 .. Len(file)'
  BY <1>2, <1>3 DEF IInv
<1>5. strSect' = SectionAt(pos)'
  <2>1. SectionAt(pos)' = SectionAt(pos + 1)
    BY <1>2 DEF SectionAt
  <2>2. SectionAt(pos + 1) = IF l.kind = "section" THEN l.name ELSE SectionAt(pos)
    BY <1>1, <1>3, SectionStep
  <2>. QED  BY <1>2, <2>1, <2>2 DEF IInv
<1>6. MapInv'
  <2>1. ASSUME NEW sk \in Settings
        PROVE  /\ sk \in DOMAIN m_IniMap' <=> Live(sk)' # {}
               /\ \A n \in Live(sk)' :
                    (\A k \in Live(sk)' : k <= n) => m_IniMap'[sk] = ValueOf(Render(file'[n]))
    <3>. DEFINE new == l.kind = "entry" /\ sk = at /\ ValueOf(t) # <<>>
    <3>1. Live(sk)' = IF new THEN Live(sk) \cup {pos + 1} ELSE Live(sk)
      BY <1>1, LiveStep
    <3>2. /\ sk \in DOMAIN m_IniMap <=> Live(sk) # {}
          /\ \A n \in Live(sk) :
               (\A k \in Live(sk) : k <= n) => m_IniMap[sk] = ValueOf(Render(file[n]))
      BY DEF IInv, MapInv
    <3>3. \A n \in Live(sk) : n \in Nat /\ n <= pos
      BY <1>3 DEF Live
    <3>4. sk # <<>> /\ sk[1] # <<>>
      BY FileAssumption
    <3>5. sk = at => strSect # <<>>
      BY <1>1, <3>4
    <3>6. CASE new
      <4>1. /\ sk \in DOMAIN m_IniMap' /\ m_IniMap'[sk] = ValueOf(t)
        BY <1>2, <3>5, <3>6
      <4>2. Live(sk)' = Live(sk) \cup {pos + 1}
        BY <3>1, <3>6
      <4>3. ASSUME NEW n \in Live(sk)', \A k \in Live(sk)' : k <= n PROVE n = pos + 1
        BY <1>3, <3>3, <4>2, <4>3
      <4>. QED  BY <1>1, <1>2, <4>1, <4>2, <4>3
    <3>7. CASE ~new
      <4>1. Live(sk)' = Live(sk)
        BY <3>1, <3>7
      <4>2. /\ sk \in DOMAIN m_IniMap' <=> sk \in DOMAIN m_IniMap
            /\ sk \in DOMAIN m_IniMap => m_IniMap'[sk] = m_IniMap[sk]
        <5>1. CASE l.kind # "entry" \/ strSect = <<>> \/ ValueOf(t) = <<>>
          BY <1>2, <5>1
        <5>2. CASE l.kind = "entry" /\ strSect # <<>> /\ ValueOf(t) # <<>>
          <6>1. sk # at
            BY <3>7, <5>2
          <6>2. m_IniMap' = [s \in DOMAIN m_IniMap \cup {at} |->
                               IF s = at THEN ValueOf(t) ELSE m_IniMap[s]]
            BY <1>2, <5>2
          <6>. QED  BY <6>1, <6>2
        <5>. QED  BY <5>1, <5>2
      <4>3. \A n \in Live(sk) : sk \in DOMAIN m_IniMap
        BY <3>2
      <4>. QED  BY <1>2, <3>2, <4>1, <4>2, <4>3
    <3>. QED  BY <3>6, <3>7
  <2>. QED  BY <2>1 DEF MapInv
<1>7. ConfigInv'
  <2>1. pos # Len(file)
    BY <1>2, <1>3
  <2>2. DOMAIN config = {}
    BY <2>1 DEF IInv, ConfigInv
  <2>. QED  BY <1>2, <2>2 DEF ConfigInv
<1>. QED  BY <1>4, <1>5, <1>6, <1>7 DEF IInv

\* What the invariant says of the lines stays as it is when they and the map do.
LEMMA Frame ==
  ASSUME UNCHANGED <<file, pos, strSect, m_IniMap>>
  PROVE  /\ SectionAt(pos)' = SectionAt(pos) /\ (MapInv <=> MapInv')
         /\ \A sk : Get_Profile_Str(sk)' = Get_Profile_Str(sk)
<1>1. \A k : SectionAt(k)' = SectionAt(k)
  BY DEF SectionAt
<1>2. \A sk : EntriesFor(sk)' = EntriesFor(sk)
  BY <1>1 DEF EntriesFor
<1>3. \A sk : Live(sk)' = Live(sk)
  BY <1>2 DEF Live
<1>4. MapInv <=> MapInv'
  BY <1>3 DEF MapInv
<1>5. \A sk : Get_Profile_Str(sk)' = Get_Profile_Str(sk)
  BY DEF Get_Profile_Str
<1>6. SectionAt(pos)' = SectionAt(pos)
  BY DEF SectionAt
<1>. QED  BY <1>4, <1>5, <1>6

\* Reading the settings keeps it.
LEMMA ReadIInv == ASSUME IInv, ReadConfig PROVE IInv'
<1>1. /\ pos = Len(file) /\ config' = [sk \in Settings |-> Get_Profile_Str(sk)]
      /\ UNCHANGED <<file, pos, strSect, m_IniMap>>
  BY DEF ReadConfig
<1>2. ConfigInv'
  <2>1. \A sk : Get_Profile_Str(sk)' = Get_Profile_Str(sk)
    BY <1>1, Frame
  <2>. QED  BY <1>1, <2>1 DEF ConfigInv
<1>3. MapInv' /\ SectionAt(pos)' = SectionAt(pos)
  BY <1>1, Frame DEF IInv
<1>. QED  BY <1>1, <1>2, <1>3 DEF IInv

\* So does every step.
LEMMA NextIInv == ASSUME IInv, [Next]_vars PROVE IInv'
<1>1. CASE UNCHANGED vars
  <2>1. UNCHANGED <<file, pos, strSect, m_IniMap, config>>
    BY <1>1 DEF vars
  <2>2. /\ MapInv' /\ SectionAt(pos)' = SectionAt(pos)
        /\ \A sk : Get_Profile_Str(sk)' = Get_Profile_Str(sk)
    BY <2>1, Frame DEF IInv
  <2>3. ConfigInv'
    BY <2>1, <2>2 DEF IInv, ConfigInv
  <2>. QED  BY <2>1, <2>2, <2>3 DEF IInv
<1>. QED  BY <1>1, AnalyzeIInv, ReadIInv DEF Next

\* The map holds, after each line, the last value each setting was given.
THEOREM Invariance == Spec => []IInv
BY InitIInv, NextIInv, PTL DEF Spec

-----------------------------------------------------------------------------
(***************************************************************************)
(* The settings.                                                           *)
(***************************************************************************)
\* The entries for a setting are entries, on lines of the file.
LEMMA EntriesAre ==
  ASSUME IInv, NEW sk, NEW n \in EntriesFor(sk)
  PROVE  IsEntry(file[n]) /\ Len(file) \in Nat /\ n \in 1 .. Len(file)
<1>1. n \in 1 .. Len(file) /\ file[n].kind = "entry"
  BY DEF EntriesFor
<1>2. Len(file) \in Nat /\ IsLine(file[n])
  BY <1>1, LinesAre DEF IInv
<1>. QED  BY <1>1, <1>2 DEF IsEntry

\* A setting that was read is the last value that its entries give it.
LEMMA SettingIs ==
  ASSUME IInv, DOMAIN config = Settings, NEW sk \in Settings
  PROVE  /\ Live(sk) = {n \in EntriesFor(sk) : ValueOf(Render(file[n])) # <<>>}
         /\ Live(sk) = {} => config[sk] = Default
         /\ \A n \in Live(sk) :
              (\A k \in Live(sk) : k <= n) => config[sk] = TrimSpace(ValueOf(Render(file[n])))
<1>1. pos = Len(file) /\ config[sk] = Get_Profile_Str(sk)
  BY DEF IInv, ConfigInv
<1>2. /\ sk \in DOMAIN m_IniMap <=> Live(sk) # {}
      /\ \A n \in Live(sk) :
           (\A k \in Live(sk) : k <= n) => m_IniMap[sk] = ValueOf(Render(file[n]))
  BY Zenon DEF IInv, MapInv
<1>3. Live(sk) = {n \in EntriesFor(sk) : ValueOf(Render(file[n])) # <<>>}
  <2>1. EntriesFor(sk) \subseteq 1 .. Len(file)
    BY DEF EntriesFor
  <2>. QED  BY <1>1, <2>1 DEF Live
<1>4. Live(sk) = {} => config[sk] = Default
  BY <1>1, <1>2 DEF Get_Profile_Str
<1>5. ASSUME NEW n \in Live(sk), \A k \in Live(sk) : k <= n
      PROVE  config[sk] = TrimSpace(ValueOf(Render(file[n])))
  <2>1. sk \in DOMAIN m_IniMap /\ m_IniMap[sk] = ValueOf(Render(file[n]))
    BY <1>2, <1>5
  <2>. QED  BY <1>1, <2>1 DEF Get_Profile_Str
<1>. QED  BY <1>3, <1>4, <1>5

\* The last of some lines of the file.
LEMMA LastOfSome ==
  ASSUME NEW N \in Nat, NEW S, S \subseteq 1 .. N, S # {},
         NEW c, c = CHOOSE n \in S : \A m \in S : m <= n
  PROVE  c \in S /\ \A m \in S : m <= c
BY LastExists

\* The map has the value of the last live entry, and a plain entry is live.
LEMMA IInvPlain == ASSUME IInv PROVE PlainValueIsRead
<1>. SUFFICES ASSUME DOMAIN config = Settings, NEW sk \in Settings,
                     \A n \in EntriesFor(sk) : Plain(file[n])
              PROVE  LET given == {n \in EntriesFor(sk) : Gives(file[n])}
                     IN  config[sk] = IF given = {} THEN Default
                           ELSE file[CHOOSE n \in given : \A m \in given : m <= n].value
  BY DEF PlainValueIsRead
<1>. DEFINE given == {n \in EntriesFor(sk) : Gives(file[n])}
<1>1. ASSUME NEW n \in EntriesFor(sk)
      PROVE  /\ ValueOf(Render(file[n])) # <<>> <=> Gives(file[n])
             /\ Gives(file[n]) => TrimSpace(ValueOf(Render(file[n]))) = file[n].value
  <2>1. PICK l : l = file[n]
    OBVIOUS
  <2>2. IsEntry(l) /\ Plain(l)
    BY <2>1, EntriesAre
  <2>. QED  BY <2>1, <2>2, PlainEntry
<1>2. /\ Live(sk) = {n \in EntriesFor(sk) : ValueOf(Render(file[n])) # <<>>}
      /\ Live(sk) = {} => config[sk] = Default
      /\ \A n \in Live(sk) :
           (\A k \in Live(sk) : k <= n) => config[sk] = TrimSpace(ValueOf(Render(file[n])))
  BY SettingIs
<1>3. Live(sk) = given
  BY <1>1, <1>2
<1>4. CASE given = {}
  BY <1>2, <1>3, <1>4
<1>5. CASE given # {}
  <2>1. Len(file) \in Nat /\ given \subseteq 1 .. Len(file)
    BY <1>5, EntriesAre
  <2>2. PICK c : c = CHOOSE n \in given : \A m \in given : m <= n
    OBVIOUS
  <2>3. c \in given /\ \A m \in given : m <= c
    <3>. HIDE DEF given
    <3>. QED  BY <1>5, <2>1, <2>2, LastOfSome
  <2>4. config[sk] = TrimSpace(ValueOf(Render(file[c])))
    BY <1>2, <1>3, <2>3
  <2>5. config[sk] = file[c].value
    BY <1>1, <2>3, <2>4
  <2>. QED  BY <1>5, <2>2, <2>5
<1>. QED  BY <1>4, <1>5

\* The value of a commented entry is a beginning of what stands before the mark.
LEMMA IInvComment == ASSUME IInv PROVE CommentIsNoValue
<1>. SUFFICES ASSUME DOMAIN config = Settings, NEW sk \in Settings, NEW n \in EntriesFor(sk),
                     EntriesFor(sk) = {n}, Commented(file[n]), ~Misleading(file[n])
              PROVE  /\ config[sk] = Default \/ IsPrefix(config[sk], file[n].value)
                     /\ file[n].gap >= file[n].lead => config[sk] = file[n].value
  BY DEF CommentIsNoValue
<1>1. PICK l : l = file[n]
  OBVIOUS
<1>2. IsEntry(l) /\ Commented(l) /\ ~Misleading(l) /\ n \in Nat
  BY <1>1, EntriesAre
<1>3. /\ ValueOf(Render(l)) # <<>> => IsPrefix(TrimSpace(ValueOf(Render(l))), l.value)
      /\ l.gap >= l.lead => /\ ValueOf(Render(l)) # <<>>
                            /\ TrimSpace(ValueOf(Render(l))) = l.value
  BY <1>2, CommentedEntry
<1>4. /\ Live(sk) = {k \in EntriesFor(sk) : ValueOf(Render(file[k])) # <<>>}
      /\ Live(sk) = {} => config[sk] = Default
      /\ \A k \in Live(sk) :
           (\A j \in Live(sk) : j <= k) => config[sk] = TrimSpace(ValueOf(Render(file[k])))
  BY SettingIs
<1>5. CASE ValueOf(Render(l)) = <<>>
  <2>1. Live(sk) = {}
    BY <1>1, <1>4, <1>5
  <2>. QED  BY <1>1, <1>3, <1>4, <1>5, <2>1
<1>6. CASE ValueOf(Render(l)) # <<>>
  <2>1. n \in Live(sk) /\ \A j \in Live(sk) : j = n
    BY <1>1, <1>4, <1>6
  <2>2. \A j \in Live(sk) : j <= n
    BY <1>2, <2>1
  <2>3. config[sk] = TrimSpace(ValueOf(Render(l)))
    BY <1>1, <1>4, <2>1, <2>2
  <2>. QED  BY <1>1, <1>3, <1>6, <2>3
<1>. QED  BY <1>5, <1>6

\* Whatever the file, a setting whose entries carry no inline comment has the
\* value of the last one that gives any, a CR included, or the default.
THEOREM PlainIsRead == Spec => []PlainValueIsRead
BY Invariance, IInvPlain, PTL

\* Whatever the file, nothing of an inline comment that does not mislead the search
\* gets into a setting that has a value, and one whose comment stands off by as many
\* blanks as its value has all of its value.
THEOREM CommentIsOut == Spec => []CommentIsNoValue
BY Invariance, IInvComment, PTL
=============================================================================

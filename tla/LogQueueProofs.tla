--------------------------- MODULE LogQueueProofs ---------------------------
(***************************************************************************)
(* The safety of LogQueue, for every number of threads, lines and days,    *)
(* and every batch size.                                                   *)
(*                                                                         *)
(* The argument: what has been written and what is queued form one stream, *)
(* in which each thread's lines appear with increasing numbers.  A push    *)
(* adds the highest number so far at its end, a batch moves the border     *)
(* between written and queued, and the line that a full batch swallows is  *)
(* taken out.  Increasing numbers also mean that no line is there twice,   *)
(* which makes the counting of LinesAccounted a matter of membership.      *)
(***************************************************************************)
EXTENDS LogQueue, FiniteSetTheorems, TLAPS

In(l, s) == \E k \in 1 .. Len(s) : s[k] = l

\* The lines of each thread appear in s in the order it logged them.
Sorted(s) ==
  \A i, j \in 1 .. Len(s) : i < j /\ s[i][1] = s[j][1] => s[i][2] < s[j][2]

\* A thread pushes one line at a time, the last one it logged.
PushingInv ==
  \A p \in Logger :
    \/ pushing[p] = <<>>
    \/ logged[p] # 0 /\ pushing[p] = << <<p, logged[p] - 1>> >>

\* The lines that have left the hands of their thread.
HandedOn == {l \in Line : l[2] < logged[l[1]] - Len(pushing[l[1]])}

StreamInv ==
  /\ Sorted(written) /\ Sorted(m_logQueue)
  /\ \A i \in 1 .. Len(written), j \in 1 .. Len(m_logQueue) :
       written[i][1] = m_logQueue[j][1] => written[i][2] < m_logQueue[j][2]

\* What is written, queued or lost was handed on, and lies in one place.
PlacesInv ==
  /\ \A k \in 1 .. Len(written) :
       written[k] \in HandedOn /\ written[k] \notin swallowed
  /\ \A k \in 1 .. Len(m_logQueue) :
       m_logQueue[k] \in HandedOn /\ m_logQueue[k] \notin swallowed
  /\ \A l \in swallowed : l \in HandedOn

\* What was handed on is written, queued or lost.
CoverInv ==
  \A l \in HandedOn :
    In(l, written) \/ In(l, m_logQueue) \/ l \in swallowed

\* The batches so far, the one in progress included, paid for what was swallowed.
BatchInv ==
  /\ IsFiniteSet(swallowed)
  /\ SwallowBound
  /\ tolr \in {"roll", "drain"} =>
       BatchSize * Cardinality(swallowed) + item_count <= Len(written)
  /\ tolr = "roll" => item_count = 0

\* As long as the timer is armed, the open file is that of the last roll, or the
\* first roll is still due.
FileInv ==
  /\ armed => pLogFile = strLastDate \/ (strLastDate = 0 /\ 0 < day)
  /\ tolr \in {"roll", "drain"} => armed
  /\ RightFile

\* From the flush on only main has lines, and its last one only after the flush.
ExitInv ==
  mainPc # "serve" =>
    /\ tolr = "idle"
    /\ \A p \in Logger \ {Main} : pushing[p] = <<>>
    /\ mainPc \in {"flush", "done"} => pushing[Main] = <<>>
    /\ mainPc # "flush" =>
         \A k \in 1 .. Len(m_logQueue) : m_logQueue[k] = <<Main, logged[Main] - 1>>
    /\ mainPc = "last" /\ pushing[Main] # <<>> => m_logQueue = <<>>

LinesInv == PushingInv /\ StreamInv /\ PlacesInv /\ CoverInv
IInv     == TypeOK /\ LinesInv /\ BatchInv /\ FileInv /\ ExitInv

-----------------------------------------------------------------------------
(***************************************************************************)
(* Sequences of lines.                                                     *)
(***************************************************************************)
\* What Append does.
LEMMA AppendFacts ==
  ASSUME NEW s \in Seq(Line), NEW l \in Line
  PROVE  /\ Append(s, l) \in Seq(Line)
         /\ Len(s) \in Nat /\ Len(Append(s, l)) = Len(s) + 1
         /\ \A k \in 1 .. Len(s) : Append(s, l)[k] = s[k]
         /\ Append(s, l)[Len(s) + 1] = l
OBVIOUS

\* What Head and Tail do.
LEMMA TailFacts ==
  ASSUME NEW s \in Seq(Line), s # <<>>
  PROVE  /\ Tail(s) \in Seq(Line) /\ Head(s) = s[1] /\ Head(s) \in Line
         /\ Len(s) \in Nat \ {0} /\ Len(Tail(s)) = Len(s) - 1
         /\ \A k \in 1 .. Len(s) - 1 : Tail(s)[k] = s[k + 1]
OBVIOUS

\* A line is its producer and its number.
LEMMA LineFacts == \A l \in Line : l[1] \in Logger /\ l[2] \in Nat
BY DEF Line

\* A producer and a number make a line.
LEMMA LineOf == \A p \in Logger, n \in Nat : <<p, n>> \in Line
BY DEF Line

\* A line is known by its producer and its number.
LEMMA LineEqual ==
  ASSUME NEW l \in Line, NEW m \in Line, l[1] = m[1], l[2] = m[2]
  PROVE  l = m
BY DEF Line

\* What is in Append(s, l).
LEMMA InAppend ==
  ASSUME NEW s \in Seq(Line), NEW l \in Line, NEW m
  PROVE  In(m, Append(s, l)) <=> In(m, s) \/ m = l
<1>1. \A k \in 1 .. Len(s) + 1 : k \in 1 .. Len(s) \/ k = Len(s) + 1
  BY AppendFacts
<1>. QED  BY <1>1, AppendFacts DEF In

\* What is in a sequence is its head or in its tail.
LEMMA InTail ==
  ASSUME NEW s \in Seq(Line), s # <<>>, NEW m, In(m, s)
  PROVE  m = Head(s) \/ In(m, Tail(s))
<1>1. PICK k \in 1 .. Len(s) : s[k] = m
  BY DEF In
<1>2. CASE k = 1
  BY <1>1, <1>2, TailFacts
<1>3. CASE k # 1
  <2>1. k - 1 \in 1 .. Len(s) - 1 /\ (k - 1) + 1 = k
    BY <1>3, TailFacts
  <2>. QED  BY <1>1, <2>1, TailFacts DEF In
<1>. QED  BY <1>2, <1>3

\* A line is in a sorted sequence once, or not at all.
LEMMA TimesInSorted ==
  ASSUME NEW s \in Seq(Line), Sorted(s), NEW l \in Line
  PROVE  Times(l, s) = IF In(l, s) THEN 1 ELSE 0
<1>. DEFINE places == {k \in 1 .. Len(s) : s[k] = l}
<1>1. CASE ~In(l, s)
  <2>1. places = {}
    BY <1>1 DEF In
  <2>. QED  BY <1>1, <2>1, FS_EmptySet DEF Times
<1>2. CASE In(l, s)
  <2>1. PICK k \in 1 .. Len(s) : s[k] = l
    BY <1>2 DEF In
  <2>2. ASSUME NEW j \in 1 .. Len(s), s[j] = l, j # k PROVE FALSE
    <3>1. j < k \/ k < j
      BY <2>2
    <3>2. l[2] < l[2]
      BY <2>1, <2>2, <3>1 DEF Sorted
    <3>. QED  BY <3>2, LineFacts
  <2>3. places = {k}
    BY <2>1, <2>2
  <2>. QED  BY <1>2, <2>3, FS_Singleton DEF Times
<1>. QED  BY <1>1, <1>2

-----------------------------------------------------------------------------
(***************************************************************************)
(* The life of a line.                                                     *)
(***************************************************************************)
lineVars == <<logged, pushing, m_logQueue, written, swallowed>>

\* A line that is begun is in its thread's hands: nothing else changes place.
LEMMA BeginKeepsLines ==
  ASSUME TypeOK, LinesInv, NEW p \in Logger, Begin(p),
         UNCHANGED <<m_logQueue, written, swallowed>>
  PROVE  LinesInv'
<1>1. /\ logged[p] \in Nat /\ logged'[p] = logged[p] + 1
      /\ pushing[p] = <<>> /\ pushing'[p] = << <<p, logged[p]>> >>
      /\ Len(pushing[p]) = 0 /\ Len(pushing'[p]) = 1
      /\ \A q \in Logger \ {p} : logged'[q] = logged[q] /\ pushing'[q] = pushing[q]
  BY DEF Begin, TypeOK
<1>2. \A l \in Line : l \in HandedOn' <=> l \in HandedOn
  <2>. SUFFICES ASSUME NEW l \in Line PROVE l \in HandedOn' <=> l \in HandedOn
    OBVIOUS
  <2>1. CASE l[1] = p
    <3>1. /\ l \in HandedOn <=> l[2] < logged[p] - Len(pushing[p])
          /\ l \in HandedOn' <=> l[2] < logged'[p] - Len(pushing'[p])
      BY <2>1 DEF HandedOn
    <3>2. logged'[p] - Len(pushing'[p]) = logged[p] - Len(pushing[p])
      BY <1>1
    <3>. QED  BY <3>1, <3>2
  <2>2. CASE l[1] # p
    BY <1>1, <2>2, LineFacts DEF HandedOn
  <2>. QED  BY <2>1, <2>2
<1>3. PushingInv'
  <2>1. logged'[p] - 1 = logged[p] /\ logged'[p] # 0
    BY <1>1
  <2>. QED  BY <1>1, <2>1 DEF LinesInv, PushingInv
<1>4. StreamInv'
  BY DEF LinesInv, StreamInv, Sorted
<1>5. HandedOn' = HandedOn
  BY <1>2 DEF HandedOn
<1>6. PlacesInv' /\ CoverInv'
  BY <1>5 DEF LinesInv, PlacesInv, CoverInv, In
<1>. QED  BY <1>3, <1>4, <1>6 DEF LinesInv

\* The line leaves its thread's hands when the thread forgets it.
LEMMA HandOn ==
  ASSUME TypeOK, LinesInv, NEW p \in Logger, pushing[p] # <<>>,
         pushing' = [pushing EXCEPT ![p] = <<>>], logged' = logged
  PROVE  /\ Head(pushing[p]) \in Line
         /\ Head(pushing[p])[1] = p
         /\ Head(pushing[p]) \notin HandedOn
         /\ \A l \in Line : l \in HandedOn' <=> l \in HandedOn \/ l = Head(pushing[p])
         /\ \A l \in Line : l \in HandedOn /\ l[1] = p => l[2] < Head(pushing[p])[2]
         /\ PushingInv'
<1>1. /\ pushing[p] = << <<p, logged[p] - 1>> >> /\ logged[p] \in Nat /\ logged[p] # 0
      /\ logged[p] - 1 \in Nat
  BY DEF TypeOK, LinesInv, PushingInv
<1>2. /\ Head(pushing[p]) = <<p, logged[p] - 1>> /\ Len(pushing[p]) = 1
      /\ pushing'[p] = <<>> /\ Len(pushing'[p]) = 0
      /\ \A q \in Logger \ {p} : pushing'[q] = pushing[q]
  BY <1>1 DEF TypeOK
<1>3. ASSUME NEW l \in Line
      PROVE  /\ l \in HandedOn' <=> l \in HandedOn \/ l = Head(pushing[p])
             /\ l \in HandedOn /\ l[1] = p => l[2] < Head(pushing[p])[2]
  <2>1. CASE l[1] = p
    <3>1. l \in HandedOn <=> l[2] < logged[p] - 1
      BY <1>2, <2>1 DEF HandedOn
    <3>2. l \in HandedOn' <=> l[2] < logged[p]
      BY <1>1, <1>2, <2>1 DEF HandedOn
    <3>3. l[2] \in Nat /\ (l[2] = logged[p] - 1 => l = Head(pushing[p]))
      BY <1>1, <1>2, <2>1, LineFacts, LineOf, LineEqual
    <3>. QED  BY <1>1, <1>2, <3>1, <3>2, <3>3
  <2>2. CASE l[1] # p
    BY <1>1, <1>2, <2>2, LineFacts DEF HandedOn
  <2>. QED  BY <2>1, <2>2
<1>4. PushingInv'
  BY <1>2 DEF LinesInv, PushingInv
<1>. QED  BY <1>1, <1>2, <1>3, <1>4, LineOf DEF HandedOn

\* A pushed line goes to the end of the queue, behind all of its thread's.
LEMMA PushKeepsLines ==
  ASSUME TypeOK, LinesInv, NEW p \in Logger, Push(p)
  PROVE  LinesInv'
<1>. DEFINE h == Head(pushing[p])
<1>1. /\ m_logQueue' = Append(m_logQueue, h)
      /\ UNCHANGED <<logged, written, swallowed>>
      /\ m_logQueue \in Seq(Line) /\ written \in Seq(Line)
      /\ swallowed \subseteq Line
  BY DEF Push, TypeOK
<1>2. /\ h \in Line /\ h[1] = p /\ h \notin HandedOn
      /\ \A l \in Line : l \in HandedOn' <=> l \in HandedOn \/ l = h
      /\ \A l \in Line : l \in HandedOn /\ l[1] = p => l[2] < h[2]
      /\ PushingInv'
  BY HandOn DEF Push
<1>. HIDE DEF h
<1>3. /\ Len(m_logQueue) \in Nat /\ Len(m_logQueue') = Len(m_logQueue) + 1
      /\ \A k \in 1 .. Len(m_logQueue) : m_logQueue'[k] = m_logQueue[k]
      /\ m_logQueue'[Len(m_logQueue) + 1] = h
      /\ \A k \in 1 .. Len(m_logQueue') : k \in 1 .. Len(m_logQueue) \/ k = Len(m_logQueue) + 1
      /\ \A k \in 1 .. Len(m_logQueue) : m_logQueue[k] \in Line
      /\ \A k \in 1 .. Len(written) : written[k] \in Line
  BY <1>1, <1>2, AppendFacts
<1>4. /\ \A k \in 1 .. Len(m_logQueue) :
            m_logQueue[k] \in HandedOn /\ m_logQueue[k] \notin swallowed
      /\ \A k \in 1 .. Len(written) :
            written[k] \in HandedOn /\ written[k] \notin swallowed
      /\ \A l \in swallowed : l \in HandedOn
      BY DEF LinesInv, PlacesInv
<1>5. StreamInv'
  <2>1. Sorted(m_logQueue)'
    <3>. SUFFICES ASSUME NEW i \in 1 .. Len(m_logQueue'), NEW j \in 1 .. Len(m_logQueue'),
                        i < j, m_logQueue'[i][1] = m_logQueue'[j][1]
                 PROVE  m_logQueue'[i][2] < m_logQueue'[j][2]
      BY DEF Sorted
    <3>1. i \in 1 .. Len(m_logQueue)
      BY <1>3
    <3>2. CASE j \in 1 .. Len(m_logQueue)
      BY <1>3, <3>1, <3>2 DEF LinesInv, StreamInv, Sorted
    <3>3. CASE j = Len(m_logQueue) + 1
      BY <1>2, <1>3, <1>4, <3>1, <3>3
    <3>. QED  BY <1>3, <3>2, <3>3
  <2>2. \A i \in 1 .. Len(written), j \in 1 .. Len(m_logQueue') :
          written[i][1] = m_logQueue'[j][1] => written[i][2] < m_logQueue'[j][2]
    <3>. SUFFICES ASSUME NEW i \in 1 .. Len(written), NEW j \in 1 .. Len(m_logQueue'),
                        written[i][1] = m_logQueue'[j][1]
                 PROVE  written[i][2] < m_logQueue'[j][2]
      OBVIOUS
    <3>1. CASE j \in 1 .. Len(m_logQueue)
      BY <1>3, <3>1 DEF LinesInv, StreamInv
    <3>2. CASE j = Len(m_logQueue) + 1
      BY <1>2, <1>3, <1>4, <3>2
    <3>. QED  BY <1>3, <3>1, <3>2
  <2>. QED  BY <1>1, <2>1, <2>2 DEF LinesInv, StreamInv, Sorted
<1>6. PlacesInv'
  <2>1. \A k \in 1 .. Len(m_logQueue') :
          m_logQueue'[k] \in HandedOn' /\ m_logQueue'[k] \notin swallowed
    BY <1>2, <1>3, <1>4
  <2>2. \A k \in 1 .. Len(written) :
          written[k] \in HandedOn' /\ written[k] \notin swallowed
    BY <1>2, <1>3, <1>4
  <2>3. \A l \in swallowed : l \in HandedOn'
    BY <1>1, <1>2, <1>4
  <2>. QED  BY <1>1, <1>4, <2>1, <2>2, <2>3 DEF PlacesInv
<1>7. CoverInv'
  <2>. SUFFICES ASSUME NEW l \in Line, l \in HandedOn'
               PROVE  In(l, written') \/ In(l, m_logQueue') \/ l \in swallowed'
    BY DEF CoverInv, HandedOn, In
  <2>1. In(l, m_logQueue') <=> In(l, m_logQueue) \/ l = h
    BY <1>1, <1>2, InAppend
  <2>. QED  BY <1>1, <1>2, <2>1 DEF LinesInv, CoverInv
<1>. QED  BY <1>2, <1>5, <1>6, <1>7 DEF LinesInv

\* A line that is popped and written moves over the border of the stream.
LEMMA WriteKeepsLines ==
  ASSUME TypeOK, LinesInv, m_logQueue # <<>>,
         written' = Append(written, Head(m_logQueue)),
         m_logQueue' = Tail(m_logQueue),
         UNCHANGED <<logged, pushing, swallowed>>
  PROVE  LinesInv'
<1>. DEFINE h == Head(m_logQueue)
            n == Len(m_logQueue)
            w == Len(written)
<1>1. m_logQueue \in Seq(Line) /\ written \in Seq(Line)
  BY DEF TypeOK
<1>2. /\ h \in Line /\ h = m_logQueue[1] /\ n \in Nat \ {0}
      /\ Len(m_logQueue') = n - 1
      /\ \A k \in 1 .. n - 1 : k + 1 \in 2 .. n /\ m_logQueue'[k] = m_logQueue[k + 1]
  BY <1>1, TailFacts
<1>3. /\ w \in Nat /\ Len(written') = w + 1 /\ written'[w + 1] = h
      /\ \A k \in 1 .. w : written'[k] = written[k]
      /\ \A k \in 1 .. w + 1 : k \in 1 .. w \/ k = w + 1
  BY <1>1, <1>2, AppendFacts
<1>. HIDE DEF h, n, w
<1>4. HandedOn' = HandedOn
  BY DEF HandedOn
<1>5. Sorted(written)'
  <2>. SUFFICES ASSUME NEW i \in 1 .. w + 1, NEW j \in 1 .. w + 1,
                      i < j, written'[i][1] = written'[j][1]
               PROVE  written'[i][2] < written'[j][2]
    BY <1>3 DEF Sorted
  <2>1. i \in 1 .. w
    BY <1>3
  <2>2. CASE j \in 1 .. w
    BY <1>3, <2>1, <2>2 DEF LinesInv, StreamInv, Sorted, w
  <2>3. CASE j = w + 1
    BY <1>2, <1>3, <2>1, <2>3 DEF LinesInv, StreamInv, w, n
  <2>. QED  BY <1>3, <2>2, <2>3
<1>6. Sorted(m_logQueue)'
  BY <1>2 DEF LinesInv, StreamInv, Sorted, n
<1>7. \A i \in 1 .. w + 1, j \in 1 .. n - 1 :
        written'[i][1] = m_logQueue'[j][1] => written'[i][2] < m_logQueue'[j][2]
  <2>. SUFFICES ASSUME NEW i \in 1 .. w + 1, NEW j \in 1 .. n - 1,
                      written'[i][1] = m_logQueue'[j][1]
               PROVE  written'[i][2] < m_logQueue'[j][2]
    OBVIOUS
  <2>0. j + 1 \in 2 .. n /\ j + 1 \in 1 .. n /\ m_logQueue'[j] = m_logQueue[j + 1]
    BY <1>2
  <2>1. CASE i \in 1 .. w
    BY <1>3, <2>0, <2>1 DEF LinesInv, StreamInv, w, n
  <2>2. CASE i = w + 1
    BY <1>2, <1>3, <2>0, <2>2 DEF LinesInv, StreamInv, Sorted, n
  <2>. QED  BY <1>3, <2>1, <2>2
<1>8. StreamInv'
  BY <1>2, <1>3, <1>5, <1>6, <1>7 DEF StreamInv
<1>9. PlacesInv'
  <2>1. \A k \in 1 .. w + 1 :
          written'[k] \in HandedOn /\ written'[k] \notin swallowed
    BY <1>2, <1>3 DEF LinesInv, PlacesInv, w, n
  <2>2. \A k \in 1 .. n - 1 :
          m_logQueue'[k] \in HandedOn /\ m_logQueue'[k] \notin swallowed
    BY <1>2 DEF LinesInv, PlacesInv, n
  <2>. QED  BY <1>2, <1>3, <1>4, <2>1, <2>2 DEF LinesInv, PlacesInv
<1>10. CoverInv'
  <2>1. \A l : In(l, m_logQueue) => l = h \/ In(l, m_logQueue')
    BY <1>1, InTail DEF h
  <2>2. \A l : In(l, written') <=> In(l, written) \/ l = h
    BY <1>1, <1>2, InAppend DEF h
  <2>3. \A l \in HandedOn :
          In(l, written') \/ In(l, m_logQueue') \/ l \in swallowed
    BY <2>1, <2>2 DEF LinesInv, CoverInv
  <2>. QED  BY <1>4, <2>3 DEF CoverInv, In
<1>11. PushingInv'
  BY DEF LinesInv, PushingInv
<1>. QED  BY <1>8, <1>9, <1>10, <1>11 DEF LinesInv

\* The line that a full batch pops is known to be swallowed.
LEMMA SwallowKeepsLines ==
  ASSUME TypeOK, LinesInv, PopAndStop
  PROVE  LinesInv'
<1>. DEFINE h == Head(m_logQueue)
            n == Len(m_logQueue)
<1>1. /\ m_logQueue \in Seq(Line) /\ m_logQueue # <<>>
      /\ m_logQueue' = Tail(m_logQueue)
      /\ swallowed' = swallowed \cup {h}
      /\ UNCHANGED <<logged, pushing, written>>
  BY DEF PopAndStop, TypeOK
<1>2. /\ h \in Line /\ h = m_logQueue[1] /\ n \in Nat \ {0} /\ 1 \in 1 .. n
      /\ Len(m_logQueue') = n - 1
      /\ \A k \in 1 .. n - 1 : k + 1 \in 2 .. n /\ m_logQueue'[k] = m_logQueue[k + 1]
  BY <1>1, TailFacts
<1>. HIDE DEF h, n
<1>3. HandedOn' = HandedOn
  BY <1>1 DEF HandedOn
<1>4. /\ \A k \in 2 .. n : m_logQueue[k] # h
      /\ \A k \in 1 .. Len(written) : written[k] # h
      /\ h \notin swallowed /\ h \in HandedOn
  <2>1. ASSUME NEW k \in 2 .. n, m_logQueue[k] = h PROVE FALSE
    <3>1. m_logQueue[1][2] < m_logQueue[k][2]
      BY <1>2, <2>1 DEF LinesInv, StreamInv, Sorted, n
    <3>. QED  BY <1>2, <2>1, <3>1, LineFacts
  <2>2. ASSUME NEW k \in 1 .. Len(written), written[k] = h PROVE FALSE
    <3>1. written[k][2] < m_logQueue[1][2]
      BY <1>2, <2>2 DEF LinesInv, StreamInv, n
    <3>. QED  BY <1>2, <2>2, <3>1, LineFacts
  <2>. QED  BY <1>2, <2>1, <2>2 DEF LinesInv, PlacesInv, n
<1>5. StreamInv'
  <2>1. Sorted(m_logQueue)' /\ Sorted(written)'
    BY <1>1, <1>2 DEF LinesInv, StreamInv, Sorted, n
  <2>2. \A i \in 1 .. Len(written), j \in 1 .. n - 1 :
          written[i][1] = m_logQueue'[j][1] => written[i][2] < m_logQueue'[j][2]
    <3>1. \A j \in 1 .. n - 1 : j + 1 \in 1 .. n /\ m_logQueue'[j] = m_logQueue[j + 1]
      BY <1>2
    <3>. QED  BY <3>1 DEF LinesInv, StreamInv, n
  <2>. QED  BY <1>1, <1>2, <2>1, <2>2 DEF StreamInv
<1>6. PlacesInv'
  <2>1. \A k \in 1 .. n - 1 :
          m_logQueue'[k] \in HandedOn /\ m_logQueue'[k] \notin swallowed'
    BY <1>1, <1>2, <1>4 DEF LinesInv, PlacesInv, n
  <2>2. \A k \in 1 .. Len(written) :
          written[k] \in HandedOn /\ written[k] \notin swallowed'
    BY <1>1, <1>4 DEF LinesInv, PlacesInv
  <2>. QED  BY <1>1, <1>2, <1>3, <1>4, <2>1, <2>2 DEF LinesInv, PlacesInv
<1>7. CoverInv'
  <2>1. \A l : In(l, m_logQueue) => l = h \/ In(l, m_logQueue')
    BY <1>1, InTail DEF h
  <2>2. \A l \in HandedOn :
          In(l, written) \/ In(l, m_logQueue') \/ l \in swallowed'
    BY <1>1, <2>1 DEF LinesInv, CoverInv
  <2>. QED  BY <1>1, <1>3, <2>2 DEF CoverInv, In
<1>8. PushingInv'
  BY <1>1 DEF LinesInv, PushingInv
<1>. QED  BY <1>5, <1>6, <1>7, <1>8 DEF LinesInv

\* What changes no line keeps the invariant of the lines.
LEMMA LinesFrame == ASSUME LinesInv, UNCHANGED lineVars PROVE LinesInv'
BY DEF lineVars, LinesInv, PushingInv, StreamInv, Sorted, PlacesInv, CoverInv, In, HandedOn

-----------------------------------------------------------------------------
(***************************************************************************)
(* The steps.                                                              *)
(***************************************************************************)
\* Before anybody logs.
LEMMA InitIInv == ASSUME Init PROVE IInv
<1>1. TypeOK
  BY LogAssumption DEF Init, TypeOK
<1>2. HandedOn = {}
  BY LineFacts DEF Init, HandedOn
<1>3. LinesInv
  BY <1>2 DEF Init, LinesInv, PushingInv, StreamInv, Sorted, PlacesInv, CoverInv
<1>4. BatchInv
  <2>1. BatchSize * 0 = 0
    BY LogAssumption
  <2>. QED  BY <2>1, FS_EmptySet DEF Init, BatchInv, SwallowBound
<1>5. FileInv /\ ExitInv
  BY DEF Init, FileInv, RightFile, ExitInv
<1>. QED  BY <1>1, <1>3, <1>4, <1>5 DEF IInv

\* Every step keeps the types.
LEMMA NextTypeOK == ASSUME TypeOK, LinesInv, [Next]_vars PROVE TypeOK'
<1>. USE LogAssumption DEF TypeOK, logVars, fileVars
<1>1. ASSUME NEW p \in Logger, Begin(p)
      PROVE  logged' \in [Logger -> Nat] /\ pushing' \in [Logger -> Seq(Line)]
  <2>1. <<p, logged[p]>> \in Line
    BY LineOf
  <2>. QED  BY <1>1, <2>1 DEF Begin
<1>2. CASE \E p \in Producer \cup {Main} : Log(p)
  BY <1>1, <1>2 DEF Log, Logger
<1>3. ASSUME NEW p \in Logger, Push(p) PROVE TypeOK'
  <2>1. pushing[p] # <<>> /\ pushing[p] \in Seq(Line)
    BY <1>3 DEF Push
  <2>2. Head(pushing[p]) \in Line
    BY <2>1, TailFacts
  <2>3. CASE Push(p)
    <3>1. Append(m_logQueue, Head(pushing[p])) \in Seq(Line)
      BY <2>2, AppendFacts
    <3>. QED  BY <2>3, <3>1 DEF Push
  <2>. QED  BY <1>3, <2>3
<1>4. CASE NextDay \/ Tick \/ SameDay \/ Roll \/ Complained \/ FindEmpty
  BY <1>4 DEF NextDay, Tick, SameDay, Roll, Complained, FindEmpty
<1>5. CASE RollFails
  BY <1>1, <1>5 DEF RollFails, Logger
<1>6. CASE PopAndWrite \/ PopAndStop \/ FlushLine
  <2>1. m_logQueue # <<>>
    BY <1>6 DEF PopAndWrite, PopAndStop, FlushLine
  <2>2. Head(m_logQueue) \in Line /\ Tail(m_logQueue) \in Seq(Line)
    BY <2>1, TailFacts
  <2>3. Append(written, Head(m_logQueue)) \in Seq(Line)
    BY <2>2, AppendFacts
  <2>4. CASE PopAndWrite
    BY <2>2, <2>3, <2>4 DEF PopAndWrite
  <2>5. CASE PopAndStop \/ FlushLine
    BY <2>2, <2>3, <2>5 DEF PopAndStop, FlushLine
  <2>. QED  BY <1>6, <2>4, <2>5
<1>7. CASE EndFlush
  BY <1>1, <1>7 DEF EndFlush, Logger
<1>8. CASE BeginFlush \/ Return \/ UNCHANGED vars
  BY <1>8 DEF BeginFlush, Return, vars
<1>. QED  BY <1>2, <1>3, <1>4, <1>5, <1>6, <1>7, <1>8
          DEF Next, PushStep, TolrStep, MainStep

\* Every step keeps the invariant of the lines.
LEMMA NextLinesInv == ASSUME TypeOK, LinesInv, [Next]_vars PROVE LinesInv'
<1>1. CASE \E p \in Producer \cup {Main} : Log(p)
  BY <1>1, BeginKeepsLines DEF Log, Logger
<1>2. CASE RollFails
  BY <1>2, BeginKeepsLines DEF RollFails, Logger
<1>3. CASE EndFlush
  BY <1>3, BeginKeepsLines DEF EndFlush, Logger
<1>4. CASE PushStep
  BY <1>4, PushKeepsLines DEF PushStep
<1>5. CASE PopAndWrite \/ FlushLine
  BY <1>5, WriteKeepsLines DEF PopAndWrite, FlushLine
<1>6. CASE PopAndStop
  BY <1>6, SwallowKeepsLines
<1>7. CASE \/ NextDay \/ Tick \/ SameDay \/ Roll \/ Complained \/ FindEmpty
           \/ BeginFlush \/ Return \/ UNCHANGED vars
  BY <1>7, LinesFrame DEF NextDay, Tick, SameDay, Roll, Complained, FindEmpty,
       BeginFlush, Return, vars, logVars, lineVars
<1>. QED  BY <1>1, <1>2, <1>3, <1>4, <1>5, <1>6, <1>7 DEF Next, TolrStep, MainStep

\* A batch swallows a line only when it has written BatchSize of them.
LEMMA NextBatchInv == ASSUME TypeOK, BatchInv, [Next]_vars PROVE BatchInv'
<1>. DEFINE c == Cardinality(swallowed)
            w == Len(written)
<1>1. /\ BatchSize \in Nat \ {0} /\ c \in Nat /\ w \in Nat /\ item_count \in Nat
      /\ BatchSize * c \in Nat /\ BatchSize * c <= w
  BY LogAssumption, FS_CardinalityType DEF BatchInv, SwallowBound, TypeOK
<1>2. CASE PopAndWrite \/ FlushLine
  <2>1. /\ Len(written') = w + 1
        /\ swallowed' = swallowed /\ tolr' = tolr /\ mainPc' = mainPc
        /\ item_count' = item_count \/ item_count' = item_count + 1
        /\ item_count' = item_count \/ tolr = "drain"
    <3>1. Head(m_logQueue) \in Line
      BY <1>2, TailFacts DEF PopAndWrite, FlushLine, TypeOK
    <3>. QED  BY <1>2, <3>1, AppendFacts DEF PopAndWrite, FlushLine, TypeOK
  <2>2. BatchSize * c <= w + 1
    BY <1>1
  <2>3. tolr \in {"roll", "drain"} => BatchSize * c + item_count' <= w + 1
    BY <1>1, <2>1 DEF BatchInv
  <2>. QED  BY <2>1, <2>2, <2>3 DEF BatchInv, SwallowBound
<1>3. CASE PopAndStop
  <2>1. /\ swallowed' = swallowed \cup {Head(m_logQueue)}
        /\ tolr = "drain" /\ tolr' = "idle" /\ item_count >= BatchSize
        /\ written' = written
    BY <1>3 DEF PopAndStop
  <2>2. /\ IsFiniteSet(swallowed')
        /\ Cardinality(swallowed') = c \/ Cardinality(swallowed') = c + 1
    BY <2>1, FS_AddElement DEF BatchInv
  <2>3. BatchSize * (c + 1) = BatchSize * c + BatchSize
    BY <1>1
  <2>4. BatchSize * c + BatchSize <= w
    BY <1>1, <2>1 DEF BatchInv
  <2>5. BatchSize * Cardinality(swallowed') <= w
    BY <1>1, <2>2, <2>3, <2>4
  <2>. QED  BY <2>1, <2>2, <2>5 DEF BatchInv, SwallowBound
<1>4. CASE Tick
  <2>1. BatchSize * c + 0 <= w
    BY <1>1
  <2>. QED  BY <1>4, <2>1 DEF Tick, BatchInv, SwallowBound
<1>5. CASE SameDay \/ Roll \/ RollFails
  BY <1>5 DEF SameDay, Roll, RollFails, BatchInv, SwallowBound
<1>6. CASE Complained \/ FindEmpty
  BY <1>6 DEF Complained, FindEmpty, BatchInv, SwallowBound
<1>7. UNCHANGED <<swallowed, written, item_count, tolr>> => BatchInv'
  BY DEF BatchInv, SwallowBound
<1>8. CASE \/ NextDay \/ PushStep \/ (\E p \in Producer \cup {Main} : Log(p))
           \/ BeginFlush \/ EndFlush \/ Return \/ UNCHANGED vars
  BY <1>7, <1>8 DEF NextDay, PushStep, Push, Log, BeginFlush, EndFlush, Return, vars
<1>. QED  BY <1>2, <1>3, <1>4, <1>5, <1>6, <1>8 DEF Next, TolrStep, MainStep

\* A roll that fails disarms the timer, so no batch follows it.
LEMMA NextFileInv == ASSUME TypeOK, FileInv, [Next]_vars PROVE FileInv'
<1>. USE DEF FileInv, RightFile, fileVars
<1>1. CASE NextDay
  BY <1>1 DEF NextDay, TypeOK
<1>2. CASE Tick \/ TolrStep
  BY <1>2 DEF Tick, TolrStep, SameDay, Roll, RollFails, Complained, PopAndWrite,
              PopAndStop, FindEmpty, TypeOK
<1>3. CASE \/ PushStep \/ (\E p \in Producer \cup {Main} : Log(p))
           \/ MainStep \/ UNCHANGED vars
  BY <1>3 DEF PushStep, Push, Log, MainStep, BeginFlush, FlushLine, EndFlush,
              Return, vars
<1>. QED  BY <1>1, <1>2, <1>3 DEF Next

\* When main begins to flush nobody else will log; its own last line comes after.
LEMMA NextExitInv ==
  ASSUME TypeOK, PushingInv, ExitInv, [Next]_vars
  PROVE  ExitInv'
<1>. USE DEF logVars
<1>1. CASE mainPc = "serve"
  <2>1. CASE BeginFlush
    BY <1>1, <2>1 DEF BeginFlush, OthersLeft, ExitInv, Logger
  <2>2. CASE ~BeginFlush
    <3>1. mainPc' = "serve"
      BY <1>1, <2>2 DEF Next, Log, PushStep, Push, NextDay, Tick, TolrStep, SameDay,
           Roll, RollFails, Complained, PopAndWrite, PopAndStop, FindEmpty, MainStep,
           FlushLine, EndFlush, Return, vars
    <3>. QED  BY <3>1 DEF ExitInv
  <2>. QED  BY <2>1, <2>2
<1>2. CASE mainPc # "serve"
  <2>1. tolr = "idle" /\ \A p \in Logger \ {Main} : pushing[p] = <<>>
    BY <1>2 DEF ExitInv
  <2>2. ~((\E p \in Producer \cup {Main} : Log(p)) \/ Tick \/ TolrStep \/ BeginFlush)
    BY <1>2, <2>1 DEF Log, Tick, TolrStep, SameDay, Roll, RollFails, Complained,
         PopAndWrite, PopAndStop, FindEmpty, BeginFlush
  <2>3. ASSUME NEW p \in Logger, Push(p) PROVE ExitInv'
    <3>1. p = Main /\ Main \in Logger /\ pushing[Main] # <<>> /\ mainPc = "last"
      BY <1>2, <2>1, <2>3 DEF Push, ExitInv, TypeOK, Logger
    <3>2. m_logQueue = <<>> /\ pushing[Main] = << <<Main, logged[Main] - 1>> >>
      BY <1>2, <3>1 DEF ExitInv, PushingInv
    <3>3. /\ \A q \in Logger \ {Main} : pushing'[q] = <<>>
          /\ pushing'[Main] = <<>>
          /\ UNCHANGED <<mainPc, tolr, logged>>
      BY <2>1, <2>3, <3>1 DEF Push, TypeOK
    <3>4. m_logQueue' = <<>> \/ m_logQueue' = << <<Main, logged[Main] - 1>> >>
      BY <2>3, <3>1, <3>2 DEF Push
    <3>5. \A k \in 1 .. Len(m_logQueue') : m_logQueue'[k] = <<Main, logged'[Main] - 1>>
      BY <3>3, <3>4
    <3>. QED  BY <2>1, <3>1, <3>3, <3>5 DEF ExitInv
  <2>4. CASE FlushLine
    BY <2>4, <1>2 DEF FlushLine, ExitInv
  <2>5. CASE EndFlush
    <3>1. /\ mainPc' = "last" /\ m_logQueue' = <<>> /\ tolr' = tolr
          /\ \A q \in Logger \ {Main} : pushing'[q] = pushing[q]
      BY <2>5 DEF EndFlush, Begin, TypeOK
    <3>. QED  BY <2>1, <3>1 DEF ExitInv
  <2>6. CASE Return
    BY <2>6, <1>2 DEF Return, ExitInv
  <2>7. CASE NextDay \/ UNCHANGED vars
    BY <2>7 DEF NextDay, vars, ExitInv
  <2>. QED  BY <2>2, <2>3, <2>4, <2>5, <2>6, <2>7 DEF Next, PushStep, MainStep
<1>. QED  BY <1>1, <1>2

\* A step of LogQueue keeps the invariant.
LEMMA NextIInv == ASSUME IInv, [Next]_vars PROVE IInv'
BY NextTypeOK, NextLinesInv, NextBatchInv, NextFileInv, NextExitInv DEF IInv, LinesInv

\* The invariant of every behaviour, from which the theorems follow.
THEOREM Invariance == Spec => []IInv
<1>1. Init => IInv
  BY InitIInv
<1>2. IInv /\ [Next]_vars => IInv'
  BY NextIInv
<1>. QED  BY <1>1, <1>2, PTL DEF Spec

-----------------------------------------------------------------------------
(***************************************************************************)
(* The theorems.                                                           *)
(***************************************************************************)
\* Every variable has its type.
THEOREM TypeCorrect == Spec => []TypeOK
<1>1. IInv => TypeOK
  BY DEF IInv
<1>. QED  BY <1>1, Invariance, PTL

\* What the invariant says of the four places a line can be in.
LEMMA AccountedFor == ASSUME IInv PROVE LinesAccounted
<1>. SUFFICES ASSUME NEW p \in Logger, NEW n \in 0 .. logged[p] - 1
             PROVE  Times(<<p, n>>, pushing[p]) + Times(<<p, n>>, m_logQueue)
                      + Times(<<p, n>>, written)
                      + Cardinality({<<p, n>>} \cap swallowed) = 1
  BY DEF LinesAccounted
<1>. DEFINE l == <<p, n>>
            P == In(l, pushing[p])
            Q == In(l, m_logQueue)
            W == In(l, written)
<1>1. /\ logged[p] \in Nat /\ n \in Nat /\ n < logged[p]
      /\ l \in Line /\ l[1] = p /\ l[2] = n
      /\ m_logQueue \in Seq(Line) /\ written \in Seq(Line) /\ pushing[p] \in Seq(Line)
  BY LineOf DEF IInv, TypeOK
<1>. HIDE DEF l
<1>2. /\ P => l \notin HandedOn
      /\ ~P => l \in HandedOn
      /\ Sorted(pushing[p])
  <2>1. CASE pushing[p] = <<>>
    <3>1. Len(pushing[p]) = 0
      BY <2>1
    <3>. QED  BY <1>1, <3>1 DEF HandedOn, In, Sorted
  <2>2. CASE pushing[p] # <<>>
    <3>1. pushing[p] = << <<p, logged[p] - 1>> >>
      BY <2>2 DEF IInv, LinesInv, PushingInv
    <3>2. Len(pushing[p]) = 1 /\ pushing[p][1] = <<p, logged[p] - 1>>
      BY <3>1
    <3>3. P <=> n = logged[p] - 1
      BY <1>1, <3>2 DEF In, l
    <3>4. l \in HandedOn <=> n < logged[p] - 1
      BY <1>1, <3>2 DEF HandedOn
    <3>5. Sorted(pushing[p])
      BY <3>2 DEF Sorted
    <3>. QED  BY <1>1, <3>3, <3>4, <3>5
  <2>. QED  BY <2>1, <2>2
<1>3. /\ Q \/ W \/ l \in swallowed => l \in HandedOn
      /\ ~(Q /\ W)
      /\ Q \/ W => l \notin swallowed
      /\ l \in HandedOn => Q \/ W \/ l \in swallowed
  <2>1. ASSUME Q, W PROVE FALSE
    <3>1. PICK i \in 1 .. Len(written), j \in 1 .. Len(m_logQueue) :
                 written[i] = l /\ m_logQueue[j] = l
      BY <2>1 DEF In
    <3>2. l[2] < l[2]
      BY <3>1 DEF IInv, LinesInv, StreamInv
    <3>. QED  BY <1>1, <3>2
  <2>. QED  BY <2>1 DEF IInv, LinesInv, PlacesInv, CoverInv, In
<1>4. /\ Times(l, pushing[p]) = IF P THEN 1 ELSE 0
      /\ Times(l, m_logQueue) = IF Q THEN 1 ELSE 0
      /\ Times(l, written) = IF W THEN 1 ELSE 0
  BY <1>1, <1>2, TimesInSorted DEF IInv, LinesInv, StreamInv
<1>5. ASSUME NEW S PROVE Cardinality({l} \cap S) = IF l \in S THEN 1 ELSE 0
  <2>1. CASE l \in S
    BY <2>1, FS_Singleton, {l} \cap S = {l}
  <2>2. CASE l \notin S
    BY <2>2, FS_EmptySet, {l} \cap S = {}
  <2>. QED  BY <2>1, <2>2
<1>6. Times(l, pushing[p]) + Times(l, m_logQueue) + Times(l, written)
        + Cardinality({l} \cap swallowed) = 1
  <2>. HIDE DEF P, Q, W
  <2>. QED  BY <1>2, <1>3, <1>4, <1>5
<1>. QED  BY <1>6 DEF l

\* Whatever the threads, the batches, the midnights and the exit of main do, every
\* line that LOG_xxx began is in one place only, and lost only by a full batch.
THEOREM EveryLineAccounted == Spec => []LinesAccounted
BY AccountedFor, Invariance, PTL

\* The file has the lines of a thread in the order it logged them.
THEOREM OrderIsKept == Spec => []OrderKept
<1>1. IInv => OrderKept
  BY DEF IInv, LinesInv, StreamInv, Sorted, OrderKept
<1>. QED  BY <1>1, Invariance, PTL

\* pop() before the look at item_count costs one line per full batch, no more.
THEOREM SwallowsAreBounded == Spec => []SwallowBound
<1>1. IInv => SwallowBound
  BY DEF IInv, BatchInv
<1>. QED  BY <1>1, Invariance, PTL

\* A batch of process_timeout_logrecord_message goes to the file of the day that
\* its own look at the date has seen.
THEOREM RightFileIsWritten == Spec => []RightFile
<1>1. IInv => RightFile
  BY DEF IInv, FileInv
<1>. QED  BY <1>1, Invariance, PTL

\* flush_logrecord leaves nothing behind but what main logs after it.
THEOREM FlushIsComplete == Spec => []FlushedAtExit
<1>1. IInv => FlushedAtExit
  BY DEF IInv, ExitInv, FlushedAtExit
<1>. QED  BY <1>1, Invariance, PTL
=============================================================================

----------------------------- MODULE ConfigFile -----------------------------
(***************************************************************************)
(* The configuration file: CFileReader takes it line by line through       *)
(* StAnalyzeIni into a map from section and key to value, and CConfig asks *)
(* the map for its settings.                                               *)
(*                                                                         *)
(* What a line says and how it is written are kept apart: a line is a      *)
(* record, Render is the text an editor leaves in the file, a sequence of  *)
(* one-character strings, and StAnalyzeIni sees only the text.  Positions  *)
(* count from 1, and 0 stands for string::npos.                            *)
(***************************************************************************)
EXTENDS Naturals, Sequences, SequencesExt

CONSTANTS
  Char,      \* the characters, as strings of length one
  Files,     \* the files, sequences of lines
  Settings,  \* the pairs <<section, key>> that CConfig::init asks for
  Default    \* its default for all of them

\* [kind |-> "section", name], [kind |-> "noise", text], or an entry
\* [kind |-> "entry", key, lead, value, gap, mark, comment, cr]: lead blanks behind
\* "=", the value, gap blanks, the mark of an inline comment and what follows it,
\* or twice <<>>, CR or not.
Spaces(n) == [i \in 1 .. n |-> " "]

Render(l) ==
  CASE l.kind = "section" -> <<"[">> \o l.name \o <<"]">>
    [] l.kind = "noise"   -> l.text
    [] l.kind = "entry"   ->
         <<" ">> \o l.key \o <<" ", "=">> \o Spaces(l.lead) \o l.value \o
         Spaces(l.gap) \o l.mark \o l.comment \o (IF l.cr THEN <<"\r">> ELSE <<>>)

Text  == Seq(Char)
Blank == {" ", "\t"}
White == Blank \cup {"\r", "\n"}

\* What an editor may leave in a line of each kind.  StAnalyzeIni passes over a
\* noise line: it is a comment, or has neither "=" nor "[", or has no key.
Comment(text) == \E i \in 1 .. Len(text) :
                   text[i] = "#" /\ \A j \in 1 .. i - 1 : text[j] \in White
NoEntry(text) == \A i \in 1 .. Len(text) : text[i] \notin {"=", "["}
NoKey(text)   == \E i \in 1 .. Len(text) :
                   text[i] = "=" /\ \A j \in 1 .. i - 1 : text[j] \in Blank

\* A key begins and ends with what is no blank, is no comment and has no "=";
\* a value begins and ends with what is no blank and contains no mark.  A comment
\* may contain anything, marks too.
IsKey(text) ==
  /\ text \in Text /\ text # <<>>
  /\ text[1] \notin White \cup {"#"} /\ text[Len(text)] \notin Blank
  /\ \A i \in 1 .. Len(text) : text[i] # "="

IsValue(text) ==
  /\ text \in Text
  /\ text # <<>> => text[1] \notin White /\ text[Len(text)] \notin White
  /\ \A i \in 1 .. Len(text) - 1 : text[i] \in Blank => text[i + 1] \notin {"#", "\\"}

IsLine(l) ==
  CASE l.kind = "section" -> /\ l.name \in Text
                             /\ \A i \in 1 .. Len(l.name) : l.name[i] # "="
    [] l.kind = "noise"   -> /\ l.text \in Text
                             /\ Comment(l.text) \/ NoEntry(l.text) \/ NoKey(l.text)
    [] l.kind = "entry"   -> /\ IsKey(l.key) /\ IsValue(l.value)
                             /\ l.lead \in Nat /\ l.gap \in Nat /\ l.cr \in BOOLEAN
                             /\ \/ l.mark = <<>> /\ l.comment = <<>>
                                \/ l.mark \in Blank \X {"#", "\\"} /\ l.comment \in Text
    [] OTHER              -> FALSE

ASSUME FileAssumption ==
  /\ White \cup {"[", "]", "=", "#", "\\"} \subseteq Char
  /\ \A f \in Files : Len(f) \in Nat /\ \A n \in 1 .. Len(f) : IsLine(f[n])
  /\ \A sk \in Settings : sk \in Text \X Text /\ sk[1] # <<>>

VARIABLES
  file,      \* the lines
  pos,       \* how many of them have been analyzed
  strSect,   \* the section of the last header
  m_IniMap,  \* [pairs <<section, key>> -> value]
  config     \* [Settings -> value], when it has been read

vars == <<file, pos, strSect, m_IniMap, config>>

Init ==
  /\ file \in Files /\ pos = 0
  /\ strSect = <<>> /\ m_IniMap = [sk \in {} |-> <<>>]
  /\ config = [sk \in {} |-> <<>>]

-----------------------------------------------------------------------------
(***************************************************************************)
(* Text.                                                                   *)
(***************************************************************************)
Find(text, c)        == SelectInSeq(text, LAMBDA x : x = c)
RFind(text, c)       == SelectLastInSeq(text, LAMBDA x : x = c)
FirstNotOf(text, cs) == SelectInSeq(text, LAMBDA x : x \notin cs)
LastNotOf(text, cs)  == SelectLastInSeq(text, LAMBDA x : x \notin cs)

\* Without the characters of cs at both ends.
Strip(text, cs) ==
  IF FirstNotOf(text, cs) = 0 THEN <<>>
  ELSE SubSeq(text, FirstNotOf(text, cs), LastNotOf(text, cs))

TrimSpace(text) == Strip(text, White)

\* text.find(pair, from).
FindPair(text, pair, from) ==
  LET at == {i \in 1 .. Len(text) - 1 : from # 0 /\ i >= from
                                          /\ SubSeq(text, i, i + 1) = pair}
  IN  IF at = {} THEN 0 ELSE Min(at)

Marks == << <<"\t", "#">>, <<" ", "#">>, <<"\t", "\\">>, <<" ", "\\">> >>

\* Where the first of the four marks that is found anywhere begins.
FindMark(text, from) ==
  LET found == {k \in 1 .. 4 : FindPair(text, Marks[k], from) # 0}
  IN  IF found = {} THEN 0 ELSE FindPair(text, Marks[Min(found)], from)

-----------------------------------------------------------------------------
(***************************************************************************)
(* StAnalyzeIni.                                                           *)
(***************************************************************************)
IsComment(text) == Find(TrimSpace(text), "#") = 1

\* There is a bracket of each kind, not "][", and no "=".
IsHeader(text) ==
  LET first == Find(text, "[")
      last  == RFind(text, "]")
  IN  first # 0 /\ last # 0 /\ first # last + 1 /\ Find(text, "=") = 0

\* A negative length is a very large one.
HeaderName(text) ==
  LET first == Find(text, "[")
      last  == RFind(text, "]")
  IN  SubSeq(text, first + 1, IF last < first THEN Len(text) ELSE last - 1)

KeyOf(text) == Strip(SubSeq(text, 1, Find(text, "=") - 1), Blank)

\* Mutant: inline comments are not looked for.
ValueOf_WithComment(text) ==
  Strip(SubSeq(text, Find(text, "=") + 1, Len(text)), Blank)

\* The text behind "=" up to an inline comment: the position of the comment is
\* counted from "=" but the length is taken from the first non-blank.
ValueOf(text) ==
  LET strtmp2 == SubSeq(text, Find(text, "=") + 1, Len(text))
      first   == FirstNotOf(strtmp2, Blank)
      last    == FindMark(strtmp2, first)
      cut     == IF last = 0 THEN strtmp2 ELSE SubSeq(strtmp2, 1, last - first)
  IN  IF first = 0 THEN <<>> ELSE Strip(cut, Blank)

\* The header's section goes on to the next one; an entry outside a section,
\* without a key or without a value is passed over.
AnalyzeLine ==
  /\ pos < Len(file)
  /\ pos' = pos + 1
  /\ LET text == Render(file[pos'])
         at   == <<strSect, KeyOf(text)>>
         skip == \/ IsComment(text) \/ strSect = <<>> \/ Find(text, "=") = 0
                 \/ KeyOf(text) = <<>> \/ ValueOf(text) = <<>>
     IN  /\ strSect' = IF ~IsComment(text) /\ IsHeader(text) THEN HeaderName(text)
                       ELSE strSect
         /\ m_IniMap' = IF skip THEN m_IniMap
                        ELSE [sk \in DOMAIN m_IniMap \cup {at} |->
                                IF sk = at THEN ValueOf(text) ELSE m_IniMap[sk]]
  /\ UNCHANGED <<file, config>>

-----------------------------------------------------------------------------
\* Mutant: the value is returned as it is in the map.
Get_Profile_Str_Untrimmed(sk) ==
  IF sk \notin DOMAIN m_IniMap THEN Default ELSE m_IniMap[sk]

Get_Profile_Str(sk) ==
  IF sk \notin DOMAIN m_IniMap THEN Default ELSE TrimSpace(m_IniMap[sk])

\* CConfig::init.
ReadConfig ==
  /\ pos = Len(file) /\ DOMAIN config # Settings
  /\ config' = [sk \in Settings |-> Get_Profile_Str(sk)]
  /\ UNCHANGED <<file, pos, strSect, m_IniMap>>

Next == AnalyzeLine \/ ReadConfig

Spec == Init /\ [][Next]_vars

-----------------------------------------------------------------------------
\* The entries for sk: those with its key between a header of its section and
\* the next header, in the order of the file, by line number.
SectionAt(n) ==
  LET heads == {i \in 1 .. n : file[i].kind = "section"}
  IN  IF heads = {} THEN <<>> ELSE file[CHOOSE i \in heads : \A j \in heads : j <= i].name

EntriesFor(sk) ==
  {n \in 1 .. Len(file) :
     file[n].kind = "entry" /\ file[n].key = sk[2] /\ SectionAt(n) = sk[1]}

Plain(l)     == l.mark = <<>>
Commented(l) == l.mark # <<>> /\ l.value # <<>>

\* An entry that is not passed over: a CR is a value to StAnalyzeIni.
Gives(l) == l.value # <<>> \/ l.cr

\* The comment contains a mark that StAnalyzeIni looks for before the comment's own,
\* and so takes for the beginning of the comment: "8000 # was<TAB># 80" is cut at
\* the tab.
Misleading(l) ==
  \E k \in 1 .. 4 : \E j \in 1 .. k - 1 :
    /\ l.mark = Marks[k]
    /\ \E i \in 1 .. Len(l.comment) - 1 : <<l.comment[i], l.comment[i + 1]>> = Marks[j]

\* A setting whose entries carry no inline comment has the value of the last one
\* that gives any, without the blanks around it and the CR behind it, or else the
\* default, whatever comments, blank lines and other sections the file contains.
\* In a file with CRLF an empty entry does not stand for the default: it makes the
\* setting empty, and hides what the entries before it gave.
PlainValueIsRead ==
  DOMAIN config = Settings =>
    \A sk \in Settings :
      (\A n \in EntriesFor(sk) : Plain(file[n])) =>
        LET given == {n \in EntriesFor(sk) : Gives(file[n])}
        IN  config[sk] = IF given = {} THEN Default
                         ELSE file[CHOOSE n \in given : \A m \in given : m <= n].value

\* With a value and an inline comment that does not mislead the search a setting
\* never takes in any of the comment; but what is left of its value is only sure to
\* be all of it if the comment stands off by as many blanks as the value does.  (Of a
\* misleading comment the code takes what stands before the other mark, and an
\* entry that has nothing but a comment has the comment for its value.)
CommentIsNoValue ==
  DOMAIN config = Settings =>
    \A sk \in Settings : \A n \in EntriesFor(sk) :
      EntriesFor(sk) = {n} /\ Commented(file[n]) /\ ~Misleading(file[n]) =>
        /\ config[sk] = Default \/ IsPrefix(config[sk], file[n].value)
        /\ file[n].gap >= file[n].lead => config[sk] = file[n].value
=============================================================================

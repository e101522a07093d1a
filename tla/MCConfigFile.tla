---------------------------- MODULE MCConfigFile ----------------------------
(***************************************************************************)
(* ConfigFile with the files of four lines: a header, an entry, a header   *)
(* or a line that says nothing, and an entry written in every way.         *)
(***************************************************************************)
EXTENDS ConfigFile

SomeChars == White \cup {"[", "]", "=", "#", "\\", "c", "d", "k", "m", "o", "x", "0", "1", "6"}

Sections == {[kind |-> "section", name |-> n] : n \in {<<"m">>, <<"o">>}}

Noise == {[kind |-> "noise", text |-> t] :
            t \in { <<" ", "#", "m", "=", "x">>, <<"\r">>,
                    <<"#", "[", "o", "]">>, <<"=", "x">> }}

\* Marks and comments: short ones, and ones with a second mark, of the same kind,
\* of one looked for later, and of one looked for earlier.
Comments ==
  { << <<>>, <<>> >>, << <<"\t", "#">>, <<"c">> >>,
    << <<" ", "\\">>, <<"c">> >>, << <<" ", "#">>, <<"c", " ", "\\">> >>,
    << <<" ", "#">>, <<"c", " ", "#", "c">> >>, << <<" ", "#">>, <<"c", "\t", "#">> >> }

Entries ==
  {[kind |-> "entry", key |-> <<"k">>, lead |-> a, value |-> v, gap |-> g,
    mark |-> m[1], comment |-> m[2], cr |-> c] :
     a \in 0 .. 2, g \in 0 .. 2, c \in BOOLEAN,
     v \in {<<>>, <<"#", "1">>, <<"1", "6", " ", "0">>}, m \in Comments}

FirstEntries ==
  {e \in Entries : e.gap = 0 /\ e.lead = 1 /\ Len(e.comment) < 2 /\ e.mark # <<"\t", "#">>}

SomeFiles ==
  {<<s, e, x, f>> : s \in Sections, e \in FirstEntries,
                    x \in Sections \cup Noise, f \in Entries}

SomeSettings == {<< <<"m">>, <<"k">> >>, << <<"o">>, <<"k">> >>}
SomeDefault  == <<"d">>
=============================================================================

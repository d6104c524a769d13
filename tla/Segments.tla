------------------------------- MODULE Segments ------------------------------
(***************************************************************************)
(* How a manuscript becomes segments (worker/stages/parse.py:25).  A line  *)
(* is [label, words]: "ALICE: Hello." has both, "ALICE:" only a label,     *)
(* prose only words, a blank line neither.  Lines have no white space at   *)
(* their ends.                                                             *)
(***************************************************************************)
EXTENDS Naturals, SequencesExt

CONSTANT Nothing  \* no label, no words

Line(label, words) == [label |-> label, words |-> words]

Segment(speaker, lines) == [speaker |-> speaker, text |-> lines]

\* A finite set of numbers in ascending order; the elements of s at the positions I.
InOrder(S) ==
  CHOOSE s \in [1 .. Cardinality(S) -> S] : \A i, j \in DOMAIN s : i < j => s[i] < s[j]
Picked(s, I) == [k \in 1 .. Cardinality(I) |-> s[InOrder(I)[k]]]

Blank(line) == line = Line(Nothing, Nothing)
IsBare(line) == line.label # Nothing /\ line.words = Nothing
Labelled(line) == line.label # Nothing /\ line.words # Nothing

\* Only blank lines, if any, are between line i and a bare label before it.
AfterBare(text, i) ==
  \E b \in 1 .. i - 1 : IsBare(text[b]) /\ \A j \in b + 1 .. i - 1 : Blank(text[j])

\* Variant: the search goes on behind the line after the match.
MatchesSkip(text) ==
  LET found[i \in Nat] ==
        IF i > Len(text) THEN <<>>
        ELSE IF Labelled(text[i])
             THEN <<Segment(text[i].label, <<Line(Nothing, text[i].words)>>)>> \o found[i + 2]
             ELSE found[i + 1]
  IN found[1]

\* SPEAKER_RE.findall.  The \s* behind the colon runs over line ends: a bare label
\* takes the next line that is not blank, whatever it is, as its text.
Matches(text) ==
  LET found[i \in Nat] ==
        LET next == {j \in i + 1 .. Len(text) : ~Blank(text[j])} IN
        IF i > Len(text) THEN <<>>
        ELSE IF Labelled(text[i])
             THEN <<Segment(text[i].label, <<Line(Nothing, text[i].words)>>)>> \o found[i + 1]
        ELSE IF IsBare(text[i]) /\ next # {}
             THEN <<Segment(text[i].label, <<text[Min(next)]>>)>> \o found[Min(next) + 1]
             ELSE found[i + 1]
  IN found[1]

\* re.split on blank lines: the longest runs of lines that are not blank.
Paragraphs(text) ==
  LET start == {i \in DOMAIN text : ~Blank(text[i]) /\ (i > 1 => Blank(text[i - 1]))}
      end(i) == Min({j \in i .. Len(text) : j < Len(text) => Blank(text[j + 1])})
  IN  [k \in 1 .. Cardinality(start) |->
         LET i == InOrder(start)[k] IN SubSeq(text, i, end(i))]

\* _parse_segments.
ParseSegments(text) ==
  IF Matches(text) # <<>> THEN Matches(text)
  ELSE [k \in DOMAIN Paragraphs(text) |-> Segment("NARRATOR", Paragraphs(text)[k])]

=============================================================================

---------------------------- MODULE TextChunker ----------------------------
(***************************************************************************)
(* How a long text is cut into the chunks of the non-diarised mode         *)
(* (app/services/jdr/text_chunker.py).  Of a character only its role in    *)
(* the search for a cut is kept.                                           *)
(***************************************************************************)
EXTENDS Naturals, SequencesExt, FiniteSetsExt

Blanks == {"space", "newline"}
Char == Blanks \cup {"stop", "letter"}

(* str.strip and str.lstrip.                                               *)
Ink(t) == {i \in DOMAIN t : t[i] \notin Blanks}
LStrip(t) == IF Ink(t) = {} THEN <<>> ELSE SubSeq(t, Min(Ink(t)), Len(t))
Strip(t) ==
  IF Ink(t) = {} THEN <<>> ELSE SubSeq(t, Min(Ink(t)), Max(Ink(t)))

(* The cuts, as lengths of the part that comes before: after a blank line, *)
(* after a full stop and the blank that follows, after a space.            *)
Paragraphs(t, max) ==
  {i + 1 : i \in {j \in 2 .. max - 1 : t[j] = "newline"
                                       /\ t[j + 1] = "newline"}}
SentenceEnds(t, max) ==
  {i + 1 : i \in {j \in 1 .. max - 1 : t[j] = "stop" /\ t[j + 1] \in Blanks}}

MutantSpaces(t, max) == {i \in {0} : t[i + 1] = "space"}
Spaces(t, max) == {i \in 2 .. max : t[i] = "space"}

MutantCutPoint(t, max) ==
  LET last(cuts) == IF cuts = {} THEN max ELSE Max(cuts) + 1 IN
  last(Paragraphs(t, max) \cup SentenceEnds(t, max) \cup Spaces(t, max))

(* _find_cut_point, for a text longer than max.                            *)
CutPoint(t, max) ==
  CASE Paragraphs(t, max) # {} -> Max(Paragraphs(t, max))
    [] Paragraphs(t, max) = {} /\ SentenceEnds(t, max) # {} ->
         Max(SentenceEnds(t, max))
    [] Paragraphs(t, max) \cup SentenceEnds(t, max) = {}
       /\ Spaces(t, max) # {} -> Max(Spaces(t, max))
    [] OTHER -> max

(* chunk_text: at is what precedes remaining.                              *)
Chunks(text, max) ==
  LET t == Strip(text)
      n == Len(t)
      from[at \in 0 .. n] ==
        LET rest == SubSeq(t, at + 1, n)
            cut == IF n - at <= max THEN n - at ELSE CutPoint(rest, max)
            head == Strip(SubSeq(rest, 1, cut))
            remaining == LStrip(SubSeq(rest, cut + 1, n - at))
        IN IF at = n THEN <<>>
           ELSE (IF head = <<>> THEN <<>> ELSE <<head>>)
                  \o from[n - Len(remaining)]
  IN from[0]
=============================================================================

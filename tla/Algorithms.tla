----------------------------- MODULE Algorithms -----------------------------
(***************************************************************************)
(* The pure algorithms of the pipeline, each run once on an input, and     *)
(* what its result must be, said without the algorithm.                    *)
(***************************************************************************)
EXTENDS Integers, SequencesExt, FiniteSetsExt

CONSTANTS
  MaxText,    \* bound: characters of a text
  MaxNumber,  \* bound: sizes, times and the numbers of a header
  MaxPieces,  \* bound: parts and their segments, a block, a gap, a bucket
  Speakers, Names, Categories,
  Absent, Malformed, Empty, Fail, Other, Blank, NotRun

Chunker == INSTANCE TextChunker
Audio == INSTANCE AudioRange
Speech == INSTANCE Segments
Cards == INSTANCE Elements

VARIABLES task, result
vars == <<task, result>>

Numbers == 0 .. MaxNumber
SeqsUpTo(S, n) == UNION {[1 .. k -> S] : k \in 0 .. n}

----------------------------------------------------------------------------
(* The inputs.                                                             *)

ChunkTasks ==
  [kind : {"chunk"}, text : SeqsUpTo(Chunker!Char, MaxText), max : 1 .. MaxNumber + 1]

Headers == {Absent, Malformed}
           \cup [start : {Empty} \cup Numbers,
                 end : {Empty} \cup (-1 .. MaxNumber)]
RangeTasks == [kind : {"range"}, header : Headers, size : Numbers,
               actual : Numbers, block : 1 .. MaxPieces]

Spans == {s \in Numbers \X Numbers : s[1] <= s[2]}
Duration == MaxNumber
Parts == {p \in SeqsUpTo(Spans, MaxPieces) :
            \A j \in 1 .. Len(p) - 1 : p[j][2] <= p[j + 1][1]}
StitchTasks == [kind : {"stitch"}, parts : SeqsUpTo(Parts, MaxPieces)]

GroupTasks ==
  [kind : {"group"}, turns : SeqsUpTo(Speakers \X Spans, MaxPieces + 1),
   gap : 1 .. MaxPieces]

Entries == {Other} \cup [name : Names \cup {Blank}, description : {"d"},
                         category : Categories \cup {Blank}]
BucketContents == {[npcs |-> l, locations |-> <<>>, items |-> <<>>, clues |-> m] :
                     l, m \in SeqsUpTo(Entries, MaxPieces)}
Replies == [whole : {Fail, Other} \cup BucketContents, fenced : {Fail},
            braced : {Fail}]
           \cup [whole : {Fail}, fenced : {Fail, Other} \cup BucketContents,
                 braced : {Fail, Other}]
           \cup [whole : {Fail}, fenced : {Fail}, braced : BucketContents]
ReplyTasks == [kind : {"reply"}, reply : Replies]
CardTasks == [kind : {"card"}, elements : SeqsUpTo(Entries, MaxPieces + 1)]

(* The labels are not blank, and Other is no row and no list.              *)
Labels == {Cards!DefaultCategory} \cup {Cards!Label[b] : b \in DOMAIN Cards!Label}
Row == [category : Categories \cup Labels, name : Names, description : {"d"}]
ASSUME AlgorithmsAssumption ==
  /\ MaxText \in Nat
  /\ MaxNumber \in Nat
  /\ MaxPieces \in Nat
  /\ Absent # Malformed
  /\ Empty \notin Int
  /\ Blank \notin Names \cup Categories \cup Labels
  /\ Other \notin Row \cup Seq(Row) \cup Seq(Entries)

----------------------------------------------------------------------------
(* One run.                                                                *)

Segment(speaker, span, text) ==
  [speaker |-> speaker, start |-> span[1], end |-> span[2], text |-> text]

PartsOf(t) ==
  [i \in DOMAIN t.parts |->
     [j \in DOMAIN t.parts[i] |->
        Segment("unknown", t.parts[i][j], <<i, j>>)]]
TurnsOf(t) ==
  [i \in DOMAIN t.turns |-> Segment(t.turns[i][1], t.turns[i][2], <<i>>)]

(* A range that is refused, or the whole file, streams nothing here.       *)
Answer(t) ==
  LET range == Audio!ParseRange(t.header, t.size) IN
  [range |-> range,
   blocks |-> IF range.status # 206 THEN <<>>
              ELSE Audio!Stream(range.start, range.end - range.start + 1,
                                t.block, t.actual)]

Run(t) ==
  CASE t.kind = "chunk" -> Chunker!Chunks(t.text, t.max)
    [] t.kind = "range" -> Answer(t)
    [] t.kind = "stitch" -> Speech!Stitch(PartsOf(t), Duration)
    [] t.kind = "group" -> Speech!GroupSegments(TurnsOf(t), t.gap)
    [] t.kind = "reply" -> Cards!Flatten(Cards!ParseReply(t.reply))
    [] t.kind = "card" -> Cards!Rows([elements |-> t.elements])

Init ==
  /\ task \in ChunkTasks \cup RangeTasks \cup StitchTasks \cup GroupTasks
             \cup ReplyTasks \cup CardTasks
  /\ result = NotRun

Next ==
  /\ result = NotRun
  /\ result' = Run(task)
  /\ UNCHANGED task

Spec == Init /\ [][Next]_vars

Done(kind) == task.kind = kind /\ result # NotRun

----------------------------------------------------------------------------
NotBlank(c) == c \notin Chunker!Blanks

Printed(t) ==
  FlattenSeq([i \in DOMAIN t |-> IF NotBlank(t[i]) THEN <<t[i]>> ELSE <<>>])

(* No chunk is longer than the maximum, empty, or blank at an end, and     *)
(* together they hold every character of the text that is not blank, in    *)
(* order.                                                                  *)
ChunksKeepTheText ==
  /\ \A i \in DOMAIN result :
       LET c == result[i] IN /\ Len(c) \in 1 .. task.max
                             /\ NotBlank(c[1]) /\ NotBlank(c[Len(c)])
  /\ Printed(FlattenSeq(result)) = Printed(task.text)

(* Chunk i ends with the k-th character of the text.                       *)
EndsAt(i, k) ==
  /\ NotBlank(task.text[k])
  /\ Len(Printed(SubSeq(task.text, 1, k)))
       = Len(Printed(FlattenSeq(SubSeq(result, 1, i))))

NoBetterCut(c, max) ==
  /\ Len(c) = max
  /\ \A j \in DOMAIN c :
       /\ c[j] # "space"
       /\ j < Len(c) /\ c[j + 1] = "newline" => c[j] \notin {"stop", "newline"}

(* A word is cut only when nothing better is in reach: the chunk that ends *)
(* inside a word is as long as can be and holds no space, no end of a      *)
(* sentence and no blank line.  (A single newline is not a boundary,       *)
(* although the docstring says "whitespace".)                              *)
WordsAreCutLast ==
  \A i \in 1 .. Len(result) - 1 : \A k \in 1 .. Len(task.text) - 1 :
    EndsAt(i, k) /\ NotBlank(task.text[k + 1]) => NoBetterCut(result[i], task.max)

(* Chunks lose nothing of the text, fit, and cut words last.               *)
TextIsChunked == Done("chunk") => ChunksKeepTheText /\ WordsAreCutLast

Asked(h, size) ==
  IF h.start = Empty
  THEN IF h.end = Empty THEN {}
       ELSE {b \in 0 .. size - 1 : b >= size - h.end}
  ELSE {b \in 0 .. size - 1 :
          b >= h.start /\ (h.end # Empty => b <= h.end)}

(* The bytes that are streamed are the bytes the header asks for, as many  *)
(* of them as the file has; a range without a byte of the file, and        *)
(* nothing else, is refused.  A file that has become shorter meanwhile     *)
(* ends the stream early: the announced length is then wrong.              *)
RangeServesWhatWasAsked ==
  Done("range") =>
    LET sent == FlattenSeq([i \in DOMAIN result.blocks |->
                  [j \in 1 .. result.blocks[i][2] |->
                     result.blocks[i][1] + j - 1]])
        asked == Asked(task.header, task.size)
        served == {b \in asked : b < task.actual}
    IN CASE task.header = Absent -> result.range.status = 200
         [] task.header = Malformed -> result.range.status = 416
         [] OTHER ->
              /\ result.range.status = IF asked = {} THEN 416 ELSE 206
              /\ sent = [i \in 1 .. Cardinality(served) |->
                           Min(served) + i - 1]

(* Segments that are in order within the parts of the audio are in order   *)
(* in the whole, and a time of part i lies in the i-th stretch of it.      *)
StitchedInOrder ==
  /\ \A i \in 1 .. Len(result) - 1 : result[i].end <= result[i + 1].start
  /\ \A i \in DOMAIN result :
       LET part == result[i].text[1] IN
       /\ (part - 1) * Duration <= result[i].start
       /\ result[i].start <= result[i].end
       /\ result[i].end <= part * Duration

(* The paragraphs are the longest runs of segments of one speaker without  *)
(* a silence as long as the gap, whatever the lengths of the segments.     *)
ParagraphsAreMaximal ==
  LET turns == TurnsOf(task)
      joined(i) == /\ turns[i].speaker = turns[i + 1].speaker
                   /\ turns[i + 1].start - turns[i].end < task.gap
      last(p) == p.text[Len(p.text)]
  IN /\ FlattenSeq([i \in DOMAIN result |-> result[i].text])
          = [i \in DOMAIN turns |-> i]
     /\ \A i \in DOMAIN result :
          LET p == result[i] IN
          /\ p.start = turns[p.text[1]].start
          /\ p.end = turns[last(p)].end
          /\ \A k \in p.text[1] .. last(p) - 1 : joined(k)
          /\ i < Len(result) => ~joined(last(p))

(* Segments keep their order and times from the adapter to the export.     *)
SegmentsKeepTheirPlace ==
  /\ Done("stitch") => StitchedInOrder
  /\ Done("group") => ParagraphsAreMaximal

(* A card reads the same from the stored rows and from the buckets that    *)
(* cards of before the rows hold.                                          *)
ElementsReadBack ==
  LET buckets == Cards!ParseReply(task.reply) IN
  /\ result = Cards!Rows([elements |-> result])
  /\ result = Cards!Rows([elements |-> Other, buckets |-> buckets])

RowsOf(rows, category) ==
  FlattenSeq([i \in DOMAIN rows |->
    IF rows[i].category = category THEN <<rows[i]>> ELSE <<>>])

(* Every element that has a name is filed under a category, and the export *)
(* lists each once, in order within its category.  The sections are the    *)
(* categories that have elements: the docstring of render_elements_md      *)
(* (markdown.py:177) still says that empty ones are printed too, so that   *)
(* there are always four, which is not so since categories are free-form.  *)
ElementsAreFiled ==
  LET groups == Cards!Grouped(result) IN
  /\ [i \in DOMAIN result |-> result[i].name]
       = FlattenSeq([i \in DOMAIN task.elements |->
           IF Cards!Named(task.elements[i])
           THEN <<task.elements[i].name>> ELSE <<>>])
  /\ \A i \in DOMAIN result : result[i].category # Blank
  /\ \A i, j \in DOMAIN groups :
       groups[i].category = groups[j].category => i = j
  /\ {groups[i].category : i \in DOMAIN groups}
       = {result[i].category : i \in DOMAIN result}
  /\ \A i \in DOMAIN groups :
       groups[i].rows = RowsOf(result, groups[i].category)

(* Elements survive the two shapes a card has had, and the export: both    *)
(* keep each named element once, under a category.                         *)
ElementsAreKept ==
  /\ Done("reply") => ElementsReadBack
  /\ Done("card") => ElementsAreFiled
=============================================================================

------------------------------ MODULE Elements ------------------------------
(***************************************************************************)
(* The elements card: the reply of the LLM parsed into four buckets        *)
(* (app/jobs/jdr.py), flattened to rows and read back                      *)
(* (app/services/jdr/elements.py), grouped in the Markdown export.  A JSON *)
(* value is [buckets], a list of entries per bucket, [rows], or Other; an  *)
(* entry is Other or [name, description, category], each possibly Blank.   *)
(***************************************************************************)
EXTENDS Integers, SequencesExt

CONSTANTS Fail, Other, Blank

Buckets == <<"npcs", "locations", "items", "clues">>
Label == [npcs |-> "PNJ", locations |-> "Lieux", items |-> "Objets",
          clues |-> "Indices"]
DefaultCategory == "Autres"
EmptyBuckets == [b \in ToSet(Buckets) |-> <<>>]

Named(entry) == IF entry = Other THEN FALSE ELSE entry.name # Blank

(* _parse_elements_response: the whole reply, else what is in a fence,     *)
(* else what is between the outermost braces, whichever is JSON; a reply   *)
(* that is not an object of lists gives empty buckets.                     *)
ParseReply(reply) ==
  LET parsed == CASE reply.whole # Fail -> reply.whole
                  [] reply.whole = Fail /\ reply.fenced # Fail -> reply.fenced
                  [] OTHER -> reply.braced
      pair(entry) == IF Named(entry)
                     THEN <<[name |-> entry.name,
                             description |-> entry.description]>>
                     ELSE <<>>
  IN IF parsed \in {Fail, Other} THEN EmptyBuckets
     ELSE [b \in ToSet(Buckets) |->
             FlattenSeq([i \in DOMAIN parsed[b] |-> pair(parsed[b][i])])]

MutantCleanRow(category, entry) ==
  IF Named(entry)
  THEN <<[category |-> category, name |-> entry.name,
          description |-> entry.description]>>
  ELSE <<>>

(* _clean_row: at most one row.                                            *)
CleanRow(category, entry) ==
  IF Named(entry)
  THEN <<[category |-> IF category = Blank THEN DefaultCategory ELSE category,
          name |-> entry.name, description |-> entry.description]>>
  ELSE <<>>

(* flatten_elements.                                                       *)
Flatten(buckets) ==
  FlattenSeq([i \in DOMAIN Buckets |->
    FlattenSeq([j \in DOMAIN buckets[Buckets[i]] |->
      CleanRow(Label[Buckets[i]], buckets[Buckets[i]][j])])])

MutantRows(content) ==
  IF content.elements # Other
  THEN FlattenSeq([i \in DOMAIN content.elements |->
         CleanRow(Blank, content.elements[i])])
  ELSE Flatten(content.buckets)

(* elements_from_content: the new shape, else the four buckets.            *)
Rows(content) ==
  IF content.elements # Other
  THEN FlattenSeq([i \in DOMAIN content.elements |->
         CleanRow(IF content.elements[i] = Other THEN Blank
                  ELSE content.elements[i].category, content.elements[i])])
  ELSE Flatten(content.buckets)

(* One turn of the loop of render_elements_md.                             *)
AddRow(groups, row) ==
  IF \E i \in DOMAIN groups : groups[i].category = row.category
  THEN [i \in DOMAIN groups |->
          IF groups[i].category = row.category
          THEN [groups[i] EXCEPT !.rows = Append(@, row)] ELSE groups[i]]
  ELSE Append(groups, [category |-> row.category, rows |-> <<row>>])

(* render_elements_md: by category, in the order of first appearance.      *)
Grouped(rows) == FoldLeft(LAMBDA groups, row : AddRow(groups, row), <<>>, rows)
=============================================================================

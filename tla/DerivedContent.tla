--------------------------- MODULE DerivedContent ---------------------------
(***************************************************************************)
(* What the artifacts of a session promise, without jobs or requests:      *)
(* named contents, each generated from some version of the sources or then *)
(* edited by hand.  Artifacts implements it.                               *)
(***************************************************************************)
EXTENDS Naturals

CONSTANT Names  \* the kinds of content

VARIABLES
  alive,   \* the session has not been deleted
  latest,  \* the latest version of a source
  content  \* per name: version of its source (0: none), edited by hand?

vars == <<alive, latest, content>>

None == [from |-> 0, edited |-> FALSE]
Nothing == [n \in Names |-> None]

Init ==
  /\ alive = TRUE
  /\ latest \in Nat
  /\ content = Nothing

\* A source gets a new version: no content changes.
Change ==
  /\ alive
  /\ latest' > latest
  /\ UNCHANGED <<alive, content>>

\* The contents of some names are generated from one version of the sources,
\* not older than what they replace, and other contents are dropped with that.
Generate(ns, v) ==
  /\ alive
  /\ v <= latest /\ latest' >= latest
  /\ \A n \in ns : content[n].from <= v
  /\ \A n \in ns : content'[n] = [from |-> v, edited |-> FALSE]
  /\ \A n \in Names \ ns : content'[n] \in {content[n], None}
  /\ DOMAIN content' = Names
  /\ UNCHANGED alive

\* An edit changes content that is there.
Edit(n) ==
  /\ alive
  /\ content[n] # None
  /\ content' = [content EXCEPT ![n].edited = TRUE]
  /\ UNCHANGED <<alive, latest>>

\* Contents are invalidated.
Drop(ns) ==
  /\ alive
  /\ content' = [n \in Names |-> IF n \in ns THEN None ELSE content[n]]
  /\ UNCHANGED <<alive, latest>>

Delete ==
  /\ alive
  /\ alive' = FALSE
  /\ content' = Nothing
  /\ UNCHANGED latest

Next ==
  \/ Change
  \/ \E ns \in SUBSET Names : \E v \in 1 .. latest : Generate(ns, v)
  \/ \E n \in Names : Edit(n)
  \/ \E ns \in SUBSET Names : Drop(ns)
  \/ Delete

Spec == Init /\ [][Next]_vars
=============================================================================

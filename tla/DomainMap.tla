------------------------------ MODULE DomainMap ------------------------------
(***************************************************************************)
(* dns/domain.rs: the list of domains whose names are resolved by the      *)
(* trusted DNS server.  A domain is the sequence of its labels as split    *)
(* on '.' yields them, so that "tw." is <<"tw", "">>.                      *)
(*                                                                         *)
(* The nested hash maps are a trie over the reversed labels.  An entry is  *)
(* None exactly as long as nothing was added below it, so the trie is the  *)
(* set of its paths and the None entries are its leaves.                   *)
(***************************************************************************)
EXTENDS Integers, Sequences, SequencesExt

\* split yields at least one label.
Domain == Seq(STRING) \ {<<>>}

\* The labels from the top-level domain down, without the empty one behind a
\* final '.'.
Labels(domain) ==
  Reverse(IF Len(domain) > 1 /\ Last(domain) = "" THEN Front(domain) ELSE domain)

Paths(labels) == {SubSeq(labels, 1, i) : i \in 1 .. Len(labels)}

\* A path that ends in None.
IsLeaf(map, path) ==
  path \in map /\ \A p \in map : ~(Len(p) > Len(path) /\ IsPrefix(path, p))

add_domain(map, domain) == map \cup Paths(Labels(domain))

\* A lookup that keeps the empty label behind a final '.'.
contains_keeps_dot(map, domain) ==
  LET way == Paths(Reverse(domain))
  IN  (\E p \in way : IsLeaf(map, p)) \/ way \subseteq map

\* The walk ends with true at the first None, with false at the first label
\* that is missing, and with true when the name is used up.
contains(map, domain) ==
  LET way == Paths(Labels(domain))
  IN  (\E p \in way : IsLeaf(map, p)) \/ way \subseteq map

-----------------------------------------------------------------------------
(* What the list means: a listed domain stands for itself and every name    *)
(* below it.                                                                *)

Below(domain, top) == IsPrefix(Labels(top), Labels(domain))

Listed(lines, domain) == \E i \in 1 .. Len(lines) : Below(domain, lines[i])

\* No domain of the list is below another.
Flat(lines) ==
  \A i, j \in 1 .. Len(lines) : Below(lines[j], lines[i]) => Labels(lines[i]) = Labels(lines[j])

\* A name above a listed domain, such as its top-level domain.
Above(lines, domain) == \E i \in 1 .. Len(lines) : Below(lines[i], domain)
=============================================================================

-------------------------- MODULE MetadataEntries ---------------------------
(***************************************************************************)
(* What the metadata builder promises: it holds a list of entries.  Adding *)
(* appends one; setting replaces ALL entries of that name by one, where    *)
(* the first of them stood; Reset forgets them.                            *)
(***************************************************************************)
EXTENDS Naturals, Sequences, FiniteSets

CONSTANT Entry    \* records with a name
VARIABLE entries

Init == entries = <<>>

\* The places of s that setting e leaves an entry for: those of other names, and
\* the first of its own.
Kept(s, e) == {i \in DOMAIN s : s[i].name = e.name =>
                                  \A j \in 1..(i - 1) : s[j].name # e.name}

\* The place of i in the order of S.
Rank(S, i) == Cardinality({k \in S : k <= i})

\* t is s after setting e, which some entry of s has the name of: the kept places
\* in their order, e in its own.
Replaces(s, e, t) ==
  LET kept == Kept(s, e) IN
  /\ Len(t) = Cardinality(kept)
  /\ \A i \in kept : t[Rank(kept, i)] = IF s[i].name = e.name THEN e ELSE s[i]

Has(name) == \E i \in DOMAIN entries : entries[i].name = name

\* Setting (replace) adds only what is not there yet.
Put(e, replace) == IF replace /\ Has(e.name) THEN Replaces(entries, e, entries')
                   ELSE entries' = Append(entries, e)

Clear == entries' = <<>>

Next == Clear \/ \E e \in Entry, replace \in BOOLEAN : Put(e, replace)

Spec == Init /\ [][Next]_entries
=============================================================================

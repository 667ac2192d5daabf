------------------------------- MODULE Tables -------------------------------
(***************************************************************************)
(* The dicts of DB and of the agents: a table is the sequence of its keys  *)
(* or entries, in the order in which they were added.                      *)
(***************************************************************************)
EXTENDS Naturals, Sequences, FiniteSets

\* What a search gives: of the table's elements those that match, in its order.
\* The k-th of them is the one up to which there are k.
Matching(table, matches) ==
  LET found == {i \in DOMAIN table : table[i] \in matches} IN
  [k \in 1..Cardinality(found) |->
     table[CHOOSE i \in found : Cardinality({j \in found : j <= i}) = k]]
=============================================================================

------------------------------- MODULE Iterators -------------------------------
(***************************************************************************)
(* What sort_by, filter, sum and an ordered map do to a Vec (std).  The    *)
(* first are defined by places, so that it can be proved what they do.     *)
(***************************************************************************)
EXTENDS Integers, SequencesExt

\* The elements of a finite set in a strict total order: each has the place of one more
\* than the elements before it.
Ranked(S, Before(_, _)) ==
  AntiFunction([element \in S |-> 1 + Cardinality({other \in S : Before(other, element)})])

\* slice::sort_by: equal elements keep their order.
Sorted(seq, Before(_, _)) ==
  LET before(i, j) == Before(seq[i], seq[j]) \/ (~Before(seq[j], seq[i]) /\ i < j)
      places == Ranked(DOMAIN seq, before)
  IN  [k \in DOMAIN places |-> seq[places[k]]]

\* The elements that pass a test, in their order.
Filtered(seq, Test(_)) ==
  LET places == Ranked({i \in DOMAIN seq : Test(seq[i])}, <)
  IN  [k \in DOMAIN places |-> seq[places[k]]]

\* Iterator::sum of numbers, and of what map makes of each element.
Total(numbers) == FoldLeft(LAMBDA sum, number : sum + number, 0, numbers)
Sum(seq, Field(_)) == Total([i \in DOMAIN seq |-> Field(seq[i])])
=============================================================================

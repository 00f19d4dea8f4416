--------------------------------- MODULE Lists ---------------------------------
(* Lists, as the code filters them.                                             *)
EXTENDS Integers, Sequences, FiniteSets

\* The elements of a list at these places, in their order.
AtPlaces(list, places) ==
  LET nth(n) == CHOOSE m \in places : Cardinality({j \in places : j <= m}) = n
  IN  [n \in 1 .. Cardinality(places) |-> list[nth(n)]]
================================================================================

------------------------------ MODULE Listing ------------------------------
(* Sets as sequences: the rows of a query with ORDER BY, the places of a     *)
(* list that a removal leaves, the best of several candidates.               *)
EXTENDS Integers, FiniteSets, Sequences

\* S in the order in which a is before b if <<a, b>> \in R: the k-th element is
\* the one that has k elements up to and with itself.
Ranked(S, R) ==
    [k \in 1 .. Cardinality(S) |->
        CHOOSE b \in S : Cardinality({a \in S : a = b \/ <<a, b>> \in R}) = k]

\* In increasing order.
Ascending(S) == Ranked(S, {p \in S \X S : p[1] < p[2]})

\* The elements at some places of a sequence, in their order.
ElementsAt(seq, places) ==
    LET at == Ascending(places) IN [k \in DOMAIN at |-> seq[at[k]]]
=============================================================================

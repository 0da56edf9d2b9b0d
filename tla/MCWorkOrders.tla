---------------------------- MODULE MCWorkOrders ----------------------------
(* Instances of WorkOrders for TLC. *)
EXTENDS WorkOrders, TLC

\* Requests and orders are interchangeable.
Symmetry == Permutations(Orders) \cup Permutations(Requests)

\* An order that is only created with the provider, completed and rated.
Plain(w) ==
    /\ order[w].state # "none" => order[w].state = "live" /\ order[w].provider
    /\ order[w].status # "overdue" /\ w \notin torn

\* Bound: at most one order is late, deleted, without a provider or overwritten, and none
\* if a request has failed.
OneAstray ==
    LET astray == {w \in Orders : ~Plain(w)}
    IN  Cardinality(astray) + failures <= 1

=============================================================================

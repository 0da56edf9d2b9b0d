------------------------ MODULE MCContractLifecycle ------------------------
(* Instances of ContractLifecycle for TLC. *)
EXTENDS ContractLifecycle, TLC

CONSTANTS c1, c2, c3, r1, r2

\* Two requests are interchangeable, and so are the identities create gives out.
Symmetry == Permutations(Originals) \cup Permutations(Requests)

Used(S) == Cardinality({c \in S : Exists(c)})

\* Bound: a third row only among the renewals of one contract.
TwoRowsOrOneFamily ==
    \/ Used(Contracts) <= 2
    \/ Used({c \in Contracts : lease[c].renewalOf = NoContract}) = 1

=============================================================================

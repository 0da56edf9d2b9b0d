----------------------------- MODULE MCAccounts -----------------------------
(***************************************************************************)
(* Instances of Accounts and Sessions for TLC.  They share no state that a *)
(* guard reads; part says which of the two a behaviour is about.           *)
(***************************************************************************)
EXTENDS Accounts, Sessions, TLC

VARIABLE part

allVars == <<vars, sessionVars, part>>

\* Users, addresses and requests are interchangeable.
Symmetry == Permutations(Users) \cup Permutations(Emails) \cup Permutations(Requests)

Registering == part = "accounts" /\ Next /\ UNCHANGED <<sessionVars, part>>
Staying     == part = "sessions" /\ SessionNext /\ UNCHANGED <<vars, part>>

AllInit == Init /\ SessionInit /\ part \in {"accounts", "sessions"}

AllSpec == AllInit /\ [][Registering \/ Staying]_allVars

\* The types of both.
TypesOK == TypeOK /\ SessionTypeOK

\* Beside its registration a lone user has two codes made, or one, and chooses a password,
\* or a request fails; a reset of the password does not meet a change of address.  Of two
\* users one is yet to be verified, and handlers in flight are not of one user: what is
\* left are their races for an address.
StoredUsers == {u \in Users : row[u].status # "none"}
ProvedUsers == {u \in Users : \E e \in Emails : <<u, e>> \in accounted}

FewerAtOnce ==
    IF Cardinality(StoredUsers) < 2
    THEN /\ codes + passwords + 2 * failures <= 4
         /\ \A u \in Users : NoEmail \in {row[u].rtoken, row[u].pending}
    ELSE /\ failures = 0
         /\ Cardinality(ProvedUsers) <= 1
         /\ \A u \in Users : Cardinality({r \in Requests : slot[r].of = u}) <= 1

\* Where a request for another address has met a save, what is left are the next requests.
FewerOnceMet ==
    crossed # {} => /\ Cardinality(StoredUsers) < 2
                    /\ passwords = 1 /\ failures = 0 /\ closed = {}
                    /\ \A u \in Users : row[u].rtoken = NoEmail /\ row[u].vcode = NoEmail

\* Of two sessions one is short.  Sockets are opened while no request is in flight: they
\* read nothing that one changes, but that the user has logged in.
FewerTokens ==
    /\ \A i, j \in SessionIds : i = j \/ issued[i] + issued[j] <= MaxTokens
    /\ (\A k \in Sockets : socket[k] = "off") \/ (\A q \in Calls : handler[q] = NoHandler)

=============================================================================

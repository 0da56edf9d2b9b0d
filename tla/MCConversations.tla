-------------------------- MODULE MCConversations --------------------------
(***************************************************************************)
(* Instances of Conversations, Paging and Content for TLC.  The three      *)
(* share no state; part says which of them a behaviour is about.           *)
(***************************************************************************)
EXTENDS Conversations, Paging, Content, TLC

VARIABLE part

allVars == <<vars, pagingVars, contentVars, part>>

\* The requests are interchangeable.
Symmetry == Permutations(Requests)

Talking    == part = "conversation" /\ Next /\ UNCHANGED <<pagingVars, contentVars, part>>
Leafing    == part = "pages" /\ PagingNext /\ UNCHANGED <<vars, contentVars, part>>
Publishing == part = "content" /\ ContentNext /\ UNCHANGED <<vars, pagingVars, part>>

\* No article is left, and the bounds leave none to be made.
AllGone == /\ part = "content" /\ \A a \in Articles : ~Has(a)
           /\ \A r \in Editors : job[r] = NoJob
           /\ Unborn = {} \/ (kind.pictured /\ named = MaxPictures)
           /\ UNCHANGED allVars

\* Where the other parts leave a list and a table: with nothing in it.
NoList  == list = Inbox /\ entry = [i \in Ids |-> [here |-> FALSE, at |-> 0, key |-> i - 1]]
NoTable == kind = Department

AllInit ==
    /\ Init /\ PagingInit /\ ContentInit
    /\ \/ part = "conversation" /\ NoList /\ NoTable
       \/ part = "pages" /\ NoTable
       \/ part = "content" /\ NoList

AllSpec == AllInit /\ [][Talking \/ Leafing \/ Publishing \/ AllGone]_allVars

\* The types of the three.
TypesOK == TypeOK /\ PagingTypeOK /\ ContentTypeOK

=============================================================================

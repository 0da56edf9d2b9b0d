------------------------------- MODULE Paging -------------------------------
(***************************************************************************)
(* A client walks through the pages of a list while rows of it come, go    *)
(* and move (crud.service.ts, crud.util.ts, and the services that list).   *)
(*                                                                         *)
(* Lists are paged in two ways.  A cursor is the creation time and the id  *)
(* of the last row of a page, and the next page has the rows below it; a   *)
(* numbered page skips the rows of the pages before it.  One page is one   *)
(* query, a numbered one is counted by a second, and the table may change  *)
(* between any two queries.                                                *)
(*                                                                         *)
(* The table has microseconds and a cursor, which was a Date of            *)
(* JavaScript, has milliseconds.  Filters, searches and what a role may    *)
(* see only say which rows match: a row that stops matching has gone.      *)
(***************************************************************************)
EXTENDS Naturals, FiniteSets

CONSTANTS
    Ids,          \* ids of rows, in the order the database compares them
    MaxInstant,   \* bound: times of creation are 0..MaxInstant, in microseconds
    PerMilli,     \* microseconds in a millisecond
    MaxKey,       \* bound: values of a column that orders a list
    Limit,        \* rows of a page
    NoCursor,
    MaxChanges    \* bound: rows that come, go or move in the course of a walk

ASSUME IdsAssumption   == Ids \subseteq Nat /\ IsFiniteSet(Ids) /\ NoCursor \notin [at : Nat, id : Ids]
ASSUME PageAssumption  == Limit \in Nat \ {0} /\ PerMilli \in Nat \ {0}
ASSUME SizesAssumption == {MaxInstant, MaxKey, MaxChanges} \subseteq Nat

VARIABLES
    list,      \* which list it is
    entry,     \* the rows it has had or can get
    walk,      \* how far the client has come
    visits,    \* how often the client was shown each row
    changes,   \* rows that have come, gone or moved since the walk began
    stayed,    \* history: rows that have been there since the walk began
    happened   \* history: what has happened since then

pagingVars == <<list, entry, walk, visits, changes, stayed, happened>>

Instants == 0..MaxInstant
Keys     == 0..MaxKey

\* What a row is ordered by comes first; only the lists with cursors break ties, by id.
Entry  == [here : BOOLEAN, at : Instants, key : Keys]
Cursor == [at : Instants, id : Ids]
Walk   == [at : {"idle", "going", "uncounted", "over"}, cursor : Cursor \cup {NoCursor}, page : Nat]

Happenings == {"came", "gone", "moved", "tied", "muddled"}

NotBegun == [at |-> "idle", cursor |-> NoCursor, page |-> 1]

-----------------------------------------------------------------------------
(* The lists: how each is paged, what it is ordered by, and whether rows   *)
(* can leave it.                                                           *)

ReviewsOfContract == [paging |-> "cursor", by |-> "created", goes |-> FALSE]
ReviewsOfProperty == [paging |-> "cursor", by |-> "created", goes |-> FALSE]
Blogs             == [paging |-> "cursor", by |-> "created", goes |-> TRUE]

\* The sort_id of a message is an ULID of the process, its created_at the time its
\* transaction began.
FirstMessages == [paging |-> "cursor", by |-> "sortId", goes |-> FALSE]
OlderMessages == [paging |-> "cursor", by |-> "sortId", goes |-> FALSE]

\* By the sort_id of a conversation's last message: who writes in it moves it to the top.
Inbox == [paging |-> "cursor", by |-> "activity", goes |-> FALSE]

\* Numbered pages by a column of the client's choice.
Contracts     == [paging |-> "numbers", by |-> "column", goes |-> TRUE]
RenewRequests == [paging |-> "numbers", by |-> "column", goes |-> TRUE]
Properties    == [paging |-> "numbers", by |-> "column", goes |-> TRUE]
Search        == [paging |-> "numbers", by |-> "column", goes |-> TRUE]
Users         == [paging |-> "numbers", by |-> "column", goes |-> TRUE]
BlogTable     == [paging |-> "numbers", by |-> "column", goes |-> TRUE]

\* Numbered pages by creation.
Teams           == [paging |-> "numbers", by |-> "created", goes |-> TRUE]
Departments     == [paging |-> "numbers", by |-> "created", goes |-> TRUE]
ContactMessages == [paging |-> "numbers", by |-> "created", goes |-> TRUE]
Providers       == [paging |-> "numbers", by |-> "created", goes |-> TRUE]
ItemsListed     == [paging |-> "numbers", by |-> "created", goes |-> TRUE]
OrdersListed    == [paging |-> "numbers", by |-> "created", goes |-> TRUE]
Schedule        == [paging |-> "numbers", by |-> "column", goes |-> TRUE]
Notices         == [paging |-> "numbers", by |-> "column", goes |-> TRUE]

CursorLists   == {ReviewsOfContract, ReviewsOfProperty, Blogs, FirstMessages, OlderMessages, Inbox}
NumberedLists == {Contracts, RenewRequests, Properties, Search, Users, BlogTable, Teams, Departments,
                  ContactMessages, Providers, ItemsListed, OrdersListed, Schedule, Notices}

\* What the keys of a list can be.
Ordered(l, e) ==
    CASE l.by = "created"               -> \A i \in Ids : e[i].key = e[i].at
      [] l.by \in {"sortId", "activity"} -> \A i, j \in Ids : e[i].key = e[j].key => i = j
      [] l.by = "column"                -> \A i \in Ids : e[i].at = 0

-----------------------------------------------------------------------------
Here == {i \in Ids : entry[i].here}

\* ORDER BY key DESC, id DESC.
Precedes(i, j) == entry[i].key > entry[j].key \/ (entry[i].key = entry[j].key /\ i > j)

\* The first n rows of a set, in the order of the list; and the last of a set.
First(S, n) == {i \in S : Cardinality({j \in S : Precedes(j, i)}) < n}
LastOf(S)   == CHOOSE i \in S : \A j \in S \ {i} : Precedes(j, i)

\* (created_at, id) < (:createdAt, :id).
Below(c) ==
    IF c = NoCursor THEN Here
    ELSE {i \in Here : entry[i].at < c.at \/ (entry[i].at = c.at /\ i < c.id)}

\* created_at as a Date of JavaScript, and as JSON, has it.
ToDate(t) == t - (t % PerMilli)

Fetched == First(Below(walk.cursor), Limit + 1)
HasMore == Cardinality(Fetched) > Limit
Items     == IF HasMore THEN Fetched \ {LastOf(Fetched)} ELSE Fetched

\* Mutant of EndOfPage: the cursor is that of the row read only to see if there are more.
MutRowTooFar == LastOf(Fetched)

\* The row whose cursor is the next one.
EndOfPage == LastOf(Items)

NextCursor == [at |-> ToDate(entry[EndOfPage].at), id |-> EndOfPage]

Shown(S) == visits' = [i \in Ids |-> visits[i] + (IF i \in S THEN 1 ELSE 0)]

\* Rows that the list has after a page and its cursor has not, or the other way round.
Muddled(i, c) == {j \in Here : Precedes(i, j)} # Below(c)

\* The client asks for a page by cursor.
PaginateCursor ==
    /\ list.paging = "cursor" /\ walk.at = "going"
    /\ Shown(Items)
    /\ IF HasMore
       THEN /\ walk' = [walk EXCEPT !.cursor = NextCursor]
            /\ happened' = IF Muddled(EndOfPage, NextCursor) THEN happened \cup {"muddled"} ELSE happened
       ELSE walk' = [walk EXCEPT !.at = "over"] /\ UNCHANGED happened
    /\ UNCHANGED <<list, entry, changes, stayed>>

-----------------------------------------------------------------------------
\* What a query can skip or take as the first n rows: nothing orders rows of the same key.
Prefixes(n) ==
    {S \in SUBSET Here :
        /\ Cardinality(S) = IF n < Cardinality(Here) THEN n ELSE Cardinality(Here)
        /\ \A i \in S, j \in Here \ S : entry[i].key >= entry[j].key}

Tied(S) == \E i \in S, j \in Here \ S : entry[i].key = entry[j].key

\* Mutant of Skip: the pages are counted from 0.
MutSkip == walk.page * Limit

Skip == (walk.page - 1) * Limit

\* The client asks for a page by number: its rows ...
FindAll ==
    /\ list.paging = "numbers" /\ walk.at = "going"
    /\ \E A \in Prefixes(Skip), B \in Prefixes(Skip + Limit) :
           /\ A \subseteq B
           /\ Shown(B \ A)
           /\ happened' = IF Tied(A) \/ Tied(B) THEN happened \cup {"tied"} ELSE happened
    /\ walk' = [walk EXCEPT !.at = "uncounted"]
    /\ UNCHANGED <<list, entry, changes, stayed>>

TotalPages == (Cardinality(Here) + Limit - 1) \div Limit

\* ... and how many pages there are, by which the client knows if it is the last.
Count ==
    /\ walk.at = "uncounted"
    /\ walk' = IF walk.page >= TotalPages THEN [walk EXCEPT !.at = "over"]
               ELSE [walk EXCEPT !.at = "going", !.page = @ + 1]
    /\ UNCHANGED <<list, entry, visits, changes, stayed, happened>>

-----------------------------------------------------------------------------
\* The table between two queries of the walk.
Changing(what) ==
    /\ walk.at \in {"going", "uncounted"} /\ changes < MaxChanges
    /\ changes' = changes + 1
    /\ happened' = happened \cup {what}
    /\ UNCHANGED <<list, walk, visits>>

\* A row is committed, or begins to match.  One of an older transaction comes in below.
Come(i) ==
    /\ Changing("came") /\ ~entry[i].here
    /\ entry' = [entry EXCEPT ![i].here = TRUE]
    /\ UNCHANGED stayed

\* A row is deleted, or no longer matches.
Go(i) ==
    /\ list.goes /\ Changing("gone") /\ entry[i].here
    /\ entry' = [entry EXCEPT ![i].here = FALSE]
    /\ stayed' = stayed \ {i}

\* A message in a conversation moves it; so does an UPDATE of the column.
Move(i) ==
    /\ Changing("moved") /\ entry[i].here
    /\ \E k \in Keys :
           /\ k # entry[i].key
           /\ list.by = "column" \/ (list.by = "activity" /\ \A j \in Ids : entry[j].key < k)
           /\ entry' = [entry EXCEPT ![i].key = k]
    /\ UNCHANGED stayed

\* The client opens the list ...
Open ==
    /\ walk.at = "idle"
    /\ walk' = [walk EXCEPT !.at = "going"]
    /\ stayed' = Here
    /\ UNCHANGED <<list, entry, visits, changes, happened>>

\* ... and closes it.
Close ==
    /\ walk.at = "over"
    /\ walk' = NotBegun /\ visits' = [i \in Ids |-> 0] /\ stayed' = {}
    /\ changes' = 0 /\ happened' = {}
    /\ UNCHANGED <<list, entry>>

PagingInit ==
    /\ list \in CursorLists \cup NumberedLists
    /\ entry \in {e \in [Ids -> Entry] : Ordered(list, e)}
    /\ walk = NotBegun /\ visits = [i \in Ids |-> 0] /\ stayed = {}
    /\ changes = 0 /\ happened = {}

PagingNext ==
    \/ Open \/ Close \/ PaginateCursor \/ FindAll \/ Count
    \/ \E i \in Ids : Come(i) \/ Go(i) \/ Move(i)

PagingSpec == PagingInit /\ [][PagingNext]_pagingVars

-----------------------------------------------------------------------------
PagingTypeOK ==
    /\ list \in CursorLists \cup NumberedLists
    /\ entry \in [Ids -> Entry] /\ walk \in Walk
    /\ visits \in [Ids -> Nat] /\ changes \in 0..MaxChanges
    /\ stayed \subseteq Here /\ happened \subseteq Happenings

\* paginateCursor: whatever comes, goes and moves, a client that has followed the cursors to
\* the end has been shown every row that stayed, and none twice -- unless, at the end of some
\* page, the rows after it in the list were not the rows below its cursor: rows of the same
\* millisecond, and a list whose order is not that of creation.
EachRowOnce ==
    walk.at = "over" /\ list.paging = "cursor" /\ "muddled" \notin happened =>
        \A i \in Ids : visits[i] =< 1 /\ (i \in stayed => visits[i] = 1)

\* findAll: a client that has turned all the pages has missed a row that stayed only if one
\* went or moved, or two were alike in the column, and has been shown one twice only if one
\* came or moved, or two were alike.
PagesShift ==
    walk.at = "over" /\ list.paging = "numbers" =>
        /\ (\E i \in stayed : visits[i] = 0) => happened \cap {"gone", "moved", "tied"} # {}
        /\ (\E i \in Ids : visits[i] > 1)    => happened \cap {"came", "moved", "tied"} # {}

\* Either way of paging says when a client has seen each row that stayed, and once
\* (paginateCursor, findAll).
PagesExplained == EachRowOnce /\ PagesShift

=============================================================================

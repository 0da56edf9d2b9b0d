------------------------- MODULE MCPropertyListing -------------------------
(* Instances of PropertyListing for TLC. *)
EXTENDS PropertyListing, TLC

\* Requests and file names are interchangeable.
Symmetry == Permutations(Requests) \cup Permutations(Images) \cup Permutations(Documents)

Untouched ==
    /\ rents = 0 /\ approved = {}
    /\ row.status \notin {"active", "inactive", "rejected"}
    /\ \A r \in Requests : slot[r].op # "updateStatus"

\* Bound: files are not uploaded to a listing the administrator or a lease has touched,
\* and not more than three of them.
FilesOrModeration ==
    \/ uploaded = {}
    \/ Untouched /\ Cardinality(uploaded) <= 3

\* Bound: deletions of a file that is not there, which save the row as it was, are among
\* the first edit, write of isRented and uploads.
DeletesNothing(r) == slot[r].op = "deleteFile" /\ slot[r].unlink = {}

NothingDeletedEarly ==
    (\E r \in Requests : DeletesNothing(r)) =>
        edits <= 2 /\ rents <= 1 /\ Cardinality(uploaded) <= 2 /\ failures = 0

=============================================================================

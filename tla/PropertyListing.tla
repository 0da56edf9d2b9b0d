-------------------------- MODULE PropertyListing --------------------------
(***************************************************************************)
(* One property listing (properties.service.ts): its moderation by the     *)
(* administrator, the edits and the archiving of its owner, its files on   *)
(* disk, and the isRented flag that the contract service writes.           *)
(*                                                                         *)
(* update, deleteFile, toggleArchive and updateStatus all load the whole   *)
(* row, change it in memory and save it.  As in ContractLifecycle, save    *)
(* reads the row again and writes every column in which the entity differs *)
(* from it.  The contract service writes one column, by an UPDATE.         *)
(*                                                                         *)
(* Everything the owner describes the property by is one column, content;  *)
(* an edit is its number.  averageRating, which the review subscriber      *)
(* writes as the contract service writes isRented, behaves like isRented.  *)
(***************************************************************************)
EXTENDS Integers, FiniteSets

CONSTANTS
    Images,      \* names an uploaded image can be given; a name is used once
    Documents,   \* names an uploaded document can be given, in a directory of its own
    NoFile,
    AdminSets,   \* bound: the statuses the administrator sets
    MaxImages,   \* images of a listing (6 in the code)
    MaxEdits,    \* bound: edits of the owner
    Requests,    \* requests that can be in flight at once
    MaxFailures, \* bound: requests that fail after files were unlinked
    MaxRents     \* bound: changes of isRented by the contract service

ASSUME FilesAssumption  == Images \cap Documents = {} /\ NoFile \notin Images \cup Documents
ASSUME ImagesAssumption == IsFiniteSet(Images)
ASSUME StatusAssumption == AdminSets \subseteq {"pending", "active", "inactive", "rejected", "archived"}
ASSUME BoundsAssumption == MaxImages \in Nat /\ MaxEdits \in Nat \ {0}
                           /\ MaxFailures \in Nat /\ MaxRents \in Nat

VARIABLES
    row,       \* the row of the properties table
    disk,      \* the uploaded files that are on disk
    uploaded,  \* the file names that have been used
    edits,     \* edits so far; content 1 is the listing as created
    slot,      \* the handler each request has in flight
    failures,  \* failed requests so far
    rents,     \* changes of isRented by the contract service so far
    approved,  \* history: contents the administrator had before them when approving, and
               \* contents made active by a save whose row changed after its SELECT
    lost       \* history: files unlinked by handlers that failed before their UPDATE, and
               \* files put back on record by a save whose row changed after its load

vars == <<row, disk, uploaded, edits, slot, failures, rents, approved, lost>>

Files == Images \cup Documents

\* The guards of the code do not tell inactive from rejected.
Status == {"none", "pending", "active", "inactive", "rejected", "archived"}

Row == [status : Status, content : 0..MaxEdits, images : SUBSET Images,
        doc : Documents \cup {NoFile}, isRented : BOOLEAN]

NoRow == [status |-> "none", content |-> 0, images |-> {}, doc |-> NoFile, isRented |-> FALSE]

Columns == {"status", "content", "images", "doc", "isRented"}

Ops == {"none", "update", "deleteFile", "toggleArchive", "updateStatus"}

\* fresh: the row did not change between the load and the SELECT; clean: nor since then.
Slot == [at : {"idle", "loaded", "selected"}, op : Ops, entity : Row, unlink : SUBSET Files,
         dirty : SUBSET Columns, fresh : BOOLEAN, clean : BOOLEAN]

Idle == [at |-> "idle", op |-> "none", entity |-> NoRow, unlink |-> {}, dirty |-> {},
         fresh |-> TRUE, clean |-> TRUE]

\* Mutant of Differing: every column is written, as by an UPDATE of the entity.
MutAllColumns(e, r) == Columns

\* The columns save finds changed.
Differing(e, r) == {c \in Columns : e[c] # r[c]}

Written(e, r, dirty) == [c \in Columns |-> IF c \in dirty THEN e[c] ELSE r[c]]

\* Mutant of Existing: a missing path is not tested for.
MutExisting(doc) == {doc}

\* A document path, if there is one.
Existing(doc) == {doc} \ {NoFile}

\* The files a row refers to.
Referred(r) == r.images \cup ({r.doc} \ {NoFile})

Init ==
    /\ row      = NoRow
    /\ disk     = {}
    /\ uploaded = {}
    /\ edits    = 0
    /\ slot     = [r \in Requests |-> Idle]
    /\ failures = 0
    /\ rents    = 0
    /\ approved = {}
    /\ lost     = {}

-----------------------------------------------------------------------------
(* Steps shared by the handlers.                                           *)

\* The interceptor stores the uploads of a request before its handler runs.
Upload(new) ==
    /\ new \cap uploaded = {}
    /\ uploaded' = uploaded \cup new

Load(r, op, entity, unlink) ==
    /\ row.status # "none"
    /\ slot[r].at = "idle"
    /\ slot' = [slot EXCEPT ![r] = [at |-> "loaded", op |-> op, entity |-> entity,
                                    unlink |-> unlink, dirty |-> {}, fresh |-> TRUE,
                                    clean |-> TRUE]]
    /\ UNCHANGED <<row, failures, rents, approved, lost>>

\* Files that are no longer wanted are unlinked, then save reads the row again.  Of the
\* entity only the columns that the UPDATE will write are still needed.
SaveSelect(r) ==
    /\ slot[r].at = "loaded"
    /\ disk' = disk \ slot[r].unlink
    /\ LET dirty == Differing(slot[r].entity, row)
       IN  slot' = [slot EXCEPT ![r] =
                        [at |-> "selected", op |-> @.op, unlink |-> @.unlink, fresh |-> @.fresh,
                         entity |-> Written(@.entity, NoRow, dirty), dirty |-> dirty,
                         clean |-> TRUE]]
    /\ UNCHANGED <<row, uploaded, edits, failures, rents, approved, lost>>

\* Whoever writes the row, the handlers in flight have not seen it.
Overtake(s, changed) == [s EXCEPT !.fresh = @ /\ (s.at = "loaded"   => ~changed),
                                  !.clean = @ /\ (s.at = "selected" => ~changed)]

\* The UPDATE of the columns found to differ.
SaveCommit(r) ==
    LET s == slot[r]
        written == Written(s.entity, row, s.dirty)
        changed == written # row
    IN  /\ s.at = "selected"
        /\ row' = written
        /\ slot' = [q \in Requests |-> IF q = r THEN Idle ELSE Overtake(slot[q], changed)]
        /\ approved' = IF written.status = "active" /\ (s.op = "updateStatus" \/ ~s.clean)
                         THEN approved \cup {written.content} ELSE approved
        /\ lost' = IF s.fresh /\ s.clean THEN lost ELSE lost \cup (Referred(written) \ disk)
        /\ UNCHANGED <<disk, uploaded, edits, failures, rents>>

\* An error or a restart between the unlinking and the UPDATE: the files do not come back.
\* A handler that fails earlier has changed nothing, but may leave its uploads on disk.
Fail(r) ==
    /\ slot[r].at = "selected" /\ slot[r].unlink # {}
    /\ failures < MaxFailures
    /\ failures' = failures + 1
    /\ slot' = [slot EXCEPT ![r] = Idle]
    /\ lost' = lost \cup slot[r].unlink
    /\ UNCHANGED <<row, disk, uploaded, edits, rents, approved>>

-----------------------------------------------------------------------------
(* The handlers.                                                           *)

\* Mutant of Kept: the limit is not looked at.
MutKeepAll(images) == {images}

\* Of the uploaded images those are kept for which there is room, the first ones.
Kept(images) ==
    {kept \in SUBSET images :
        /\ Cardinality(row.images \cup kept) <= MaxImages
        /\ kept # images => Cardinality(row.images \cup kept) = MaxImages}

\* Mutant of Revised: an approved listing stays approved.
MutRevisedActive(kept, doc) ==
    [row EXCEPT !.content = edits + 1, !.images = @ \cup kept,
                !.doc = IF doc = NoFile THEN @ ELSE doc]

\* The listing as update saves it: to be reviewed again.
Revised(kept, doc) ==
    [row EXCEPT !.status = "pending", !.content = edits + 1, !.images = @ \cup kept,
                !.doc = IF doc = NoFile THEN @ ELSE doc]

\* create, with at most MaxImages images and perhaps a document.
Create(images, doc) ==
    /\ row.status = "none"
    /\ Cardinality(images) <= MaxImages
    /\ Upload(images \cup Existing(doc))
    /\ disk' = disk \cup images \cup Existing(doc)
    /\ edits' = 1
    /\ row' = [status |-> "pending", content |-> 1, images |-> images, doc |-> doc,
               isRented |-> FALSE]
    /\ UNCHANGED <<slot, failures, rents, approved, lost>>

\* update: not of an inactive or rejected listing.  Images for which there is no room are
\* unlinked at once, a new document will replace the old one.
Update(r, images, doc) ==
    /\ row.status \notin {"inactive", "rejected"}
    /\ Upload(images \cup Existing(doc))
    /\ edits < MaxEdits /\ edits' = edits + 1
    /\ \E kept \in Kept(images) :
           /\ disk' = disk \cup kept \cup Existing(doc)
           /\ Load(r, "update", Revised(kept, doc),
                   IF doc = NoFile THEN {} ELSE Existing(row.doc))

\* Mutant of DeleteFile: the document stays on record.
MutDeleteUnrecorded(r, f) ==
    /\ \/ f \in row.images /\ Load(r, "deleteFile", [row EXCEPT !.images = @ \ {f}], {f})
       \/ f = row.doc      /\ Load(r, "deleteFile", row, {f})
       \/ f \notin row.images \cup {row.doc} /\ Load(r, "deleteFile", row, {})
    /\ UNCHANGED <<disk, uploaded, edits>>

\* deleteFile: an image or the document, whatever the status, which stays.  A file the row
\* does not refer to, or no more, is left alone and the row is saved as it is.
DeleteFile(r, f) ==
    /\ \/ f \in row.images /\ Load(r, "deleteFile", [row EXCEPT !.images = @ \ {f}], {f})
       \/ f = row.doc      /\ Load(r, "deleteFile", [row EXCEPT !.doc = NoFile], {f})
       \/ f \notin row.images \cup {row.doc} /\ Load(r, "deleteFile", row, {})
    /\ UNCHANGED <<disk, uploaded, edits>>

\* Mutant of ToggleArchive: the status is not tested.
MutToggleAny(r) ==
    /\ Load(r, "toggleArchive",
            [row EXCEPT !.status = IF @ = "archived" THEN "pending" ELSE "archived"], {})
    /\ UNCHANGED <<disk, uploaded, edits>>

ToggleArchive(r) ==
    /\ row.status \notin {"rejected", "inactive"}
    /\ Load(r, "toggleArchive",
            [row EXCEPT !.status = IF @ = "archived" THEN "pending" ELSE "archived"], {})
    /\ UNCHANGED <<disk, uploaded, edits>>

\* updateStatus: the administrator sets any status, whatever it was.
UpdateStatus(r, s) ==
    /\ Load(r, "updateStatus", [row EXCEPT !.status = s], {})
    /\ UNCHANGED <<disk, uploaded, edits>>

\* The contract service takes or frees the property (ContractLifecycle).
WriteIsRented(b) ==
    /\ row.status # "none" /\ row.isRented # b
    /\ rents < MaxRents /\ rents' = rents + 1
    /\ row' = [row EXCEPT !.isRented = b]
    /\ slot' = [q \in Requests |-> Overtake(slot[q], TRUE)]
    /\ UNCHANGED <<disk, uploaded, edits, failures, approved, lost>>

Next ==
    \/ \E images \in SUBSET Images, doc \in Documents \cup {NoFile} :
           Create(images, doc) \/ \E r \in Requests : Update(r, images, doc)
    \/ \E r \in Requests : \/ \E f \in Files : DeleteFile(r, f)
                           \/ \E s \in AdminSets : UpdateStatus(r, s)
                           \/ ToggleArchive(r)
                           \/ SaveSelect(r) \/ SaveCommit(r) \/ Fail(r)
    \/ \E b \in BOOLEAN : WriteIsRented(b)

Spec == Init /\ [][Next]_vars

-----------------------------------------------------------------------------
(* Correctness.                                                            *)

\* The type invariant.
TypeOK ==
    /\ row \in Row
    /\ disk \in SUBSET Files /\ uploaded \in SUBSET Files
    /\ edits \in 0..MaxEdits
    /\ slot \in [Requests -> Slot]
    /\ failures \in 0..MaxFailures /\ rents \in 0..MaxRents
    /\ approved \in SUBSET (0..MaxEdits)
    /\ lost \in SUBSET Files

\* What guests can search was approved as it is: an active listing shows the content the
\* administrator had loaded when approving it.  This survives handlers that overlap and
\* save rows loaded long ago, because such a save puts back status and content together;
\* it fails only where a row changes between the two statements inside a save (update
\* resets the status to pending, updateStatus).
ActiveWasApproved == row.status = "active" => row.content \in approved

\* Nobody but the administrator brings back a listing that was rejected or deactivated,
\* except a handler that had loaded it before that (update, toggleArchive).
OnlyAdminRevives ==
    [][row.status \in {"rejected", "inactive"} /\ row'.status # row.status =>
           \E r \in Requests : /\ slot[r].at = "selected" /\ slot'[r].at = "idle"
                               /\ \/ slot[r].op = "updateStatus"
                                  \/ ~slot[r].fresh \/ ~slot[r].clean]_vars

\* The number of images never exceeds the limit, however many uploads overlap.
ImagesLimited == Cardinality(row.images) <= MaxImages

\* Every file the listing refers to is on disk, except while, or after, a handler that
\* unlinks it before its UPDATE is under way or has failed, and except after a save that
\* overtook another one (deleteFile, update).
FilesExist == \A f \in Referred(row) \ disk : f \in lost \/ \E r \in Requests : f \in slot[r].unlink

\* isRented is the contract service's: a save changes it only if the row had changed
\* between its load and its SELECT.  What the contract service writes after the SELECT
\* stays, for save writes only the columns that differed by then.
RentedIsTheContracts ==
    [][row'.isRented # row.isRented =>
           \A r \in Requests : slot[r].at = "selected" /\ slot'[r].at = "idle" => ~slot[r].fresh]_vars

=============================================================================

----------------------- MODULE PropertyListing_proofs -----------------------
(***************************************************************************)
(* Proofs about PropertyListing, for every number of files, edits, requests *)
(* in flight and failures.                                                  *)
(*                                                                         *)
(* A save commits what its handler made of a row that may be long gone.    *)
(* Outcome is the row a handler would leave behind if it committed now,    *)
(* and SlotInv says what is right about it.  The SELECT of a save leaves   *)
(* the outcome as it is; only a write of the row changes it.               *)
(***************************************************************************)
EXTENDS PropertyListing, FiniteSetTheorems, TLAPS

Outcome(s) == IF s.at = "selected" THEN Written(s.entity, row, s.dirty) ELSE s.entity

Few(images) == Cardinality(images) <= MaxImages

Blocked == {"rejected", "inactive"}

\* The outcome's files are the row's without those the handler unlinks, and uploads that
\* are on disk, that the row has not seen and that nobody is going to unlink.
FilesSound(s, e) ==
    \A f \in Referred(e) :
        \/ f \in Referred(row) \ s.unlink
        \/ f \in disk \ Referred(row) /\ \A q \in Requests : f \notin slot[q].unlink

\* e is the outcome of the handler s.
Sound(s, e) ==
    /\ row.status # "none" /\ e.status # "none"
    /\ Few(e.images)
    /\ Referred(e) \subseteq uploaded
    /\ s.clean => s.op = "updateStatus" \/ (e.status = "active" => e.content \in approved)
    /\ s.fresh => e.isRented = row.isRented /\ (s.at = "selected" => "isRented" \notin s.dirty)
    /\ s.fresh /\ s.clean => /\ FilesSound(s, e)
                             /\ s.op # "updateStatus" /\ row.status \in Blocked
                                    => e.status = row.status

IdleInv == \A r \in Requests : slot[r].at = "idle" => slot[r].unlink = {}

LoadedInv == \A r \in Requests : slot[r].at = "loaded" => slot[r].clean

SlotInv == \A r \in Requests : slot[r].at # "idle" => Sound(slot[r], Outcome(slot[r]))

\* A name is used once, and files are uploaded before they are referred to.
UploadInv ==
    /\ Referred(row) \subseteq uploaded
    /\ \A r \in Requests : slot[r].unlink \subseteq uploaded

NoneInv == row.status = "none" => ~row.isRented

IInv == /\ TypeOK /\ IdleInv /\ LoadedInv /\ SlotInv /\ UploadInv /\ NoneInv
        /\ ActiveWasApproved /\ ImagesLimited /\ FilesExist

-----------------------------------------------------------------------------
(* Rows and their columns.                                                 *)

\* A save writes a row.
LEMMA WrittenType ==
    ASSUME NEW e \in Row, NEW r \in Row, NEW d
    PROVE  Written(e, r, d) \in Row
  BY DEF Written, Row, Columns

\* Each column comes from the entity or from the row.
LEMMA WrittenColumns ==
    ASSUME NEW e \in Row, NEW r \in Row, NEW d
    PROVE  LET w == Written(e, r, d)
           IN  /\ w.status   = IF "status"   \in d THEN e.status   ELSE r.status
               /\ w.content  = IF "content"  \in d THEN e.content  ELSE r.content
               /\ w.images   = IF "images"   \in d THEN e.images   ELSE r.images
               /\ w.doc      = IF "doc"      \in d THEN e.doc      ELSE r.doc
               /\ w.isRented = IF "isRented" \in d THEN e.isRented ELSE r.isRented
  BY DEF Written, Row, Columns

\* Writing the columns that differ makes the row the entity, although the entity's other
\* columns are not kept.
LEMMA SelectKeepsOutcome ==
    ASSUME NEW e \in Row, NEW r \in Row
    PROVE  LET d == Differing(e, r) IN Written(Written(e, NoRow, d), r, d) = e
  BY DEF Written, Differing, Row, Columns

\* A worker at rest and the row of no property are well typed.
LEMMA ConstantTypes == NoRow \in Row /\ Idle \in Slot
<1>1. NoRow \in Row
  BY BoundsAssumption DEF NoRow, Row, Status
<1> QED  BY <1>1 DEF Idle, Slot, Ops

\* A commit by another handler changes only what is noted of this one.
LEMMA OvertakeType ==
    ASSUME NEW s \in Slot, NEW c \in BOOLEAN
    PROVE  /\ Overtake(s, c) \in Slot
           /\ Overtake(s, c).at = s.at /\ Overtake(s, c).op = s.op
           /\ Overtake(s, c).entity = s.entity /\ Overtake(s, c).dirty = s.dirty
           /\ Overtake(s, c).unlink = s.unlink
           /\ Overtake(s, c).fresh <=> s.fresh /\ ~(s.at = "loaded" /\ c)
           /\ Overtake(s, c).clean <=> s.clean /\ ~(s.at = "selected" /\ c)
  BY DEF Overtake, Slot

\* What a handler is about to write is a row.
LEMMA OutcomeType ==
    ASSUME TypeOK, NEW r \in Requests
    PROVE  Outcome(slot[r]) \in Row
<1>1. slot[r].entity \in Row /\ row \in Row
  BY DEF TypeOK, Slot
<1> QED  BY <1>1, WrittenType DEF Outcome

\* A row refers to files.
LEMMA ReferredType ==
    ASSUME NEW e \in Row
    PROVE  Referred(e) \subseteq Files
  BY DEF Referred, Row, Files

-----------------------------------------------------------------------------
\* Before the property is created.
LEMMA InitIInv == Init => IInv
<1> SUFFICES ASSUME Init PROVE IInv
  OBVIOUS
<1>1. TypeOK
  <2>1. row \in Row /\ slot \in [Requests -> Slot]
    BY ConstantTypes DEF Init
  <2>2. edits \in 0..MaxEdits /\ failures \in 0..MaxFailures /\ rents \in 0..MaxRents
    BY BoundsAssumption DEF Init
  <2>3. disk \in SUBSET Files /\ uploaded \in SUBSET Files /\ lost \in SUBSET Files
    BY DEF Init
  <2>4. approved \in SUBSET (0..MaxEdits)
    BY DEF Init
  <2> QED  BY <2>1, <2>2, <2>3, <2>4 DEF TypeOK
<1>2. SlotInv /\ IdleInv /\ LoadedInv
  BY DEF Init, SlotInv, IdleInv, LoadedInv, Idle
<1>3. Referred(row) = {}
  BY DEF Init, Referred, NoRow
<1>4. UploadInv /\ FilesExist
  BY <1>3 DEF Init, UploadInv, FilesExist, Idle
<1>5. NoneInv /\ ActiveWasApproved
  BY DEF Init, NoneInv, ActiveWasApproved, NoRow
<1>6. ImagesLimited
  <2>1. row.images = {}
    BY DEF Init, NoRow
  <2>2. Cardinality({}) = 0
    BY FS_EmptySet
  <2> QED  BY <2>1, <2>2, BoundsAssumption DEF ImagesLimited
<1> QED  BY <1>1, <1>2, <1>4, <1>5, <1>6 DEF IInv

-----------------------------------------------------------------------------
(* What the steps of one handler leave of the others.                      *)

\* A handler that does not move stays sound while the row does, nobody unlinks what it
\* has uploaded, and approvals and uploads are only added.
LEMMA SoundStays ==
    ASSUME NEW q \in Requests, slot'[q] = slot[q], row' = row,
           approved \subseteq approved', uploaded \subseteq uploaded',
           Sound(slot[q], Outcome(slot[q])),
           \A f \in uploaded :
               f \in disk \ Referred(row) /\ (\A p \in Requests : f \notin slot[p].unlink)
                   => f \in disk' /\ \A p \in Requests : f \notin slot'[p].unlink
    PROVE  Sound(slot[q], Outcome(slot[q]))'
<1> DEFINE e == Outcome(slot[q])
<1>1. Outcome(slot[q])' = e
  BY DEF Outcome
<1>2. Referred(row)' = Referred(row) /\ Referred(Outcome(slot[q]))' = Referred(e)
  BY <1>1 DEF Referred
<1>3. Referred(e) \subseteq uploaded
  BY DEF Sound
<1>4. FilesSound(slot[q], e) => FilesSound(slot[q], Outcome(slot[q]))'
  BY <1>2, <1>3 DEF FilesSound
<1>5. /\ row.status # "none" /\ e.status # "none"
      /\ Few(e.images)
      /\ Referred(Outcome(slot[q]))' \subseteq uploaded'
  BY <1>2 DEF Sound
<1>6. slot[q].clean => slot[q].op = "updateStatus" \/ (e.status = "active" => e.content \in approved')
  BY DEF Sound
<1>7. slot[q].fresh => e.isRented = row.isRented /\ (slot[q].at = "selected" => "isRented" \notin slot[q].dirty)
  BY DEF Sound
<1>8. slot[q].fresh /\ slot[q].clean =>
          /\ FilesSound(slot[q], Outcome(slot[q]))'
          /\ slot[q].op # "updateStatus" /\ row.status \in Blocked => e.status = row.status
  BY <1>4 DEF Sound
<1> HIDE DEF e
<1> QED  BY <1>1, <1>5, <1>6, <1>7, <1>8 DEF Sound, Few


\* A handler loads the row: what it is going to save, it has from the row, from uploads of
\* its own or from the administrator.
LEMMA LoadStep ==
    ASSUME IInv, NEW r \in Requests, NEW op \in Ops, NEW e \in Row, NEW u \in SUBSET Files,
           Load(r, op, e, u),
           e.status # "none", Few(e.images), u \subseteq Referred(row),
           disk \subseteq disk', disk' \subseteq Files,
           uploaded \subseteq uploaded', uploaded' \subseteq Files,
           edits' \in 0..MaxEdits,
           \A f \in Referred(e) : f \in Referred(row) \ u \/ f \in (disk' \ uploaded) \cap uploaded',
           op = "updateStatus" \/ (e.status = "active" => e.content \in approved),
           e.isRented = row.isRented,
           op # "updateStatus" /\ row.status \in Blocked => e.status = row.status
    PROVE  IInv'
<1> DEFINE n == [at |-> "loaded", op |-> op, entity |-> e, unlink |-> u, dirty |-> {},
                 fresh |-> TRUE, clean |-> TRUE]
<1>1. /\ n.at = "loaded" /\ n.op = op /\ n.entity = e /\ n.unlink = u /\ n.fresh /\ n.clean
      /\ n \in Slot
  BY DEF Slot
<1>2. /\ row.status # "none" /\ slot[r].at = "idle" /\ slot' = [slot EXCEPT ![r] = n]
      /\ UNCHANGED <<row, failures, rents, approved, lost>>
  BY DEF Load
<1> HIDE DEF n
<1>3. TypeOK'
  BY <1>1, <1>2 DEF IInv, TypeOK
<1>4. /\ slot'[r] = n
      /\ \A q \in Requests \ {r} : slot'[q] = slot[q]
  BY <1>2 DEF IInv, TypeOK
<1>5. Referred(row)' = Referred(row)
  BY <1>2 DEF Referred
<1>6. \A f \in uploaded :
          f \in disk \ Referred(row) /\ (\A p \in Requests : f \notin slot[p].unlink)
              => f \in disk' /\ \A p \in Requests : f \notin slot'[p].unlink
  BY <1>1, <1>4
<1>7. \A p \in Requests : slot'[p].unlink \subseteq uploaded
  BY <1>1, <1>4 DEF IInv, UploadInv
<1>8. Sound(slot[r], Outcome(slot[r]))'
  <2>1. Outcome(slot[r])' = e
    BY <1>1, <1>4 DEF Outcome
  <2>2. Referred(Outcome(slot[r]))' = Referred(e)
    BY <2>1 DEF Referred
  <2>3. Referred(e) \subseteq uploaded'
    BY DEF IInv, UploadInv
  <2>4. FilesSound(slot[r], Outcome(slot[r]))'
    <3> SUFFICES ASSUME NEW f \in Referred(e)
                 PROVE  \/ f \in Referred(row) \ u
                        \/ f \in disk' \ Referred(row) /\ \A q \in Requests : f \notin slot'[q].unlink
      BY <1>1, <1>4, <1>5, <2>2 DEF FilesSound
    <3>1. CASE f \in Referred(row) \ u
      BY <3>1
    <3>2. CASE f \in disk' \ uploaded
      BY <3>2, <1>7 DEF IInv, UploadInv
    <3> QED  BY <3>1, <3>2
  <2>5. n.clean => n.op = "updateStatus" \/ (e.status = "active" => e.content \in approved)
    BY <1>1
  <2>6. n.fresh => e.isRented = row.isRented /\ (n.at = "selected" => "isRented" \notin n.dirty)
    BY <1>1
  <2>7. n.op # "updateStatus" /\ row.status \in Blocked => e.status = row.status
    BY <1>1
  <2>8. slot'[r] = n /\ row' = row /\ approved' = approved /\ row.status # "none"
    BY <1>2, <1>4
  <2>9. /\ row'.status # "none" /\ Outcome(slot[r])'.status # "none"
        /\ Few(Outcome(slot[r]).images)'
        /\ Referred(Outcome(slot[r]))' \subseteq uploaded'
    BY <2>1, <2>2, <2>3, <2>8 DEF Few
  <2>10. slot'[r].clean => \/ slot'[r].op = "updateStatus"
                           \/ Outcome(slot[r])'.status = "active" => Outcome(slot[r])'.content \in approved'
    BY <2>1, <2>5, <2>8
  <2>11. slot'[r].fresh => /\ Outcome(slot[r])'.isRented = row'.isRented
                           /\ slot'[r].at = "selected" => "isRented" \notin slot'[r].dirty
    BY <2>1, <2>6, <2>8
  <2>12. slot'[r].op # "updateStatus" /\ row'.status \in Blocked
             => Outcome(slot[r])'.status = row'.status
    BY <2>1, <2>7, <2>8 DEF Blocked
  <2> QED  BY <2>4, <2>9, <2>10, <2>11, <2>12 DEF Sound, Blocked
<1>9. SlotInv'
  <2> SUFFICES ASSUME NEW q \in Requests, slot'[q].at # "idle"
               PROVE  Sound(slot[q], Outcome(slot[q]))'
    BY DEF SlotInv
  <2>1. CASE q = r
    BY <2>1, <1>8
  <2>2. CASE q # r
    <3>1. slot'[q] = slot[q] /\ Sound(slot[q], Outcome(slot[q]))
      BY <2>2, <1>4 DEF IInv, SlotInv
    <3> QED  BY <3>1, <1>2, <1>6, SoundStays
  <2> QED  BY <2>1, <2>2
<1>10. UploadInv' /\ IdleInv' /\ LoadedInv'
  BY <1>1, <1>4, <1>5, <1>7 DEF IInv, UploadInv, IdleInv, LoadedInv
<1>11. NoneInv' /\ ActiveWasApproved' /\ ImagesLimited'
  BY <1>2 DEF IInv, NoneInv, ActiveWasApproved, ImagesLimited
<1>12. FilesExist'
  <2> SUFFICES ASSUME NEW f \in Referred(row) \ disk'
               PROVE  f \in lost \/ \E q \in Requests : f \in slot'[q].unlink
    BY <1>2, <1>5 DEF FilesExist
  <2>1. CASE f \in lost
    BY <2>1
  <2>2. ASSUME NEW q \in Requests, f \in slot[q].unlink
        PROVE  \E p \in Requests : f \in slot'[p].unlink
    <3>1. CASE q # r
      BY <2>2, <3>1, <1>4
    <3>2. CASE q = r
      BY <2>2, <3>2, <1>1, <1>2 DEF IInv, IdleInv
    <3> QED  BY <3>1, <3>2
  <2> QED  BY <2>1, <2>2 DEF IInv, FilesExist
<1> QED  BY <1>3, <1>9, <1>10, <1>11, <1>12 DEF IInv


-----------------------------------------------------------------------------
(* The handlers that load.                                                 *)

\* What an update makes of the row: it goes back to moderation with its rent unchanged.
LEMMA RevisedFields ==
    ASSUME TypeOK, edits < MaxEdits, NEW kept \in SUBSET Images,
           NEW doc \in Documents \cup {NoFile}
    PROVE  LET e == Revised(kept, doc)
           IN  /\ e \in Row /\ e.status = "pending" /\ e.isRented = row.isRented
               /\ e.images = row.images \cup kept
               /\ e.doc = IF doc = NoFile THEN row.doc ELSE doc
<1>1. row \in Row /\ edits + 1 \in 0..MaxEdits
  BY BoundsAssumption DEF TypeOK
<1> QED  BY <1>1 DEF Revised, Row, Status

\* update loads the row.
LEMMA UpdateStep ==
    ASSUME IInv, NEW r \in Requests, NEW images \in SUBSET Images,
           NEW doc \in Documents \cup {NoFile},
           Update(r, images, doc)
    PROVE  IInv'
<1> DEFINE new == images \cup Existing(doc)
<1>1. /\ row.status \notin Blocked
      /\ new \cap uploaded = {} /\ uploaded' = uploaded \cup new
      /\ edits < MaxEdits /\ edits' = edits + 1
  BY DEF Update, Upload, Blocked
<1>2. PICK kept \in Kept(images) :
          /\ disk' = disk \cup kept \cup Existing(doc)
          /\ Load(r, "update", Revised(kept, doc), IF doc = NoFile THEN {} ELSE Existing(row.doc))
  BY DEF Update
<1> DEFINE e == Revised(kept, doc)
           u == IF doc = NoFile THEN {} ELSE Existing(row.doc)
<1>3. kept \subseteq images /\ Few(row.images \cup kept)
  BY DEF Kept, Few
<1>4. /\ e \in Row /\ e.status = "pending" /\ e.isRented = row.isRented
      /\ e.images = row.images \cup kept
      /\ e.doc = IF doc = NoFile THEN row.doc ELSE doc
  BY <1>1, <1>3, RevisedFields DEF IInv
<1>5. row \in Row /\ new \subseteq Files
  BY DEF IInv, TypeOK, Existing, Files
<1>6. u \in SUBSET Files /\ u \subseteq Referred(row)
  BY <1>5 DEF Existing, Referred, Row, Files
<1>7. /\ disk \subseteq disk' /\ disk' \subseteq Files
      /\ uploaded \subseteq uploaded' /\ uploaded' \subseteq Files
  BY <1>1, <1>2, <1>3, <1>5 DEF IInv, TypeOK
<1>8. edits' \in 0..MaxEdits
  BY <1>1, BoundsAssumption DEF IInv, TypeOK
<1>9. kept \cup Existing(doc) \subseteq (disk' \ uploaded) \cap uploaded'
  BY <1>1, <1>2, <1>3
<1>10. ASSUME NEW f \in Referred(e)
       PROVE  f \in Referred(row) \ u \/ f \in (disk' \ uploaded) \cap uploaded'
  <2>1. CASE f \in kept \cup Existing(doc)
    BY <2>1, <1>9
  <2>2. CASE f \in row.images
    BY <2>2, <1>5, FilesAssumption DEF Referred, Existing, Row
  <2>3. CASE doc = NoFile /\ f \in Existing(row.doc)
    BY <2>3 DEF Referred, Existing
  <2> QED  BY <2>1, <2>2, <2>3, <1>4 DEF Referred, Existing
<1>11. Load(r, "update", e, u)
  BY <1>2
<1> HIDE DEF e, u, new
<1> QED  BY <1>1, <1>11, <1>3, <1>4, <1>6, <1>7, <1>8, <1>10, LoadStep DEF Ops

\* An image or the document is deleted.
LEMMA DeleteStep ==
    ASSUME IInv, NEW r \in Requests, NEW f \in Files, DeleteFile(r, f)
    PROVE  IInv'
<1>1. UNCHANGED <<disk, uploaded, edits>>
  BY DEF DeleteFile
<1>2. /\ disk \in SUBSET Files /\ uploaded \in SUBSET Files /\ edits \in 0..MaxEdits /\ row \in Row
      /\ Referred(row) \subseteq uploaded /\ {f} \in SUBSET Files
  BY DEF IInv, TypeOK, UploadInv
<1>3. row.status = "active" => row.content \in approved
  BY DEF IInv, ActiveWasApproved
<1>5. row.status # "none"
  BY DEF DeleteFile, Load
<1>6. CASE f \in row.images /\ Load(r, "deleteFile", [row EXCEPT !.images = @ \ {f}], {f})
  <2> DEFINE e == [row EXCEPT !.images = @ \ {f}]
  <2>1. /\ e \in Row /\ e.status = row.status /\ e.content = row.content
        /\ e.images = row.images \ {f} /\ e.doc = row.doc /\ e.isRented = row.isRented
    BY <1>2 DEF Row
  <2>2. Referred(e) = Referred(row) \ {f} /\ {f} \subseteq Referred(row)
    BY <1>2, <1>6, <2>1, FilesAssumption DEF Referred, Row
  <2>3. Few(e.images)
    <3>1. e.images \subseteq row.images /\ row.images \in SUBSET Images
      BY <1>2, <2>1 DEF Row
    <3>2. IsFiniteSet(row.images)
      BY <3>1, ImagesAssumption, FS_Subset
    <3>3. /\ Cardinality(e.images) \in Nat /\ Cardinality(row.images) \in Nat
          /\ Cardinality(e.images) <= Cardinality(row.images)
      BY <3>1, <3>2, FS_Subset, FS_CardinalityType
    <3> QED  BY <3>3, BoundsAssumption DEF IInv, ImagesLimited, Few
  <2>4. Load(r, "deleteFile", e, {f})
    BY <1>6
  <2> HIDE DEF e
  <2> QED  BY <1>1, <1>2, <1>3, <1>5, <2>1, <2>2, <2>3, <2>4, LoadStep DEF Ops
<1>7. CASE f = row.doc /\ Load(r, "deleteFile", [row EXCEPT !.doc = NoFile], {f})
  <2> DEFINE e == [row EXCEPT !.doc = NoFile]
  <2>1. /\ e \in Row /\ e.status = row.status /\ e.content = row.content
        /\ e.images = row.images /\ e.doc = NoFile /\ e.isRented = row.isRented
    BY <1>2 DEF Row
  <2>2. Referred(e) = Referred(row) \ {f} /\ {f} \subseteq Referred(row)
    BY <1>2, <1>7, <2>1, FilesAssumption DEF Referred, Row, Files
  <2>3. Few(e.images)
    BY <2>1 DEF IInv, ImagesLimited, Few
  <2>4. Load(r, "deleteFile", e, {f})
    BY <1>7
  <2> HIDE DEF e
  <2> QED  BY <1>1, <1>2, <1>3, <1>5, <2>1, <2>2, <2>3, <2>4, LoadStep DEF Ops
<1>8. CASE Load(r, "deleteFile", row, {})
  <2>1. Referred(row) = Referred(row) \ {} /\ {} \subseteq Referred(row) /\ {} \in SUBSET Files
    OBVIOUS
  <2>2. Few(row.images)
    BY DEF IInv, ImagesLimited, Few
  <2> QED  BY <1>1, <1>2, <1>3, <1>5, <1>8, <2>1, <2>2, LoadStep DEF Ops
<1> QED  BY <1>6, <1>7, <1>8 DEF DeleteFile

\* toggleArchive and updateStatus change the status only.
LEMMA StatusStep ==
    ASSUME IInv, NEW r \in Requests, NEW op \in Ops, NEW e \in Row,
           e.status # "none", e.images = row.images, e.doc = row.doc, e.isRented = row.isRented,
           Load(r, op, e, {}), UNCHANGED <<disk, uploaded, edits>>,
           op = "updateStatus" \/ (e.status # "active" /\ row.status \notin Blocked)
    PROVE  IInv'
<1>1. /\ disk \in SUBSET Files /\ uploaded \in SUBSET Files /\ edits \in 0..MaxEdits
      /\ Referred(row) \subseteq uploaded /\ {} \in SUBSET Files
  BY DEF IInv, TypeOK, UploadInv
<1>2. Referred(e) = Referred(row) \ {}
  BY DEF Referred
<1>3. Few(e.images)
  BY DEF IInv, ImagesLimited, Few
<1> QED  BY <1>1, <1>2, <1>3, LoadStep

\* A row with another status is a row.
LEMMA StatusColumn ==
    ASSUME TypeOK, NEW s \in Status
    PROVE  LET e == [row EXCEPT !.status = s]
           IN  /\ e \in Row /\ e.status = s /\ e.images = row.images /\ e.doc = row.doc
               /\ e.isRented = row.isRented
<1>1. row \in Row
  BY DEF TypeOK
<1> QED  BY <1>1 DEF Row

\* The landlord archives or restores the property.
LEMMA ToggleStep ==
    ASSUME IInv, NEW r \in Requests, ToggleArchive(r)
    PROVE  IInv'
<1> DEFINE s == IF row.status = "archived" THEN "pending" ELSE "archived"
           e == [row EXCEPT !.status = s]
<1>1. s \in Status /\ s # "none" /\ s # "active"
  BY DEF Status
<1>2. /\ e \in Row /\ e.status = s /\ e.images = row.images /\ e.doc = row.doc
      /\ e.isRented = row.isRented
  BY <1>1, StatusColumn DEF IInv
<1>3. Load(r, "toggleArchive", e, {}) /\ UNCHANGED <<disk, uploaded, edits>>
  BY DEF ToggleArchive
<1>4. row.status \notin Blocked /\ "toggleArchive" \in Ops
  BY DEF ToggleArchive, Blocked, Ops
<1> HIDE DEF e, s
<1> QED  BY <1>1, <1>2, <1>3, <1>4, StatusStep

\* The administrator sets the status.
LEMMA ModerateStep ==
    ASSUME IInv, NEW r \in Requests, NEW s \in AdminSets, UpdateStatus(r, s)
    PROVE  IInv'
<1> DEFINE e == [row EXCEPT !.status = s]
<1>1. s \in Status /\ s # "none" /\ "updateStatus" \in Ops
  BY StatusAssumption DEF Status, Ops
<1>2. /\ e \in Row /\ e.status = s /\ e.images = row.images /\ e.doc = row.doc
      /\ e.isRented = row.isRented
  BY <1>1, StatusColumn DEF IInv
<1>3. Load(r, "updateStatus", e, {}) /\ UNCHANGED <<disk, uploaded, edits>>
  BY DEF UpdateStatus
<1> HIDE DEF e
<1> QED  BY <1>1, <1>2, <1>3, StatusStep

-----------------------------------------------------------------------------
(* Saving.                                                                 *)

\* The SELECT of save.
LEMMA SelectStep ==
    ASSUME IInv, NEW r \in Requests, SaveSelect(r)
    PROVE  IInv'
<1> DEFINE s == slot[r]
           d == Differing(s.entity, row)
           n == [at |-> "selected", op |-> s.op, unlink |-> s.unlink, fresh |-> s.fresh,
                 entity |-> Written(s.entity, NoRow, d), dirty |-> d, clean |-> TRUE]
<1>1. /\ s.at = "loaded" /\ disk' = disk \ s.unlink /\ slot' = [slot EXCEPT ![r] = n]
      /\ UNCHANGED <<row, uploaded, edits, failures, rents, approved, lost>>
  BY DEF SaveSelect
<1>2. s \in Slot /\ s.entity \in Row /\ row \in Row /\ slot \in [Requests -> Slot]
  BY DEF IInv, TypeOK, Slot
<1>3. n.entity \in Row /\ n.dirty \in SUBSET Columns
  BY <1>2, ConstantTypes, WrittenType DEF Differing
<1>4. n \in Slot
  BY <1>2, <1>3 DEF Slot
<1>5. Outcome(s) = s.entity /\ Written(n.entity, row, n.dirty) = s.entity
  BY <1>1, <1>2, SelectKeepsOutcome DEF Outcome
<1>6. s.clean
  BY <1>1 DEF IInv, LoadedInv
<1>7. "isRented" \in d <=> s.entity.isRented # row.isRented
  BY <1>2 DEF Differing, Columns, Row
<1>8. /\ n.at = "selected" /\ n.op = s.op /\ n.unlink = s.unlink /\ n.clean /\ n.dirty = d
      /\ n.fresh <=> s.fresh
  OBVIOUS
<1>9. slot'[r] = n /\ \A q \in Requests \ {r} : slot'[q] = slot[q]
  BY <1>1, <1>2
<1>10. Sound(s, s.entity)
  BY <1>1, <1>5 DEF IInv, SlotInv
<1> HIDE DEF n, d
<1>11. TypeOK'
  BY <1>1, <1>4 DEF IInv, TypeOK
<1>12. \A p \in Requests : slot'[p].unlink = slot[p].unlink
  BY <1>8, <1>9
<1>13. Referred(row)' = Referred(row)
  BY <1>1 DEF Referred
<1>14. \A f \in uploaded :
          f \in disk \ Referred(row) /\ (\A p \in Requests : f \notin slot[p].unlink)
              => f \in disk' /\ \A p \in Requests : f \notin slot'[p].unlink
  BY <1>1, <1>12
<1>15. Sound(slot[r], Outcome(slot[r]))'
  <2>1. Outcome(slot[r])' = s.entity
    BY <1>1, <1>5, <1>8, <1>9 DEF Outcome
  <2>2. Referred(Outcome(slot[r]))' = Referred(s.entity)
    BY <2>1 DEF Referred
  <2>3. /\ row'.status # "none" /\ Outcome(slot[r])'.status # "none"
        /\ Few(Outcome(slot[r]).images)'
        /\ Referred(Outcome(slot[r]))' \subseteq uploaded'
    BY <1>1, <1>10, <2>1, <2>2 DEF Sound, Few
  <2>4. slot'[r].op = "updateStatus" \/ (Outcome(slot[r])'.status = "active"
                                            => Outcome(slot[r])'.content \in approved')
    BY <1>1, <1>6, <1>8, <1>9, <1>10, <2>1 DEF Sound
  <2>5. slot'[r].fresh => /\ Outcome(slot[r])'.isRented = row'.isRented
                          /\ "isRented" \notin slot'[r].dirty
    BY <1>1, <1>7, <1>8, <1>9, <1>10, <2>1 DEF Sound
  <2>6. slot'[r].fresh => FilesSound(slot[r], Outcome(slot[r]))'
    BY <1>1, <1>6, <1>8, <1>9, <1>10, <1>12, <1>13, <2>2 DEF Sound, FilesSound
  <2>7. slot'[r].fresh /\ slot'[r].op # "updateStatus" /\ row'.status \in Blocked
            => Outcome(slot[r])'.status = row'.status
    BY <1>1, <1>6, <1>8, <1>9, <1>10, <2>1 DEF Sound, Blocked
  <2> QED  BY <2>3, <2>4, <2>5, <2>6, <2>7 DEF Sound, Blocked
<1>16. SlotInv'
  <2> SUFFICES ASSUME NEW q \in Requests, slot'[q].at # "idle"
               PROVE  Sound(slot[q], Outcome(slot[q]))'
    BY DEF SlotInv
  <2>1. CASE q = r
    BY <2>1, <1>15
  <2>2. CASE q # r
    <3>1. slot'[q] = slot[q] /\ Sound(slot[q], Outcome(slot[q]))
      BY <2>2, <1>9 DEF IInv, SlotInv
    <3> QED  BY <3>1, <1>1, <1>14, SoundStays
  <2> QED  BY <2>1, <2>2
<1>17. UploadInv' /\ IdleInv' /\ LoadedInv'
  BY <1>1, <1>8, <1>9, <1>12, <1>13 DEF IInv, UploadInv, IdleInv, LoadedInv
<1>18. NoneInv' /\ ActiveWasApproved' /\ ImagesLimited'
  BY <1>1 DEF IInv, NoneInv, ActiveWasApproved, ImagesLimited
<1>19. FilesExist'
  BY <1>1, <1>12, <1>13 DEF IInv, FilesExist
<1> QED  BY <1>11, <1>16, <1>17, <1>18, <1>19 DEF IInv

\* The row is written by somebody else: a handler that has not come to its SELECT will
\* write what it loaded, one that has will add its columns to the new row.
LEMMA SoundOvertaken ==
    ASSUME TypeOK, row' \in Row, NEW q \in Requests, slot'[q] = Overtake(slot[q], TRUE),
           approved \subseteq approved', uploaded' = uploaded, slot[q].at # "idle",
           Sound(slot[q], Outcome(slot[q])),
           row'.status # "none", Few(row'.images), Referred(row') \subseteq uploaded,
           LoadedInv
    PROVE  Sound(slot[q], Outcome(slot[q]))'
<1> DEFINE s == slot[q]
           e == Outcome(s)
           o == Outcome(slot[q])'
<1>1. s \in Slot /\ s.entity \in Row /\ row \in Row /\ (s.at = "loaded" \/ s.at = "selected")
  BY DEF TypeOK, Slot
<1>2. /\ slot'[q].at = s.at /\ slot'[q].op = s.op /\ slot'[q].entity = s.entity
      /\ slot'[q].dirty = s.dirty
      /\ slot'[q].fresh <=> s.fresh /\ ~(s.at = "loaded")
      /\ slot'[q].clean <=> s.clean /\ ~(s.at = "selected")
  BY <1>1 DEF Overtake, Slot
<1>3. CASE s.at = "loaded"
  <2>1. e = s.entity /\ o = s.entity
    BY <1>2, <1>3 DEF Outcome
  <2>2. ~slot'[q].fresh
    BY <1>2, <1>3
  <2>3. Referred(Outcome(slot[q]))' = Referred(e)
    BY <2>1 DEF Referred
  <2>4. /\ row'.status # "none" /\ Outcome(slot[q])'.status # "none"
        /\ Few(Outcome(slot[q]).images)'
        /\ Referred(Outcome(slot[q]))' \subseteq uploaded'
    BY <2>1, <2>3 DEF Sound, Few
  <2>5. s.clean => s.op = "updateStatus" \/ (e.status = "active" => e.content \in approved)
    BY DEF Sound
  <2>6. slot'[q].op = "updateStatus" \/ (Outcome(slot[q])'.status = "active"
                                             => Outcome(slot[q])'.content \in approved')
    BY <1>2, <1>3, <2>1, <2>5 DEF LoadedInv
  <2> QED  BY <2>2, <2>4, <2>6 DEF Sound
<1>4. CASE s.at = "selected"
  <2>1. e = Written(s.entity, row, s.dirty) /\ o = Written(s.entity, row', s.dirty)
    BY <1>2, <1>4 DEF Outcome
  <2>2. ~slot'[q].clean
    BY <1>2, <1>4
  <2>3. /\ e.images = IF "images" \in s.dirty THEN s.entity.images ELSE row.images
        /\ e.doc    = IF "doc"    \in s.dirty THEN s.entity.doc    ELSE row.doc
        /\ e.status = IF "status" \in s.dirty THEN s.entity.status ELSE row.status
    BY <1>1, <2>1, WrittenColumns
  <2>4. /\ o.images   = IF "images"   \in s.dirty THEN s.entity.images   ELSE row'.images
        /\ o.doc      = IF "doc"      \in s.dirty THEN s.entity.doc      ELSE row'.doc
        /\ o.status   = IF "status"   \in s.dirty THEN s.entity.status   ELSE row'.status
        /\ o.isRented = IF "isRented" \in s.dirty THEN s.entity.isRented ELSE row'.isRented
    <3> DEFINE w == Written(s.entity, row', s.dirty)
    <3>1. /\ w.status   = IF "status"   \in s.dirty THEN s.entity.status   ELSE row'.status
          /\ w.images   = IF "images"   \in s.dirty THEN s.entity.images   ELSE row'.images
          /\ w.doc      = IF "doc"      \in s.dirty THEN s.entity.doc      ELSE row'.doc
          /\ w.isRented = IF "isRented" \in s.dirty THEN s.entity.isRented ELSE row'.isRented
      BY <1>1, WrittenColumns
    <3>2. o = w
      BY <2>1
    <3> HIDE DEF o, w
    <3> QED  BY <3>1, <3>2
  <2>5. Few(o.images) /\ o.status # "none"
    BY <2>3, <2>4 DEF Sound
  <2>6. Referred(Outcome(slot[q]))' = o.images \cup ({o.doc} \ {NoFile})
    BY DEF Referred
  <2>7. Referred(Outcome(slot[q]))' \subseteq uploaded'
    BY <2>3, <2>4, <2>6 DEF Sound, Referred
  <2>8. s.fresh => "isRented" \notin s.dirty
    BY <1>4 DEF Sound
  <2>9. slot'[q].fresh => o.isRented = row'.isRented /\ "isRented" \notin slot'[q].dirty
    BY <1>2, <2>4, <2>8
  <2>10. /\ row'.status # "none" /\ Outcome(slot[q])'.status # "none"
         /\ Few(Outcome(slot[q]).images)'
    BY <2>5 DEF Few
  <2> QED  BY <2>2, <2>7, <2>9, <2>10 DEF Sound
<1> QED  BY <1>1, <1>3, <1>4

\* A handler that nothing overtakes stays as it is.
LEMMA OvertakeUnchanged ==
    ASSUME NEW s \in Slot
    PROVE  Overtake(s, FALSE) = s
  BY DEF Overtake, Slot

\* What an approval adds, and what a save is excused for.
LEMMA CommitApproves ==
    ASSUME IInv, NEW r \in Requests, SaveCommit(r)
    PROVE  /\ approved \subseteq approved' /\ approved' \subseteq 0..MaxEdits
           /\ ActiveWasApproved'
           /\ lost' \in SUBSET Files /\ lost \subseteq lost'
<1> DEFINE s == slot[r]
           w == Written(s.entity, row, s.dirty)
<1>1. /\ s.at = "selected" /\ row' = w
      /\ approved' = IF w.status = "active" /\ (s.op = "updateStatus" \/ ~s.clean)
                       THEN approved \cup {w.content} ELSE approved
      /\ lost' = IF s.fresh /\ s.clean THEN lost ELSE lost \cup (Referred(w) \ disk)
  BY DEF SaveCommit
<1>2. w = Outcome(s) /\ w \in Row
  BY <1>1, OutcomeType DEF Outcome, IInv
<1>3. Sound(s, w)
  BY <1>1, <1>2 DEF IInv, SlotInv
<1>4. w.content \in 0..MaxEdits /\ Referred(w) \subseteq Files
  BY <1>2, ReferredType DEF Row
<1>5. s.clean => s.op = "updateStatus" \/ (w.status = "active" => w.content \in approved)
  BY <1>3 DEF Sound
<1> HIDE DEF w
<1>6. approved \subseteq approved' /\ approved' \subseteq 0..MaxEdits
  BY <1>1, <1>4 DEF IInv, TypeOK
<1>7. ActiveWasApproved'
  BY <1>1, <1>5 DEF ActiveWasApproved
<1>8. lost' \in SUBSET Files /\ lost \subseteq lost'
  BY <1>1, <1>4 DEF IInv, TypeOK
<1> QED  BY <1>6, <1>7, <1>8

\* A file of the new row that is missing was missing before, or has been lost by this save.
LEMMA CommitFiles ==
    ASSUME IInv, NEW r \in Requests, SaveCommit(r),
           \A q \in Requests \ {r} : slot'[q].unlink = slot[q].unlink
    PROVE  FilesExist'
<1> DEFINE s == slot[r]
           w == Written(s.entity, row, s.dirty)
<1>1. /\ s.at = "selected" /\ row' = w /\ disk' = disk
      /\ lost' = IF s.fresh /\ s.clean THEN lost ELSE lost \cup (Referred(w) \ disk)
  BY DEF SaveCommit
<1>2. Sound(s, w)
  BY <1>1 DEF IInv, SlotInv, Outcome
<1>3. Referred(row)' = Referred(w)
  BY <1>1 DEF Referred
<1> HIDE DEF w
<1> SUFFICES ASSUME NEW f \in Referred(w) \ disk, f \notin lost'
             PROVE  \E q \in Requests : f \in slot'[q].unlink
  BY <1>1, <1>3 DEF FilesExist
<1>4. s.fresh /\ s.clean /\ f \notin lost
  BY <1>1
<1>5. f \in Referred(row) \ s.unlink
  BY <1>2, <1>4 DEF Sound, FilesSound
<1>6. PICK q \in Requests : f \in slot[q].unlink
  BY <1>4, <1>5 DEF IInv, FilesExist
<1> QED  BY <1>5, <1>6

\* The UPDATE of save.
LEMMA CommitStep ==
    ASSUME IInv, NEW r \in Requests, SaveCommit(r)
    PROVE  IInv'
<1> DEFINE s == slot[r]
           w == Written(s.entity, row, s.dirty)
<1>1. /\ s.at = "selected" /\ row' = w
      /\ slot' = [q \in Requests |-> IF q = r THEN Idle ELSE Overtake(slot[q], w # row)]
      /\ UNCHANGED <<disk, uploaded, edits, failures, rents>>
  BY DEF SaveCommit
<1>2. w = Outcome(s) /\ w \in Row
  BY <1>1, OutcomeType DEF Outcome, IInv
<1>3. Sound(s, w)
  BY <1>1, <1>2 DEF IInv, SlotInv
<1> HIDE DEF w
<1>4. /\ slot'[r] = Idle
      /\ \A q \in Requests \ {r} : slot'[q] = Overtake(slot[q], w # row)
  BY <1>1
<1>5. ASSUME NEW q \in Requests \ {r}
      PROVE  /\ slot'[q] \in Slot /\ slot'[q].unlink = slot[q].unlink /\ slot'[q].at = slot[q].at
             /\ slot[q].at = "loaded" => slot'[q].clean = slot[q].clean
             /\ w # row => slot'[q] = Overtake(slot[q], TRUE)
             /\ w = row => slot'[q] = slot[q]
  <2>1. slot[q] \in Slot
    BY DEF IInv, TypeOK
  <2>2. CASE w # row
    <3>1. (w # row) = TRUE
      BY <2>2
    <3>2. slot'[q] = Overtake(slot[q], TRUE)
      BY <1>4, <3>1
    <3> QED  BY <2>1, <2>2, <3>2 DEF Overtake, Slot
  <2>3. CASE w = row
    <3>1. (w # row) = FALSE
      BY <2>3
    <3>2. slot'[q] = slot[q]
      BY <1>4, <2>1, <3>1, OvertakeUnchanged
    <3> QED  BY <2>1, <2>3, <3>2
  <2> QED  BY <2>2, <2>3
<1>6. /\ approved \subseteq approved' /\ approved' \subseteq 0..MaxEdits
      /\ ActiveWasApproved' /\ lost' \in SUBSET Files /\ lost \subseteq lost'
  BY CommitApproves
<1>7. TypeOK'
  <2>1. slot' \in [Requests -> Slot]
    BY <1>1, <1>4, <1>5, ConstantTypes
  <2> QED  BY <2>1, <1>1, <1>2, <1>6 DEF IInv, TypeOK
<1>8. Idle.at = "idle" /\ Idle.unlink = {}
  BY DEF Idle
<1>9. Referred(row)' = Referred(w) /\ Referred(w) \subseteq uploaded
  BY <1>1, <1>3 DEF Referred, Sound
<1>10. row'.status # "none" /\ Few(row'.images) /\ Referred(row') \subseteq uploaded
  BY <1>1, <1>3 DEF Sound
<1>11. SlotInv'
  <2> SUFFICES ASSUME NEW q \in Requests, slot'[q].at # "idle"
               PROVE  Sound(slot[q], Outcome(slot[q]))'
    BY DEF SlotInv
  <2>1. q \in Requests \ {r}
    BY <1>4, <1>8
  <2>2. Sound(slot[q], Outcome(slot[q])) /\ slot[q].at # "idle"
    BY <2>1, <1>5 DEF IInv, SlotInv
  <2>3. CASE w # row
    BY <2>1, <2>2, <2>3, <1>1, <1>2, <1>5, <1>6, <1>10, SoundOvertaken DEF IInv
  <2>4. CASE w = row
    <3>1. slot'[q] = slot[q] /\ row' = row
      BY <2>1, <2>4, <1>1, <1>5
    <3>2. \A p \in Requests : slot'[p].unlink \subseteq slot[p].unlink
      BY <1>4, <1>5, <1>8
    <3>3. \A f \in uploaded :
              f \in disk \ Referred(row) /\ (\A p \in Requests : f \notin slot[p].unlink)
                  => f \in disk' /\ \A p \in Requests : f \notin slot'[p].unlink
      BY <1>1, <3>2
    <3> QED  BY <2>2, <3>1, <3>3, <1>1, <1>6, SoundStays
  <2> QED  BY <2>3, <2>4
<1>12. UploadInv' /\ IdleInv' /\ LoadedInv'
  BY <1>1, <1>4, <1>5, <1>8, <1>9 DEF IInv, UploadInv, IdleInv, LoadedInv
<1>13. NoneInv' /\ ImagesLimited'
  BY <1>10 DEF NoneInv, ImagesLimited, Few
<1>14. FilesExist'
  BY <1>5, CommitFiles
<1> QED  BY <1>6, <1>7, <1>11, <1>12, <1>13, <1>14 DEF IInv

-----------------------------------------------------------------------------
(* Creation, failure, and the contract service.                            *)

\* The property is created.
LEMMA CreateStep ==
    ASSUME IInv, NEW images \in SUBSET Images, NEW doc \in Documents \cup {NoFile},
           Create(images, doc)
    PROVE  IInv'
<1> DEFINE new == images \cup Existing(doc)
<1>1. /\ row.status = "none" /\ Few(images)
      /\ uploaded' = uploaded \cup new /\ disk' = disk \cup new /\ edits' = 1
      /\ row' = [status |-> "pending", content |-> 1, images |-> images, doc |-> doc,
                 isRented |-> FALSE]
      /\ UNCHANGED <<slot, failures, rents, approved, lost>>
  BY DEF Create, Upload, Few
<1>2. new \subseteq Files /\ Referred(row)' = new
  BY <1>1 DEF Existing, Files, Referred
<1>3. row' \in Row /\ edits' \in 0..MaxEdits
  BY <1>1, BoundsAssumption DEF Row, Status
<1>4. TypeOK'
  BY <1>1, <1>2, <1>3 DEF IInv, TypeOK
<1>5. \A r \in Requests : slot[r].at = "idle"
  BY <1>1 DEF IInv, SlotInv, Sound
<1>6. SlotInv' /\ IdleInv' /\ LoadedInv'
  BY <1>1, <1>5 DEF IInv, SlotInv, IdleInv, LoadedInv
<1>7. UploadInv' /\ FilesExist'
  BY <1>1, <1>2 DEF IInv, UploadInv, FilesExist
<1>8. NoneInv' /\ ActiveWasApproved' /\ ImagesLimited'
  BY <1>1 DEF NoneInv, ActiveWasApproved, ImagesLimited, Few
<1> QED  BY <1>4, <1>6, <1>7, <1>8 DEF IInv

\* A handler fails half-way.
LEMMA FailStep ==
    ASSUME IInv, NEW r \in Requests, Fail(r)
    PROVE  IInv'
<1>1. /\ slot' = [slot EXCEPT ![r] = Idle] /\ lost' = lost \cup slot[r].unlink
      /\ failures < MaxFailures /\ failures' = failures + 1
      /\ UNCHANGED <<row, disk, uploaded, edits, rents, approved>>
  BY DEF Fail
<1>2. Idle \in Slot /\ Idle.at = "idle" /\ Idle.unlink = {}
  BY ConstantTypes DEF Idle
<1>3. slot'[r] = Idle /\ \A q \in Requests \ {r} : slot'[q] = slot[q]
  BY <1>1 DEF IInv, TypeOK
<1>4. slot[r].unlink \subseteq Files
  BY DEF IInv, TypeOK, Slot
<1>5. failures' \in 0..MaxFailures
  BY <1>1, BoundsAssumption DEF IInv, TypeOK
<1>6. TypeOK'
  BY <1>1, <1>2, <1>4, <1>5 DEF IInv, TypeOK
<1>7. Referred(row)' = Referred(row)
  BY <1>1 DEF Referred
<1>8. \A f \in uploaded :
          f \in disk \ Referred(row) /\ (\A p \in Requests : f \notin slot[p].unlink)
              => f \in disk' /\ \A p \in Requests : f \notin slot'[p].unlink
  BY <1>1, <1>2, <1>3
<1>9. SlotInv'
  <2> SUFFICES ASSUME NEW q \in Requests, slot'[q].at # "idle"
               PROVE  Sound(slot[q], Outcome(slot[q]))'
    BY DEF SlotInv
  <2>1. slot'[q] = slot[q] /\ Sound(slot[q], Outcome(slot[q]))
    BY <1>2, <1>3 DEF IInv, SlotInv
  <2> QED  BY <2>1, <1>1, <1>8, SoundStays
<1>10. UploadInv' /\ IdleInv' /\ LoadedInv'
  BY <1>1, <1>2, <1>3, <1>7 DEF IInv, UploadInv, IdleInv, LoadedInv
<1>11. NoneInv' /\ ActiveWasApproved' /\ ImagesLimited'
  BY <1>1 DEF IInv, NoneInv, ActiveWasApproved, ImagesLimited
<1>12. FilesExist'
  BY <1>1, <1>3, <1>7 DEF IInv, FilesExist
<1> QED  BY <1>6, <1>9, <1>10, <1>11, <1>12 DEF IInv

\* A contract writes isRented.
LEMMA RentStep ==
    ASSUME IInv, NEW b \in BOOLEAN, WriteIsRented(b)
    PROVE  IInv'
<1>1. /\ row.status # "none" /\ rents < MaxRents /\ rents' = rents + 1
      /\ row' = [row EXCEPT !.isRented = b]
      /\ slot' = [q \in Requests |-> Overtake(slot[q], TRUE)]
      /\ UNCHANGED <<disk, uploaded, edits, failures, approved, lost>>
  BY DEF WriteIsRented
<1>2. /\ row' \in Row /\ row'.status = row.status /\ row'.content = row.content
      /\ row'.images = row.images /\ row'.doc = row.doc
  BY <1>1 DEF IInv, TypeOK, Row
<1>3. ASSUME NEW q \in Requests
      PROVE  /\ slot'[q] = Overtake(slot[q], TRUE) /\ slot'[q] \in Slot
             /\ slot'[q].unlink = slot[q].unlink /\ slot'[q].at = slot[q].at
             /\ slot[q].at = "loaded" => slot'[q].clean = slot[q].clean
  <2>1. slot[q] \in Slot /\ slot'[q] = Overtake(slot[q], TRUE)
    BY <1>1 DEF IInv, TypeOK
  <2> QED  BY <2>1 DEF Overtake, Slot
<1>4. rents' \in 0..MaxRents
  BY <1>1, BoundsAssumption DEF IInv, TypeOK
<1>5. slot' \in [Requests -> Slot]
  BY <1>1, <1>3
<1>6. TypeOK'
  BY <1>1, <1>2, <1>4, <1>5 DEF IInv, TypeOK
<1>7. Referred(row') = Referred(row) /\ Referred(row)' = Referred(row)
  BY <1>2 DEF Referred
<1>8. row'.status # "none" /\ Few(row'.images) /\ Referred(row') \subseteq uploaded
  BY <1>1, <1>2, <1>7 DEF IInv, UploadInv, ImagesLimited, Few
<1>9. SlotInv'
  <2> SUFFICES ASSUME NEW q \in Requests, slot'[q].at # "idle"
               PROVE  Sound(slot[q], Outcome(slot[q]))'
    BY DEF SlotInv
  <2>1. slot[q].at # "idle" /\ Sound(slot[q], Outcome(slot[q]))
    BY <1>3 DEF IInv, SlotInv
  <2> QED  BY <2>1, <1>1, <1>2, <1>3, <1>8, SoundOvertaken DEF IInv
<1>10. UploadInv' /\ IdleInv' /\ LoadedInv'
  BY <1>1, <1>3, <1>7 DEF IInv, UploadInv, IdleInv, LoadedInv
<1>11. NoneInv' /\ ActiveWasApproved' /\ ImagesLimited'
  BY <1>1, <1>2 DEF IInv, NoneInv, ActiveWasApproved, ImagesLimited
<1>12. FilesExist'
  BY <1>1, <1>3, <1>7 DEF IInv, FilesExist
<1> QED  BY <1>6, <1>9, <1>10, <1>11, <1>12 DEF IInv

-----------------------------------------------------------------------------
\* Every step of the property.
LEMMA NextIInv == IInv /\ [Next]_vars => IInv'
<1> SUFFICES ASSUME IInv, [Next]_vars PROVE IInv'
  OBVIOUS
<1>1. ASSUME NEW images \in SUBSET Images, NEW doc \in Documents \cup {NoFile},
             Create(images, doc) \/ \E r \in Requests : Update(r, images, doc)
      PROVE  IInv'
  BY <1>1, CreateStep, UpdateStep
<1>2. ASSUME NEW r \in Requests,
             \/ \E f \in Files : DeleteFile(r, f)
             \/ \E s \in AdminSets : UpdateStatus(r, s)
             \/ ToggleArchive(r)
      PROVE  IInv'
  BY <1>2, DeleteStep, ModerateStep, ToggleStep
<1>3. ASSUME NEW r \in Requests, SaveSelect(r) \/ SaveCommit(r) \/ Fail(r)
      PROVE  IInv'
  BY <1>3, SelectStep, CommitStep, FailStep
<1>4. ASSUME NEW b \in BOOLEAN, WriteIsRented(b)
      PROVE  IInv'
  BY <1>4, RentStep
<1>5. CASE UNCHANGED vars
  <2>1. TypeOK' /\ IdleInv' /\ LoadedInv' /\ NoneInv' /\ ActiveWasApproved' /\ ImagesLimited'
    BY <1>5 DEF vars, IInv, TypeOK, IdleInv, LoadedInv, NoneInv, ActiveWasApproved, ImagesLimited
  <2>2. Referred(row)' = Referred(row)
    BY <1>5 DEF vars, Referred
  <2>3. UploadInv' /\ FilesExist'
    BY <1>5, <2>2 DEF vars, IInv, UploadInv, FilesExist
  <2>4. SlotInv'
    BY <1>5, SoundStays DEF vars, IInv, SlotInv
  <2> QED  BY <2>1, <2>3, <2>4 DEF IInv
<1> QED  BY <1>1, <1>2, <1>3, <1>4, <1>5 DEF Next

\* The inductive invariant holds of every behaviour.
THEOREM Invariance == Spec => []IInv
<1> QED  BY InitIInv, NextIInv, PTL DEF Spec

\* Rows, entities in flight, files and counters keep their types.
THEOREM TypeCorrect == Spec => []TypeOK
<1>1. IInv => TypeOK
  BY DEF IInv
<1> QED  BY <1>1, Invariance, PTL

\* An active listing shows what the administrator approved, for any number of edits and
\* of saves that overlap.
THEOREM ActiveIsApproved == Spec => []ActiveWasApproved
<1>1. IInv => ActiveWasApproved
  BY DEF IInv
<1> QED  BY <1>1, Invariance, PTL

\* The limit on images holds, although each update only counts the images it has loaded.
THEOREM ImagesAreLimited == Spec => []ImagesLimited
<1>1. IInv => ImagesLimited
  BY DEF IInv
<1> QED  BY <1>1, Invariance, PTL

\* A missing file of the listing is always explained by a handler in flight, a failure,
\* or a save that overtook another.
THEOREM FilesAreOnDisk == Spec => []FilesExist
<1>1. IInv => FilesExist
  BY DEF IInv
<1> QED  BY <1>1, Invariance, PTL

-----------------------------------------------------------------------------
(* Who writes the row, and what a save may change in it.                   *)

\* Who changes the row: its creation, a save, and the contracts.
LEMMA Writers ==
    ASSUME [Next]_vars, row' # row
    PROVE  \/ row.status = "none" /\ row'.isRented = FALSE
           \/ \E r \in Requests : SaveCommit(r)
           \/ \E b \in BOOLEAN : WriteIsRented(b)
<1>1. ASSUME NEW images \in SUBSET Images, NEW doc \in Documents \cup {NoFile}, Create(images, doc)
      PROVE  row.status = "none" /\ row'.isRented = FALSE
  BY <1>1 DEF Create
<1>2. ASSUME NEW images \in SUBSET Images, NEW doc \in Documents \cup {NoFile},
             NEW r \in Requests, Update(r, images, doc)
      PROVE  FALSE
  BY <1>2 DEF Update, Load
<1>3. ASSUME NEW r \in Requests, NEW f \in Files, DeleteFile(r, f) PROVE FALSE
  BY <1>3 DEF DeleteFile, Load
<1>4. ASSUME NEW r \in Requests, NEW s \in AdminSets, UpdateStatus(r, s) PROVE FALSE
  BY <1>4 DEF UpdateStatus, Load
<1>5. ASSUME NEW r \in Requests, ToggleArchive(r) \/ SaveSelect(r) \/ Fail(r) PROVE FALSE
  BY <1>5 DEF ToggleArchive, Load, SaveSelect, Fail
<1>6. ~UNCHANGED vars
  BY DEF vars
<1> QED  BY <1>1, <1>2, <1>3, <1>4, <1>5, <1>6 DEF Next

\* The row after a save is the handler's outcome, and only its own slot becomes idle.
LEMMA CommitOutcome ==
    ASSUME IInv, NEW r \in Requests, SaveCommit(r)
    PROVE  /\ slot[r].at = "selected" /\ slot'[r].at = "idle"
           /\ row' = Outcome(slot[r]) /\ Sound(slot[r], row')
           /\ \A q \in Requests \ {r} : slot'[q].at = slot[q].at
<1> DEFINE w == Written(slot[r].entity, row, slot[r].dirty)
<1>1. /\ slot[r].at = "selected" /\ row' = w
      /\ slot' = [q \in Requests |-> IF q = r THEN Idle ELSE Overtake(slot[q], w # row)]
  BY DEF SaveCommit
<1>2. w = Outcome(slot[r])
  BY <1>1 DEF Outcome
<1> HIDE DEF w
<1>3. Sound(slot[r], w)
  BY <1>1, <1>2 DEF IInv, SlotInv
<1>4. slot'[r].at = "idle"
  BY <1>1 DEF Idle
<1>5. \A q \in Requests \ {r} : slot'[q].at = slot[q].at
  <2> TAKE q \in Requests \ {r}
  <2>1. slot[q] \in Slot /\ slot'[q] = Overtake(slot[q], w # row)
    BY <1>1 DEF IInv, TypeOK
  <2> QED  BY <2>1 DEF Overtake, Slot
<1> QED  BY <1>1, <1>2, <1>3, <1>4, <1>5

\* A rejected or deactivated listing comes back only by the administrator, or by a handler
\* that had loaded it before.
THEOREM OnlyAdmin == Spec => OnlyAdminRevives
<1> DEFINE P == row.status \in {"rejected", "inactive"} /\ row'.status # row.status =>
                    \E r \in Requests : /\ slot[r].at = "selected" /\ slot'[r].at = "idle"
                                        /\ \/ slot[r].op = "updateStatus"
                                           \/ ~slot[r].fresh \/ ~slot[r].clean
<1>1. IInv /\ [Next]_vars => [P]_vars
  <2> SUFFICES ASSUME IInv, [Next]_vars, row.status \in Blocked, row'.status # row.status
               PROVE  \E r \in Requests : /\ slot[r].at = "selected" /\ slot'[r].at = "idle"
                                          /\ \/ slot[r].op = "updateStatus"
                                             \/ ~slot[r].fresh \/ ~slot[r].clean
    BY DEF Blocked
  <2>1. row.status # "none" /\ row' # row
    BY DEF Blocked
  <2>2. ASSUME NEW b \in BOOLEAN, WriteIsRented(b) PROVE FALSE
    BY <2>2 DEF WriteIsRented, IInv, TypeOK, Row
  <2>3. PICK r \in Requests : SaveCommit(r)
    BY <2>1, <2>2, Writers
  <2>4. slot[r].at = "selected" /\ slot'[r].at = "idle" /\ Sound(slot[r], row')
    BY <2>3, CommitOutcome
  <2>5. slot[r].op = "updateStatus" \/ ~slot[r].fresh \/ ~slot[r].clean
    BY <2>4 DEF Sound
  <2> QED  BY <2>4, <2>5
<1> QED  BY <1>1, Invariance, PTL DEF Spec, OnlyAdminRevives

\* isRented is changed by the contract service, and by a save only if the row had changed
\* between its load and its SELECT.
THEOREM ContractsOwnIsRented == Spec => RentedIsTheContracts
<1> DEFINE P == row'.isRented # row.isRented =>
                    \A r \in Requests : slot[r].at = "selected" /\ slot'[r].at = "idle"
                                            => ~slot[r].fresh
<1>1. IInv /\ [Next]_vars => [P]_vars
  <2> SUFFICES ASSUME IInv, [Next]_vars, row'.isRented # row.isRented,
                      NEW r \in Requests, slot[r].at = "selected", slot'[r].at = "idle"
               PROVE  ~slot[r].fresh
    OBVIOUS
  <2>1. row' # row /\ Sound(slot[r], Outcome(slot[r]))
    BY DEF IInv, SlotInv
  <2>2. row.status # "none"
    BY <2>1 DEF Sound
  <2>3. ASSUME NEW b \in BOOLEAN, WriteIsRented(b) PROVE FALSE
    <3>1. slot[r] \in Slot /\ slot'[r] = Overtake(slot[r], TRUE)
      BY <2>3 DEF WriteIsRented, IInv, TypeOK
    <3>2. slot'[r].at = slot[r].at
      BY <3>1 DEF Overtake, Slot
    <3> QED  BY <3>2
  <2>4. PICK q \in Requests : SaveCommit(q)
    BY <2>1, <2>2, <2>3, Writers
  <2>5. q = r
    BY <2>4, CommitOutcome
  <2>6. Sound(slot[r], row')
    BY <2>4, <2>5, CommitOutcome
  <2> QED  BY <2>6 DEF Sound
<1> QED  BY <1>1, Invariance, PTL DEF Spec, RentedIsTheContracts

=============================================================================

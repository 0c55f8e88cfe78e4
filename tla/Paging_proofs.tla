--------------------------- MODULE Paging_proofs ---------------------------
(***************************************************************************)
(* A walk of the batch audit reports each document there was when it       *)
(* began, once, whatever is uploaded meanwhile.                            *)
(***************************************************************************)
EXTENDS Paging, FiniteSetTheorems, TLAPS

(* Rows the walk will still be shown, if it goes on from a cursor.         *)
Ahead(cursor, d) == cursor # None => Precedes(cursor, d)

(* The walk only ever holds rows that exist.                               *)
HoldsVisible ==
  /\ walk.known \cup walk.rest \cup walk.scanned \cup walk.reported \subseteq Visible
  /\ {walk.cursor, walk.next} \subseteq Visible \cup {None}

(* What was reported lies behind the cursor.                               *)
ReportedBehind ==
  walk.at # "done" =>
    \A d \in walk.reported : walk.cursor # None /\ ~Precedes(walk.cursor, d)

(* The page lies ahead of the cursor, and not ahead of the next one.       *)
PageBetween ==
  /\ walk.at # "auditing" => walk.rest \cup walk.scanned = {} /\ walk.next = None
  /\ \A d \in walk.rest \cup walk.scanned :
       Ahead(walk.cursor, d) /\ (walk.next # None => ~Precedes(walk.next, d))
  /\ walk.next # None => Ahead(walk.cursor, walk.next)

(* No document that was there is left behind.                              *)
KnownKept ==
  /\ walk.at = "reading" =>
       \A d \in walk.known : d \in walk.reported \/ Ahead(walk.cursor, d)
  /\ walk.at = "auditing" =>
       \A d \in walk.known :
         /\ d \in walk.reported \/ Ahead(walk.cursor, d)
         /\ \/ d \in walk.reported \cup walk.rest \cup walk.scanned
            \/ walk.next # None /\ Precedes(walk.next, d)

WalkInv ==
  /\ PagingType
  /\ HoldsVisible /\ ReportedBehind /\ PageBetween /\ KnownKept
  /\ WalkComplete

---------------------------------------------------------------------------
(* Visible rows are strictly ordered.                                      *)
LEMMA RowsOrdered ==
  ASSUME PagingType, NEW d \in Document, NEW e \in Document, NEW f \in Document
  PROVE  /\ ~Precedes(d, d)
         /\ Precedes(d, e) => ~Precedes(e, d)
         /\ Precedes(d, e) /\ Precedes(e, f) => Precedes(d, f)
         /\ Precedes(d, e) \/ Precedes(e, d) \/ d = e
         /\ ~Precedes(e, d) /\ Precedes(e, f) => Precedes(d, f)
<1>1. d \in Nat /\ e \in Nat /\ f \in Nat
  BY PagingAssumption
<1>2. created[d] \in Nat /\ created[e] \in Nat /\ created[f] \in Nat
  BY PagingAssumption DEF PagingType
<1> QED
  BY <1>1, <1>2 DEF Precedes

(* Counting rows gives a number.                                           *)
LEMMA VisibleCounted == Cardinality(Visible) \in Nat
<1>1. Visible \subseteq Document
  BY DEF Visible
<1>2. IsFiniteSet(Visible)
  BY <1>1, PagingAssumption, FS_Subset
<1> QED
  BY <1>2, FS_CardinalityType

---------------------------------------------------------------------------
(* Steps that do not touch the walk: they leave the visible rows as they   *)
(* are, and at most add one.                                               *)
LEMMA WalkUntouched ==
  ASSUME WalkInv, PagingType', UNCHANGED walk, Visible \subseteq Visible',
         \A d \in Visible : created'[d] = created[d]
  PROVE  WalkInv'
<1>1. \A d, e \in Visible : Precedes(d, e)' <=> Precedes(d, e)
  BY DEF Precedes
<1>2. \A c \in Visible \cup {None}, d \in Visible : Ahead(c, d)' <=> Ahead(c, d)
  BY <1>1 DEF Ahead
<1>3. HoldsVisible'
  BY DEF WalkInv, HoldsVisible
<1>4. ReportedBehind'
  BY <1>1 DEF WalkInv, ReportedBehind, HoldsVisible
<1>5. PageBetween'
  BY <1>1, <1>2 DEF WalkInv, PageBetween, HoldsVisible
<1>6. KnownKept'
  BY <1>1, <1>2 DEF WalkInv, KnownKept, HoldsVisible
<1> QED
  BY <1>3, <1>4, <1>5, <1>6 DEF WalkInv, WalkComplete

(* Uploads and the clock.                                                  *)
LEMMA UploadsKeepWalk ==
  ASSUME WalkInv,
         Ticks \/ \E d \in Document : UploadBegins(d) \/ UploadCommits(d) \/ UploadFails(d)
  PROVE  WalkInv'
<1> USE DEF WalkInv
<1>1. CASE Ticks
  <2>1. PagingType'
    BY <1>1, PagingAssumption DEF Ticks, PagingType
  <2> QED
    BY <1>1, <2>1, WalkUntouched DEF Ticks, Visible
<1>2. ASSUME NEW d \in Document, UploadBegins(d) PROVE WalkInv'
  <2>1. PagingType'
    BY <1>2 DEF UploadBegins, PagingType
  <2>2. Visible' = Visible /\ d \notin Visible
    BY <1>2 DEF UploadBegins, Visible, PagingType
  <2>3. \A e \in Visible : created'[e] = created[e]
    BY <1>2, <2>2 DEF UploadBegins, Visible, PagingType
  <2> QED
    BY <1>2, <2>1, <2>2, <2>3, WalkUntouched DEF UploadBegins
<1>3. ASSUME NEW d \in Document, UploadCommits(d) PROVE WalkInv'
  <2>1. list' \in Listing
    BY <1>3 DEF UploadCommits, PagingType, Listing
  <2>2. PagingType'
    BY <1>3, <2>1 DEF UploadCommits, PagingType
  <2>3. Visible \subseteq Visible'
    BY <1>3 DEF UploadCommits, Visible, PagingType
  <2> QED
    BY <1>3, <2>2, <2>3, WalkUntouched DEF UploadCommits
<1>4. ASSUME NEW d \in Document, UploadFails(d) PROVE WalkInv'
  <2>1. PagingType'
    BY <1>4 DEF UploadFails, PagingType
  <2>2. Visible \subseteq Visible'
    BY <1>4 DEF UploadFails, Visible, PagingType
  <2> QED
    BY <1>4, <2>1, <2>2, WalkUntouched DEF UploadFails
<1> QED
  BY <1>1, <1>2, <1>3, <1>4

(* The client of the list.                                                 *)
LEMMA ListKeepsWalk ==
  ASSUME WalkInv,
         ListBegins \/ ListCounts \/ ListLeaves \/ \E limit \in Limits : ListReads(limit)
  PROVE  WalkInv'
<1>1. Visible \subseteq Document /\ list \in Listing
  BY DEF WalkInv, PagingType, Visible
<1>2. NoListing \in Listing
  BY DEF NoListing, Listing
<1>3. UNCHANGED <<now, stage, created, walk>>
  BY DEF ListBegins, ListCounts, ListLeaves, ListReads
<1>4. list' \in Listing
  <2>1. CASE ListBegins
    BY <1>1, <1>2, <2>1 DEF ListBegins, NoListing, Listing
  <2>2. CASE ListCounts
    BY <1>1, <2>2, VisibleCounted DEF ListCounts, Listing
  <2>3. CASE ListLeaves
    BY <1>2, <2>3 DEF ListLeaves
  <2>4. ASSUME NEW limit \in Limits, ListReads(limit) PROVE list' \in Listing
    <3>1. limit \in Nat
      BY PagingAssumption
    <3>2. PICK page \in SUBSET Visible, at \in {"done", "counting"} :
            list' = [list EXCEPT !.at = at, !.offset = list.offset + limit,
                                 !.listed = list.listed \cup page]
      BY <2>4 DEF ListReads
    <3>3. list.offset + limit \in Nat /\ list.listed \cup page \in SUBSET Document
      BY <1>1, <3>1 DEF Listing
    <3> QED
      BY <1>1, <3>2, <3>3 DEF Listing
  <2> QED
    BY <2>1, <2>2, <2>3, <2>4
<1>5. PagingType'
  BY <1>3, <1>4 DEF WalkInv, PagingType
<1> QED
  BY <1>3, <1>5, WalkUntouched DEF Visible

---------------------------------------------------------------------------
(* A page holds every known row up to the next cursor.                     *)
LEMMA WalkReadsPage ==
  ASSUME WalkInv, NEW limit \in Limits, WalkReads(limit)
  PROVE  WalkInv'
<1> DEFINE rows == RowsAfter(walk.cursor)
<1> DEFINE EndsAt(page, next) ==
      IF Cardinality(rows) > limit
        THEN next \in page /\ \A d \in page : d = next \/ Precedes(d, next)
        ELSE next = None
<1> DEFINE Holds(page, next) ==
      walk' = [walk EXCEPT !.at = "auditing", !.rest = page, !.next = next]
<1>a. PICK page \in SUBSET rows :
        /\ IsOldest(page, limit, rows)
        /\ \E next \in page \cup {None} : EndsAt(page, next) /\ Holds(page, next)
  BY DEF WalkReads
<1>1. PICK next \in page \cup {None} : EndsAt(page, next) /\ Holds(page, next)
  BY <1>a
<1>2. /\ walk.at = "reading" /\ walk.scanned = {}
      /\ UNCHANGED <<now, stage, created, list>>
  BY DEF WalkReads, WalkInv, PageBetween
<1>3. limit \in Nat /\ Visible \subseteq Document /\ None \notin Document
  BY PagingAssumption DEF Visible
<1>4. rows \subseteq Visible /\ \A d \in Visible : d \in rows <=> Ahead(walk.cursor, d)
  BY DEF RowsAfter, Ahead
<1>5. /\ walk'.at = "auditing" /\ walk'.rest = page /\ walk'.next = next
      /\ walk'.scanned = {} /\ walk'.cursor = walk.cursor
      /\ walk'.known = walk.known /\ walk'.reported = walk.reported
      /\ walk' \in Walk
  BY <1>1, <1>2, <1>3, <1>4 DEF WalkInv, PagingType, Walk
<1>6. Visible' = Visible /\ \A d, e \in Document : Precedes(d, e)' <=> Precedes(d, e)
  BY <1>2 DEF Visible, Precedes
<1>7. \A c \in Visible \cup {None}, d \in Visible : Ahead(c, d)' <=> Ahead(c, d)
  BY <1>3, <1>6 DEF Ahead
<1>8. Cardinality(rows) \in Nat
  BY <1>3, <1>4, PagingAssumption, FS_Subset, FS_CardinalityType
<1>9. \A d \in rows : d \in page \/ (next # None /\ Precedes(next, d))
  <2>1. CASE Cardinality(rows) > limit
    BY <1>a, <1>1, <1>3, <1>4, <1>8, <2>1 DEF IsOldest
  <2>2. CASE ~(Cardinality(rows) > limit)
    BY <1>a, <1>3, <1>8, <2>2 DEF IsOldest
  <2> QED
    BY <2>1, <2>2
<1>10. next # None =>
         next \in page /\ \A d \in page : ~Precedes(next, d)
  BY <1>1, <1>3, <1>4, RowsOrdered DEF WalkInv
<1> HIDE DEF rows
<1>11. PagingType'
  BY <1>2, <1>5 DEF WalkInv, PagingType
<1>12. HoldsVisible'
  BY <1>1, <1>4, <1>5, <1>6, <1>10 DEF WalkInv, HoldsVisible
<1>13. ReportedBehind'
  BY <1>2, <1>3, <1>5, <1>6 DEF WalkInv, ReportedBehind, HoldsVisible
<1>14. PageBetween'
  BY <1>1, <1>3, <1>4, <1>5, <1>6, <1>7, <1>10 DEF WalkInv, PageBetween, HoldsVisible
<1>15. KnownKept'
  BY <1>1, <1>2, <1>3, <1>4, <1>5, <1>6, <1>7, <1>9 DEF WalkInv, KnownKept, HoldsVisible
<1> QED
  BY <1>5, <1>11, <1>12, <1>13, <1>14, <1>15 DEF WalkInv, WalkComplete

(* When a page is answered, the next cursor takes over.                    *)
LEMMA WalkAnswersPage ==
  ASSUME WalkInv, WalkAnswers
  PROVE  WalkInv'
<1>1. /\ walk.at = "auditing" /\ walk.rest = {}
      /\ UNCHANGED <<now, stage, created, list>>
  BY DEF WalkAnswers
<1>2. /\ walk'.at = IF walk.next = None THEN "done" ELSE "reading"
      /\ walk'.rest = {} /\ walk'.scanned = {} /\ walk'.next = None
      /\ walk'.cursor = walk.next /\ walk'.known = walk.known
      /\ walk'.reported = walk.reported \cup walk.scanned
      /\ walk' \in Walk
  BY <1>1 DEF WalkAnswers, WalkInv, PagingType, Walk
<1>3. Visible' = Visible /\ Visible \subseteq Document
  BY <1>1 DEF Visible
<1>4. \A d, e \in Document : Precedes(d, e)' <=> Precedes(d, e)
  BY <1>1 DEF Precedes
<1>5. PagingType'
  BY <1>1, <1>2 DEF WalkInv, PagingType
<1>6. HoldsVisible'
  BY <1>2, <1>3 DEF WalkInv, HoldsVisible
<1>7. ReportedBehind'
  <2>1. ASSUME walk.next # None, NEW d \in walk.reported PROVE ~Precedes(walk.next, d)
    <3>1. walk.cursor # None /\ ~Precedes(walk.cursor, d) /\ Precedes(walk.cursor, walk.next)
      BY <1>1, <2>1 DEF WalkInv, ReportedBehind, PageBetween, Ahead
    <3>2. d \in Document /\ walk.cursor \in Document /\ walk.next \in Document
      BY <1>3, <2>1, <3>1 DEF WalkInv, HoldsVisible
    <3>3. Precedes(d, walk.next)
      BY <3>1, <3>2, RowsOrdered DEF WalkInv
    <3> QED
      BY <3>2, <3>3, RowsOrdered DEF WalkInv
  <2>2. ASSUME walk.next # None, NEW d \in walk.scanned PROVE ~Precedes(walk.next, d)
    BY <2>2 DEF WalkInv, PageBetween
  <2>3. walk'.reported \subseteq Document /\ (walk.next # None => walk.next \in Document)
    BY <1>2, <1>3 DEF WalkInv, HoldsVisible
  <2> QED
    BY <1>2, <1>4, <2>1, <2>2, <2>3 DEF ReportedBehind
<1>8. PageBetween'
  BY <1>2 DEF PageBetween
<1>9. \A d \in walk.known :
        d \in walk'.reported \/ (walk.next # None /\ Precedes(walk.next, d))
  BY <1>1, <1>2 DEF WalkInv, KnownKept
<1>10. KnownKept'
  <2>1. walk.known \subseteq Document /\ (walk.next # None => walk.next \in Document)
    BY <1>3 DEF WalkInv, HoldsVisible
  <2> QED
    BY <1>2, <1>4, <1>9, <2>1 DEF KnownKept, Ahead
<1>11. WalkComplete'
  BY <1>2, <1>9 DEF WalkComplete
<1> QED
  BY <1>5, <1>6, <1>7, <1>8, <1>10, <1>11 DEF WalkInv

(* The other steps of the walk.                                            *)
LEMMA WalkGoesOn ==
  ASSUME WalkInv, WalkBegins \/ WalkAudits \/ WalkFails \/ WalkLeaves
  PROVE  WalkInv'
<1>1. UNCHANGED <<now, stage, created, list>>
  BY DEF WalkBegins, WalkAudits, WalkFails, WalkLeaves
<1>2. Visible' = Visible /\ Visible \subseteq Document /\ walk \in Walk
  BY <1>1 DEF Visible, WalkInv, PagingType
<1>3. \A d, e : Precedes(d, e)' <=> Precedes(d, e)
  BY <1>1 DEF Precedes
<1>4. \A c, d : Ahead(c, d)' <=> Ahead(c, d)
  BY <1>3 DEF Ahead
<1>5. SUFFICES walk' \in Walk /\ HoldsVisible' /\ ReportedBehind' /\ PageBetween' /\ KnownKept'
                /\ WalkComplete'
  BY <1>1 DEF WalkInv, PagingType
<1>6. CASE WalkBegins
  <2>1. walk' = [NoWalk EXCEPT !.at = "reading", !.known = Visible]
    BY <1>6 DEF WalkBegins
  <2>2. /\ walk' \in Walk /\ walk'.at = "reading" /\ walk'.known = Visible
        /\ walk'.cursor = None /\ walk'.next = None
        /\ walk'.rest = {} /\ walk'.scanned = {} /\ walk'.reported = {}
    BY <1>2, <2>1 DEF NoWalk, Walk
  <2> QED
    BY <1>2, <2>2
    DEF HoldsVisible, ReportedBehind, PageBetween, KnownKept, WalkComplete, Ahead
<1>7. CASE WalkAudits
  <2>1. PICK d \in walk.rest :
          walk' = [walk EXCEPT !.rest = @ \ {d}, !.scanned = @ \cup {d}]
    BY <1>7 DEF WalkAudits
  <2>2. /\ walk' \in Walk /\ walk'.at = walk.at /\ walk'.known = walk.known
        /\ walk'.cursor = walk.cursor /\ walk'.next = walk.next
        /\ walk'.rest \cup walk'.scanned = walk.rest \cup walk.scanned
        /\ walk'.reported = walk.reported
    BY <1>2, <2>1 DEF Walk
  <2>3. HoldsVisible' /\ WalkComplete'
    BY <1>2, <2>2 DEF WalkInv, HoldsVisible, WalkComplete
  <2>4. ReportedBehind'
    BY <1>3, <2>2 DEF WalkInv, ReportedBehind
  <2>5. PageBetween'
    BY <1>3, <1>4, <2>2 DEF WalkInv, PageBetween
  <2>6. KnownKept'
    BY <1>3, <1>4, <2>2 DEF WalkInv, KnownKept
  <2> QED
    BY <2>2, <2>3, <2>4, <2>5, <2>6
<1>8. CASE WalkFails
  <2>1. walk.at = "auditing"
        /\ walk' = [walk EXCEPT !.at = "reading", !.rest = {}, !.scanned = {}, !.next = None]
    BY <1>8 DEF WalkFails
  <2>2. /\ walk' \in Walk /\ walk'.at = "reading" /\ walk'.known = walk.known
        /\ walk'.cursor = walk.cursor /\ walk'.next = None
        /\ walk'.rest = {} /\ walk'.scanned = {} /\ walk'.reported = walk.reported
    BY <1>2, <2>1 DEF Walk
  <2>3. HoldsVisible' /\ WalkComplete' /\ PageBetween'
    BY <1>2, <2>2 DEF WalkInv, HoldsVisible, WalkComplete, PageBetween
  <2>4. ReportedBehind'
    BY <1>3, <2>1, <2>2 DEF WalkInv, ReportedBehind
  <2>5. KnownKept'
    BY <1>4, <2>1, <2>2 DEF WalkInv, KnownKept
  <2> QED
    BY <2>2, <2>3, <2>4, <2>5
<1>9. CASE WalkLeaves
  <2>1. walk' = NoWalk
    BY <1>9 DEF WalkLeaves
  <2> QED
    BY <2>1
    DEF NoWalk, Walk, HoldsVisible, ReportedBehind, PageBetween, KnownKept, WalkComplete
<1> QED
  BY <1>6, <1>7, <1>8, <1>9

---------------------------------------------------------------------------
(* The invariant of the walk: nothing known is left behind the cursor.     *)
THEOREM WalkInvariant == PagingSpec => []WalkInv
<1>1. PagingInit => WalkInv
  BY PagingAssumption
  DEF PagingInit, NoWalk, NoListing, WalkInv, PagingType, Walk, Listing, HoldsVisible,
      ReportedBehind, PageBetween, KnownKept, WalkComplete
<1>2. WalkInv /\ [PagingNext]_pagingVars => WalkInv'
  <2> SUFFICES ASSUME WalkInv, [PagingNext]_pagingVars PROVE WalkInv'
    OBVIOUS
  <2>1. CASE UNCHANGED pagingVars
    <3>1. PagingType' /\ Visible' = Visible /\ created' = created /\ UNCHANGED walk
      BY <2>1 DEF pagingVars, WalkInv, PagingType, Visible
    <3> QED
      BY <3>1, WalkUntouched
  <2>2. ASSUME NEW limit \in Limits, WalkReads(limit) PROVE WalkInv'
    BY <2>2, WalkReadsPage
  <2> QED
    BY <2>1, <2>2, UploadsKeepWalk, ListKeepsWalk, WalkAnswersPage, WalkGoesOn
    DEF PagingNext
<1> QED
  BY <1>1, <1>2, PTL DEF PagingSpec

(* A walk that has ended has reported every document there was when it     *)
(* began.                                                                  *)
THEOREM WalkIsComplete == PagingSpec => []WalkComplete
<1>1. WalkInv => WalkComplete
  BY DEF WalkInv
<1> QED
  BY <1>1, WalkInvariant, PTL

(* No document is reported twice: a page lies ahead of the cursor, what    *)
(* was reported does not.                                                  *)
THEOREM WalkReportsOnce == PagingSpec => []NobodyTwice
<1>1. WalkInv => NobodyTwice
  BY DEF WalkInv, NobodyTwice, PageBetween, ReportedBehind, Ahead
<1> QED
  BY <1>1, WalkInvariant, PTL


---------------------------------------------------------------------------
(* The list.  A row the client has not been shown is not among the first   *)
(* offset rows: commits can only push it further back.                     *)
Newer(d) == {e \in Visible : Precedes(d, e)}

UnlistedBehind ==
  \A d \in list.known \ list.listed : list.offset <= Cardinality(Newer(d))

(* The count the client has been told is that of the rows it will be shown.*)
CountIsCurrent ==
  list.at = "reading" /\ ~list.shifted => list.total = Cardinality(Visible)

ListInv ==
  /\ list.known \subseteq Visible
  /\ UnlistedBehind /\ CountIsCurrent /\ ListComplete

(* A row has a place: fewer rows are newer than there are rows, and the    *)
(* place is behind each block of newest rows that does not hold it.        *)
LEMMA RowsPlaced ==
  ASSUME PagingType, NEW d \in Visible
  PROVE  /\ IsFiniteSet(Visible) /\ IsFiniteSet(Newer(d))
         /\ Cardinality(Visible) \in Nat /\ Cardinality(Newer(d)) \in Nat
         /\ d \notin Newer(d)
         /\ Cardinality(Newer(d)) < Cardinality(Visible)
<1>1. Visible \subseteq Document /\ Newer(d) \subseteq Visible
  BY DEF Visible, Newer
<1>2. IsFiniteSet(Visible) /\ IsFiniteSet(Newer(d))
  BY <1>1, PagingAssumption, FS_Subset
<1>3. d \notin Newer(d)
  BY <1>1, RowsOrdered DEF Newer
<1>4. Cardinality(Visible) \in Nat /\ Cardinality(Newer(d)) \in Nat
  BY <1>2, FS_CardinalityType
<1>5. Cardinality(Newer(d)) <= Cardinality(Visible)
  BY <1>1, <1>2, FS_Subset
<1>6. Cardinality(Newer(d)) # Cardinality(Visible)
  BY <1>1, <1>2, <1>3, FS_Subset
<1> QED
  BY <1>2, <1>3, <1>4, <1>5, <1>6

(* Steps that leave the client of the list alone, but for the mark that a  *)
(* row has appeared.                                                       *)
LEMMA ListUntouched ==
  ASSUME WalkInv, WalkInv', ListInv, Visible \subseteq Visible',
         \A d \in Visible : created'[d] = created[d],
         list' = list \/ list' = [list EXCEPT !.shifted = @ \/ list.at = "reading"],
         list'.at = "reading" /\ ~list'.shifted => Visible' = Visible
  PROVE  ListInv'
<1>1. list \in Listing /\ list' \in Listing
  BY DEF WalkInv, PagingType
<1>2. /\ list'.at = list.at /\ list'.known = list.known /\ list'.offset = list.offset
      /\ list'.total = list.total /\ list'.listed = list.listed
      /\ list'.shifted = list.shifted \/ (list.at = "reading" /\ list'.shifted)
  BY <1>1 DEF Listing
<1>3. UnlistedBehind'
  <2> SUFFICES ASSUME NEW d \in list.known \ list.listed
               PROVE  list.offset <= Cardinality(Newer(d)')
    BY <1>2 DEF UnlistedBehind
  <2>1. d \in Visible /\ d \in Visible'
    BY DEF ListInv
  <2>2. Newer(d) \subseteq Newer(d)'
    BY <2>1 DEF Newer, Precedes
  <2>3. /\ IsFiniteSet(Newer(d)') /\ Cardinality(Newer(d)') \in Nat
        /\ Cardinality(Newer(d)) \in Nat
    <3>1. Newer(d)' \subseteq Document /\ Newer(d) \subseteq Document
      BY DEF Newer, Visible
    <3> QED
      BY <3>1, PagingAssumption, FS_Subset, FS_CardinalityType
  <2>4. Cardinality(Newer(d)) <= Cardinality(Newer(d)')
    BY <2>2, <2>3, FS_Subset
  <2>5. list.offset <= Cardinality(Newer(d)) /\ list.offset \in Nat
    BY <1>1 DEF ListInv, UnlistedBehind, Listing
  <2> QED
    BY <2>3, <2>4, <2>5
<1>4. CountIsCurrent'
  <2> SUFFICES ASSUME list'.at = "reading", ~list'.shifted
               PROVE  list'.total = Cardinality(Visible')
    BY DEF CountIsCurrent
  <2>1. Visible' = Visible
    OBVIOUS
  <2>2. list.at = "reading" /\ ~list.shifted
    BY <1>1, <1>2 DEF Listing
  <2> QED
    BY <1>2, <2>1, <2>2 DEF ListInv, CountIsCurrent
<1>5. list'.known \subseteq Visible' /\ ListComplete'
  BY <1>2 DEF ListInv, ListComplete
<1> QED
  BY <1>3, <1>4, <1>5 DEF ListInv

(* A page shows every unlisted row of its places, and the last page, if no *)
(* row appeared since the count, all there are.                            *)
LEMMA ListReadsPage ==
  ASSUME WalkInv, WalkInv', ListInv, NEW limit \in Limits, ListReads(limit)
  PROVE  ListInv'
<1> DEFINE Shows(page) ==
      list' = [list EXCEPT
        !.at = IF list.offset + limit >= list.total THEN "done" ELSE "counting",
        !.offset = @ + limit,
        !.listed = @ \cup page]
<1>a. PICK skipped \in SUBSET Visible : \E page \in SUBSET (Visible \ skipped) :
        /\ IsNewest(skipped, list.offset, Visible)
        /\ IsNewest(page, limit, Visible \ skipped)
        /\ Shows(page)
  BY DEF ListReads
<1>1. PICK page \in SUBSET (Visible \ skipped) :
        /\ IsNewest(skipped, list.offset, Visible)
        /\ IsNewest(page, limit, Visible \ skipped)
        /\ Shows(page)
  BY <1>a
<1>2. list.at = "reading" /\ UNCHANGED <<stage, created>>
  BY DEF ListReads
<1>3. PagingType /\ list \in Listing /\ list.offset \in Nat /\ list.total \in Nat /\ limit \in Nat
  BY PagingAssumption DEF WalkInv, PagingType, Listing
<1>4. /\ list'.at = IF list.offset + limit >= list.total THEN "done" ELSE "counting"
      /\ list'.known = list.known /\ list'.offset = list.offset + limit
      /\ list'.shifted = list.shifted /\ list'.listed = list.listed \cup page
  BY <1>1, <1>3 DEF Listing
<1>5. Visible' = Visible /\ \A d : Newer(d)' = Newer(d)
  BY <1>2 DEF Visible, Newer, Precedes
<1>6. ASSUME NEW d \in list.known \ (list.listed \cup page)
      PROVE  list.offset + limit <= Cardinality(Newer(d)) /\ d \in Visible
  <2>1. d \in Visible /\ list.offset <= Cardinality(Newer(d))
    BY DEF ListInv, UnlistedBehind
  <2>2. /\ IsFiniteSet(Visible) /\ IsFiniteSet(Newer(d))
        /\ Cardinality(Visible) \in Nat /\ Cardinality(Newer(d)) \in Nat
        /\ d \notin Newer(d)
        /\ Cardinality(Newer(d)) < Cardinality(Visible)
    BY <1>3, <2>1, RowsPlaced
  <2>3. ~(Cardinality(Visible) <= list.offset)
    BY <1>3, <2>1, <2>2
  <2>4. /\ Cardinality(skipped) = list.offset
        /\ \A e \in skipped, f \in Visible \ skipped : Precedes(f, e)
    BY <1>1, <2>3 DEF IsNewest
  <2>5. d \notin skipped
    <3> SUFFICES ASSUME d \in skipped PROVE FALSE
      OBVIOUS
    <3>1. Newer(d) \subseteq skipped
      <4>1. ASSUME NEW e \in Newer(d), e \notin skipped PROVE FALSE
        <5>1. e \in Document /\ d \in Document /\ Precedes(d, e) /\ Precedes(e, d)
          BY <2>1, <2>4, <4>1 DEF Newer, Visible
        <5> QED
          BY <1>3, <5>1, RowsOrdered
      <4> QED
        BY <4>1
    <3>2. IsFiniteSet(skipped)
      BY <2>2, FS_Subset
    <3>3. Cardinality(Newer(d)) <= list.offset /\ Newer(d) # skipped
      BY <2>2, <2>4, <3>1, <3>2, FS_Subset
    <3>4. Cardinality(Newer(d)) # Cardinality(skipped)
      BY <3>1, <3>2, <3>3, FS_Subset
    <3> QED
      BY <1>3, <2>1, <2>2, <2>4, <3>3, <3>4
  <2>6. /\ Cardinality(page) = limit
        /\ \A e \in page, f \in (Visible \ skipped) \ page : Precedes(f, e)
    BY <1>1, <2>1, <2>5 DEF IsNewest
  <2>7. skipped \cup page \subseteq Newer(d)
    BY <2>1, <2>4, <2>5, <2>6 DEF Newer
  <2>8. IsFiniteSet(skipped) /\ IsFiniteSet(page)
    BY <2>2, <2>7, FS_Subset
  <2>9. Cardinality(skipped \cup page) = list.offset + limit
    <3>1. skipped \cap page = {}
      OBVIOUS
    <3>2. Cardinality(skipped \cup page)
            = Cardinality(skipped) + Cardinality(page) - Cardinality(skipped \cap page)
      BY <2>8, FS_Union
    <3>3. Cardinality(skipped \cap page) = 0
      BY <3>1, FS_EmptySet
    <3> QED
      BY <1>3, <2>4, <2>6, <3>2, <3>3
  <2>10. Cardinality(skipped \cup page) <= Cardinality(Newer(d))
    BY <2>2, <2>7, FS_Subset
  <2> QED
    BY <2>1, <2>9, <2>10
<1>7. UnlistedBehind'
  BY <1>4, <1>5, <1>6 DEF UnlistedBehind
<1>8. ListComplete'
  <2> SUFFICES ASSUME list.offset + limit >= list.total, ~list.shifted,
                      NEW d \in list.known \ (list.listed \cup page)
               PROVE  FALSE
    BY <1>4 DEF ListComplete
  <2>1. list.total = Cardinality(Visible)
    BY <1>2 DEF ListInv, CountIsCurrent
  <2>2. /\ Cardinality(Newer(d)) < Cardinality(Visible)
        /\ Cardinality(Newer(d)) \in Nat
    BY <1>3, <1>6, RowsPlaced
  <2> QED
    BY <1>3, <1>6, <2>1, <2>2
<1>9. list'.known \subseteq Visible' /\ CountIsCurrent'
  BY <1>4, <1>5 DEF ListInv, CountIsCurrent
<1> QED
  BY <1>7, <1>8, <1>9 DEF ListInv

(* The other steps of the client of the list.                              *)
LEMMA ListGoesOn ==
  ASSUME WalkInv, ListInv, ListBegins \/ ListCounts \/ ListLeaves
  PROVE  ListInv'
<1>1. Visible' = Visible /\ \A d : Newer(d)' = Newer(d)
  BY DEF ListBegins, ListCounts, ListLeaves, Visible, Newer, Precedes
<1>2. list \in Listing /\ Visible \subseteq Document
  BY DEF WalkInv, PagingType, Visible
<1>3. CASE ListBegins
  <2>1. list' = [NoListing EXCEPT !.at = "counting", !.known = Visible]
    BY <1>3 DEF ListBegins
  <2>2. /\ list'.at = "counting" /\ list'.known = Visible
        /\ list'.offset = 0 /\ list'.listed = {}
    BY <2>1 DEF NoListing
  <2>3. \A d \in Visible : Cardinality(Newer(d)) \in Nat
    BY RowsPlaced DEF WalkInv
  <2> QED
    BY <1>1, <2>2, <2>3 DEF ListInv, UnlistedBehind, CountIsCurrent, ListComplete
<1>4. CASE ListCounts
  <2>1. /\ list'.at = "reading" /\ list'.known = list.known /\ list'.offset = list.offset
        /\ list'.total = Cardinality(Visible) /\ list'.listed = list.listed
    BY <1>2, <1>4 DEF ListCounts, Listing
  <2> QED
    BY <1>1, <2>1 DEF ListInv, UnlistedBehind, CountIsCurrent, ListComplete
<1>5. CASE ListLeaves
  <2>1. list' = NoListing
    BY <1>5 DEF ListLeaves
  <2> QED
    BY <2>1 DEF NoListing, ListInv, UnlistedBehind, CountIsCurrent, ListComplete
<1> QED
  BY <1>3, <1>4, <1>5

(* A client of the list that has seen total rows has been shown every      *)
(* document there was when it began, unless one was committed between the  *)
(* count and the rows of its last page.                                    *)
THEOREM ListIsComplete == PagingSpec => []ListComplete
<1>1. PagingInit => ListInv
  BY DEF PagingInit, NoListing, ListInv, UnlistedBehind, CountIsCurrent, ListComplete
<1>2. WalkInv /\ WalkInv' /\ ListInv /\ [PagingNext]_pagingVars => ListInv'
  <2> SUFFICES ASSUME WalkInv, WalkInv', ListInv, [PagingNext]_pagingVars PROVE ListInv'
    OBVIOUS
  <2> USE DEF WalkInv, PagingType
  <2>1. CASE UNCHANGED <<stage, created, list>>
    <3>1. Visible' = Visible
      BY <2>1 DEF Visible
    <3> QED
      BY <2>1, <3>1, ListUntouched
  <2>2. ASSUME NEW d \in Document, UploadBegins(d) PROVE ListInv'
    <3>1. Visible' = Visible /\ \A e \in Visible : created'[e] = created[e]
      BY <2>2 DEF UploadBegins, Visible
    <3> QED
      BY <2>2, <3>1, ListUntouched DEF UploadBegins
  <2>3. ASSUME NEW d \in Document, UploadCommits(d) PROVE ListInv'
    <3>1. Visible \subseteq Visible'
      BY <2>3 DEF UploadCommits, Visible
    <3>2. list'.at = "reading" => list'.shifted
      BY <2>3 DEF UploadCommits, Listing
    <3> QED
      BY <2>3, <3>1, <3>2, ListUntouched DEF UploadCommits
  <2>4. ASSUME NEW d \in Document, UploadFails(d) PROVE ListInv'
    <3>1. Visible' = Visible
      BY <2>4 DEF UploadFails, Visible
    <3> QED
      BY <2>4, <3>1, ListUntouched DEF UploadFails
  <2>5. ASSUME NEW limit \in Limits, ListReads(limit) PROVE ListInv'
    BY <2>5, ListReadsPage
  <2>6. ListBegins \/ ListCounts \/ ListLeaves => ListInv'
    BY ListGoesOn
  <2>7. Ticks \/ WalkBegins \/ WalkAudits \/ WalkAnswers \/ WalkFails \/ WalkLeaves
          \/ (\E limit \in Limits : WalkReads(limit))
          => UNCHANGED <<stage, created, list>>
    BY DEF Ticks, WalkBegins, WalkAudits, WalkAnswers, WalkFails, WalkLeaves, WalkReads
  <2>8. UNCHANGED pagingVars => UNCHANGED <<stage, created, list>>
    BY DEF pagingVars
  <2> QED
    BY <2>1, <2>2, <2>3, <2>4, <2>5, <2>6, <2>7, <2>8 DEF PagingNext
<1>3. ListInv => ListComplete
  BY DEF ListInv
<1> QED
  BY <1>1, <1>2, <1>3, WalkInvariant, PTL DEF PagingSpec
=============================================================================

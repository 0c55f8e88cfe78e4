------------------------------- MODULE Paging -------------------------------
(***************************************************************************)
(* The two walks over the documents table, each a sequence of requests     *)
(* made by one client: the batch audit, oldest first with a keyset cursor, *)
(* and the document list, newest first with an offset.  Meanwhile uploads  *)
(* insert rows, and not in the order of their timestamps: created_at is    *)
(* the start of the transaction, the object is saved before its commit.    *)
(***************************************************************************)
EXTENDS Naturals, FiniteSets

CONSTANTS
  Document,  \* ids (uuid4) of the documents uploaded, as numbers: they are only compared
  Limits,    \* page sizes clients ask for
  None,      \* no cursor
  MaxTime    \* bound: the number of distinct timestamps

ASSUME PagingAssumption ==
  /\ Document \subseteq Nat
  /\ IsFiniteSet(Document)
  /\ Limits \subseteq Nat \ {0}
  /\ None \notin Document
  /\ MaxTime \in Nat

VARIABLES
  now,       \* the clock of Postgres
  stage,     \* how far the upload of each document is
  created,   \* documents.created_at
  walk,      \* the client of the batch audit
  list       \* the client of the document list

pagingVars == <<now, stage, created, walk, list>>

Walk ==
  [at : {"idle", "reading", "auditing", "done"},
   known : SUBSET Document,          \* history: the documents when the walk began
   cursor : Document \cup {None},    \* the document the cursor encodes
   rest : SUBSET Document,           \* of this page, not yet audited
   scanned : SUBSET Document,        \* of this page, audited
   next : Document \cup {None},      \* what next_cursor will encode
   reported : SUBSET Document]       \* in the pages answered so far

NoWalk ==
  [at |-> "idle", known |-> {}, cursor |-> None, rest |-> {}, scanned |-> {}, next |-> None,
   reported |-> {}]

Listing ==
  [at : {"idle", "counting", "reading", "done"},
   known : SUBSET Document,          \* history: the documents when the first page was asked for
   offset : Nat,
   total : Nat,                      \* as counted for the page being read
   shifted : BOOLEAN,                \* history: a row appeared after that count
   listed : SUBSET Document]

NoListing ==
  [at |-> "idle", known |-> {}, offset |-> 0, total |-> 0, shifted |-> FALSE, listed |-> {}]

PagingType ==
  /\ now \in 0..MaxTime
  /\ stage \in [Document -> {"new", "begun", "visible", "undone"}]
  /\ created \in [Document -> 0..MaxTime]
  /\ walk \in Walk
  /\ list \in Listing

PagingInit ==
  /\ now = 0
  /\ stage = [d \in Document |-> "new"]
  /\ created = [d \in Document |-> 0]
  /\ walk = NoWalk
  /\ list = NoListing

---------------------------------------------------------------------------
(* Uploads.                                                                *)

Ticks ==
  /\ now < MaxTime
  /\ now' = now + 1
  /\ UNCHANGED <<stage, created, walk, list>>

(* decide_upload() issues the first statement of the transaction; now() in *)
(* it is what server_default will make created_at.                         *)
UploadBegins(d) ==
  /\ stage[d] = "new"
  /\ stage' = [stage EXCEPT ![d] = "begun"]
  /\ created' = [created EXCEPT ![d] = now]
  /\ UNCHANGED <<now, walk, list>>

UploadCommits(d) ==
  /\ stage[d] = "begun"
  /\ stage' = [stage EXCEPT ![d] = "visible"]
  /\ list' = [list EXCEPT !.shifted = @ \/ list.at = "reading"]
  /\ UNCHANGED <<now, created, walk>>

UploadFails(d) ==
  /\ stage[d] = "begun"
  /\ stage' = [stage EXCEPT ![d] = "undone"]
  /\ UNCHANGED <<now, created, walk, list>>

Visible == {d \in Document : stage[d] = "visible"}

---------------------------------------------------------------------------
(* Ordering by (created_at, id).                                           *)

Precedes(d, e) == created[d] < created[e] \/ (created[d] = created[e] /\ d < e)

(* The first n rows, ascending or descending.                              *)
IsOldest(block, n, rows) ==
  /\ block \subseteq rows
  /\ IF Cardinality(rows) <= n
       THEN block = rows
       ELSE /\ Cardinality(block) = n
            /\ \A d \in block, e \in rows \ block : Precedes(d, e)

(* Mutant: rows of the same timestamp come in any order.                   *)
IsNewestByDate(block, n, rows) ==
  /\ block \subseteq rows
  /\ IF Cardinality(rows) <= n
       THEN block = rows
       ELSE /\ Cardinality(block) = n
            /\ \A d \in block, e \in rows \ block : created[e] <= created[d]

IsNewest(block, n, rows) ==
  /\ block \subseteq rows
  /\ IF Cardinality(rows) <= n
       THEN block = rows
       ELSE /\ Cardinality(block) = n
            /\ \A d \in block, e \in rows \ block : Precedes(e, d)

(* Mutants: the id is not compared; the row of the cursor is not excluded. *)
RowsAfterDate(cursor) == {d \in Visible : cursor # None => created[cursor] < created[d]}
RowsFrom(cursor) == {d \in Visible : cursor # None => ~Precedes(d, cursor)}

(* The WHERE of _select_document_page().  The cursor is the encoded        *)
(* (created_at, id) of a row; neither ever changes.                        *)
RowsAfter(cursor) == {d \in Visible : cursor # None => Precedes(cursor, d)}

---------------------------------------------------------------------------
(* audit_document_lifecycle_batch(), called with no cursor, then with each *)
(* next_cursor until there is none.                                        *)
WalkBegins ==
  /\ walk.at = "idle"
  /\ walk' = [NoWalk EXCEPT !.at = "reading", !.known = Visible]
  /\ UNCHANGED <<now, stage, created, list>>

(* LIMIT limit + 1: the extra row only says that there are more.           *)
WalkReads(limit) ==
  /\ walk.at = "reading"
  /\ LET rows == RowsAfter(walk.cursor)
     IN  \E page \in SUBSET rows :
           /\ IsOldest(page, limit, rows)
           /\ \E next \in page \cup {None} :
                /\ IF Cardinality(rows) > limit
                     THEN next \in page /\ \A d \in page : d = next \/ Precedes(d, next)
                     ELSE next = None
                /\ walk' = [walk EXCEPT !.at = "auditing", !.rest = page, !.next = next]
  /\ UNCHANGED <<now, stage, created, list>>

(* One document at a time, in the order of the page.                       *)
WalkAudits ==
  /\ walk.at = "auditing"
  /\ \E d \in walk.rest :
       /\ \A e \in walk.rest \ {d} : Precedes(d, e)
       /\ walk' = [walk EXCEPT !.rest = @ \ {d}, !.scanned = @ \cup {d}]
  /\ UNCHANGED <<now, stage, created, list>>

WalkAnswers ==
  /\ walk.at = "auditing" /\ walk.rest = {}
  /\ walk' = [walk EXCEPT !.at = IF walk.next = None THEN "done" ELSE "reading",
                          !.cursor = walk.next, !.next = None,
                          !.reported = @ \cup walk.scanned, !.scanned = {}]
  /\ UNCHANGED <<now, stage, created, list>>

(* An exception while a document is audited fails the whole page, and the  *)
(* client asks for it again.                                               *)
WalkFails ==
  /\ walk.at = "auditing"
  /\ walk' = [walk EXCEPT !.at = "reading", !.rest = {}, !.scanned = {}, !.next = None]
  /\ UNCHANGED <<now, stage, created, list>>

WalkLeaves ==
  /\ walk.at = "done"
  /\ walk' = NoWalk
  /\ UNCHANGED <<now, stage, created, list>>

---------------------------------------------------------------------------
(* list_documents(), called with growing offsets until total is reached.   *)
ListBegins ==
  /\ list.at = "idle"
  /\ list' = [NoListing EXCEPT !.at = "counting", !.known = Visible]
  /\ UNCHANGED <<now, stage, created, walk>>

ListCounts ==
  /\ list.at = "counting"
  /\ list' = [list EXCEPT !.at = "reading", !.total = Cardinality(Visible), !.shifted = FALSE]
  /\ UNCHANGED <<now, stage, created, walk>>

ListReads(limit) ==
  /\ list.at = "reading"
  /\ \E skipped \in SUBSET Visible : \E page \in SUBSET (Visible \ skipped) :
       /\ IsNewest(skipped, list.offset, Visible)
       /\ IsNewest(page, limit, Visible \ skipped)
       /\ list' = [list EXCEPT
            !.at = IF list.offset + limit >= list.total THEN "done" ELSE "counting",
            !.offset = @ + limit,
            !.listed = @ \cup page]
  /\ UNCHANGED <<now, stage, created, walk>>

ListLeaves ==
  /\ list.at = "done"
  /\ list' = NoListing
  /\ UNCHANGED <<now, stage, created, walk>>

---------------------------------------------------------------------------
PagingNext ==
  \/ Ticks
  \/ \E d \in Document : UploadBegins(d) \/ UploadCommits(d) \/ UploadFails(d)
  \/ WalkBegins \/ WalkAudits \/ WalkAnswers \/ WalkFails \/ WalkLeaves
  \/ ListBegins \/ ListCounts \/ ListLeaves
  \/ \E limit \in Limits : WalkReads(limit) \/ ListReads(limit)

PagingSpec == PagingInit /\ [][PagingNext]_pagingVars

---------------------------------------------------------------------------
(* A walk of the batch audit reports no document twice, though pages are   *)
(* asked for again and rows appear behind and ahead of its cursor.         *)
NobodyTwice == (walk.rest \cup walk.scanned) \cap walk.reported = {}

(* A walk that has ended has reported every document there was when it     *)
(* began; what it misses was uploaded meanwhile.                           *)
WalkComplete == walk.at = "done" => walk.known \subseteq walk.reported

(* So does a client of the list that goes on until it has seen total rows, *)
(* unless a document appeared between the count and the rows of its last   *)
(* page and pushed the oldest one out.                                     *)
ListComplete == list.at = "done" /\ ~list.shifted => list.known \subseteq list.listed
=============================================================================

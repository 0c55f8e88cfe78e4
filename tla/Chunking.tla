------------------------------ MODULE Chunking ------------------------------
(***************************************************************************)
(* DocumentChunker: splitting the extracted text of a document into        *)
(* overlapping chunks.  A word is its length, a page the sequence of its   *)
(* words (str.split()), a document the sequence of its pages; a chunk is   *)
(* the interval of the words it joins with blanks.                         *)
(***************************************************************************)
EXTENDS Naturals, Sequences, SequencesExt, FiniteSetsExt

CONSTANTS
  ChunkSize, ChunkOverlap  \* settings.chunk_size, settings.chunk_overlap

VARIABLE
  text                     \* the pages extracted from each document

ASSUME ChunkingAssumption ==
  /\ ChunkSize \in Nat \ {0} /\ ChunkOverlap \in Nat
  /\ ChunkOverlap < ChunkSize

(* Where the words end in the page joined with blanks, a blank behind each.*)
Offset(page) ==
  LET offset[i \in 0..Len(page)] == IF i = 0 THEN 0 ELSE offset[i - 1] + page[i] + 1
  IN  offset

(* len(" ".join(words[first..last]))                                       *)
Length(page, first, last) ==
  IF first > last THEN 0 ELSE Offset(page)[last] - Offset(page)[first - 1] - 1

(* Mutant: the overlap may be one character too long.                      *)
LooseOverlapStart(page, first, last) ==
  Min({i \in first..(last + 1) : Length(page, i, last) <= ChunkOverlap + 1})

(* _take_overlap(): as many trailing words as fit into the overlap.        *)
OverlapStart(page, first, last) ==
  Min({i \in first..(last + 1) : Length(page, i, last) <= ChunkOverlap})

(* Mutant: the word that does not fit starts no chunk and is dropped.      *)
DropWord(page, scan, i) ==
  IF scan.first < i /\ Length(page, scan.first, i) > ChunkSize
    THEN [chunks |-> Append(scan.chunks, [first |-> scan.first, last |-> i - 1]),
          first  |-> i + 1]
    ELSE scan

(* One turn of the loop of _split_text(): the words from scan.first to i-1 *)
(* are the current ones.  When word i does not fit, they become a chunk    *)
(* and their overlap starts the next one, which word i then joins whatever *)
(* its length.                                                             *)
AddWord(page, scan, i) ==
  IF scan.first < i /\ Length(page, scan.first, i) > ChunkSize
    THEN [chunks |-> Append(scan.chunks, [first |-> scan.first, last |-> i - 1]),
          first  |-> OverlapStart(page, scan.first, i - 1)]
    ELSE scan

(* What the loop has made of the first i words.                            *)
Scan(page) ==
  LET scan[i \in 0..Len(page)] ==
        IF i = 0 THEN [chunks |-> <<>>, first |-> 1] ELSE AddWord(page, scan[i - 1], i)
  IN  scan

Split(page) ==
  LET scan == Scan(page)[Len(page)]
  IN  IF page = <<>> THEN <<>>
      ELSE Append(scan.chunks, [first |-> scan.first, last |-> Len(page)])

(* DocumentChunker.chunk(): a chunk's position here is its chunk_index.    *)
Chunks(pages) == FlattenSeq([p \in DOMAIN pages |-> Split(pages[p])])

(* DocumentTextExtractor refuses a document without any text.              *)
Extractable(pages) == \E p \in DOMAIN pages : pages[p] # <<>>

---------------------------------------------------------------------------
ExtractedPages == UNION {Range(text[d]) : d \in DOMAIN text}

(* Retrieval can find every word of the text: the chunks of a page follow  *)
(* the text from its first word to its last, leave no gap, and each brings *)
(* a word of its own, so that no two chunks of a page are the same.        *)
ChunksCoverText ==
  \A page \in ExtractedPages \ {<<>>} :
    LET chunks == Split(page)
    IN  /\ chunks[1].first = 1
        /\ Last(chunks).last = Len(page)
        /\ \A k \in 1..(Len(chunks) - 1) :
             /\ chunks[k].first <= chunks[k + 1].first
             /\ chunks[k + 1].first <= chunks[k].last + 1
             /\ chunks[k].last < chunks[k + 1].last

(* The overlap of consecutive chunks fits, and is as long as it can be.  A *)
(* chunk keeps to the size, unless its last word alone does not fit behind *)
(* the overlap: the code does not look at the size again there.            *)
ChunksBounded ==
  \A page \in ExtractedPages :
    LET chunks == Split(page)
    IN  \A k \in DOMAIN chunks :
          /\ \/ Length(page, chunks[k].first, chunks[k].last) <= ChunkSize
             \/ chunks[k].first = chunks[k].last
             \/ /\ k > 1 /\ chunks[k].last = chunks[k - 1].last + 1
                /\ page[chunks[k].last] + ChunkOverlap >= ChunkSize
          /\ k > 1 =>
               LET first == chunks[k].first
                   last  == chunks[k - 1].last
               IN  /\ Length(page, first, last) <= ChunkOverlap
                   /\ first > chunks[k - 1].first =>
                        Length(page, first - 1, last) > ChunkOverlap
=============================================================================

-------------------------- MODULE Chunking_proofs --------------------------
(***************************************************************************)
(* The chunks of a page cover it, and keep to their bounds, whatever the   *)
(* words of the page, the chunk size and the overlap.                      *)
(***************************************************************************)
EXTENDS Chunking, WellFoundedInduction, TLAPS

---------------------------------------------------------------------------
(* Induction over a set of natural numbers, and what it makes of a         *)
(* recursive function.                                                     *)

(* A set of natural numbers that is not empty has a least element.         *)
LEMMA Least ==
  ASSUME NEW T, T \subseteq Nat, T # {}
  PROVE  \E m \in T : \A k \in T : m <= k
<1>1. PICK m \in T : \A k \in T : <<k, m>> \notin OpToRel(<, Nat)
  BY NatLessThanWellFounded, WFMin
<1>2. \A k \in T : <<k, m>> \in OpToRel(<, Nat) <=> k < m
  BY DEF OpToRel
<1>3. \A k \in T : ~(k < m)
  BY <1>1, <1>2
<1>4. \A k \in T : m <= k
  BY <1>3
<1> QED
  BY <1>4

(* A set that holds 0, and with a number the next one, holds all up to n.  *)
LEMMA Induction ==
  ASSUME NEW T, NEW n \in Nat, 0 \in T, \A i \in 1..n : i - 1 \in T => i \in T
  PROVE  \A i \in 0..n : i \in T
<1> DEFINE Rest == (0..n) \ T
<1> SUFFICES ASSUME Rest # {} PROVE FALSE
  OBVIOUS
<1>1. Rest \subseteq Nat
  OBVIOUS
<1> HIDE DEF Rest
<1>2. PICK m \in Rest : \A k \in Rest : m <= k
  BY <1>1, Least
<1>3. m \in 1..n /\ m - 1 \in 0..n /\ m \notin T
  BY <1>2 DEF Rest
<1>4. m - 1 \notin Rest
  BY <1>1, <1>2, <1>3
<1>5. m - 1 \in T
  BY <1>3, <1>4 DEF Rest
<1> QED
  BY <1>3, <1>5

(* A turn of a loop of n turns, and the values the loop goes through.      *)
Turns(n, S, step) == step \in [1..n -> [S -> S]]

Runs(f, n, S, base, step) ==
  f \in [0..n -> S] /\ f[0] = base /\ \A i \in 1..n : f[i] = step[i][f[i - 1]]

(* Such a loop has values from its start to its end.                       *)
LEMMA Recursion ==
  ASSUME NEW n \in Nat, NEW S, NEW base \in S, NEW step, Turns(n, S, step)
  PROVE  \E f : Runs(f, n, S, base, step)
<1>0. step \in [1..n -> [S -> S]]
  BY DEF Turns
<1> DEFINE Upto(m, f) == f[0] = base /\ \A i \in 1..m : f[i] = step[i][f[i - 1]]
           T == {m \in 0..n : \E f \in [0..m -> S] : Upto(m, f)}
<1>1. 0 \in T
  <2> DEFINE f0 == [i \in 0..0 |-> base]
  <2>1. f0 \in [0..0 -> S] /\ f0[0] = base
    OBVIOUS
  <2>2. 1..0 = {} /\ 0 \in 0..n
    OBVIOUS
  <2> HIDE DEF f0
  <2>3. Upto(0, f0)
    BY <2>1, <2>2
  <2> QED
    BY <2>1, <2>2, <2>3
<1>2. ASSUME NEW m \in 1..n, m - 1 \in T
      PROVE  m \in T
  <2>1. PICK f \in [0..(m - 1) -> S] : Upto(m - 1, f)
    BY <1>2
  <2>2. m - 1 \in 0..(m - 1) /\ f[m - 1] \in S /\ step[m] \in [S -> S]
    BY <1>0, <2>1
  <2>3. step[m][f[m - 1]] \in S
    BY <2>2
  <2> DEFINE g == [i \in 0..m |-> IF i = m THEN step[m][f[m - 1]] ELSE f[i]]
  <2>4. g \in [0..m -> S]
    BY <2>3
  <2>5. g[0] = base
    BY <2>1
  <2>6. ASSUME NEW i \in 1..m
        PROVE  g[i] = step[i][g[i - 1]]
    <3>1. g[i - 1] = f[i - 1]
      OBVIOUS
    <3>2. CASE i = m
      BY <3>1, <3>2
    <3>3. CASE i # m
      <4>1. i \in 1..(m - 1) /\ g[i] = f[i]
        BY <3>3
      <4> QED
        BY <2>1, <3>1, <4>1
    <3> QED
      BY <3>2, <3>3
  <2> HIDE DEF g
  <2>7. Upto(m, g) /\ m \in 0..n
    BY <2>5, <2>6
  <2> QED
    BY <2>4, <2>7
<1>3. n \in T
  <2> HIDE DEF T
  <2>1. n \in 0..n
    OBVIOUS
  <2> QED
    BY <1>1, <1>2, <2>1, Induction
<1> QED
  BY <1>3 DEF Runs

---------------------------------------------------------------------------
(* The recursive functions of the chunker.                                 *)

(* Where words end: the equation that defines it has a solution.           *)
LEMMA OffsetIs ==
  ASSUME NEW page \in Seq(Nat)
  PROVE  /\ Offset(page) \in [0..Len(page) -> Nat]
         /\ Offset(page)[0] = 0
         /\ \A i \in 1..Len(page) : Offset(page)[i] = Offset(page)[i - 1] + page[i] + 1
<1> DEFINE n == Len(page)
           step == [i \in 1..n |-> [before \in Nat |-> before + page[i] + 1]]
           Solves(f) == f = [i \in 0..n |-> IF i = 0 THEN 0 ELSE f[i - 1] + page[i] + 1]
<1>1. n \in Nat /\ 0 \in Nat /\ \A i \in 1..n : page[i] \in Nat
  OBVIOUS
<1>2. Turns(n, Nat, step)
  BY <1>1 DEF Turns
<1>3. \A i \in 1..n, before \in Nat : step[i][before] = before + page[i] + 1
  OBVIOUS
<1> HIDE DEF n, step
<1>4. PICK f : Runs(f, n, Nat, 0, step)
  BY <1>1, <1>2, Recursion
<1>5. ASSUME NEW i \in 1..n
      PROVE  f[i] = f[i - 1] + page[i] + 1
  <2>1. f[i - 1] \in Nat /\ f[i] = step[i][f[i - 1]]
    BY <1>1, <1>4 DEF Runs
  <2> QED
    BY <1>3, <2>1
<1>6. Solves(f)
  BY <1>1, <1>4, <1>5 DEF Runs
<1>7. Solves(CHOOSE g : Solves(g))
  BY <1>6
<1>8. Offset(page) = CHOOSE g : Solves(g)
  BY DEF Offset, n
<1>9. Offset(page) = [i \in 0..n |-> IF i = 0 THEN 0 ELSE Offset(page)[i - 1] + page[i] + 1]
  BY <1>7, <1>8
<1> DEFINE T == {i \in 0..n : Offset(page)[i] \in Nat}
<1>10. \A i \in 1..n : Offset(page)[i] = Offset(page)[i - 1] + page[i] + 1
  BY <1>1, <1>9
<1>11. Offset(page)[0] = 0 /\ 0 \in T
  BY <1>1, <1>9
<1>12. \A i \in 1..n : i - 1 \in T => i \in T
  BY <1>1, <1>10
<1>13. \A i \in 0..n : Offset(page)[i] \in Nat
  <2> HIDE DEF T
  <2>1. \A i \in 0..n : i \in T
    BY <1>1, <1>11, <1>12, Induction
  <2> QED
    BY <2>1 DEF T
<1> QED
  BY <1>9, <1>10, <1>11, <1>13 DEF n

(* A chunk grows by its next word and a blank.                             *)
LEMMA LengthGrows ==
  ASSUME NEW page \in Seq(Nat), NEW last \in 1..Len(page), NEW first \in 1..last
  PROVE  /\ Length(page, first, last) \in Int
         /\ last + 1 <= Len(page) =>
              Length(page, first, last + 1) = Length(page, first, last) + page[last + 1] + 1
<1> DEFINE offset == Offset(page)
           n == Len(page)
<1>1. /\ n \in Nat /\ offset \in [0..n -> Nat]
      /\ \A i \in 1..n : offset[i] = offset[i - 1] + page[i] + 1
  BY OffsetIs
<1>2. \A k \in first..n : Length(page, first, k) = offset[k] - offset[first - 1] - 1
  BY <1>1 DEF Length
<1> HIDE DEF offset, n
<1>3. last \in 1..n /\ first \in 1..last
  BY DEF n
<1>4. offset[last] \in Nat /\ offset[first - 1] \in Nat
  BY <1>1, <1>3
<1>5. Length(page, first, last) = offset[last] - offset[first - 1] - 1
  BY <1>1, <1>2, <1>3
<1>6. ASSUME last + 1 <= n
      PROVE  Length(page, first, last + 1) = Length(page, first, last) + page[last + 1] + 1
  <2>1. last + 1 \in 1..n /\ last + 1 \in first..n /\ page[last + 1] \in Nat
    BY <1>1, <1>3, <1>6 DEF n
  <2>2. offset[last + 1] = offset[last] + page[last + 1] + 1
    BY <1>1, <1>3, <2>1
  <2>3. Length(page, first, last + 1) = offset[last + 1] - offset[first - 1] - 1
    BY <1>2, <2>1
  <2> QED
    BY <1>4, <1>5, <2>1, <2>2, <2>3
<1> QED
  BY <1>4, <1>5, <1>6 DEF n

(* The overlap fits, and no longer one does: it may be empty, so there is  *)
(* always one.                                                             *)
LEMMA OverlapFits ==
  ASSUME NEW page, NEW last \in Nat, NEW first \in 0..(last + 1)
  PROVE  LET start == OverlapStart(page, first, last)
         IN  /\ start \in first..(last + 1)
             /\ Length(page, start, last) <= ChunkOverlap
             /\ \A i \in first..(last + 1) : Length(page, i, last) <= ChunkOverlap => start <= i
<1> DEFINE Fitting == {i \in first..(last + 1) : Length(page, i, last) <= ChunkOverlap}
<1>1. last + 1 \in Fitting
  BY ChunkingAssumption DEF Length
<1>2. Fitting \subseteq Nat /\ Fitting # {}
  BY <1>1
<1>3. \E m \in Fitting : \A k \in Fitting : m <= k
  <2> HIDE DEF Fitting
  <2> QED
    BY <1>2, Least
<1>4. OverlapStart(page, first, last) = CHOOSE m \in Fitting : \A k \in Fitting : m <= k
  BY DEF OverlapStart, Min
<1>5. /\ OverlapStart(page, first, last) \in Fitting
      /\ \A k \in Fitting : OverlapStart(page, first, last) <= k
  <2> HIDE DEF Fitting
  <2> QED
    BY <1>3, <1>4
<1> QED
  BY <1>5

---------------------------------------------------------------------------
(* The loop of _split_text().                                              *)

Chunk == [first : Nat, last : Nat]
ScanState == [chunks : Seq(Chunk), first : Nat]

(* A turn of the loop, of a word that fits and of one that does not.       *)
LEMMA AddWordIs ==
  ASSUME NEW page, NEW i \in Nat \ {0}, NEW scan \in ScanState
  PROVE  AddWord(page, scan, i) \in ScanState
<1>1. scan.chunks \in Seq(Chunk) /\ scan.first \in Nat
  BY DEF ScanState
<1>2. CASE ~(scan.first < i /\ Length(page, scan.first, i) > ChunkSize)
  BY <1>2 DEF AddWord
<1>3. CASE scan.first < i /\ Length(page, scan.first, i) > ChunkSize
  <2>1. i - 1 \in Nat /\ scan.first \in 0..((i - 1) + 1)
    BY <1>1, <1>3
  <2>2. OverlapStart(page, scan.first, i - 1) \in scan.first..((i - 1) + 1)
    BY <2>1, OverlapFits
  <2>3. OverlapStart(page, scan.first, i - 1) \in Nat
    BY <1>1, <2>1, <2>2
  <2>4. [first |-> scan.first, last |-> i - 1] \in Chunk
    BY <1>1, <2>1 DEF Chunk
  <2>5. Append(scan.chunks, [first |-> scan.first, last |-> i - 1]) \in Seq(Chunk)
    BY <1>1, <2>4
  <2> QED
    BY <1>3, <2>3, <2>5 DEF AddWord, ScanState
<1> QED
  BY <1>2, <1>3

(* The loop as a recursive function: its equation has a solution.          *)
LEMMA ScanIs ==
  ASSUME NEW page \in Seq(Nat)
  PROVE  /\ Scan(page)[0] = [chunks |-> <<>>, first |-> 1]
         /\ \A i \in 0..Len(page) : Scan(page)[i] \in ScanState
         /\ \A i \in 1..Len(page) : Scan(page)[i] = AddWord(page, Scan(page)[i - 1], i)
<1> DEFINE n == Len(page)
           start == [chunks |-> <<>>, first |-> 1]
           step == [i \in 1..n |-> [scan \in ScanState |-> AddWord(page, scan, i)]]
           Solves(f) == f = [i \in 0..n |-> IF i = 0 THEN start ELSE AddWord(page, f[i - 1], i)]
<1>1. n \in Nat /\ start \in ScanState
  BY DEF ScanState
<1>2. Turns(n, ScanState, step)
  <2>1. \A i \in 1..n : \A scan \in ScanState : AddWord(page, scan, i) \in ScanState
    BY <1>1, AddWordIs
  <2> QED
    BY <2>1 DEF Turns
<1>3. \A i \in 1..n : \A scan \in ScanState : step[i][scan] = AddWord(page, scan, i)
  OBVIOUS
<1> HIDE DEF n, step, start
<1>4. PICK f : Runs(f, n, ScanState, start, step)
  BY <1>1, <1>2, Recursion
<1>5. ASSUME NEW i \in 1..n
      PROVE  f[i] = AddWord(page, f[i - 1], i)
  <2>1. f[i - 1] \in ScanState /\ f[i] = step[i][f[i - 1]]
    BY <1>1, <1>4 DEF Runs
  <2> QED
    BY <1>3, <2>1
<1>6. Solves(f)
  BY <1>1, <1>4, <1>5 DEF Runs
<1>7. Solves(CHOOSE g : Solves(g))
  BY <1>6
<1>8. Scan(page) = CHOOSE g : Solves(g)
  BY DEF Scan, n, start
<1>9. Solves(Scan(page))
  BY <1>7, <1>8
<1>10. \A i \in 1..n : Scan(page)[i] = AddWord(page, Scan(page)[i - 1], i)
  BY <1>1, <1>9
<1> DEFINE T == {i \in 0..n : Scan(page)[i] \in ScanState}
<1>11. Scan(page)[0] = start /\ 0 \in T
  BY <1>1, <1>9
<1>12. \A i \in 1..n : i - 1 \in T => i \in T
  BY <1>1, <1>10, AddWordIs
<1>13. \A i \in 0..n : Scan(page)[i] \in ScanState
  <2> HIDE DEF T
  <2>1. \A i \in 0..n : i \in T
    BY <1>1, <1>11, <1>12, Induction
  <2> QED
    BY <2>1 DEF T
<1> QED
  BY <1>10, <1>11, <1>13 DEF n, start

---------------------------------------------------------------------------
(* What the chunks are like, one after the other.                          *)

(* Chunk e may stand behind chunk c: it reaches further, leaves no gap and *)
(* starts with the longest overlap that fits.                              *)
Follows(page, c, e) ==
  /\ c.first <= e.first /\ e.first <= c.last + 1 /\ c.last < e.last
  /\ Length(page, e.first, c.last) <= ChunkOverlap
  /\ e.first > c.first => Length(page, e.first - 1, c.last) > ChunkOverlap

(* Chunk e may be chunk number k, c being the one before it.               *)
Fine(page, k, c, e) ==
  /\ 1 <= e.first /\ e.first <= e.last
  /\ k = 1 => e.first = 1
  /\ k > 1 => Follows(page, c, e)
  /\ \/ Length(page, e.first, e.last) <= ChunkSize
     \/ e.first = e.last
     \/ k > 1 /\ e.last = c.last + 1 /\ page[e.last] + ChunkOverlap >= ChunkSize

AllFine(page, chunks) ==
  \A k \in 1..Len(chunks) : Fine(page, k, chunks[k - 1], chunks[k])

(* A chunk more.                                                           *)
LEMMA AppendFine ==
  ASSUME NEW page, NEW chunks \in Seq(Chunk), NEW e \in Chunk
  PROVE  AllFine(page, Append(chunks, e)) <=>
           AllFine(page, chunks) /\ Fine(page, Len(chunks) + 1, chunks[Len(chunks)], e)
<1> DEFINE n == Len(chunks)
           more == Append(chunks, e)
<1>1. n \in Nat /\ Len(more) = n + 1 /\ more[n + 1] = e /\ \A k \in 1..n : more[k] = chunks[k]
  OBVIOUS
<1> HIDE DEF n, more
<1>2. ASSUME NEW k \in 1..n
      PROVE  Fine(page, k, more[k - 1], more[k]) <=> Fine(page, k, chunks[k - 1], chunks[k])
  <2>1. CASE k = 1
    BY <1>1, <2>1 DEF Fine
  <2>2. CASE k > 1
    BY <1>1, <2>2
  <2> QED
    BY <1>1, <2>1, <2>2
<1>3. Fine(page, n + 1, more[n], more[n + 1]) <=> Fine(page, n + 1, chunks[n], e)
  <2>1. CASE n = 0
    BY <1>1, <2>1 DEF Fine
  <2>2. CASE n > 0
    BY <1>1, <2>2
  <2> QED
    BY <1>1, <2>1, <2>2
<1>4. 1..(n + 1) = (1..n) \cup {n + 1} /\ (n + 1) - 1 = n
  BY <1>1
<1>5. AllFine(page, more) <=>
        /\ \A k \in 1..n : Fine(page, k, more[k - 1], more[k])
        /\ Fine(page, n + 1, more[n], more[n + 1])
  BY <1>1, <1>4 DEF AllFine
<1> QED
  BY <1>2, <1>3, <1>5 DEF AllFine, n, more

(* The chunk that the loop is building, if the text ended at word i.       *)
Open(page, i) == [first |-> Scan(page)[i].first, last |-> i]
SoFar(page, i) == Append(Scan(page)[i].chunks, Open(page, i))

(* A turn that finds that the word fits.                                   *)
LEMMA WordFits ==
  ASSUME NEW page \in Seq(Nat), NEW i \in 2..Len(page),
         AllFine(page, SoFar(page, i - 1)), Scan(page)[i] = Scan(page)[i - 1],
         ~(Scan(page)[i - 1].first < i /\ Length(page, Scan(page)[i - 1].first, i) > ChunkSize)
  PROVE  AllFine(page, SoFar(page, i))
<1> DEFINE chunks == Scan(page)[i - 1].chunks
           F == Scan(page)[i - 1].first
           c == chunks[Len(chunks)]
           old == [first |-> F, last |-> i - 1]
           new == [first |-> F, last |-> i]
<1>1. chunks \in Seq(Chunk) /\ F \in Nat /\ i \in Nat /\ i - 1 \in Nat
  BY ScanIs DEF ScanState
<1>2. old \in Chunk /\ new \in Chunk
  BY <1>1 DEF Chunk
<1>3. SoFar(page, i - 1) = Append(chunks, old) /\ SoFar(page, i) = Append(chunks, new)
  BY DEF SoFar, Open
<1> HIDE DEF chunks
<1>4. AllFine(page, chunks) /\ Fine(page, Len(chunks) + 1, c, old)
  BY <1>1, <1>2, <1>3, AppendFine
<1>5. 1 <= F /\ F <= i - 1
  BY <1>4 DEF Fine
<1>6. Length(page, F, i) \in Int /\ ~(Length(page, F, i) > ChunkSize)
  BY <1>1, <1>5, LengthGrows
<1>7. Length(page, F, i) <= ChunkSize
  BY <1>6, ChunkingAssumption
<1>8. ASSUME Len(chunks) + 1 > 1
      PROVE  Follows(page, c, new)
  <2>1. c \in Chunk
    BY <1>1, <1>8
  <2>2. c.first \in Nat /\ c.last \in Nat
    BY <2>1 DEF Chunk
  <2>3. Follows(page, c, old)
    BY <1>4, <1>8 DEF Fine
  <2> QED
    BY <1>1, <2>2, <2>3 DEF Follows
<1>9. Fine(page, Len(chunks) + 1, c, new)
  BY <1>1, <1>4, <1>5, <1>7, <1>8 DEF Fine
<1> QED
  BY <1>1, <1>2, <1>3, <1>4, <1>9, AppendFine

(* A turn that finds that it does not.                                     *)
LEMMA WordSplits ==
  ASSUME NEW page \in Seq(Nat), NEW i \in 2..Len(page),
         AllFine(page, SoFar(page, i - 1)),
         Scan(page)[i - 1].first < i, Length(page, Scan(page)[i - 1].first, i) > ChunkSize
  PROVE  AllFine(page, SoFar(page, i))
<1> DEFINE chunks == Scan(page)[i - 1].chunks
           F == Scan(page)[i - 1].first
           start == OverlapStart(page, F, i - 1)
           old == [first |-> F, last |-> i - 1]
           new == [first |-> start, last |-> i]
           more == Append(chunks, old)
<1>1. chunks \in Seq(Chunk) /\ F \in Nat /\ i \in Nat /\ i - 1 \in Nat
  BY ScanIs DEF ScanState
<1>2. old \in Chunk /\ more \in Seq(Chunk)
  BY <1>1 DEF Chunk
<1>3. SoFar(page, i - 1) = more /\ SoFar(page, i) = Append(more, new)
  <2>1. Scan(page)[i] = AddWord(page, Scan(page)[i - 1], i)
    BY ScanIs
  <2>2. AddWord(page, Scan(page)[i - 1], i) = [chunks |-> more, first |-> start]
    BY DEF AddWord
  <2> QED
    BY <2>1, <2>2 DEF SoFar, Open
<1>4. Fine(page, Len(chunks) + 1, chunks[Len(chunks)], old) /\ AllFine(page, more)
  BY <1>1, <1>2, <1>3, AppendFine
<1>5. 1 <= F /\ F <= i - 1
  BY <1>4 DEF Fine
<1>6. /\ start \in F..i
      /\ Length(page, start, i - 1) <= ChunkOverlap
      /\ \A k \in F..i : Length(page, k, i - 1) <= ChunkOverlap => start <= k
  BY <1>1, <1>5, OverlapFits
<1>7. more[Len(more)] = old /\ Len(more) + 1 > 1
  BY <1>1, <1>2
<1> HIDE DEF start, chunks, F, more
<1>8. start \in Nat /\ new \in Chunk
  BY <1>1, <1>5, <1>6 DEF Chunk
<1>9. start > F => Length(page, start - 1, i - 1) > ChunkOverlap
  <2> SUFFICES ASSUME start > F PROVE Length(page, start - 1, i - 1) > ChunkOverlap
    OBVIOUS
  <2>1. start - 1 \in F..i /\ start - 1 \in 1..(i - 1) /\ i - 1 \in 1..Len(page)
    BY <1>1, <1>5, <1>6
  <2>2. ~(Length(page, start - 1, i - 1) <= ChunkOverlap)
    BY <1>6, <1>8, <2>1
  <2>3. Length(page, start - 1, i - 1) \in Int
    BY <2>1, LengthGrows
  <2> QED
    BY <2>2, <2>3, ChunkingAssumption
<1>10. Follows(page, old, new)
  BY <1>1, <1>5, <1>6, <1>9 DEF Follows
<1>11. \/ Length(page, start, i) <= ChunkSize
       \/ start = i
       \/ page[i] + ChunkOverlap >= ChunkSize
  <2> SUFFICES ASSUME start # i
               PROVE  \/ Length(page, start, i) <= ChunkSize
                      \/ page[i] + ChunkOverlap >= ChunkSize
    OBVIOUS
  <2>1. start \in 1..(i - 1) /\ i - 1 \in 1..Len(page) /\ (i - 1) + 1 = i /\ page[i] \in Nat
    BY <1>1, <1>5, <1>6
  <2> DEFINE j == i - 1
  <2>2. j \in 1..Len(page) /\ start \in 1..j /\ j + 1 <= Len(page) /\ j + 1 = i
    BY <1>1, <2>1
  <2> HIDE DEF j
  <2>3. /\ Length(page, start, j) \in Int
        /\ Length(page, start, j + 1) = Length(page, start, j) + page[j + 1] + 1
    BY <2>2, LengthGrows
  <2>4. /\ Length(page, start, i - 1) \in Int /\ Length(page, start, i - 1) <= ChunkOverlap
        /\ Length(page, start, i) = Length(page, start, i - 1) + page[i] + 1
    BY <1>6, <2>2, <2>3 DEF j
  <2> DEFINE short == Length(page, start, i - 1)
             long  == Length(page, start, i)
             word  == page[i]
  <2>5. short \in Int /\ short <= ChunkOverlap /\ long = short + word + 1 /\ word \in Nat
    BY <2>1, <2>4
  <2> HIDE DEF short, long, word
  <2>6. long <= ChunkSize \/ word + ChunkOverlap >= ChunkSize
    BY <2>5, ChunkingAssumption
  <2> QED
    BY <2>6 DEF long, word
<1>12. Fine(page, Len(more) + 1, old, new)
  BY <1>1, <1>5, <1>6, <1>7, <1>10, <1>11 DEF Fine
<1> QED
  BY <1>2, <1>3, <1>4, <1>7, <1>8, <1>12, AppendFine

(* After every turn the chunks are fine.                                   *)
LEMMA ScanFine ==
  ASSUME NEW page \in Seq(Nat)
  PROVE  \A i \in 1..Len(page) : AllFine(page, SoFar(page, i))
<1> DEFINE n == Len(page)
           T == {i \in 0..n : i = 0 \/ AllFine(page, SoFar(page, i))}
<1>1. n \in Nat /\ 0 \in T
  OBVIOUS
<1>2. ASSUME NEW i \in 1..n, i - 1 \in T
      PROVE  i \in T
  <2> DEFINE before == Scan(page)[i - 1]
  <2>1. /\ i - 1 \in 0..n /\ before \in ScanState
        /\ Scan(page)[i] = AddWord(page, before, i)
    BY ScanIs
  <2>2. CASE i = 1
    <3>1. before = [chunks |-> <<>>, first |-> 1]
      BY <2>2, ScanIs
    <3>2. Scan(page)[i] = [chunks |-> <<>>, first |-> 1]
      BY <2>1, <2>2, <3>1 DEF AddWord
    <3> DEFINE e == [first |-> 1, last |-> 1]
    <3>3. SoFar(page, i) = Append(<<>>, e) /\ e \in Chunk /\ <<>> \in Seq(Chunk)
      BY <2>2, <3>2 DEF SoFar, Open, Chunk
    <3>4. AllFine(page, <<>>) /\ Len(<<>>) = 0
      BY DEF AllFine
    <3>5. Fine(page, Len(<<>>) + 1, <<>>[Len(<<>>)], e)
      BY <3>4 DEF Fine
    <3>6. AllFine(page, Append(<<>>, e))
      <4> HIDE DEF e
      <4> QED
        BY <3>3, <3>4, <3>5, AppendFine
    <3> QED
      BY <3>3, <3>6
  <2>3. CASE i > 1
    <3>1. i \in 2..n /\ AllFine(page, SoFar(page, i - 1))
      BY <1>2, <2>3
    <3>2. CASE before.first < i /\ Length(page, before.first, i) > ChunkSize
      BY <3>1, <3>2, WordSplits
    <3>3. CASE ~(before.first < i /\ Length(page, before.first, i) > ChunkSize)
      <4>1. Scan(page)[i] = before
        BY <2>1, <3>3 DEF AddWord
      <4> QED
        BY <3>1, <3>3, <4>1, WordFits
    <3> QED
      BY <3>2, <3>3
  <2> QED
    BY <2>2, <2>3
<1>3. \A i \in 0..n : i \in T
  <2> HIDE DEF T
  <2> QED
    BY <1>1, <1>2, Induction
<1> QED
  BY <1>3

(* What _split_text() returns for a page that is not empty: chunks, the    *)
(* last of which ends with the page, and all of which are fine.            *)
LEMMA SplitFine ==
  ASSUME NEW page \in Seq(Nat), page # <<>>
  PROVE  /\ Split(page) \in Seq(Chunk) /\ Len(Split(page)) \in Nat \ {0}
         /\ Split(page)[Len(Split(page))].last = Len(page)
         /\ AllFine(page, Split(page))
<1> DEFINE n == Len(page)
           chunks == Scan(page)[n].chunks
           e == Open(page, n)
<1>1. n \in 1..n /\ n \in 0..n /\ n \in Nat
  OBVIOUS
<1>2. Scan(page)[n] \in ScanState
  BY <1>1, ScanIs
<1>3. chunks \in Seq(Chunk) /\ e \in Chunk
  BY <1>1, <1>2 DEF ScanState, Open, Chunk
<1>4. Split(page) = SoFar(page, n) /\ e.last = n
  BY DEF Split, SoFar, Open
<1>5. Split(page) = Append(chunks, e)
  BY <1>4 DEF SoFar
<1>6. AllFine(page, Split(page))
  BY <1>1, <1>4, ScanFine
<1> HIDE DEF chunks, e, n
<1>7. /\ Len(Append(chunks, e)) = Len(chunks) + 1 /\ Len(chunks) \in Nat
      /\ Append(chunks, e)[Len(chunks) + 1] = e /\ Append(chunks, e) \in Seq(Chunk)
  BY <1>3
<1> QED
  BY <1>4, <1>5, <1>6, <1>7 DEF n

---------------------------------------------------------------------------
(* The properties of the chunks, of texts whose words are natural numbers. *)

Texts == \A d \in DOMAIN text : text[d] \in Seq(Seq(Nat))

LEMMA PagesOfTexts ==
  ASSUME Texts
  PROVE  ExtractedPages \subseteq Seq(Nat)
<1> SUFFICES ASSUME NEW d \in DOMAIN text, NEW page \in Range(text[d])
             PROVE  page \in Seq(Nat)
  BY DEF ExtractedPages
<1>1. text[d] \in Seq(Seq(Nat))
  BY DEF Texts
<1>2. PICK p \in DOMAIN text[d] : page = text[d][p]
  BY DEF Range
<1> QED
  BY <1>1, <1>2

LEMMA TextsCovered ==
  ASSUME Texts
  PROVE  ChunksCoverText
<1> SUFFICES ASSUME NEW page \in ExtractedPages \ {<<>>}
             PROVE  LET chunks == Split(page)
                    IN  /\ chunks[1].first = 1
                        /\ Last(chunks).last = Len(page)
                        /\ \A k \in 1..(Len(chunks) - 1) :
                             /\ chunks[k].first <= chunks[k + 1].first
                             /\ chunks[k + 1].first <= chunks[k].last + 1
                             /\ chunks[k].last < chunks[k + 1].last
  BY DEF ChunksCoverText
<1> DEFINE chunks == Split(page)
<1>1. page \in Seq(Nat)
  BY PagesOfTexts
<1>2. /\ Len(chunks) \in Nat \ {0} /\ chunks[Len(chunks)].last = Len(page)
      /\ AllFine(page, chunks)
  BY <1>1, SplitFine
<1> HIDE DEF chunks
<1>3. chunks[1].first = 1
  BY <1>2 DEF AllFine, Fine
<1>4. Last(chunks).last = Len(page)
  BY <1>2 DEF Last
<1>5. ASSUME NEW k \in 1..(Len(chunks) - 1)
      PROVE  Follows(page, chunks[k], chunks[k + 1])
  <2> DEFINE j == k + 1
  <2>1. j \in 1..Len(chunks) /\ j > 1 /\ j - 1 = k
    BY <1>2
  <2> HIDE DEF j
  <2>2. Follows(page, chunks[j - 1], chunks[j])
    BY <1>2, <2>1 DEF AllFine, Fine
  <2> QED
    BY <2>1, <2>2 DEF j
<1> QED
  BY <1>3, <1>4, <1>5 DEF Follows, chunks

LEMMA TextsBounded ==
  ASSUME Texts
  PROVE  ChunksBounded
<1> SUFFICES ASSUME NEW page \in ExtractedPages, NEW k \in DOMAIN Split(page)
             PROVE  LET chunks == Split(page)
                    IN  /\ \/ Length(page, chunks[k].first, chunks[k].last) <= ChunkSize
                           \/ chunks[k].first = chunks[k].last
                           \/ /\ k > 1 /\ chunks[k].last = chunks[k - 1].last + 1
                              /\ page[chunks[k].last] + ChunkOverlap >= ChunkSize
                        /\ k > 1 =>
                             LET first == chunks[k].first
                                 last  == chunks[k - 1].last
                             IN  /\ Length(page, first, last) <= ChunkOverlap
                                 /\ first > chunks[k - 1].first =>
                                      Length(page, first - 1, last) > ChunkOverlap
  BY DEF ChunksBounded
<1> DEFINE chunks == Split(page)
<1>1. page \in Seq(Nat) /\ page # <<>>
  BY PagesOfTexts DEF Split
<1>2. chunks \in Seq(Chunk) /\ AllFine(page, chunks)
  BY <1>1, SplitFine
<1>3. k \in 1..Len(chunks)
  BY <1>2
<1> HIDE DEF chunks
<1>4. Fine(page, k, chunks[k - 1], chunks[k])
  BY <1>2, <1>3 DEF AllFine
<1> QED
  BY <1>4 DEF Fine, Follows, chunks
=============================================================================

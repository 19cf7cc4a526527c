------------------------- MODULE ChunkedDownloadProofs -------------------------
(***************************************************************************)
(* What an implementation of ChunkedDownload writes is right.  The proof   *)
(* needs that the chunks do not overlap, so that filling one leaves the    *)
(* bytes of the others alone.                                              *)
(***************************************************************************)
EXTENDS ChunkedDownload, TLAPS

Fetched == phase \in {"fetching", "written"}

Shape ==
  /\ total \in Nat
  /\ chunk \in [DOMAIN chunk -> [lo : Nat, hi : Nat]]
  /\ filled \in [DOMAIN chunk -> Int]
  /\ open \subseteq DOMAIN chunk
  /\ DOMAIN data = 0 .. total - 1

FilledInside ==
  \A i \in DOMAIN chunk : chunk[i].lo <= filled[i] /\ filled[i] <= chunk[i].hi

DInv ==
  Fetched => /\ Shape
             /\ Partition(chunk, total)
             /\ FilledInside
             /\ RightUpToFilled

-----------------------------------------------------------------------------
(***************************************************************************)
(* A byte belongs to one chunk only.                                       *)
(***************************************************************************)
LEMMA OneChunk ==
  ASSUME Shape, Partition(chunk, total), NEW i \in DOMAIN chunk, NEW k \in DOMAIN chunk,
         NEW j \in chunk[i].lo .. chunk[i].hi - 1, chunk[k].lo <= j, j < chunk[k].hi
  PROVE  k = i
<1>1. chunk[i].lo \in Nat /\ chunk[i].hi \in Nat /\ chunk[i].hi <= total /\ total \in Nat
  BY DEF Shape, Partition
<1>2. j \in 0 .. total - 1 /\ chunk[i].lo <= j /\ j < chunk[i].hi
  BY <1>1
<1>3. PICK m \in DOMAIN chunk :
        \A l \in DOMAIN chunk : (chunk[l].lo <= j /\ j < chunk[l].hi) <=> l = m
  BY <1>2 DEF Partition
<1>4. i = m /\ k = m
  BY <1>2, <1>3
<1>5. QED
  BY <1>4

\* Planning starts with empty chunks and a buffer of zeros.
LEMMA PlanInd ==
  ASSUME Plan
  PROVE  DInv'
<1>1. /\ total' \in Nat /\ chunk' \in [DOMAIN chunk' -> [lo : Nat, hi : Nat]]
      /\ Partition(chunk, total)'
  BY DEF Plan, Partition
<1>2. \A i \in DOMAIN chunk' :
        /\ chunk'[i].lo \in Nat /\ chunk'[i].hi \in Nat
        /\ chunk'[i].lo < chunk'[i].hi /\ chunk'[i].hi <= total'
        /\ filled'[i] = chunk'[i].lo
  BY <1>1 DEF Plan, Partition
<1>3. Shape'
  BY <1>1, <1>2 DEF Plan, Shape
<1>4. FilledInside'
  BY <1>2 DEF FilledInside
<1>5. \A j \in 0 .. total' - 1 : data'[j] = Zero
  BY DEF Plan
<1>6. RightUpToFilled'
  BY <1>1, <1>2, <1>5 DEF RightUpToFilled
<1>7. QED
  BY <1>1, <1>3, <1>4, <1>6 DEF DInv

\* Filling one chunk leaves the others alone.
LEMMA FillInd ==
  ASSUME DInv, NEW k \in open, NEW p \in filled[k] + 1 .. chunk[k].hi, Fill(k, p)
  PROVE  DInv'
<1>1. Shape /\ Partition(chunk, total) /\ FilledInside /\ RightUpToFilled
  BY DEF DInv, Fetched, Fill
<1>2. /\ k \in DOMAIN chunk /\ filled[k] \in Int /\ p \in Int
      /\ chunk[k].lo \in Nat /\ chunk[k].hi \in Nat
      /\ chunk[k].lo <= filled[k] /\ filled[k] < p /\ p <= chunk[k].hi
  BY <1>1 DEF Shape, FilledInside
<1>3. UNCHANGED <<phase, total, chunk>> /\ filled' = [filled EXCEPT ![k] = p]
  BY DEF Fill
<1>4. Shape'
  <2>1. open' \subseteq DOMAIN chunk /\ DOMAIN data' = DOMAIN data
    BY <1>1 DEF Fill, Shape
  <2>2. filled' \in [DOMAIN chunk -> Int]
    BY <1>1, <1>2, <1>3 DEF Shape
  <2>3. QED
    BY <1>1, <1>3, <2>1, <2>2 DEF Shape
<1>5. FilledInside'
  BY <1>1, <1>2, <1>3 DEF Shape, FilledInside
<1>6. ASSUME NEW i \in DOMAIN chunk, NEW j \in chunk[i].lo .. chunk[i].hi - 1
      PROVE  data'[j] = IF j < filled'[i] THEN j ELSE Zero
  <2>1. /\ chunk[i].lo \in Nat /\ chunk[i].hi \in Nat /\ chunk[i].hi <= total
        /\ filled[i] \in Int /\ total \in Nat
    BY <1>1 DEF Shape, Partition
  <2>2. j \in DOMAIN data /\ j \in Int
    BY <1>1, <2>1 DEF Shape
  <2>3. data'[j] = IF filled[k] <= j /\ j < p THEN j ELSE data[j]
    BY <2>2 DEF Fill
  <2>4. data[j] = IF j < filled[i] THEN j ELSE Zero
    BY <1>1 DEF RightUpToFilled, Fill
  <2>5. CASE i = k
    <3>1. filled'[i] = p
      BY <1>1, <1>3, <2>5 DEF Shape
    <3>2. QED
      BY <1>2, <2>2, <2>3, <2>4, <2>5, <3>1
  <2>6. CASE i # k
    <3>1. filled'[i] = filled[i]
      BY <1>1, <1>3, <2>6 DEF Shape
    <3>2. ~(chunk[k].lo <= j /\ j < chunk[k].hi)
      BY <1>1, <1>2, <2>6, OneChunk
    <3>3. ~(filled[k] <= j /\ j < p)
      BY <1>2, <2>2, <3>2
    <3>4. QED
      BY <2>3, <2>4, <3>1, <3>3
  <2>7. QED
    BY <2>5, <2>6
<1>7. RightUpToFilled'
  BY <1>3, <1>6 DEF RightUpToFilled
<1>8. QED
  BY <1>1, <1>3, <1>4, <1>5, <1>7 DEF DInv, Partition

(***************************************************************************)
(* Giving up, writing and aborting leave chunks and buffer as they are.    *)
(***************************************************************************)
LEMMA RestInd ==
  ASSUME DInv, UNCHANGED <<total, chunk, filled, data>>, open' \subseteq open,
         Fetched' => Fetched
  PROVE  DInv'
<1>1. SUFFICES ASSUME Fetched' PROVE DInv'
  BY DEF DInv
<1>2. Shape /\ Partition(chunk, total) /\ FilledInside /\ RightUpToFilled
  BY <1>1 DEF DInv
<1>3. Shape' /\ Partition(chunk, total)' /\ FilledInside'
  BY <1>2 DEF Shape, Partition, FilledInside
<1>4. RightUpToFilled'
  BY <1>1, <1>2 DEF RightUpToFilled, Fetched
<1>5. QED
  BY <1>3, <1>4 DEF DInv

\* Every step preserves the invariant.
LEMMA DInvPreserved == DInv /\ [DNext]_dvars => DInv'
<1>1. SUFFICES ASSUME DInv, [DNext]_dvars PROVE DInv'
  OBVIOUS
<1>2. CASE Plan
  BY <1>2, PlanInd
<1>3. ASSUME NEW i \in open, GiveUp(i) PROVE DInv'
  BY <1>1, <1>3, RestInd DEF GiveUp, Fetched
<1>4. ASSUME NEW i \in open, NEW p \in filled[i] + 1 .. chunk[i].hi, Fill(i, p)
      PROVE  DInv'
  BY <1>1, <1>4, FillInd
<1>5. CASE Write
  BY <1>1, <1>5, RestInd DEF Write, Fetched
<1>6. CASE Abort
  BY <1>1, <1>6, RestInd DEF Abort, Fetched
<1>7. CASE UNCHANGED dvars
  BY <1>1, <1>7, RestInd DEF dvars, Fetched
<1>8. QED
  BY <1>1, <1>2, <1>3, <1>4, <1>5, <1>6, <1>7 DEF DNext

(***************************************************************************)
(* Every implementation of ChunkedDownload keeps, in each chunk, the right *)
(* bytes up to the filled position and zeros after it: with the refinement *)
(* that the runs check, this is what output.dat holds after a download in  *)
(* which threads have failed (tftp/client.c:278-279, ftp/client.c:204-205).*)
(***************************************************************************)
THEOREM DownloadRight == DSpec => []RightUpToFilled
<1>1. DInit => DInv
  BY DEF DInit, DInv, Fetched
<1>2. DInv => RightUpToFilled
  BY DEF DInv, Fetched, RightUpToFilled
<1>3. QED
  BY <1>1, <1>2, DInvPreserved, PTL DEF DSpec
=============================================================================

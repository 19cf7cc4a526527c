--------------------------- MODULE ChunkPlanProofs ---------------------------
(***************************************************************************)
(* For every file size and every number of connections the user may give,  *)
(* except zero, the chunks of ChunkPlan partition the file.                *)
(***************************************************************************)
EXTENDS ChunkPlan, TLAPS

(***************************************************************************)
(* The reduced number of connections lies between 1 and file_size          *)
(* (tftp/client.c:208-211).                                                *)
(***************************************************************************)
LEMMA ConnectionsRange ==
  ASSUME NEW file_size \in Nat \ {0}, NEW num \in Int \ {0}
  PROVE  Connections(file_size, num) \in 1 .. file_size
BY DEF Connections

(***************************************************************************)
(* The quotient is at least 1, so the adjustment of tftp/client.c:215-217  *)
(* never happens, and n chunks of that size fit in the file.               *)
(***************************************************************************)
LEMMA ChunkSizeBounds ==
  ASSUME NEW file_size \in Nat \ {0}, NEW n \in 1 .. file_size
  PROVE  /\ ChunkSize(file_size, n) = file_size \div n
         /\ ChunkSize(file_size, n) \in Nat \ {0}
         /\ n * ChunkSize(file_size, n) <= file_size
<1> DEFINE q == file_size \div n
<1>1. /\ q \in Int
      /\ n * q <= file_size
      /\ file_size < n * q + n
  BY SMT
<1>2. q >= 1
  <2>1. SUFFICES ASSUME q <= 0 PROVE FALSE
    BY <1>1
  <2>2. n * q <= 0
    BY <1>1, <2>1, SMT
  <2> QED
    BY <1>1, <2>2
<1> QED
  BY <1>1, <1>2 DEF ChunkSize

(***************************************************************************)
(* A product with a larger factor is larger: the one nonlinear fact the    *)
(* theorems below need.                                                    *)
(***************************************************************************)
LEMMA ProductMonotone ==
  ASSUME NEW a \in Nat, NEW b \in Nat, NEW c \in Nat, a <= b
  PROVE  a * c <= b * c
BY SMT

(***************************************************************************)
(* The subtraction for the last chunk does not wrap around: the first byte *)
(* of every chunk, and the q bytes after it, lie in the file.              *)
(***************************************************************************)
LEMMA ChunkInFile ==
  ASSUME NEW file_size \in Nat \ {0}, NEW n \in 1 .. file_size,
         NEW i \in 0 .. n - 1
  PROVE  /\ Offset(file_size, n, i) \in Nat
         /\ Size(file_size, n, i) \in Nat \ {0}
         /\ ChunkSize(file_size, n) <= Size(file_size, n, i)
         /\ Offset(file_size, n, i) + Size(file_size, n, i) <= file_size
         /\ i = n - 1
              => Offset(file_size, n, i) + Size(file_size, n, i) = file_size
<1> DEFINE q == ChunkSize(file_size, n)
<1>1. q \in Nat \ {0} /\ n * q <= file_size
  BY ChunkSizeBounds
<1>2. i * q \in Nat /\ q * i = i * q /\ (i + 1) * q = i * q + q
  BY <1>1, SMT
<1>3. (i + 1) * q <= n * q
  BY <1>1, ProductMonotone, i + 1 \in Nat, i + 1 <= n, n \in Nat
<1> HIDE DEF q
<1>4. Offset(file_size, n, i) = i * q
  BY DEF Offset, q
<1>5. Size(file_size, n, i) = IF i = n - 1 THEN file_size - q * i ELSE q
  BY DEF Size, q
<1> QED
  BY <1>1, <1>2, <1>3, <1>4, <1>5, n * q \in Nat, SMT DEF q

(***************************************************************************)
(* Every task passes the check of tftp/client.c:241-245 (and               *)
(* ftp/client.c:177-181): its error branch cannot be reached.              *)
(***************************************************************************)
THEOREM TasksValid ==
  ASSUME NEW file_size \in Nat \ {0}, NEW num \in Int \ {0}
  PROVE  AllTasksValid(file_size, Connections(file_size, num))
<1> DEFINE n == Connections(file_size, num)
<1>1. n \in 1 .. file_size
  BY ConnectionsRange
<1> HIDE DEF n
<1>2. \A i \in 0 .. n - 1 : ValidTask(file_size, n, i)
  BY <1>1, ChunkInFile DEF ValidTask
<1> QED
  BY <1>2 DEF AllTasksValid, n

(***************************************************************************)
(* The parts of file_data given to different threads do not overlap, which *)
(* is why the client needs no lock around its memcpy                       *)
(* (tftp/client.c:128-132).                                                *)
(***************************************************************************)
THEOREM PlanDisjoint ==
  ASSUME NEW file_size \in Nat \ {0}, NEW num \in Int \ {0}
  PROVE  ChunksDisjoint(file_size, Connections(file_size, num))
<1> DEFINE n == Connections(file_size, num)
           q == ChunkSize(file_size, n)
<1>1. n \in 1 .. file_size
  BY ConnectionsRange
<1> HIDE DEF n
<1>2. q \in Nat \ {0}
  BY <1>1, ChunkSizeBounds
<1>3. ASSUME NEW i \in 0 .. n - 1, NEW k \in 0 .. n - 1, i < k
      PROVE  Chunk(file_size, n, i) \cap Chunk(file_size, n, k) = {}
  <2>1. Offset(file_size, n, i) = i * q /\ Size(file_size, n, i) = q
    BY <1>1, <1>3 DEF Offset, Size
  <2>2. (i + 1) * q <= k * q
    BY <1>1, <1>2, <1>3, ProductMonotone, i + 1 \in Nat, k \in Nat
  <2>3. (i + 1) * q = i * q + q /\ i * q \in Nat /\ k * q \in Nat
    BY <1>1, <1>2, SMT
  <2>4. Offset(file_size, n, k) = k * q
    BY DEF Offset
  <2>5. Size(file_size, n, k) \in Nat
    BY <1>1, ChunkInFile
  <2> HIDE DEF q
  <2> QED
    BY <1>2, <2>1, <2>2, <2>3, <2>4, <2>5 DEF Chunk
<1>4. ASSUME NEW i \in 0 .. n - 1, NEW k \in 0 .. n - 1, i # k
      PROVE  Chunk(file_size, n, i) \cap Chunk(file_size, n, k) = {}
  <2>1. CASE i < k
    BY <1>3, <2>1
  <2>2. CASE k < i
    BY <1>3, <2>2
  <2> QED
    BY <1>1, <1>4, <2>1, <2>2
<1> QED
  BY <1>4 DEF ChunksDisjoint, n

(***************************************************************************)
(* Every byte of the file is in some chunk: the last chunk takes the       *)
(* remainder of the division (tftp/client.c:237-238).                      *)
(***************************************************************************)
THEOREM PlanCovers ==
  ASSUME NEW file_size \in Nat \ {0}, NEW num \in Int \ {0}
  PROVE  ChunksCover(file_size, Connections(file_size, num))
<1> DEFINE n == Connections(file_size, num)
           q == ChunkSize(file_size, n)
<1>1. n \in 1 .. file_size
  BY ConnectionsRange
<1> HIDE DEF n
<1>2. q \in Nat \ {0}
  BY <1>1, ChunkSizeBounds
<1> SUFFICES ASSUME NEW b \in 0 .. file_size - 1
             PROVE  \E i \in 0 .. n - 1 : b \in Chunk(file_size, n, i)
  BY DEF ChunksCover, n
<1> DEFINE d == b \div q
<1> HIDE DEF q
<1>3. /\ d \in Nat
      /\ d * q \in Nat
      /\ d * q <= b
      /\ b < d * q + q
  <2>1. b \in Nat /\ q \in Nat /\ q > 0
    BY <1>2
  <2> QED
    BY <2>1, SMT
<1> HIDE DEF d
<1>4. CASE d < n - 1
  <2>1. d \in 0 .. n - 1 /\ d # n - 1
    BY <1>1, <1>3, <1>4
  <2>2. Offset(file_size, n, d) = d * q /\ Size(file_size, n, d) = q
    BY <1>1, <2>1 DEF Offset, Size, q
  <2>3. b \in Chunk(file_size, n, d)
    BY <1>2, <1>3, <2>2 DEF Chunk
  <2> QED
    BY <2>1, <2>3
<1>5. CASE d >= n - 1
  <2>1. n - 1 \in 0 .. n - 1 /\ n - 1 \in Nat
    BY <1>1
  <2>2. (n - 1) * q <= d * q
    BY <1>2, <1>3, <1>5, <2>1, ProductMonotone
  <2>3. Offset(file_size, n, n - 1) = (n - 1) * q
    BY DEF Offset, q
  <2>4. /\ Offset(file_size, n, n - 1) + Size(file_size, n, n - 1) = file_size
        /\ Offset(file_size, n, n - 1) \in Nat
        /\ Size(file_size, n, n - 1) \in Nat
    BY <1>1, <2>1, ChunkInFile
  <2>5. b \in Chunk(file_size, n, n - 1)
    BY <1>3, <2>2, <2>3, <2>4 DEF Chunk
  <2> QED
    BY <2>1, <2>5
<1> QED
  BY <1>1, <1>3, <1>4, <1>5
=============================================================================

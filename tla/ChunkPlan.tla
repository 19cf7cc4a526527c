------------------------------ MODULE ChunkPlan ------------------------------
(***************************************************************************)
(* How a download client cuts a file of file_size bytes into one chunk per *)
(* connection.  tftp/client.c (208-238) and ftp/client.c (146-174) hold    *)
(* the same code; num is atoi(argv[2]), n the number of connections after  *)
(* the reduction and i the index of a task.                                *)
(*                                                                         *)
(* The reduction compares an int with a size_t, so a negative num counts   *)
(* as more than any file size and is reduced as well.  The result is put   *)
(* back in an int: the model is about files below 2^31 bytes.              *)
(***************************************************************************)
EXTENDS Integers

\* More connections than bytes are kept as they are.
UnreducedConnections(file_size, num) == IF num < 0 THEN file_size ELSE num

Connections(file_size, num) ==
  IF num < 0 \/ num > file_size THEN file_size ELSE num

\* file_size / num_connections is evaluated with a divisor of zero.
DividesByZero(file_size, num) == Connections(file_size, num) = 0

ChunkSize(file_size, n) ==
  LET quotient == file_size \div n
  IN  IF quotient < 1 THEN 1 ELSE quotient

Offset(file_size, n, i) == i * ChunkSize(file_size, n)

\* Every chunk has the same size: the remaining bytes are forgotten.
EvenSize(file_size, n, i) == ChunkSize(file_size, n)

\* The last chunk takes the bytes the division leaves over.
Size(file_size, n, i) ==
  IF i = n - 1 THEN file_size - ChunkSize(file_size, n) * i
               ELSE ChunkSize(file_size, n)

\* The client's own check of a task; a task that fails it ends the program.
ValidTask(file_size, n, i) ==
  /\ Size(file_size, n, i) > 0
  /\ Offset(file_size, n, i) + Size(file_size, n, i) <= file_size

\* The positions of file_data that task i may write.
Chunk(file_size, n, i) ==
  Offset(file_size, n, i) ..
    (Offset(file_size, n, i) + Size(file_size, n, i) - 1)

\* The servers are used in turn.
ServerOf(i, server_count) == i % server_count

-----------------------------------------------------------------------------
(***************************************************************************)
(* What the plan has to guarantee, for a reduced number n of connections.  *)
(***************************************************************************)

ChunksDisjoint(file_size, n) ==
  \A i, k \in 0 .. n - 1 :
    i # k => Chunk(file_size, n, i) \cap Chunk(file_size, n, k) = {}

ChunksCover(file_size, n) ==
  \A b \in 0 .. file_size - 1 : \E i \in 0 .. n - 1 : b \in Chunk(file_size, n, i)

AllTasksValid(file_size, n) == \A i \in 0 .. n - 1 : ValidTask(file_size, n, i)
=============================================================================

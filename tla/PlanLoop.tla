------------------------------- MODULE PlanLoop -------------------------------
(***************************************************************************)
(* The sequential part of a download client's main(): the checks on        *)
(* file_size and num_connections and the loop that fills in tasks[], one   *)
(* task per iteration (tftp/client.c:204-245, ftp/client.c:142-181).       *)
(* Creating the threads is left to TftpClient.                             *)
(***************************************************************************)
EXTENDS ChunkPlan, Sequences

CONSTANTS
  FileSizes,     \* what the CHECK reply may say
  Arguments,     \* the values of atoi(argv[2])
  ServerCounts   \* the possible lengths of the server list

ASSUME PlanLoopAssumption ==
  /\ FileSizes \subseteq Nat
  /\ Arguments \subseteq Int
  /\ ServerCounts \subseteq Nat \ {0}

VARIABLES
  pc,               \* "check", "assign", "ready", "rejected" or "sigfpe"
  file_size,
  num_connections,
  server_count,
  tasks             \* tasks[0 .. i-1], as a sequence

vars == <<pc, file_size, num_connections, server_count, tasks>>

Init ==
  /\ pc = "check"
  /\ file_size \in FileSizes
  /\ num_connections \in Arguments
  /\ server_count \in ServerCounts
  /\ tasks = << >>

\* An empty file ends the program; otherwise the connections are reduced and
\* file_size is divided by them.
Check ==
  /\ pc = "check"
  /\ pc' = IF file_size <= 0 THEN "rejected"
           ELSE IF DividesByZero(file_size, num_connections) THEN "sigfpe"
           ELSE "assign"
  /\ num_connections' = IF file_size <= 0 THEN num_connections
                        ELSE Connections(file_size, num_connections)
  /\ UNCHANGED <<file_size, server_count, tasks>>

\* One iteration of the loop over tasks[].
Assign ==
  LET i == Len(tasks)
      n == num_connections
  IN  /\ pc = "assign"
      /\ IF ValidTask(file_size, n, i)
           THEN /\ tasks' = Append(tasks,
                              [server |-> ServerOf(i, server_count),
                               offset |-> Offset(file_size, n, i),
                               size   |-> Size(file_size, n, i)])
                /\ pc' = IF i + 1 = n THEN "ready" ELSE "assign"
           ELSE /\ pc' = "rejected"
                /\ UNCHANGED tasks
      /\ UNCHANGED <<file_size, num_connections, server_count>>

Next == Check \/ Assign

Spec == Init /\ [][Next]_vars
-----------------------------------------------------------------------------
(***************************************************************************)
(* Once all tasks are assigned every byte of the file belongs to exactly   *)
(* one of them, whatever was asked for: more connections than bytes, a     *)
(* negative number, a number that does not divide the size.                *)
(***************************************************************************)
EveryByteAssignedOnce ==
  pc = "ready" =>
    \A b \in 0 .. file_size - 1 :
      \E k \in DOMAIN tasks :
        \A m \in DOMAIN tasks :
          (b >= tasks[m].offset /\ b < tasks[m].offset + tasks[m].size) <=> m = k

(***************************************************************************)
(* A file with at least one byte is never turned away: the "Invalid chunk  *)
(* calculation" exit (tftp/client.c:241-245) is dead code, and so is the   *)
(* adjustment of a chunk size below 1.                                     *)
(***************************************************************************)
NonEmptyFileAccepted == pc = "rejected" => file_size = 0
=============================================================================

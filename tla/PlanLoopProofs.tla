----------------------------- MODULE PlanLoopProofs -----------------------------
(***************************************************************************)
(* The loop over tasks[] implements the plan, for every file size and      *)
(* every number of connections: what ChunkPlanProofs shows of the formulas *)
(* holds of the tasks that the threads get.                                *)
(***************************************************************************)
EXTENDS PlanLoop, ChunkPlanProofs

TaskSet == [server : Int, offset : Int, size : Int]

\* The task with index k - 1, as the formulas give it.
AsPlanned(k) ==
  /\ tasks[k].offset = Offset(file_size, num_connections, k - 1)
  /\ tasks[k].size = Size(file_size, num_connections, k - 1)

LoopInv ==
  /\ pc \in {"check", "assign", "ready", "rejected", "sigfpe"}
  /\ file_size \in Nat
  /\ num_connections \in Int
  /\ server_count \in Nat \ {0}
  /\ tasks \in Seq(TaskSet)
  /\ pc = "check" => tasks = << >>
  /\ pc = "rejected" => file_size = 0
  /\ pc \in {"assign", "ready"} =>
       /\ file_size # 0
       /\ num_connections \in 1 .. file_size
       /\ IF pc = "ready" THEN Len(tasks) = num_connections
          ELSE Len(tasks) < num_connections
       /\ \A k \in 1 .. Len(tasks) : AsPlanned(k)

-----------------------------------------------------------------------------
\* The checks of main() leave a number of connections that the plan allows.
LEMMA CheckInd ==
  ASSUME LoopInv, Check
  PROVE  LoopInv'
<1>1. CASE file_size = 0
  BY <1>1 DEF LoopInv, Check
<1>2. CASE file_size # 0 /\ num_connections = 0
  BY <1>2 DEF LoopInv, Check, DividesByZero, Connections
<1>3. CASE file_size # 0 /\ num_connections # 0
  <2>1. Connections(file_size, num_connections) \in 1 .. file_size
    BY <1>3, ConnectionsRange DEF LoopInv
  <2>2. pc' = "assign" /\ num_connections' = Connections(file_size, num_connections)
    BY <1>3, <2>1 DEF LoopInv, Check, DividesByZero
  <2>3. /\ UNCHANGED <<file_size, server_count, tasks>> /\ tasks = << >>
        /\ file_size \in Nat \ {0} /\ Len(tasks') = 0
    BY <1>3 DEF LoopInv, Check
  <2>4. QED
    BY <2>1, <2>2, <2>3 DEF LoopInv
<1>4. QED
  BY <1>1, <1>2, <1>3 DEF LoopInv

\* An iteration of the loop adds the next task of the plan.
LEMMA AssignInd ==
  ASSUME LoopInv, Assign
  PROVE  LoopInv'
<1> DEFINE i == Len(tasks)
           n == num_connections
           task == [server |-> ServerOf(i, server_count),
                    offset |-> Offset(file_size, n, i), size |-> Size(file_size, n, i)]
<1>1. /\ pc = "assign" /\ file_size \in Nat \ {0} /\ n \in 1 .. file_size
      /\ i \in 0 .. n - 1 /\ server_count \in Nat \ {0} /\ tasks \in Seq(TaskSet)
  BY DEF LoopInv, Assign
<1>2. /\ Offset(file_size, n, i) \in Nat /\ Size(file_size, n, i) \in Nat \ {0}
      /\ ValidTask(file_size, n, i)
  <2> HIDE DEF i, n
  <2>1. /\ Offset(file_size, n, i) \in Nat /\ Size(file_size, n, i) \in Nat \ {0}
        /\ Offset(file_size, n, i) + Size(file_size, n, i) <= file_size
    BY <1>1, ChunkInFile
  <2>2. QED
    BY <2>1 DEF ValidTask
<1>3. task \in TaskSet
  BY <1>1, <1>2 DEF TaskSet, ServerOf
<1>4. /\ tasks' = Append(tasks, task) /\ pc' = IF i + 1 = n THEN "ready" ELSE "assign"
      /\ UNCHANGED <<file_size, num_connections, server_count>>
  BY <1>2 DEF Assign
<1> HIDE DEF task
<1>5. /\ tasks' \in Seq(TaskSet) /\ Len(tasks') = i + 1 /\ tasks'[i + 1] = task
      /\ \A k \in 1 .. i : tasks'[k] = tasks[k]
  BY <1>1, <1>3, <1>4
<1>6. ASSUME NEW k \in 1 .. i + 1 PROVE AsPlanned(k)'
  <2>1. CASE k = i + 1
    BY <1>1, <1>4, <1>5, <2>1 DEF AsPlanned, task
  <2>2. CASE k \in 1 .. i
    BY <1>1, <1>4, <1>5, <2>2 DEF AsPlanned, LoopInv
  <2>3. QED
    BY <1>1, <2>1, <2>2
<1>7. QED
  BY <1>1, <1>4, <1>5, <1>6 DEF LoopInv

\* Every step preserves the invariant.
LEMMA LoopInvPreserved == LoopInv /\ [Next]_vars => LoopInv'
<1>1. SUFFICES ASSUME LoopInv, [Next]_vars PROVE LoopInv'
  OBVIOUS
<1>2. CASE Check
  BY <1>1, <1>2, CheckInd
<1>3. CASE Assign
  BY <1>1, <1>3, AssignInd
<1>4. CASE UNCHANGED vars
  BY <1>1, <1>4 DEF vars, LoopInv, AsPlanned
<1>5. QED
  BY <1>1, <1>2, <1>3, <1>4 DEF Next

\* The invariant holds initially.
LEMMA LoopInvInit == Init => LoopInv
BY PlanLoopAssumption DEF Init, LoopInv

\* All tasks of the plan together have every byte once.
LEMMA AssignedOnce == LoopInv => EveryByteAssignedOnce
<1>1. SUFFICES ASSUME LoopInv, pc = "ready", NEW b \in 0 .. file_size - 1
               PROVE  \E k \in DOMAIN tasks :
                        \A m \in DOMAIN tasks :
                          (b >= tasks[m].offset /\ b < tasks[m].offset + tasks[m].size)
                            <=> m = k
  BY DEF EveryByteAssignedOnce
<1> DEFINE n == num_connections
<1>2. /\ file_size \in Nat \ {0} /\ n \in 1 .. file_size /\ n \in Int \ {0}
      /\ DOMAIN tasks = 1 .. n /\ \A k \in 1 .. n : AsPlanned(k)
  BY <1>1 DEF LoopInv
<1>3. Connections(file_size, n) = n
  BY <1>2 DEF Connections
<1>4. ChunksCover(file_size, n) /\ ChunksDisjoint(file_size, n)
  BY <1>2, <1>3, PlanCovers, PlanDisjoint
<1>5. PICK i \in 0 .. n - 1 : b \in Chunk(file_size, n, i)
  BY <1>1, <1>4 DEF ChunksCover
<1>6. ASSUME NEW m \in 1 .. n
      PROVE  (b >= tasks[m].offset /\ b < tasks[m].offset + tasks[m].size)
               <=> b \in Chunk(file_size, n, m - 1)
  <2>1. Offset(file_size, n, m - 1) \in Nat /\ Size(file_size, n, m - 1) \in Nat
    BY <1>2, ChunkInFile
  <2>2. /\ tasks[m].offset = Offset(file_size, n, m - 1)
        /\ tasks[m].size = Size(file_size, n, m - 1)
    BY <1>2 DEF AsPlanned
  <2>3. QED
    BY <1>1, <1>2, <2>1, <2>2 DEF Chunk
<1>7. \A m \in 1 .. n : b \in Chunk(file_size, n, m - 1) <=> m = i + 1
  <2>1. SUFFICES ASSUME NEW m \in 1 .. n
                 PROVE  b \in Chunk(file_size, n, m - 1) <=> m = i + 1
    OBVIOUS
  <2>2. CASE m = i + 1
    BY <1>5, <2>2
  <2>3. CASE m # i + 1
    <3>1. m - 1 \in 0 .. n - 1 /\ m - 1 # i
      BY <1>2, <2>3
    <3>2. Chunk(file_size, n, m - 1) \cap Chunk(file_size, n, i) = {}
      BY <1>4, <3>1 DEF ChunksDisjoint
    <3>3. QED
      BY <1>5, <2>3, <3>2
  <2>4. QED
    BY <2>2, <2>3
<1>8. i + 1 \in 1 .. n
  BY <1>2
<1>9. \A m \in DOMAIN tasks :
        (b >= tasks[m].offset /\ b < tasks[m].offset + tasks[m].size) <=> m = i + 1
  BY <1>2, <1>6, <1>7
<1>10. i + 1 \in DOMAIN tasks
  BY <1>2, <1>8
<1>11. QED
  BY <1>9, <1>10, Zenon

-----------------------------------------------------------------------------
(***************************************************************************)
(* The tasks that the loop hands out have every byte of the file exactly   *)
(* once, whatever the size of the file and the number asked for            *)
(* (tftp/client.c:204-245, ftp/client.c:142-181).                          *)
(***************************************************************************)
THEOREM EveryByteOnce == Spec => []EveryByteAssignedOnce
BY LoopInvInit, LoopInvPreserved, AssignedOnce, PTL DEF Spec

(***************************************************************************)
(* The "Invalid chunk calculation" exit is dead code (tftp/client.c:241).  *)
(***************************************************************************)
THEOREM NeverRejected == Spec => []NonEmptyFileAccepted
<1>1. LoopInv => NonEmptyFileAccepted
  BY DEF LoopInv, NonEmptyFileAccepted
<1>2. QED
  BY <1>1, LoopInvInit, LoopInvPreserved, PTL DEF Spec
=============================================================================

------------------------------ MODULE TftpProofs ------------------------------
(***************************************************************************)
(* Safety of Tftp, for every number of servers and connections, every file *)
(* and any number of faults of any kind; and what a download delivers, on  *)
(* a network that may lose and delay but duplicates nothing.               *)
(***************************************************************************)
EXTENDS Tftp, ChunkPlanProofs, SequenceTheorems, TLAPS

(***************************************************************************)
(* The bag of datagrams keeps its type when one is sent or received.       *)
(***************************************************************************)
LEMMA BagAddType ==
  ASSUME NEW S, NEW B, B \in [DOMAIN B -> Nat \ {0}], DOMAIN B \subseteq S, NEW x \in S
  PROVE  /\ BagAdd(B, x) \in [DOMAIN BagAdd(B, x) -> Nat \ {0}]
         /\ DOMAIN BagAdd(B, x) \subseteq S
<1>1. CASE x \in DOMAIN B
  BY <1>1 DEF BagAdd
<1>2. CASE x \notin DOMAIN B
  BY <1>2 DEF BagAdd
<1>3. QED
  BY <1>1, <1>2

\* Receiving takes one copy of a datagram out of the bag.
LEMMA BagRemoveType ==
  ASSUME NEW S, NEW B, B \in [DOMAIN B -> Nat \ {0}], DOMAIN B \subseteq S, NEW x
  PROVE  /\ BagRemove(B, x) \in [DOMAIN BagRemove(B, x) -> Nat \ {0}]
         /\ DOMAIN BagRemove(B, x) \subseteq S
<1>1. CASE x \notin DOMAIN B
  BY <1>1 DEF BagRemove
<1>2. CASE x \in DOMAIN B /\ B[x] = 1
  BY <1>2 DEF BagRemove
<1>3. CASE x \in DOMAIN B /\ B[x] # 1
  BY <1>3 DEF BagRemove
<1>4. QED
  BY <1>1, <1>2, <1>3

\* Whatever is in sequence p is in q too.
SomeOf(p, q) == \A j \in 1 .. Len(p) : \E m \in 1 .. Len(q) : p[j] = q[m]

(***************************************************************************)
(* A queue without one of its ACKs holds some of the others.               *)
(***************************************************************************)
LEMMA RemoveAtType ==
  ASSUME NEW q \in Seq(AckSet), NEW k \in 1 .. Len(q)
  PROVE  /\ RemoveAt(q, k) \in Seq(AckSet)
         /\ Len(RemoveAt(q, k)) = Len(q) - 1
         /\ \A j \in 1 .. Len(q) - 1 : RemoveAt(q, k)[j] = IF j < k THEN q[j] ELSE q[j + 1]
         /\ SomeOf(RemoveAt(q, k), q)
<1> DEFINE left  == SubSeq(q, 1, k - 1)
           right == SubSeq(q, k + 1, Len(q))
<1>1. /\ left \in Seq(AckSet) /\ Len(left) = k - 1
      /\ \A j \in 1 .. k - 1 : left[j] = q[j]
  OBVIOUS
<1>2. /\ right \in Seq(AckSet) /\ Len(right) = Len(q) - k
      /\ \A j \in 1 .. Len(q) - k : right[j] = q[j + k]
  OBVIOUS
<1>3. RemoveAt(q, k) = left \o right
  BY DEF RemoveAt
<1> HIDE DEF left, right
<1>4. /\ left \o right \in Seq(AckSet)
      /\ Len(left \o right) = Len(q) - 1
      /\ \A j \in 1 .. Len(q) - 1 :
           (left \o right)[j] = IF j <= k - 1 THEN left[j] ELSE right[j - (k - 1)]
  <2>1. /\ left \o right \in Seq(AckSet)
        /\ Len(left \o right) = Len(left) + Len(right)
        /\ \A j \in 1 .. Len(left) + Len(right) :
             (left \o right)[j] = IF j <= Len(left) THEN left[j] ELSE right[j - Len(left)]
    BY <1>1, <1>2, ConcatProperties, Zenon
  <2>2. Len(left) + Len(right) = Len(q) - 1
    BY <1>1, <1>2
  <2>3. QED
    BY <1>1, <2>1, <2>2
<1>5. ASSUME NEW j \in 1 .. Len(q) - 1
      PROVE  (left \o right)[j] = IF j < k THEN q[j] ELSE q[j + 1]
  <2>1. CASE j <= k - 1
    BY <1>1, <1>4, <2>1
  <2>2. CASE ~(j <= k - 1)
    <3>1. j - (k - 1) \in 1 .. Len(q) - k
      BY <2>2
    <3>2. QED
      BY <1>2, <1>4, <2>2, <3>1
  <2>3. QED
    BY <2>1, <2>2
<1>6. SomeOf(left \o right, q)
  <2> SUFFICES ASSUME NEW j \in 1 .. Len(q) - 1
               PROVE  \E m \in 1 .. Len(q) : (left \o right)[j] = q[m]
    BY <1>4 DEF SomeOf
  <2>1. IF j < k THEN j \in 1 .. Len(q) ELSE j + 1 \in 1 .. Len(q)
    OBVIOUS
  <2>2. QED
    BY <1>5, <2>1
<1>7. QED
  BY <1>3, <1>4, <1>5, <1>6

-----------------------------------------------------------------------------
(***************************************************************************)
(* The inductive invariant.  OutputInChunk is what keeps the output        *)
(* positions, and so the counts of the threads, natural numbers; the       *)
(* clause of ClientTypeOK on the lock before the threads exist makes the   *)
(* one on the threads inductive.                                           *)
(***************************************************************************)
IndInv == TypeOK /\ NoLostWakeup /\ OutputInChunk

\* The client has planned its chunks.
HasPlan == main \in {"create", "join", "done"}

(***************************************************************************)
(* What the plan says of the chunk of a thread.                            *)
(***************************************************************************)
LEMMA TaskInFile ==
  ASSUME ClientTypeOK, HasPlan, NEW i \in ThreadIds
  PROVE  /\ i \in Int /\ i # NoThread
         /\ TaskOffset(i) \in Nat
         /\ TaskSize(i) \in Nat \ {0}
         /\ TaskOffset(i) + TaskSize(i) <= file_size
         /\ TaskServer(i) \in Servers
<1>1. file_size \in Nat \ {0} /\ num_connections \in 1 .. file_size
  BY DEF ClientTypeOK, HasPlan
<1>2. i \in 0 .. num_connections - 1
  BY DEF ThreadIds
<1>3. /\ Offset(file_size, num_connections, i) \in Nat
      /\ Size(file_size, num_connections, i) \in Nat \ {0}
  BY <1>1, <1>2, ChunkInFile
<1>4. ValidTask(file_size, num_connections, i)
  <2>1. num_connections \in Int \ {0} /\ Connections(file_size, num_connections) = num_connections
    BY <1>1 DEF Connections
  <2>2. AllTasksValid(file_size, Connections(file_size, num_connections))
    BY <1>1, <2>1, TasksValid
  <2>3. QED
    BY <1>2, <2>1, <2>2 DEF AllTasksValid
<1>5. i % NumServers \in 0 .. NumServers - 1
  BY <1>1, <1>2, NetAssumption
<1>6. QED
  BY <1>1, <1>2, <1>3, <1>4, <1>5
  DEF TaskOffset, TaskSize, TaskServer, ServerOf, Servers, ValidTask, NoThread

\* The initial state satisfies the inductive invariant.
LEMMA InitInd == Init => IndInv
<1> SUFFICES ASSUME Init PROVE IndInv
  OBVIOUS
<1>1. NetTypeOK
  BY NetAssumption DEF Init, NetInit, NetTypeOK, InFlight, EmptyBag, SetToBag
<1>2. NoWorker \in WorkerSet
  BY NetAssumption DEF NoWorker, WorkerSet, WorkerStates, Servers
<1>3. ServerTypeOK
  BY <1>2, ServerAssumption DEF Init, ServerInit, ServerTypeOK, SrvStates
<1>4. ClientTypeOK
  BY ClientAssumption
  DEF Init, ClientInit, ClientTypeOK, MainStates, Running
<1>5. NoLostWakeup
  BY DEF Init, ServerInit, NoLostWakeup, NoWorker
<1>6. OutputInChunk
  BY DEF Init, ClientInit, OutputInChunk
<1>7. QED
  BY <1>1, <1>3, <1>4, <1>5, <1>6 DEF IndInv, TypeOK

-----------------------------------------------------------------------------
(***************************************************************************)
(* The network and the budget of faults.                                   *)
(***************************************************************************)
LEMMA SentType ==
  ASSUME NetTypeOK, NEW m \in DatagramSet, Send(m)
  PROVE  net' \in [InFlight' -> Nat \ {0}] /\ InFlight' \subseteq DatagramSet
BY BagAddType DEF NetTypeOK, Send, InFlight

\* recvfrom leaves a bag of datagrams.
LEMMA ConsumedType ==
  ASSUME NetTypeOK, NEW m, Consume(m)
  PROVE  net' \in [InFlight' -> Nat \ {0}] /\ InFlight' \subseteq DatagramSet
BY BagRemoveType DEF NetTypeOK, Consume, InFlight

\* A fault keeps the count of the faults in its bound.
LEMMA FaultType ==
  ASSUME NetTypeOK, NEW kind, Fault(kind)
  PROVE  faults' \in 0 .. MaxFaults
BY NetAssumption DEF NetTypeOK, Fault

-----------------------------------------------------------------------------
(***************************************************************************)
(* The servers.                                                            *)
(***************************************************************************)
LEMMA NoWorkerType == NoWorker \in WorkerSet /\ NoWorker.pc = "free"
BY NetAssumption DEF NoWorker, WorkerSet, WorkerStates, Servers

\* A handler that nobody puts to sleep, with a queue that gets no new ACK, has
\* missed nothing.
LEMMA NoAckMissed ==
  ASSUME ServerTypeOK, NoLostWakeup, ServerTypeOK', NEW w \in Workers,
         worker'[w].pc = "asleep" => worker'[w] = worker[w],
         SomeOf(ack_queue'[worker[w].server], ack_queue[worker[w].server])
  PROVE  worker'[w].pc = "asleep" => Matches(w)' = {}
<1> SUFFICES ASSUME worker'[w].pc = "asleep" PROVE Matches(w)' = {}
  OBVIOUS
<1> DEFINE s == worker[w].server
<1>1. worker'[w] = worker[w] /\ Matches(w) = {}
  BY DEF NoLostWakeup
<1>2. ASSUME NEW k \in 1 .. Len(ack_queue'[s])
      PROVE  ~(ack_queue'[s][k].seq = worker[w].seq /\ ack_queue'[s][k].port = worker[w].port)
  <2>1. PICK m \in 1 .. Len(ack_queue[s]) : ack_queue'[s][k] = ack_queue[s][m]
    BY DEF SomeOf
  <2>2. ~(ack_queue[s][m].seq = worker[w].seq /\ ack_queue[s][m].port = worker[w].port)
    BY <1>1 DEF Matches, Awaited
  <2>3. QED
    BY <2>1, <2>2
<1>3. QED
  BY <1>1, <1>2 DEF Matches, Awaited

\* What every recvfrom of a main thread does to network and socket.
LEMMA ReceiveInd ==
  ASSUME IndInv, NEW s \in Servers, NEW m, Receivable(s, m), Consume(m),
         srv' = AfterReceive(s)
  PROVE  /\ m \in DatagramSet
         /\ net' \in [InFlight' -> Nat \ {0}] /\ InFlight' \subseteq DatagramSet
         /\ srv' \in [Servers -> SrvStates]
<1>1. m \in DatagramSet
  BY DEF IndInv, TypeOK, NetTypeOK, Receivable
<1>2. srv' \in [Servers -> SrvStates]
  BY DEF IndInv, TypeOK, ServerTypeOK, SrvStates, AfterReceive
<1>3. QED
  BY <1>1, <1>2, ConsumedType DEF IndInv, TypeOK

\* An ACK in the queue wakes every handler that could wait for it.
LEMMA ReceiveAckInd ==
  ASSUME IndInv, NEW s \in Servers, NEW m, ReceiveAck(s, m)
  PROVE  NetTypeOK' /\ ServerTypeOK' /\ NoLostWakeup'
<1>1. /\ m \in DatagramSet
      /\ net' \in [InFlight' -> Nat \ {0}] /\ InFlight' \subseteq DatagramSet
      /\ srv' \in [Servers -> SrvStates]
  BY ReceiveInd DEF ReceiveAck
<1>2. NetTypeOK'
  BY <1>1 DEF IndInv, TypeOK, NetTypeOK, ReceiveAck
<1>3. CASE Len(ack_queue[s]) < MaxQueue
  <2> DEFINE ack == [port |-> m.port, seq |-> m.seq]
  <2>1. ack \in AckSet
    BY <1>1 DEF AckSet, DatagramSet
  <2>2. ack_queue' = [ack_queue EXCEPT ![s] = Append(@, ack)] /\ worker' = WakeAll(s)
    BY <1>3 DEF ReceiveAck
  <2>3. ack_queue' \in [Servers -> Seq(AckSet)]
    BY <2>1, <2>2 DEF IndInv, TypeOK, ServerTypeOK
  <2>4. \A t \in Servers : Len(ack_queue'[t]) <= MaxQueue
    BY <1>3, <2>1, <2>2, ServerAssumption DEF IndInv, TypeOK, ServerTypeOK
  <2>5. worker' \in [Workers -> WorkerSet]
    <3>1. ASSUME NEW w \in Workers
          PROVE  worker[w] \in WorkerSet /\ [worker[w] EXCEPT !.pc = "scan"] \in WorkerSet
      BY DEF IndInv, TypeOK, ServerTypeOK, WorkerSet, WorkerStates
    <3>2. QED
      BY <2>2, <3>1 DEF WakeAll
  <2>6. ServerTypeOK'
    BY <1>1, <2>3, <2>4, <2>5 DEF ServerTypeOK
  <2>7. ASSUME NEW w \in Workers, worker'[w].pc = "asleep"
        PROVE  Matches(w)' = {}
    <3>1. worker[w] \in WorkerSet
      BY DEF IndInv, TypeOK, ServerTypeOK
    <3>2. worker'[w] = worker[w] /\ worker[w].server # s
      BY <2>2, <2>7, <3>1 DEF WakeAll, WorkerSet
    <3>3. ack_queue'[worker[w].server] = ack_queue[worker[w].server]
      BY <2>2, <3>1, <3>2 DEF IndInv, TypeOK, ServerTypeOK, WorkerSet
    <3>4. QED
      BY <2>7, <3>2, <3>3 DEF IndInv, NoLostWakeup, Matches, Awaited
  <2>8. QED
    BY <1>2, <2>6, <2>7 DEF NoLostWakeup
<1>4. CASE ~(Len(ack_queue[s]) < MaxQueue)
  <2>1. UNCHANGED <<ack_queue, worker>>
    BY <1>4 DEF ReceiveAck
  <2>2. QED
    BY <1>1, <1>2, <2>1
    DEF IndInv, TypeOK, ServerTypeOK, NoLostWakeup, Matches, Awaited
<1>5. QED
  BY <1>3, <1>4

\* A step that leaves the queues alone and puts no handler to sleep.
LEMMA AwakeInd ==
  ASSUME ServerTypeOK, NoLostWakeup, UNCHANGED ack_queue, NEW w \in Workers,
         \A v \in Workers \ {w} : worker'[v] = worker[v],
         worker'[w].pc # "asleep"
  PROVE  NoLostWakeup'
BY DEF NoLostWakeup, Matches, Awaited

\* A new handler is awake.
LEMMA ReceiveRequestInd ==
  ASSUME IndInv, NEW s \in Servers, NEW m, NEW w \in Workers, ReceiveRequest(s, m, w)
  PROVE  NetTypeOK' /\ ServerTypeOK' /\ NoLostWakeup'
<1>1. /\ m \in DatagramSet
      /\ net' \in [InFlight' -> Nat \ {0}] /\ InFlight' \subseteq DatagramSet
      /\ srv' \in [Servers -> SrvStates]
  BY ReceiveInd DEF ReceiveRequest
<1>2. NetTypeOK'
  BY <1>1 DEF IndInv, TypeOK, NetTypeOK, ReceiveRequest
<1> DEFINE new == [pc |-> "start", kind |-> m.kind, server |-> s, port |-> m.port,
                   offset |-> m.from, seq |-> 0, remaining |-> m.len]
<1>3. new \in WorkerSet
  BY <1>1 DEF ReceiveRequest, WorkerSet, WorkerStates, DatagramSet
<1>4. worker' = [worker EXCEPT ![w] = new] /\ ack_queue' = ack_queue
  BY DEF ReceiveRequest
<1>5. ServerTypeOK'
  BY <1>1, <1>3, <1>4 DEF IndInv, TypeOK, ServerTypeOK
<1>6. worker'[w].pc # "asleep" /\ \A v \in Workers \ {w} : worker'[v] = worker[v]
  BY <1>4 DEF IndInv, TypeOK, ServerTypeOK
<1>7. NoLostWakeup'
  BY <1>4, <1>6, AwakeInd DEF IndInv, TypeOK
<1>8. QED
  BY <1>2, <1>5, <1>7

\* A request whose handler cannot be started changes no handler.
LEMMA RefuseRequestInd ==
  ASSUME IndInv, NEW s \in Servers, NEW m, RefuseRequest(s, m)
  PROVE  NetTypeOK' /\ ServerTypeOK' /\ NoLostWakeup'
<1>1. /\ net' \in [InFlight' -> Nat \ {0}] /\ InFlight' \subseteq DatagramSet
      /\ srv' \in [Servers -> SrvStates]
  BY ReceiveInd DEF RefuseRequest
<1>2. faults' \in 0 .. MaxFaults
  BY FaultType DEF IndInv, TypeOK, RefuseRequest
<1>3. UNCHANGED <<ack_queue, worker>>
  BY DEF RefuseRequest
<1>4. NetTypeOK' /\ ServerTypeOK'
  BY <1>1, <1>2, <1>3 DEF IndInv, TypeOK, NetTypeOK, ServerTypeOK
<1>5. NoLostWakeup'
  BY <1>3 DEF IndInv, NoLostWakeup, Matches, Awaited
<1>6. QED
  BY <1>4, <1>5

\* A handler goes on with its next packet, or is gone.
LEMMA NextPacketType ==
  ASSUME NEW r \in WorkerSet
  PROVE  NextPacket(r) \in WorkerSet /\ NextPacket(r).pc \in {"send", "free"}
BY NoWorkerType DEF NextPacket, WorkerSet, WorkerStates

\* A reply that is sent, or lost on a closed socket, leaves a bag of datagrams.
LEMMA SendUncheckedType ==
  ASSUME NetTypeOK, NEW s, NEW m \in DatagramSet, SendUnchecked(s, m)
  PROVE  net' \in [InFlight' -> Nat \ {0}] /\ InFlight' \subseteq DatagramSet
<1>1. CASE srv[s] = "up"
  BY <1>1, SentType DEF SendUnchecked, Send
<1>2. CASE srv[s] # "up"
  BY <1>2 DEF SendUnchecked, NetTypeOK, InFlight
<1>3. QED
  BY <1>1, <1>2

\* The steps of a handler, tftp/server.c:38-160, one by one.
LEMMA WorkerStepInd ==
  ASSUME IndInv, NEW w \in Workers, WorkerStep(w) \/ SpuriousWakeup(w)
  PROVE  NetTypeOK' /\ ServerTypeOK' /\ NoLostWakeup'
<1> DEFINE s == worker[w].server
           p == worker[w].port
<1> USE DEF IndInv, TypeOK
<1>0. /\ worker[w] \in WorkerSet /\ s \in Servers /\ p \in Int
      /\ worker \in [Workers -> WorkerSet]
      /\ NoWorker \in WorkerSet /\ NoWorker.pc = "free"
  BY NoWorkerType DEF ServerTypeOK, WorkerSet
<1>1. CASE HandleCheck(w)
  <2> DEFINE m == IF HostedSize[s] = NoFile THEN Error(p, s) ELSE Ok(p, s, HostedSize[s])
  <2>1. m \in DatagramSet
    BY <1>0, ServerAssumption
    DEF DatagramSet, Error, Ok, Datagram, ToClient, ToServer, JunkSeq, NoFile
  <2>2. NetTypeOK'
    BY <1>1, <2>1, SendUncheckedType DEF HandleCheck, NetTypeOK
  <2>3. worker' = [worker EXCEPT ![w] = NoWorker] /\ UNCHANGED <<srv, ack_queue>>
    BY <1>1 DEF HandleCheck, Exits
  <2>4. ServerTypeOK'
    BY <1>0, <2>3 DEF ServerTypeOK
  <2>5. QED
    BY <1>0, <2>2, <2>3, <2>4, AwakeInd
<1>2. CASE HandleGetMissing(w)
  <2>1. Error(p, s) \in DatagramSet
    BY <1>0 DEF DatagramSet, Error, Datagram, ToClient, ToServer, JunkSeq
  <2>2. NetTypeOK'
    BY <1>2, <2>1, SendUncheckedType DEF HandleGetMissing, NetTypeOK
  <2>3. worker' = [worker EXCEPT ![w] = NoWorker] /\ UNCHANGED <<srv, ack_queue>>
    BY <1>2 DEF HandleGetMissing, Exits
  <2>4. ServerTypeOK'
    BY <1>0, <2>3 DEF ServerTypeOK
  <2>5. QED
    BY <1>0, <2>2, <2>3, <2>4, AwakeInd
<1>3. CASE HandleGetOutOfRange(w)
  <2>1. NetTypeOK'
    BY <1>3 DEF HandleGetOutOfRange, NetTypeOK, InFlight
  <2>2. ServerTypeOK'
    BY <1>0, <1>3 DEF HandleGetOutOfRange, ServerTypeOK, SrvStates
  <2>3. NoLostWakeup'
    <3>1. \A v \in Workers : worker'[v] = worker[v] \/ worker'[v].pc = "free"
      BY <1>0, <1>3 DEF HandleGetOutOfRange
    <3>2. ack_queue' = ack_queue
      BY <1>3 DEF HandleGetOutOfRange
    <3>3. QED
      BY <3>1, <3>2 DEF NoLostWakeup, Matches, Awaited
  <2>4. QED
    BY <2>1, <2>2, <2>3
<1>4. CASE HandleGet(w)
  <2>1. NetTypeOK'
    BY <1>4 DEF HandleGet, NetTypeOK, InFlight, netVars
  <2>2. worker' = [worker EXCEPT ![w] = NextPacket(worker[w])] /\ UNCHANGED <<srv, ack_queue>>
    BY <1>4 DEF HandleGet
  <2>3. NextPacket(worker[w]) \in WorkerSet /\ NextPacket(worker[w]).pc # "asleep"
    BY <1>0, NextPacketType
  <2>4. ServerTypeOK'
    BY <1>0, <2>2, <2>3 DEF ServerTypeOK
  <2>5. QED
    BY <1>0, <2>1, <2>2, <2>3, <2>4, AwakeInd
<1>5. CASE SendPacket(w)
  <2> DEFINE m == Data(p, s, worker[w].seq, PacketFrom(w), PacketLen(w))
  <2>1. PacketLen(w) \in Nat
    BY <1>0, ServerAssumption DEF PacketLen, WorkerSet
  <2>2. PacketFrom(w) \in Nat
    BY <1>0, ServerAssumption DEF PacketFrom, WorkerSet
  <2>3. m \in DatagramSet
    BY <1>0, <2>1, <2>2 DEF DatagramSet, Data, Datagram, ToClient, ToServer, WorkerSet
  <2>4. NetTypeOK'
    BY <1>5, <2>3, SentType DEF SendPacket, NetTypeOK
  <2>5. worker' = [worker EXCEPT ![w].pc = "scan"] /\ UNCHANGED <<srv, ack_queue>>
    BY <1>5 DEF SendPacket
  <2>6. ServerTypeOK'
    BY <1>0, <2>5 DEF ServerTypeOK, WorkerSet, WorkerStates
  <2>7. QED
    BY <1>0, <2>4, <2>5, <2>6, AwakeInd DEF WorkerSet
<1>6. CASE SendPacketFails(w)
  <2>1. faults' \in 0 .. MaxFaults
    BY <1>6, FaultType DEF SendPacketFails, NetTypeOK
  <2>2. NetTypeOK'
    BY <1>6, <2>1 DEF SendPacketFails, NetTypeOK, InFlight
  <2>3. worker' = [worker EXCEPT ![w] = NoWorker] /\ UNCHANGED ack_queue
    BY <1>6 DEF SendPacketFails, Exits
  <2>4. ServerTypeOK'
    BY <1>0, <1>6, <2>3 DEF SendPacketFails, ServerTypeOK, SrvStates
  <2>5. QED
    BY <1>0, <2>2, <2>3, <2>4, AwakeInd
<1>7. CASE TakeAck(w)
  <2> DEFINE r == Acknowledged(w)
  <2>1. r \in WorkerSet
    <3>1. worker[w].remaining - PacketLen(w) \in Nat
      BY <1>0, ServerAssumption DEF PacketLen, WorkerSet
    <3>2. worker[w].seq + 1 \in Nat
      BY <1>0 DEF WorkerSet
    <3>3. ASSUME NEW a \in Nat, NEW b \in Nat
          PROVE  [worker[w] EXCEPT !.seq = a, !.remaining = b] \in WorkerSet
      BY <1>0 DEF WorkerSet
    <3>4. QED
      BY <3>1, <3>2, <3>3 DEF Acknowledged
  <2>2. NextPacket(r) \in WorkerSet /\ NextPacket(r).pc # "asleep"
    BY <2>1, NextPacketType
  <2>3. PICK k \in Matches(w) : ack_queue' = [ack_queue EXCEPT ![s] = RemoveAt(@, k)]
    BY <1>7 DEF TakeAck
  <2> DEFINE q == ack_queue[s]
  <2>4. q \in Seq(AckSet) /\ k \in 1 .. Len(q)
    BY <1>0 DEF ServerTypeOK, Matches
  <2> HIDE DEF q, r
  <2>5. /\ RemoveAt(q, k) \in Seq(AckSet)
        /\ Len(RemoveAt(q, k)) = Len(q) - 1
        /\ SomeOf(RemoveAt(q, k), q)
    BY <2>4, RemoveAtType, Zenon
  <2>6. worker' = [worker EXCEPT ![w] = NextPacket(r)] /\ UNCHANGED <<srv, netVars>>
    BY <1>7 DEF TakeAck, r
  <2>7. NetTypeOK'
    BY <2>6 DEF NetTypeOK, InFlight, netVars
  <2>8. \A t \in Servers : /\ ack_queue'[t] \in Seq(AckSet)
                           /\ Len(ack_queue'[t]) <= MaxQueue
    BY <1>0, <2>3, <2>4, <2>5, ServerAssumption DEF ServerTypeOK, q
  <2>9. ServerTypeOK'
    BY <1>0, <2>2, <2>3, <2>6, <2>8 DEF ServerTypeOK
  <2>10. ASSUME NEW v \in Workers
         PROVE  worker'[v].pc = "asleep" => Matches(v)' = {}
    <3>1. worker'[v].pc = "asleep" => worker'[v] = worker[v]
      BY <1>0, <2>2, <2>6
    <3>2. worker[v].server \in Servers
      BY <1>0 DEF WorkerSet
    <3>3. SomeOf(ack_queue'[worker[v].server], ack_queue[worker[v].server])
      <4>1. CASE worker[v].server = s
        <5>1. ack_queue'[s] = RemoveAt(q, k)
          BY <1>0, <2>3 DEF ServerTypeOK, q
        <5>2. QED
          BY <2>5, <4>1, <5>1 DEF q
      <4>2. CASE worker[v].server # s
        BY <2>3, <3>2, <4>2 DEF ServerTypeOK, SomeOf
      <4>3. QED
        BY <4>1, <4>2
    <3>4. QED
      BY <2>9, <3>1, <3>3, NoAckMissed
  <2>11. QED
    BY <2>7, <2>9, <2>10 DEF NoLostWakeup
<1>8. CASE Sleep(w)
  <2>1. NetTypeOK'
    BY <1>8 DEF Sleep, NetTypeOK, InFlight, netVars
  <2>2. /\ worker' = [worker EXCEPT ![w].pc = "asleep"] /\ UNCHANGED <<srv, ack_queue>>
        /\ Matches(w) = {}
    BY <1>8 DEF Sleep
  <2>3. ServerTypeOK'
    BY <1>0, <2>2 DEF ServerTypeOK, WorkerSet, WorkerStates
  <2>4. ASSUME NEW v \in Workers, worker'[v].pc = "asleep"
        PROVE  Matches(v)' = {}
    <3>1. Matches(v) = {}
      BY <1>0, <2>2, <2>4 DEF NoLostWakeup
    <3>2. /\ worker'[v].server = worker[v].server /\ worker'[v].seq = worker[v].seq
          /\ worker'[v].port = worker[v].port
      BY <1>0, <2>2 DEF WorkerSet
    <3>3. ack_queue' = ack_queue
      BY <2>2
    <3>4. Matches(v)' = Matches(v)
      BY ONLY <3>2, <3>3 DEF Matches, Awaited
    <3>5. QED
      BY <3>1, <3>4
  <2>5. QED
    BY <2>1, <2>3, <2>4 DEF NoLostWakeup
<1>9. CASE SpuriousWakeup(w)
  <2>1. NetTypeOK'
    BY <1>9 DEF SpuriousWakeup, NetTypeOK, InFlight, netVars
  <2>2. worker' = [worker EXCEPT ![w].pc = "scan"] /\ UNCHANGED <<srv, ack_queue>>
    BY <1>9 DEF SpuriousWakeup
  <2>3. ServerTypeOK'
    BY <1>0, <2>2 DEF ServerTypeOK, WorkerSet, WorkerStates
  <2>4. QED
    BY <1>0, <2>1, <2>2, <2>3, AwakeInd DEF WorkerSet
<1>10. QED
  BY <1>1, <1>2, <1>3, <1>4, <1>5, <1>6, <1>7, <1>8, <1>9 DEF WorkerStep

-----------------------------------------------------------------------------
(***************************************************************************)
(* The client.                                                             *)
(***************************************************************************)
LEMMA RunningFacts ==
  ASSUME IndInv, Running
  PROVE  /\ HasPlan
         /\ file_size \in Nat \ {0} /\ num_connections \in 1 .. file_size
         /\ DOMAIN thread = ThreadIds
         /\ thread \in [ThreadIds -> ThreadSet]
         /\ file_data \in [0 .. file_size - 1 -> Int]
BY DEF IndInv, TypeOK, ClientTypeOK, Running, HasPlan

\* The placeholder in an unused buffer has the type of a datagram.
LEMMA NoDatagramType == NoDatagram \in DatagramSet
BY NetAssumption
DEF NoDatagram, Check, Datagram, DatagramSet, CheckPort, ToServer, ToClient, Servers

(***************************************************************************)
(* A step of main() that changes no thread and no byte.                    *)
(***************************************************************************)
LEMMA MainStepInd ==
  ASSUME IndInv, MainStep
  PROVE  NetTypeOK' /\ ClientTypeOK' /\ OutputInChunk'
<1> USE DEF IndInv, TypeOK
<1>1. CASE SendCheck
  <2>1. Check(0) \in DatagramSet
    BY NoDatagramType DEF NoDatagram
  <2>2. NetTypeOK'
    BY <1>1, <2>1, SentType DEF SendCheck, NetTypeOK
  <2>3. ClientTypeOK'
    BY <1>1 DEF SendCheck, ClientTypeOK, MainStates, Running, ThreadIds
  <2>4. QED
    BY <1>1, <2>2, <2>3 DEF SendCheck, OutputInChunk
<1>2. CASE SendCheckFails
  <2>1. NetTypeOK'
    BY <1>2, FaultType DEF SendCheckFails, NetTypeOK, InFlight
  <2>2. ClientTypeOK'
    BY <1>2 DEF SendCheckFails, ClientTypeOK, MainStates, Running, ThreadIds
  <2>3. QED
    BY <1>2, <2>1, <2>2 DEF SendCheckFails, OutputInChunk
<1>3. ASSUME NEW m \in InFlight, GetSize(m)
      PROVE  NetTypeOK' /\ ClientTypeOK' /\ OutputInChunk'
  <2>1. /\ Consume(m) /\ UNCHANGED faults /\ main = "size" /\ lock' = NoThread
        /\ main' = "create" /\ created' = 0
    BY <1>3 DEF GetSize, CheckReply, ClientTypeOK
  <2>2. NetTypeOK'
    BY <2>1, ConsumedType DEF NetTypeOK
  <2>3. file_size' \in Nat \ {0}
    BY <1>3, ClientAssumption DEF GetSize, SizeIn, NetTypeOK, DatagramSet
  <2>4. num_connections' \in 1 .. file_size'
    <3>1. num_connections \in Int /\ num_connections' = Connections(file_size', num_connections)
      BY <1>3 DEF GetSize, ClientTypeOK
    <3>2. num_connections # 0
      BY <1>3, <2>3 DEF GetSize, DividesByZero, Connections
    <3>3. QED
      BY <2>3, <3>1, <3>2, ConnectionsRange
  <2> DEFINE fs == file_size'
             nc == num_connections'
  <2>5. ASSUME NEW i \in 0 .. nc - 1
        PROVE  Offset(fs, nc, i) \in Nat /\ Size(fs, nc, i) \in Nat
    BY <2>3, <2>4, ChunkInFile
  <2>6. thread' = [i \in 0 .. nc - 1 |->
                     [pc |-> "new", remaining |-> Size(fs, nc, i),
                      retries |-> 0, status |-> 0, buffer |-> NoDatagram]]
    BY <1>3 DEF GetSize
  <2>7. thread' \in [0 .. nc - 1 -> ThreadSet]
    BY <2>5, <2>6, NoDatagramType DEF ThreadSet, ThreadStates
  <2>8. file_data' \in [0 .. file_size' - 1 -> Int]
    BY <1>3 DEF GetSize, Zero
  <2>9. \A i \in 0 .. nc - 1 : i # NoThread /\ thread'[i].pc = "new"
    BY <2>4, <2>6 DEF NoThread
  <2>10. ClientTypeOK'
    BY <2>1, <2>3, <2>4, <2>7, <2>8, <2>9
    DEF ClientTypeOK, MainStates, ThreadIds, Running
  <2>11. OutputInChunk'
    <3>1. ASSUME NEW i \in 0 .. nc - 1
          PROVE  thread'[i].remaining = Size(fs, nc, i)
      BY <2>6
    <3>2. QED
      BY <2>5, <3>1 DEF OutputInChunk, ThreadIds, OutputPos, TaskOffset, TaskSize
  <2>12. QED
    BY <2>2, <2>10, <2>11
<1>4. ASSUME NEW m \in InFlight, GetSizeFails(m)
      PROVE  NetTypeOK' /\ ClientTypeOK' /\ OutputInChunk'
  <2>1. /\ Consume(m) /\ main = "size" /\ lock' = NoThread
        /\ main' \in {"failed", "sigfpe"} /\ created' = 0
        /\ UNCHANGED <<num_connections, file_data, thread>>
    BY <1>4 DEF GetSizeFails, CheckReply, ClientTypeOK
  <2>2. faults' \in 0 .. MaxFaults
    <3>1. UNCHANGED faults \/ Fault("create")
      BY <1>4 DEF GetSizeFails
    <3>2. QED
      BY <3>1, FaultType DEF NetTypeOK
  <2>3. NetTypeOK'
    BY <2>1, <2>2, ConsumedType DEF NetTypeOK
  <2>4. file_size' \in Nat
    BY <1>4, ClientAssumption DEF GetSizeFails, SizeIn, NetTypeOK, DatagramSet
  <2>5. ClientTypeOK'
    BY <2>1, <2>4 DEF ClientTypeOK, MainStates, Running
  <2>6. QED
    BY <2>1, <2>3, <2>5 DEF OutputInChunk
<1>5. CASE CreateThread
  <2>1. NetTypeOK'
    BY <1>5 DEF CreateThread, NetTypeOK, InFlight, netVars
  <2>2. Running /\ main = "create" /\ created \in Nat /\ created < num_connections
    BY <1>5 DEF CreateThread, Running, ClientTypeOK
  <2>3. /\ HasPlan /\ thread \in [ThreadIds -> ThreadSet]
        /\ file_size \in Nat \ {0} /\ num_connections \in 1 .. file_size
        /\ file_data \in [0 .. file_size - 1 -> Int]
    BY <2>2, RunningFacts
  <2>4. created \in ThreadIds
    BY <2>2, <2>3 DEF ThreadIds
  <2>5. /\ thread' = [thread EXCEPT ![created].pc = "request"]
        /\ created' = created + 1
        /\ main' = IF created + 1 = num_connections THEN "join" ELSE "create"
        /\ UNCHANGED <<num_connections, file_size, file_data, lock>>
    BY <1>5 DEF CreateThread
  <2>6. thread' \in [ThreadIds -> ThreadSet]
    <3>1. [thread[created] EXCEPT !.pc = "request"] \in ThreadSet
      BY <2>3, <2>4 DEF ThreadSet, ThreadStates
    <3>2. QED
      BY <2>3, <2>5, <3>1
  <2>7. OutputInChunk'
    BY <2>3, <2>5, <2>6
    DEF OutputInChunk, HasPlan, ThreadIds, OutputPos, TaskOffset, TaskSize, ThreadSet
  <2>8. (\A i \in ThreadIds : thread[i].pc = "receive" <=> lock = i)
    BY <2>2 DEF ClientTypeOK
  <2>9. \A i \in ThreadIds : thread'[i].pc = "receive" <=> lock' = i
    <3>1. thread[created].pc = "new"
      BY <2>2, <2>4 DEF ClientTypeOK
    <3>2. QED
      BY <2>3, <2>5, <2>8, <3>1 DEF ThreadSet
  <2>10. \A i \in ThreadIds : i >= created' => thread'[i].pc = "new"
    BY <2>2, <2>3, <2>5 DEF ClientTypeOK, ThreadIds
  <2>11. ClientTypeOK'
    BY <2>2, <2>3, <2>5, <2>6, <2>9, <2>10 DEF ClientTypeOK, MainStates, ThreadIds, Running
  <2>12. QED
    BY <2>1, <2>7, <2>11
<1>6. CASE CreateThreadFails
  <2>1. NetTypeOK'
    BY <1>6, FaultType DEF CreateThreadFails, NetTypeOK, InFlight
  <2>2. ClientTypeOK'
    BY <1>6 DEF CreateThreadFails, ClientTypeOK, MainStates, Running, ThreadIds
  <2>3. QED
    BY <1>6, <2>1, <2>2 DEF CreateThreadFails, OutputInChunk
<1>7. CASE WriteOutput
  <2>1. NetTypeOK'
    BY <1>7 DEF WriteOutput, NetTypeOK, InFlight, netVars
  <2>2. ClientTypeOK'
    BY <1>7 DEF WriteOutput, ClientTypeOK, MainStates, Running, ThreadIds
  <2>3. OutputInChunk'
    BY <1>7 DEF WriteOutput, OutputInChunk, ThreadIds, OutputPos, TaskOffset, TaskSize
  <2>4. QED
    BY <2>1, <2>2, <2>3
<1>8. QED
  BY <1>1, <1>2, <1>3, <1>4, <1>5, <1>6, <1>7 DEF MainStep

(***************************************************************************)
(* What a step of thread i has to respect.                                 *)
(***************************************************************************)
LEMMA ThreadChangeInd ==
  ASSUME IndInv, Running, UNCHANGED mainVars, NEW i \in ThreadIds,
         thread[i].pc # "new",
         thread' \in [ThreadIds -> ThreadSet],
         \A k \in ThreadIds \ {i} : thread'[k] = thread[k],
         thread'[i].remaining <= TaskSize(i),
         file_data' \in [0 .. file_size - 1 -> Int],
         thread'[i].pc = "receive" <=> lock' = i,
         \A k \in ThreadIds \ {i} : lock' = k <=> lock = k
  PROVE  ClientTypeOK' /\ OutputInChunk'
<1> USE DEF mainVars
<1>1. /\ HasPlan
      /\ file_size \in Nat \ {0} /\ num_connections \in 1 .. file_size
      /\ thread \in [ThreadIds -> ThreadSet]
  BY RunningFacts
<1>2. ThreadIds' = ThreadIds /\ Running' /\ HasPlan'
  BY <1>1 DEF ThreadIds, Running, HasPlan
<1>3. \A k \in ThreadIds : thread'[k].pc = "receive" <=> lock' = k
  BY DEF IndInv, TypeOK, ClientTypeOK
<1>4. \A k \in ThreadIds : k >= created => thread'[k].pc = "new"
  BY <1>1 DEF IndInv, TypeOK, ClientTypeOK, HasPlan
<1>5. ClientTypeOK'
  BY <1>1, <1>2, <1>3, <1>4
  DEF IndInv, TypeOK, ClientTypeOK, Running, HasPlan
<1>6. \A k \in ThreadIds : /\ TaskOffset(k) \in Nat /\ TaskSize(k) \in Nat
                           /\ thread'[k].remaining \in Nat
                           /\ thread'[k].remaining <= TaskSize(k)
  <2> SUFFICES ASSUME NEW k \in ThreadIds
               PROVE  /\ TaskOffset(k) \in Nat /\ TaskSize(k) \in Nat
                      /\ thread'[k].remaining \in Nat
                      /\ thread'[k].remaining <= TaskSize(k)
    OBVIOUS
  <2>1. TaskOffset(k) \in Nat /\ TaskSize(k) \in Nat
    BY <1>1, TaskInFile DEF IndInv, TypeOK
  <2>2. thread'[k].remaining \in Nat /\ thread[k].remaining \in Nat
    BY <1>1 DEF ThreadSet
  <2>3. thread[k].remaining <= TaskSize(k)
    BY <1>1, <2>1, <2>2 DEF IndInv, OutputInChunk, OutputPos, HasPlan
  <2>4. QED
    BY <2>1, <2>2, <2>3
<1>7. OutputInChunk'
  BY <1>2, <1>6 DEF OutputInChunk, OutputPos, TaskOffset, TaskSize
<1>8. QED
  BY <1>5, <1>7

\* The steps of download_chunk, tftp/client.c:39-140, one by one.
LEMMA ThreadStepInd ==
  ASSUME IndInv, NEW i \in DOMAIN thread, ThreadStep(i) \/ Timeout(i)
  PROVE  NetTypeOK' /\ ClientTypeOK' /\ OutputInChunk'
<1> USE DEF IndInv, TypeOK
<1>0. Running
  BY DEF ThreadStep, Timeout, SendGet, SendGetFails, Lock, Receive, AckAndStore,
         AckFails, TimesOut
<1>1. /\ HasPlan /\ i \in ThreadIds
      /\ file_size \in Nat \ {0} /\ num_connections \in 1 .. file_size
      /\ thread \in [ThreadIds -> ThreadSet] /\ thread[i] \in ThreadSet
      /\ file_data \in [0 .. file_size - 1 -> Int]
      /\ NoDatagram \in DatagramSet
      /\ \A k \in ThreadIds : thread[k].pc = "receive" <=> lock = k
  BY <1>0, RunningFacts, NoDatagramType DEF ClientTypeOK
<1>2. /\ i \in Int /\ i # NoThread
      /\ TaskOffset(i) \in Nat /\ TaskSize(i) \in Nat \ {0}
      /\ TaskOffset(i) + TaskSize(i) <= file_size
      /\ TaskServer(i) \in Servers
      /\ thread[i].remaining \in Nat
  BY <1>1, TaskInFile DEF ThreadSet
<1>3. thread[i].remaining <= TaskSize(i)
  BY <1>1, <1>2 DEF OutputInChunk, OutputPos, HasPlan
<1>4. \A k \in ThreadIds : k # NoThread
  BY <1>1 DEF ThreadIds, NoThread
\* Leaving with a status changes nothing but the record of thread i.
<1>5. ASSUME NEW status \in {0, 1}, ExitWith(i, status)
      PROVE  /\ thread' \in [ThreadIds -> ThreadSet]
             /\ \A k \in ThreadIds \ {i} : thread'[k] = thread[k]
             /\ thread'[i].remaining = thread[i].remaining
             /\ thread'[i].pc = "exited"
  BY <1>1, <1>5 DEF ExitWith, ThreadSet, ThreadStates
<1>6. CASE SendGet(i)
  <2>1. Get(i, TaskServer(i), TaskOffset(i), TaskSize(i)) \in DatagramSet
    BY <1>2 DEF Get, Datagram, DatagramSet, ToServer, ToClient
  <2>2. NetTypeOK'
    BY <1>6, <2>1, SentType DEF SendGet, NetTypeOK
  <2>3. /\ thread' = [thread EXCEPT ![i].pc = "loop"] /\ thread[i].pc = "request"
        /\ UNCHANGED <<mainVars, file_data, lock>>
    BY <1>6 DEF SendGet
  <2>4. /\ thread' \in [ThreadIds -> ThreadSet] /\ thread'[i].pc = "loop"
        /\ thread'[i].remaining = thread[i].remaining
    BY <1>1, <2>3 DEF ThreadSet, ThreadStates
  <2>5. QED
    BY <1>0, <1>1, <1>3, <2>2, <2>3, <2>4, ThreadChangeInd
<1>7. CASE SendGetFails(i)
  <2>1. NetTypeOK'
    BY <1>7, FaultType DEF SendGetFails, NetTypeOK, InFlight
  <2>2. ExitWith(i, 0) /\ thread[i].pc = "request" /\ UNCHANGED <<mainVars, file_data, lock>>
    BY <1>7 DEF SendGetFails
  <2>3. QED
    BY <1>0, <1>1, <1>3, <1>5, <2>1, <2>2, ThreadChangeInd
<1>8. CASE Lock(i)
  <2>1. NetTypeOK'
    BY <1>8 DEF Lock, NetTypeOK, InFlight, netVars
  <2>2. /\ thread' = [thread EXCEPT ![i].pc = "receive"] /\ thread[i].pc = "loop"
        /\ lock = NoThread /\ lock' = i
        /\ UNCHANGED <<mainVars, file_data>>
    BY <1>8 DEF Lock
  <2>3. /\ thread' \in [ThreadIds -> ThreadSet] /\ thread'[i].pc = "receive"
        /\ thread'[i].remaining = thread[i].remaining
    BY <1>1, <2>2 DEF ThreadSet, ThreadStates
  <2>4. QED
    BY <1>0, <1>1, <1>3, <1>4, <2>1, <2>2, <2>3, ThreadChangeInd
<1>9. ASSUME NEW m \in InFlight, Receive(i, m)
      PROVE  NetTypeOK' /\ ClientTypeOK' /\ OutputInChunk'
  <2>1. NetTypeOK'
    BY <1>9, ConsumedType DEF Receive, NetTypeOK
  <2>2. /\ thread' = [thread EXCEPT ![i].pc = "ack", ![i].buffer = m]
        /\ thread[i].pc = "receive" /\ lock' = NoThread
        /\ UNCHANGED <<mainVars, file_data>>
    BY <1>9 DEF Receive
  <2>3. m \in DatagramSet
    BY DEF NetTypeOK
  <2>4. /\ thread' \in [ThreadIds -> ThreadSet] /\ thread'[i].pc = "ack"
        /\ thread'[i].remaining = thread[i].remaining
        /\ \A k \in ThreadIds \ {i} : thread'[k] = thread[k]
    BY <1>1, <2>2, <2>3 DEF ThreadSet, ThreadStates
  <2>5. lock = i
    BY <1>1, <2>2
  <2>6. QED
    BY <1>0, <1>1, <1>2, <1>3, <1>4, <2>1, <2>2, <2>4, <2>5, ThreadChangeInd
<1>10. CASE AckAndStore(i)
  <2> DEFINE m == thread[i].buffer
             r == thread[i].remaining - PayloadSize(m)
  <2>1. m \in DatagramSet
    BY <1>1 DEF ThreadSet
  <2>2. Ack(i, m.server, m.seq) \in DatagramSet
    BY <1>2, <2>1 DEF Ack, Datagram, DatagramSet, ToServer, ToClient
  <2>3. NetTypeOK'
    BY <1>10, <2>2, SentType DEF AckAndStore, NetTypeOK
  <2>4. thread[i].pc = "ack" /\ lock = NoThread /\ UNCHANGED <<mainVars, lock>>
    BY <1>10 DEF AckAndStore
  <2>5. CASE Fits(i, m)
    <3>1. PayloadSize(m) \in Nat
      BY <2>1, ClientAssumption DEF PayloadSize, DatagramSet
    <3>2. r \in Nat /\ r <= TaskSize(i)
      BY <1>2, <1>3, <2>5, <3>1 DEF Fits
    <3>3. /\ file_data' = Stored(i, m)
          /\ thread' = [thread EXCEPT ![i].pc = IF r > 0 THEN "loop" ELSE "exited",
                                      ![i].remaining = r, ![i].retries = 0,
                                      ![i].buffer = NoDatagram]
      BY <1>10, <2>5 DEF AckAndStore
    <3> HIDE DEF r
    <3>4. /\ thread' \in [ThreadIds -> ThreadSet]
          /\ \A k \in ThreadIds \ {i} : thread'[k] = thread[k]
          /\ thread'[i].pc \in {"loop", "exited"}
          /\ thread'[i].remaining = r
      BY <1>1, <3>2, <3>3 DEF ThreadSet, ThreadStates
    <3>5. \A k \in Int : PayloadByte(m, k) \in Int
      BY <2>1 DEF PayloadByte, DatagramSet, Junk
    <3>6. OutputPos(i) \in Int
      BY <1>2 DEF OutputPos
    <3>7. file_data' \in [0 .. file_size - 1 -> Int]
      BY <1>1, <3>3, <3>5, <3>6 DEF Stored
    <3>8. QED
      BY <1>0, <1>1, <1>2, <1>4, <2>3, <2>4, <3>2, <3>4, <3>7, ThreadChangeInd
  <2>6. CASE ~Fits(i, m)
    <3>1. ExitWith(i, 1) /\ UNCHANGED file_data
      BY <1>10, <2>6 DEF AckAndStore
    <3>2. QED
      BY <1>0, <1>1, <1>2, <1>3, <1>4, <1>5, <2>3, <2>4, <3>1, ThreadChangeInd
  <2>7. QED
    BY <2>5, <2>6
<1>11. CASE AckFails(i)
  <2>1. NetTypeOK'
    BY <1>11, FaultType DEF AckFails, NetTypeOK, InFlight
  <2>2. /\ ExitWith(i, 1) /\ thread[i].pc = "ack" /\ lock = NoThread
        /\ UNCHANGED <<mainVars, file_data, lock>>
    BY <1>11 DEF AckFails
  <2>3. QED
    BY <1>0, <1>1, <1>2, <1>3, <1>5, <2>1, <2>2, ThreadChangeInd
<1>12. CASE Timeout(i)
  <2>1. faults' \in 0 .. MaxFaults
    BY <1>12, FaultType DEF Timeout, NetTypeOK
  <2>2. NetTypeOK'
    BY <1>12, <2>1 DEF Timeout, TimesOut, NetTypeOK, InFlight
  <2>3. /\ thread[i].pc = "receive" /\ lock' = NoThread
        /\ UNCHANGED <<mainVars, file_data>>
        /\ \/ ExitWith(i, 1)
           \/ thread' = [thread EXCEPT ![i].pc = "loop", ![i].retries = @ + 1]
    BY <1>12 DEF Timeout, TimesOut
  <2>4. lock = i
    BY <1>1, <2>3
  <2>5. CASE ExitWith(i, 1)
    BY <1>0, <1>1, <1>2, <1>3, <1>4, <1>5, <2>2, <2>3, <2>4, <2>5, ThreadChangeInd
  <2>6. CASE thread' = [thread EXCEPT ![i].pc = "loop", ![i].retries = @ + 1]
    <3>1. /\ thread' \in [ThreadIds -> ThreadSet]
          /\ \A k \in ThreadIds \ {i} : thread'[k] = thread[k]
          /\ thread'[i].pc = "loop"
          /\ thread'[i].remaining = thread[i].remaining
      <4>1. thread[i] \in ThreadSet /\ thread[i].retries + 1 \in Nat
        BY <1>1 DEF ThreadSet
      <4>2. ASSUME NEW n \in Nat
            PROVE  [thread[i] EXCEPT !.pc = "loop", !.retries = n] \in ThreadSet
        BY <4>1 DEF ThreadSet, ThreadStates
      <4>3. [thread[i] EXCEPT !.pc = "loop", !.retries = thread[i].retries + 1] \in ThreadSet
        BY <4>1, <4>2
      <4>4. QED
        BY <1>1, <2>6, <4>3 DEF ThreadSet
    <3>2. QED
      BY <1>0, <1>1, <1>2, <1>3, <1>4, <2>2, <2>3, <2>4, <3>1, ThreadChangeInd
  <2>7. QED
    BY <2>3, <2>5, <2>6
<1>13. QED
  BY <1>6, <1>7, <1>8, <1>9, <1>10, <1>11, <1>12 DEF ThreadStep

-----------------------------------------------------------------------------
\* Every step of the system preserves the inductive invariant.
LEMMA NextInd == IndInv /\ [Next]_vars => IndInv'
<1> SUFFICES ASSUME IndInv, [Next]_vars PROVE IndInv'
  OBVIOUS
\* The client leaves the servers alone, and the other way round.
<1>1. ASSUME UNCHANGED serverVars PROVE ServerTypeOK' /\ NoLostWakeup'
  BY <1>1
  DEF IndInv, TypeOK, serverVars, ServerTypeOK, NoLostWakeup, Matches, Awaited
<1>2. ASSUME UNCHANGED clientVars PROVE ClientTypeOK' /\ OutputInChunk'
  BY <1>2
  DEF IndInv, TypeOK, clientVars, ClientTypeOK, OutputInChunk, Running, ThreadIds,
      OutputPos, TaskOffset, TaskSize
<1>3. CASE ClientMain
  BY <1>1, <1>3, MainStepInd DEF ClientMain, IndInv, TypeOK
<1>4. CASE ClientThreads
  BY <1>1, <1>4, ThreadStepInd DEF ClientThreads, IndInv, TypeOK
<1>5. ASSUME NEW s \in Servers, ServerMain(s) PROVE IndInv'
  <2>1. NetTypeOK' /\ ServerTypeOK' /\ NoLostWakeup'
    BY <1>5, ReceiveAckInd, ReceiveRequestInd DEF ServerMain, MainReceive
  <2>2. QED
    BY <1>2, <1>5, <2>1 DEF ServerMain, IndInv, TypeOK
<1>6. ASSUME NEW w \in Workers, ServerWorker(w) PROVE IndInv'
  BY <1>2, <1>6, WorkerStepInd DEF ServerWorker, IndInv, TypeOK
<1>7. CASE ServerEnvironment
  <2>1. NetTypeOK' /\ ServerTypeOK' /\ NoLostWakeup'
    BY <1>7, RefuseRequestInd, WorkerStepInd DEF ServerEnvironment
  <2>2. QED
    BY <1>2, <1>7, <2>1 DEF ServerEnvironment, IndInv, TypeOK
<1>8. CASE NetworkFault
  <2>1. PICK m \in InFlight : Lose(m) \/ Duplicate(m)
    BY <1>8 DEF NetworkFault
  <2>2. m \in DatagramSet /\ NetTypeOK
    BY DEF IndInv, TypeOK, NetTypeOK
  <2>3. faults' \in 0 .. MaxFaults
    BY <2>1, <2>2, FaultType DEF Lose, Duplicate
  <2>4. NetTypeOK'
    BY <2>1, <2>2, <2>3, SentType, ConsumedType DEF Lose, Duplicate, NetTypeOK
  <2>5. QED
    BY <1>1, <1>2, <1>8, <2>4 DEF NetworkFault, IndInv, TypeOK
<1>9. CASE UNCHANGED vars
  <2>1. NetTypeOK'
    BY <1>9 DEF vars, netVars, IndInv, TypeOK, NetTypeOK, InFlight
  <2>2. QED
    BY <1>1, <1>2, <1>9, <2>1 DEF vars, IndInv, TypeOK
<1>10. QED
  BY <1>3, <1>4, <1>5, <1>6, <1>7, <1>8, <1>9 DEF Next

(***************************************************************************)
(* Type correctness: in particular no ack_queue ever overflows             *)
(* (tftp/server.c:208), no thread counts below zero, and the mutex of the  *)
(* client is held by exactly the thread that receives.                     *)
(***************************************************************************)
THEOREM TypeCorrect == Spec => []TypeOK
<1>1. IndInv => TypeOK
  BY DEF IndInv
<1>2. QED
  BY InitInd, NextInd, <1>1, PTL DEF Spec

(***************************************************************************)
(* No wakeup is lost: a handler never sleeps with its ACK in the queue,    *)
(* with any number of handlers, spurious wakeups and junk ACKs             *)
(* (tftp/server.c:122-141, 207-215).                                       *)
(***************************************************************************)
THEOREM WakeupsNotLost == Spec => []NoLostWakeup
<1>1. IndInv => NoLostWakeup
  BY DEF IndInv
<1>2. QED
  BY InitInd, NextInd, <1>1, PTL DEF Spec

(***************************************************************************)
(* A thread never writes outside its chunk, whatever datagrams it gets     *)
(* (tftp/client.c:116-135).                                                *)
(***************************************************************************)
THEOREM OutputStaysInChunk == Spec => []OutputInChunk
<1>1. IndInv => OutputInChunk
  BY DEF IndInv
<1>2. QED
  BY InitInd, NextInd, <1>1, PTL DEF Spec

-----------------------------------------------------------------------------
(***************************************************************************)
(* Chunks of different threads have no byte in common.                     *)
(***************************************************************************)
LEMMA TasksDisjoint ==
  ASSUME IndInv, Running, NEW i \in ThreadIds, NEW k \in ThreadIds, i # k
  PROVE  TaskChunk(i) \cap TaskChunk(k) = {}
<1>1. file_size \in Nat \ {0} /\ num_connections \in 1 .. file_size
  BY RunningFacts
<1>2. num_connections \in Int \ {0} /\ Connections(file_size, num_connections) = num_connections
  BY <1>1 DEF Connections
<1>3. ChunksDisjoint(file_size, Connections(file_size, num_connections))
  BY <1>1, <1>2, PlanDisjoint
<1>4. QED
  BY <1>2, <1>3 DEF ChunksDisjoint, ThreadIds, TaskChunk

\* In one step a chunk is changed by its own thread only.
LEMMA StepIsolated ==
  ASSUME IndInv, [Next]_vars, Running, NEW i \in ThreadIds, thread'[i] = thread[i],
         NEW j \in TaskChunk(i)
  PROVE  file_data'[j] = file_data[j]
<1>1. /\ HasPlan /\ DOMAIN thread = ThreadIds
      /\ thread \in [ThreadIds -> ThreadSet]
      /\ file_data \in [0 .. file_size - 1 -> Int]
      /\ file_size \in Nat \ {0}
  BY RunningFacts
<1>2. ASSUME NEW k \in ThreadIds, AckAndStore(k) PROVE file_data'[j] = file_data[j]
  <2> DEFINE m == thread[k].buffer
  <2>1. k # i
    BY <1>1, <1>2 DEF AckAndStore, ExitWith, ThreadSet
  <2>2. CASE Fits(k, m)
    <3>1. file_data' = Stored(k, m)
      BY <1>2, <2>2 DEF AckAndStore
    <3>2. /\ TaskOffset(k) \in Nat /\ TaskSize(k) \in Nat
          /\ TaskOffset(i) \in Nat /\ TaskSize(i) \in Nat
          /\ TaskOffset(i) + TaskSize(i) <= file_size
          /\ thread[k].remaining \in Nat /\ thread[k].remaining <= TaskSize(k)
      <4>1. thread[k].remaining \in Nat
        BY <1>1 DEF ThreadSet
      <4>2. /\ TaskOffset(k) \in Nat /\ TaskSize(k) \in Nat
            /\ TaskOffset(i) \in Nat /\ TaskSize(i) \in Nat
            /\ TaskOffset(i) + TaskSize(i) <= file_size
        BY <1>1, TaskInFile DEF IndInv, TypeOK
      <4>3. QED
        BY <1>1, <4>1, <4>2 DEF IndInv, OutputInChunk, OutputPos, HasPlan
    <3>3. PayloadSize(m) \in Nat
      BY <1>1, ClientAssumption DEF PayloadSize, ThreadSet, DatagramSet
    <3>4. /\ TaskChunk(i) = TaskOffset(i) .. TaskOffset(i) + TaskSize(i) - 1
          /\ TaskChunk(k) = TaskOffset(k) .. TaskOffset(k) + TaskSize(k) - 1
      BY DEF TaskChunk, Chunk, TaskOffset, TaskSize
    <3>5. j \in DOMAIN file_data /\ j \in Int
      <4>1. j \in TaskOffset(i) .. TaskOffset(i) + TaskSize(i) - 1
        BY <3>4, Zenon
      <4>2. DOMAIN file_data = 0 .. file_size - 1
        BY <1>1, Zenon
      <4>3. QED
        BY <1>1, <3>2, <4>1, <4>2
    <3>6. j \notin TaskChunk(k)
      <4>1. TaskChunk(i) \cap TaskChunk(k) = {}
        BY <2>1, TasksDisjoint
      <4>2. QED
        BY <4>1
    <3>7. ~(j >= OutputPos(k) /\ j < OutputPos(k) + PayloadSize(m))
      <4>1. OutputPos(k) \in Int /\ OutputPos(k) >= TaskOffset(k)
        BY <3>2 DEF OutputPos
      <4>2. OutputPos(k) + PayloadSize(m) <= TaskOffset(k) + TaskSize(k)
        BY <2>2 DEF Fits
      <4>3. ~(j >= TaskOffset(k) /\ j < TaskOffset(k) + TaskSize(k))
        BY <3>2, <3>4, <3>5, <3>6
      <4>4. QED
        BY <3>2, <3>3, <3>5, <4>1, <4>2, <4>3
    <3>8. QED
      BY <3>1, <3>5, <3>7 DEF Stored
  <2>3. CASE ~Fits(k, m)
    BY <1>2, <2>3 DEF AckAndStore
  <2>4. QED
    BY <2>2, <2>3
\* No other step writes to the buffer while the threads run.
<1>3. CASE UNCHANGED file_data
  BY <1>3
<1>4. MainStep => UNCHANGED file_data
  BY DEF Running, MainStep, SendCheck, SendCheckFails, GetSize, GetSizeFails, CheckReply,
         CreateThread, CreateThreadFails, WriteOutput
<1>5. ASSUME NEW k \in ThreadIds, ThreadStep(k) \/ Timeout(k)
      PROVE  AckAndStore(k) \/ UNCHANGED file_data
  BY <1>5 DEF ThreadStep, Timeout, TimesOut, SendGet, SendGetFails, Lock, Receive, AckFails
<1>6. CASE ClientThreads
  BY <1>1, <1>2, <1>3, <1>5, <1>6 DEF ClientThreads
<1>7. CASE ~ClientThreads
  BY <1>3, <1>4, <1>7
  DEF Next, vars, clientVars, ClientMain, ServerMain, ServerWorker, ServerEnvironment,
      NetworkFault
<1>8. QED
  BY <1>6, <1>7

(***************************************************************************)
(* The comment of tftp/client.c:132, for every file, every number of       *)
(* connections and any faults: the threads need no lock for file_data.     *)
(***************************************************************************)
THEOREM ChunksIsolated == Spec => ChunkIsolation
<1>1. IndInv /\ [Next]_vars =>
        [Running =>
           \A i \in ThreadIds :
             thread'[i] = thread[i] =>
               \A j \in TaskChunk(i) : file_data'[j] = file_data[j]]_vars
  BY StepIsolated
<1>2. QED
  BY InitInd, NextInd, <1>1, PTL DEF Spec, ChunkIsolation

-----------------------------------------------------------------------------
(***************************************************************************)
(* Why no request brings a server down.  A server exits when a GET asks    *)
(* for more than its copy holds (tftp/server.c:84-89), so it is the        *)
(* requests themselves, and how the client came to the size it divides,    *)
(* that the invariant follows from the first CHECK on.                     *)
(***************************************************************************)
\* Only the first server is asked for the size, and only with the socket of
\* CHECK; only a server without the file answers with an error; a GET stays
\* inside the copy of the first server.
LegalDatagram(m) ==
  /\ m.kind = "CHECK" => m.server = 0 /\ m.port = CheckPort
  /\ m.kind = "OK" => m.len = HostedSize[0] /\ m.port = CheckPort
  /\ m.kind = "ERROR" =>
       /\ HostedSize[m.server] = NoFile
       /\ m.port = CheckPort => m.server = 0
  /\ m.kind \in {"GET", "ACK", "DATA"} => m.port # CheckPort
  /\ m.kind = "GET" =>
       /\ m.len > 0
       /\ HostedSize[0] # NoFile => m.from + m.len <= HostedSize[0]

\* The same of the request that a handler works on.
LegalHandler(r) ==
  r.pc # "free" =>
    /\ r.kind = "CHECK" => r.pc = "start" /\ r.server = 0 /\ r.port = CheckPort
    /\ r.kind = "GET" => r.port # CheckPort
    /\ (r.kind = "GET" /\ r.pc = "start") =>
         /\ r.remaining > 0
         /\ HostedSize[0] # NoFile => r.offset + r.remaining <= HostedSize[0]

DatagramsLegal == \A m \in InFlight : LegalDatagram(m)
HandlersLegal  == \A w \in Workers : LegalHandler(worker[w])
SizeKnown      == HasPlan /\ HostedSize[0] # NoFile => file_size = HostedSize[0]

RequestsOK == DatagramsLegal /\ HandlersLegal /\ SizeKnown /\ ServersSurvive

\* Sending adds one datagram to those in flight.
LEMMA SentLegal ==
  ASSUME DatagramsLegal, NEW m, LegalDatagram(m), Send(m)
  PROVE  DatagramsLegal'
<1>1. InFlight' \subseteq InFlight \cup {m}
  BY DEF Send, BagAdd, InFlight
<1>2. QED
  BY <1>1 DEF DatagramsLegal

\* Receiving and losing add none.
LEMMA ConsumedLegal ==
  ASSUME DatagramsLegal, NEW m, Consume(m)
  PROVE  DatagramsLegal'
<1>1. InFlight' \subseteq InFlight
  BY DEF Consume, BagRemove, InFlight
<1>2. QED
  BY <1>1 DEF DatagramsLegal

\* Nor does a step that leaves the network alone.
LEMMA SameLegal ==
  ASSUME DatagramsLegal, UNCHANGED net
  PROVE  DatagramsLegal'
BY DEF DatagramsLegal, InFlight

\* Nothing is in flight and no handler is at work when the system starts.
LEMMA InitRequests == Init => RequestsOK
<1> SUFFICES ASSUME Init PROVE RequestsOK
  OBVIOUS
<1>1. InFlight = {}
  BY DEF Init, NetInit, InFlight, EmptyBag, SetToBag
<1>2. \A w \in Workers : worker[w].pc = "free"
  BY DEF Init, ServerInit, NoWorker
<1>3. ~HasPlan
  BY DEF Init, ClientInit, HasPlan
<1>4. ServersSurvive
  BY DEF Init, ServerInit, ServersSurvive
<1>5. QED
  BY <1>1, <1>2, <1>3, <1>4
  DEF RequestsOK, DatagramsLegal, HandlersLegal, LegalHandler, SizeKnown

\* main() asks the first server, and plans with the size that it reports.
LEMMA MainStepRequests ==
  ASSUME IndInv, RequestsOK, MainStep
  PROVE  DatagramsLegal' /\ SizeKnown'
<1> USE DEF RequestsOK
<1>1. CASE SendCheck
  <2>1. LegalDatagram(Check(0))
    BY DEF LegalDatagram, Check, Datagram
  <2>2. DatagramsLegal'
    BY <1>1, <2>1, SentLegal DEF SendCheck
  <2>3. QED
    BY <1>1, <2>2 DEF SendCheck, SizeKnown, HasPlan
<1>2. CASE SendCheckFails \/ CreateThreadFails
  <2>1. net' = net /\ main' = "failed"
    BY <1>2 DEF SendCheckFails, CreateThreadFails
  <2>2. QED
    BY <2>1, SameLegal DEF SizeKnown, HasPlan
<1>3. ASSUME NEW m \in InFlight, GetSize(m)
      PROVE  DatagramsLegal' /\ SizeKnown'
  <2>1. /\ Consume(m) /\ m.port = CheckPort /\ m.kind \in ToClient
        /\ file_size' \in SizeIn(m)
    BY <1>3 DEF GetSize, CheckReply
  <2>2. LegalDatagram(m)
    BY DEF DatagramsLegal
  <2>3. ASSUME HostedSize[0] # NoFile PROVE file_size' = HostedSize[0]
    <3>1. m.kind = "OK" /\ m.len = HostedSize[0]
      BY <2>1, <2>2, <2>3 DEF LegalDatagram, ToClient
    <3>2. QED
      BY <2>1, <3>1 DEF SizeIn
  <2>4. QED
    BY <2>1, <2>3, ConsumedLegal DEF SizeKnown
<1>4. ASSUME NEW m \in InFlight, GetSizeFails(m)
      PROVE  DatagramsLegal' /\ SizeKnown'
  <2>1. Consume(m) /\ main' \in {"failed", "sigfpe"}
    BY <1>4 DEF GetSizeFails, CheckReply
  <2>2. QED
    BY <2>1, ConsumedLegal DEF SizeKnown, HasPlan
<1>5. CASE CreateThread \/ WriteOutput
  <2>1. net' = net /\ file_size' = file_size /\ HasPlan
    BY <1>5 DEF CreateThread, WriteOutput, netVars, HasPlan
  <2>2. QED
    BY <2>1, SameLegal DEF SizeKnown
<1>6. QED
  BY <1>1, <1>2, <1>3, <1>4, <1>5 DEF MainStep

\* A thread asks for its chunk, which lies inside the file.
LEMMA ThreadStepRequests ==
  ASSUME IndInv, RequestsOK, NEW i \in DOMAIN thread, ThreadStep(i) \/ Timeout(i)
  PROVE  DatagramsLegal' /\ SizeKnown'
<1> USE DEF RequestsOK
<1>1. Running /\ UNCHANGED mainVars
  BY DEF ThreadStep, Timeout, SendGet, SendGetFails, Lock, Receive, AckAndStore,
         AckFails, TimesOut
<1>2. SizeKnown'
  BY <1>1 DEF SizeKnown, mainVars, HasPlan
<1>3. HasPlan /\ i \in ThreadIds /\ num_connections \in Nat
  BY <1>1, RunningFacts
<1>4. i # CheckPort
  BY <1>3 DEF ThreadIds, CheckPort
<1>5. CASE SendGet(i)
  <2> DEFINE m == Get(i, TaskServer(i), TaskOffset(i), TaskSize(i))
  <2>1. /\ TaskOffset(i) \in Nat /\ TaskSize(i) \in Nat \ {0}
        /\ TaskOffset(i) + TaskSize(i) <= file_size
    BY <1>3, TaskInFile DEF IndInv, TypeOK
  <2>2. HostedSize[0] # NoFile => TaskOffset(i) + TaskSize(i) <= HostedSize[0]
    BY <1>3, <2>1 DEF SizeKnown
  <2>3. TaskSize(i) > 0
    BY <2>1
  <2>4. LegalDatagram(m)
    BY <1>4, <2>2, <2>3 DEF LegalDatagram, Get, Datagram
  <2>5. Send(m)
    BY <1>5 DEF SendGet
  <2>6. QED
    BY <1>2, <2>4, <2>5, SentLegal
<1>6. CASE AckAndStore(i)
  <2> DEFINE m == Ack(i, thread[i].buffer.server, thread[i].buffer.seq)
  <2>1. LegalDatagram(m)
    BY <1>4 DEF LegalDatagram, Ack, Datagram
  <2>2. Send(m)
    BY <1>6 DEF AckAndStore
  <2>3. QED
    BY <1>2, <2>1, <2>2, SentLegal
<1>7. ASSUME NEW m \in InFlight, Receive(i, m)
      PROVE  DatagramsLegal'
  BY <1>7, ConsumedLegal DEF Receive
<1>8. CASE SendGetFails(i) \/ Lock(i) \/ AckFails(i) \/ Timeout(i)
  <2>1. net' = net
    BY <1>8 DEF SendGetFails, Lock, AckFails, Timeout, TimesOut, netVars
  <2>2. QED
    BY <1>2, <2>1, SameLegal
<1>9. QED
  BY <1>2, <1>5, <1>6, <1>7, <1>8 DEF ThreadStep

\* A handler that has read its request keeps what makes it legal.
LEMMA HandlerGoesOn ==
  ASSUME NEW r, LegalHandler(r), r.pc # "free", r.kind = "GET",
         NEW q, q.kind = "GET", q.port = r.port, q.pc # "start"
  PROVE  LegalHandler(q)
BY DEF LegalHandler

\* A handler past its start answers a GET.
LEMMA PastStart ==
  ASSUME IndInv, RequestsOK, NEW w \in Workers, worker[w].pc \notin {"free", "start"}
  PROVE  worker[w].kind = "GET" /\ worker[w].port # CheckPort
<1>1. worker[w] \in WorkerSet
  BY DEF IndInv, TypeOK, ServerTypeOK
<1>2. LegalHandler(worker[w])
  BY DEF RequestsOK, HandlersLegal
<1>3. QED
  BY <1>1, <1>2 DEF WorkerSet, LegalHandler

\* A step that wakes some handlers up.
LEMMA WokenLegal ==
  ASSUME IndInv, RequestsOK,
         \A w \in Workers :
            \/ worker'[w] = worker[w]
            \/ worker[w].pc = "asleep" /\ worker'[w] = [worker[w] EXCEPT !.pc = "scan"]
  PROVE  HandlersLegal'
<1> SUFFICES ASSUME NEW w \in Workers, worker[w].pc = "asleep",
                    worker'[w] = [worker[w] EXCEPT !.pc = "scan"]
             PROVE  LegalHandler(worker'[w])
  BY DEF RequestsOK, HandlersLegal
<1>1. worker[w] \in WorkerSet /\ LegalHandler(worker[w])
  BY DEF IndInv, TypeOK, ServerTypeOK, RequestsOK, HandlersLegal
<1>2. /\ worker'[w].pc = "scan" /\ worker'[w].kind = worker[w].kind
      /\ worker'[w].port = worker[w].port
  BY <1>1 DEF WorkerSet
<1>3. worker[w].kind = "GET"
  BY PastStart
<1>4. QED
  BY <1>1, <1>2, <1>3 DEF LegalHandler

\* A recvfrom of the main thread closes a socket, but ends no process.
LEMMA ReceiveSurvived ==
  ASSUME IndInv, ServersSurvive, NEW s \in Servers, srv' = AfterReceive(s)
  PROVE  ServersSurvive'
BY DEF IndInv, TypeOK, ServerTypeOK, ServersSurvive, AfterReceive

\* The main thread of a server hands on what a legal datagram asks for.
LEMMA MainReceiveRequests ==
  ASSUME IndInv, RequestsOK, NEW s \in Servers,
         MainReceive(s) \/ \E m \in InFlight : RefuseRequest(s, m)
  PROVE  DatagramsLegal' /\ HandlersLegal' /\ ServersSurvive'
<1> USE DEF RequestsOK
<1>1. ASSUME NEW m \in InFlight, ReceiveAck(s, m)
      PROVE  DatagramsLegal' /\ HandlersLegal' /\ ServersSurvive'
  <2>1. Consume(m) /\ srv' = AfterReceive(s)
    BY <1>1 DEF ReceiveAck
  <2>2. worker' = worker \/ worker' = WakeAll(s)
    BY <1>1 DEF ReceiveAck
  <2>3. HandlersLegal'
    BY <2>2, WokenLegal DEF WakeAll
  <2>4. QED
    BY <2>1, <2>3, ConsumedLegal, ReceiveSurvived
<1>2. ASSUME NEW m \in InFlight, NEW w \in Workers, ReceiveRequest(s, m, w)
      PROVE  DatagramsLegal' /\ HandlersLegal' /\ ServersSurvive'
  <2> DEFINE new == [pc |-> "start", kind |-> m.kind, server |-> s, port |-> m.port,
                     offset |-> m.from, seq |-> 0, remaining |-> m.len]
  <2>1. /\ Consume(m) /\ srv' = AfterReceive(s)
        /\ m.kind \in {"CHECK", "GET"} /\ m.server = s
        /\ worker' = [worker EXCEPT ![w] = new]
    BY <1>2 DEF ReceiveRequest, Receivable
  <2>2. LegalDatagram(m)
    BY DEF DatagramsLegal
  <2>3. LegalHandler(new)
    BY <2>1, <2>2 DEF LegalDatagram, LegalHandler
  <2>4. HandlersLegal'
    BY <2>1, <2>3 DEF HandlersLegal, IndInv, TypeOK, ServerTypeOK
  <2>5. QED
    BY <2>1, <2>4, ConsumedLegal, ReceiveSurvived
<1>3. ASSUME NEW m \in InFlight, RefuseRequest(s, m)
      PROVE  DatagramsLegal' /\ HandlersLegal' /\ ServersSurvive'
  <2>1. Consume(m) /\ srv' = AfterReceive(s) /\ worker' = worker
    BY <1>3 DEF RefuseRequest
  <2>2. QED
    BY <2>1, ConsumedLegal, ReceiveSurvived DEF HandlersLegal
<1>4. QED
  BY <1>1, <1>2, <1>3 DEF MainReceive

\* A reply that is sent unchecked, or lost on a closed socket.
LEMMA UncheckedLegal ==
  ASSUME DatagramsLegal, NEW s, NEW m, LegalDatagram(m), SendUnchecked(s, m)
  PROVE  DatagramsLegal'
<1>1. Send(m) \/ UNCHANGED net
  BY DEF SendUnchecked, Send
<1>2. QED
  BY <1>1, SentLegal, SameLegal

\* A legal request is inside the file, so the exit() of tftp/server.c:88 ends
\* only a server whose copy is not the one that was reported.
LEMMA WorkerStepRequests ==
  ASSUME IndInv, RequestsOK, NEW w \in Workers, WorkerStep(w) \/ SpuriousWakeup(w)
  PROVE  DatagramsLegal' /\ HandlersLegal' /\ ServersSurvive'
<1> USE DEF RequestsOK
<1> DEFINE s == worker[w].server
           p == worker[w].port
           Goes == \/ worker'[w].pc = "free"
                   \/ /\ worker'[w].kind = worker[w].kind /\ worker'[w].port = p
                      /\ worker'[w].pc # "start"
<1>1. /\ worker \in [Workers -> WorkerSet] /\ worker[w] \in WorkerSet /\ s \in Servers
      /\ srv \in [Servers -> SrvStates] /\ NoWorker.pc = "free"
      /\ LegalHandler(worker[w])
  BY NoWorkerType DEF IndInv, TypeOK, ServerTypeOK, WorkerSet, HandlersLegal
\* It is enough that the handler ends or goes on with the same GET.
<1>2. ASSUME \A v \in Workers \ {w} : worker'[v] = worker[v],
             Goes, worker[w].pc # "free", worker[w].kind = "GET" \/ worker'[w].pc = "free"
      PROVE  HandlersLegal'
  <2>1. LegalHandler(worker'[w])
    <3>1. CASE worker'[w].pc = "free"
      BY <3>1 DEF LegalHandler
    <3>2. CASE worker'[w].pc # "free"
      BY <1>1, <1>2, <3>2, HandlerGoesOn
    <3>3. QED
      BY <3>1, <3>2
  <2>2. QED
    BY <1>2, <2>1 DEF HandlersLegal
<1>3. ASSUME worker' = [worker EXCEPT ![w] = NoWorker], worker[w].pc # "free"
      PROVE  HandlersLegal'
  BY <1>1, <1>2, <1>3
<1>4. UNCHANGED srv => ServersSurvive'
  BY DEF ServersSurvive
<1>5. CASE HandleCheck(w)
  <2> DEFINE m == IF HostedSize[s] = NoFile THEN Error(p, s) ELSE Ok(p, s, HostedSize[s])
  <2>1. /\ worker[w].pc = "start" /\ worker[w].kind = "CHECK" /\ SendUnchecked(s, m)
        /\ worker' = [worker EXCEPT ![w] = NoWorker] /\ UNCHANGED srv
    BY <1>5 DEF HandleCheck, Exits
  <2>2. s = 0 /\ p = CheckPort
    BY <1>1, <2>1 DEF LegalHandler
  <2>3. LegalDatagram(m)
    BY <2>2 DEF LegalDatagram, Error, Ok, Datagram
  <2>4. QED
    BY <1>3, <1>4, <2>1, <2>3, UncheckedLegal
<1>6. CASE HandleGetMissing(w)
  <2>1. /\ worker[w].pc = "start" /\ worker[w].kind = "GET" /\ HostedSize[s] = NoFile
        /\ SendUnchecked(s, Error(p, s))
        /\ worker' = [worker EXCEPT ![w] = NoWorker] /\ UNCHANGED srv
    BY <1>6 DEF HandleGetMissing, Exits
  <2>2. p # CheckPort
    BY <1>1, <2>1 DEF LegalHandler
  <2>3. LegalDatagram(Error(p, s))
    BY <2>1, <2>2 DEF LegalDatagram, Error, Datagram
  <2>4. QED
    BY <1>3, <1>4, <2>1, <2>3, UncheckedLegal
<1>7. CASE HandleGetOutOfRange(w)
  <2>1. /\ worker[w].pc = "start" /\ worker[w].kind = "GET"
        /\ HostedSize[s] # NoFile /\ ~InRange(w) /\ UNCHANGED net
        /\ srv' = [srv EXCEPT ![s] = "down"]
        /\ worker' = [v \in Workers |-> IF worker[v].server = s THEN NoWorker ELSE worker[v]]
    BY <1>7 DEF HandleGetOutOfRange
  <2>2. HandlersLegal'
    BY <1>1, <2>1 DEF HandlersLegal, LegalHandler
  <2>3. HostedSize[s] # HostedSize[0]
    <3>1. SUFFICES ASSUME HostedSize[s] = HostedSize[0] PROVE InRange(w)
      BY <2>1
    <3>2. /\ worker[w].remaining > 0
          /\ worker[w].offset + worker[w].remaining <= HostedSize[s]
      BY <1>1, <2>1, <3>1 DEF LegalHandler
    <3>3. HostedSize[s] \in Int /\ worker[w].remaining \in Nat /\ worker[w].offset \in Nat
      BY <1>1, ServerAssumption DEF WorkerSet, NoFile
    <3>4. QED
      BY <3>2, <3>3 DEF InRange
  <2>4. ServersSurvive'
    BY <1>1, <2>1, <2>3 DEF ServersSurvive
  <2>5. QED
    BY <2>1, <2>2, <2>4, SameLegal
<1>8. CASE HandleGet(w)
  <2>1. /\ worker[w].pc = "start" /\ worker[w].kind = "GET" /\ UNCHANGED <<srv, net>>
        /\ worker' = [worker EXCEPT ![w] = NextPacket(worker[w])]
    BY <1>8 DEF HandleGet, netVars
  <2>2. Goes
    BY <1>1, <2>1 DEF NextPacket, WorkerSet
  <2>3. QED
    BY <1>1, <1>2, <1>4, <2>1, <2>2, SameLegal
<1>9. CASE SendPacket(w)
  <2> DEFINE m == Data(p, s, worker[w].seq, PacketFrom(w), PacketLen(w))
  <2>1. /\ worker[w].pc = "send" /\ Send(m) /\ UNCHANGED srv
        /\ worker' = [worker EXCEPT ![w].pc = "scan"]
    BY <1>9 DEF SendPacket
  <2>2. worker[w].kind = "GET" /\ p # CheckPort
    BY <2>1, PastStart
  <2>3. Goes
    BY <1>1, <2>1 DEF WorkerSet
  <2>4. LegalDatagram(m)
    BY <2>2 DEF LegalDatagram, Data, Datagram
  <2>5. QED
    BY <1>1, <1>2, <1>4, <2>1, <2>2, <2>3, <2>4, SentLegal
<1>10. CASE SendPacketFails(w)
  <2>1. /\ worker[w].pc = "send" /\ UNCHANGED net
        /\ srv' = [srv EXCEPT ![s] = IF @ = "up" THEN "closing" ELSE @]
        /\ worker' = [worker EXCEPT ![w] = NoWorker]
    BY <1>10 DEF SendPacketFails, Exits
  <2>2. ServersSurvive'
    BY <1>1, <2>1 DEF ServersSurvive
  <2>3. QED
    BY <1>3, <2>1, <2>2, SameLegal
<1>11. CASE TakeAck(w)
  <2>1. /\ worker[w].pc = "scan" /\ UNCHANGED <<srv, net>>
        /\ worker' = [worker EXCEPT ![w] = NextPacket(Acknowledged(w))]
    BY <1>11 DEF TakeAck, netVars
  <2>2. worker[w].kind = "GET"
    BY <2>1, PastStart
  <2>3. Acknowledged(w).kind = worker[w].kind /\ Acknowledged(w).port = p
    BY <1>1 DEF Acknowledged, WorkerSet
  <2>4. \/ NextPacket(Acknowledged(w)).pc = "free"
        \/ /\ NextPacket(Acknowledged(w)).kind = worker[w].kind
           /\ NextPacket(Acknowledged(w)).port = p
           /\ NextPacket(Acknowledged(w)).pc # "start"
    BY <1>1, <2>3 DEF NextPacket, Acknowledged, WorkerSet
  <2>5. Goes
    BY <1>1, <2>1, <2>4
  <2>6. QED
    BY <1>1, <1>2, <1>4, <2>1, <2>2, <2>5, SameLegal
<1>12. CASE Sleep(w) \/ SpuriousWakeup(w)
  <2>1. /\ worker[w].pc \in {"scan", "asleep"} /\ UNCHANGED <<srv, net>>
        /\ worker' = [worker EXCEPT ![w].pc = "asleep"] \/ worker' = [worker EXCEPT ![w].pc = "scan"]
    BY <1>12 DEF Sleep, SpuriousWakeup, netVars
  <2>2. worker[w].kind = "GET"
    BY <2>1, PastStart
  <2>3. Goes
    BY <1>1, <2>1 DEF WorkerSet
  <2>4. QED
    BY <1>1, <1>2, <1>4, <2>1, <2>2, <2>3, SameLegal
<1>13. QED
  BY <1>5, <1>6, <1>7, <1>8, <1>9, <1>10, <1>11, <1>12 DEF WorkerStep

-----------------------------------------------------------------------------
\* Every step keeps the requests legal and the servers alive.
LEMMA NextRequests == IndInv /\ RequestsOK /\ [Next]_vars => RequestsOK'
<1> SUFFICES ASSUME IndInv, RequestsOK, [Next]_vars PROVE RequestsOK'
  OBVIOUS
<1>1. ASSUME UNCHANGED serverVars PROVE HandlersLegal' /\ ServersSurvive'
  BY <1>1 DEF RequestsOK, serverVars, HandlersLegal, ServersSurvive
<1>2. ASSUME UNCHANGED clientVars PROVE SizeKnown'
  BY <1>2 DEF RequestsOK, clientVars, SizeKnown, HasPlan
<1>3. CASE ClientMain
  BY <1>1, <1>3, MainStepRequests DEF ClientMain, RequestsOK
<1>4. CASE ClientThreads
  BY <1>1, <1>4, ThreadStepRequests DEF ClientThreads, RequestsOK
<1>5. ASSUME NEW s \in Servers, ServerMain(s) PROVE RequestsOK'
  BY <1>2, <1>5, MainReceiveRequests DEF ServerMain, RequestsOK
<1>6. ASSUME NEW w \in Workers, ServerWorker(w) PROVE RequestsOK'
  BY <1>2, <1>6, WorkerStepRequests DEF ServerWorker, RequestsOK
<1>7. CASE ServerEnvironment
  <2>1. DatagramsLegal' /\ HandlersLegal' /\ ServersSurvive'
    BY <1>7, MainReceiveRequests, WorkerStepRequests DEF ServerEnvironment
  <2>2. QED
    BY <1>2, <1>7, <2>1 DEF ServerEnvironment, RequestsOK
<1>8. CASE NetworkFault
  <2>1. PICK m \in InFlight : Lose(m) \/ Duplicate(m)
    BY <1>8 DEF NetworkFault
  <2>2. DatagramsLegal'
    BY <2>1, SentLegal, ConsumedLegal DEF RequestsOK, DatagramsLegal, Lose, Duplicate
  <2>3. QED
    BY <1>1, <1>2, <1>8, <2>2 DEF NetworkFault, RequestsOK
<1>9. CASE UNCHANGED vars
  <2>1. DatagramsLegal'
    BY <1>9, SameLegal DEF vars, netVars, RequestsOK
  <2>2. QED
    BY <1>1, <1>2, <1>9, <2>1 DEF vars, RequestsOK
<1>10. QED
  BY <1>3, <1>4, <1>5, <1>6, <1>7, <1>8, <1>9 DEF Next

(***************************************************************************)
(* A server whose copy has the size that CHECK reported is never brought   *)
(* down by a request (tftp/server.c:84-89), whatever the network           *)
(* duplicates or delays, with any number of servers and connections.       *)
(***************************************************************************)
THEOREM ServersStayUp == Spec => []ServersSurvive
<1>1. Init => IndInv /\ RequestsOK
  BY InitInd, InitRequests
<1>2. (IndInv /\ RequestsOK) /\ [Next]_vars => (IndInv /\ RequestsOK)'
  BY NextInd, NextRequests
<1>3. IndInv /\ RequestsOK => ServersSurvive
  BY DEF RequestsOK
<1>4. QED
  BY <1>1, <1>2, <1>3, PTL DEF Spec

-----------------------------------------------------------------------------
(***************************************************************************)
(* A network that duplicates nothing, and servers that agree on the file.  *)
(* The conversation of a thread is then in one place at a time: its        *)
(* request, packet or ACK is in the network, in a queue, with a handler    *)
(* that is about to send, or in the buffer of the thread; or it was lost   *)
(* and nothing follows any more.                                           *)
(***************************************************************************)
Reliable ==
  /\ "duplicate" \notin FaultKinds
  /\ HostedSize[0] # NoFile
  /\ \A s \in Servers : HostedSize[s] = HostedSize[0]

\* Handler w serves thread i.
Gets(w, i) == worker[w].pc # "free" /\ worker[w].kind = "GET" /\ worker[w].port = i

\* Handler w has sent its packet.
Waits(w) == worker[w].pc \in {"scan", "asleep"}

\* Thread i has asked, and has no packet in its buffer.
Listens(i) == i \in DOMAIN thread /\ thread[i].pc \in {"loop", "receive", "exited"}

Flying(i) == \E m \in InFlight : m.port = i

Queued(i) ==
  \E s \in Servers : \E k \in 1 .. Len(ack_queue[s]) : ack_queue[s][k].port = i

\* Packet m is the one that handler w waits to see acknowledged, and the thread
\* has not stored it.
PacketOf(w, m) ==
  /\ Waits(w)
  /\ m.server = worker[w].server /\ m.seq = worker[w].seq
  /\ m.from = PacketFrom(w) /\ m.len = PacketLen(w)
  /\ thread[worker[w].port].remaining = worker[w].remaining

\* Server s gets number seq, which is what handler w waits for, and the thread
\* has stored the packet.
AckOf(w, s, seq) ==
  /\ Waits(w)
  /\ s = worker[w].server /\ seq = worker[w].seq
  /\ thread[worker[w].port].remaining = worker[w].remaining - PacketLen(w)

NetPart(i) ==
  \A m \in InFlight : m.port = i =>
    /\ net[m] = 1
    /\ \A n \in InFlight : n.port = i => n = m
    /\ Listens(i)
    /\ ~Queued(i)
    /\ m.kind = "GET" =>
         /\ \A w \in Workers : ~Gets(w, i)
         /\ m.from = TaskOffset(i) /\ m.len = TaskSize(i)
         /\ thread[i].remaining = TaskSize(i)
    /\ m.kind = "DATA" => \E w \in Workers : Gets(w, i) /\ PacketOf(w, m)
    /\ m.kind = "ACK" => \E w \in Workers : Gets(w, i) /\ AckOf(w, m.server, m.seq)

HandlerPart(i) ==
  \A w \in Workers : Gets(w, i) =>
    /\ \A v \in Workers : Gets(v, i) => v = w
    /\ i \in DOMAIN thread /\ thread[i].pc \notin {"new", "request"}
    /\ worker[w].remaining > 0
    /\ PacketFrom(w) + worker[w].remaining = TaskOffset(i) + TaskSize(i)
    /\ worker[w].pc = "start" => worker[w].seq = 0
    /\ worker[w].pc \in {"start", "send"} =>
         /\ Listens(i)
         /\ ~Flying(i)
         /\ ~Queued(i)
         /\ thread[i].remaining = worker[w].remaining

QueuePart(i) ==
  \A s \in Servers : \A k \in 1 .. Len(ack_queue[s]) : ack_queue[s][k].port = i =>
    /\ \A j \in 1 .. Len(ack_queue[s]) : ack_queue[s][j].port = i => j = k
    /\ Listens(i)
    /\ \E w \in Workers : Gets(w, i) /\ AckOf(w, s, ack_queue[s][k].seq)

ThreadPart(i) ==
  i \in DOMAIN thread =>
    /\ thread[i].pc = "ack" =>
         /\ thread[i].buffer.kind = "DATA"
         /\ \E w \in Workers : Gets(w, i) /\ PacketOf(w, thread[i].buffer)
    /\ thread[i].pc \in {"new", "request"} => thread[i].remaining = TaskSize(i)
    /\ thread[i].pc # "exited" => thread[i].remaining > 0
    /\ thread[i].pc = "exited" /\ thread[i].status = 0 =>
         thread[i].remaining \in {0, TaskSize(i)}
    /\ \A j \in TaskChunk(i) : file_data[j] = IF j < OutputPos(i) THEN j ELSE Zero

Conversation(i) == NetPart(i) /\ HandlerPart(i) /\ QueuePart(i) /\ ThreadPart(i)

Ports == Int \ {CheckPort}

QueuesLegal ==
  \A s \in Servers : \A k \in 1 .. Len(ack_queue[s]) : ack_queue[s][k].port # CheckPort

NoThreadYet == main \in {"check", "size"} => thread = << >>

InOnePlace == NoThreadYet /\ QueuesLegal /\ \A i \in Ports : Conversation(i)
-----------------------------------------------------------------------------
(***************************************************************************)
(* A step that does nothing new to the conversation of thread i.  It may   *)
(* lose what is under way, put a handler to sleep or wake it up, let the   *)
(* thread wait, or end it.                                                 *)
(***************************************************************************)
ThreadGoes(i) ==
  \/ thread'[i] = thread[i]
  \/ /\ thread'[i].remaining = thread[i].remaining
     /\ \/ thread[i].pc = "new" /\ thread'[i].pc = "request"
        \/ thread[i].pc \in {"loop", "receive"} /\ thread'[i].pc \in {"loop", "receive"}
        \/ /\ thread[i].pc \in {"loop", "receive", "ack"}
           /\ thread'[i].pc = "exited" /\ thread'[i].status = 1
        \/ thread[i].pc = "request" /\ thread'[i].pc = "exited"

QuietThread(i) ==
  /\ DOMAIN thread' = DOMAIN thread
  /\ i \in DOMAIN thread =>
       /\ ThreadGoes(i)
       /\ UNCHANGED <<file_size, num_connections>>
       /\ \A j \in TaskChunk(i) : file_data'[j] = file_data[j]

QuietNet(i) == \A m \in InFlight' : m.port = i => m \in InFlight /\ net'[m] = net[m]

HandlerGoes(w) ==
  \/ worker'[w] = worker[w]
  \/ /\ worker'[w] = [worker[w] EXCEPT !.pc = worker'[w].pc]
     /\ \/ Waits(w) /\ Waits(w)'
        \/ worker[w].pc = "start" /\ worker'[w].pc = "send"

QuietHandlers(i) ==
  \A w \in Workers : (Gets(w, i)' <=> Gets(w, i)) /\ (Gets(w, i) => HandlerGoes(w))

\* Queue q has no ACK of thread i that p has not.
NoNewAcks(p, q, i) ==
  \E f \in [1 .. Len(q) -> Nat] :
    /\ \A k \in 1 .. Len(q) : q[k].port = i => f[k] \in 1 .. Len(p) /\ q[k] = p[f[k]]
    /\ \A j, k \in 1 .. Len(q) : q[j].port = i /\ q[k].port = i /\ f[j] = f[k] => j = k

QuietQueues(i) == \A s \in Servers : NoNewAcks(ack_queue[s], ack_queue'[s], i)

\* The conversation stays in one place, or is over.
LEMMA QuietKept ==
  ASSUME IndInv, NEW i, Conversation(i),
         QuietThread(i), QuietNet(i), QuietHandlers(i), QuietQueues(i)
  PROVE  Conversation(i)'
<1>1. ~Flying(i) => ~Flying(i)'
  BY DEF QuietNet, Flying
<1>2. ~Queued(i) => ~Queued(i)'
  BY DEF QuietQueues, NoNewAcks, Queued
<1>3. ASSUME i \in DOMAIN thread
      PROVE  /\ i \in DOMAIN thread' /\ ThreadGoes(i)
             /\ TaskOffset(i)' = TaskOffset(i) /\ TaskSize(i)' = TaskSize(i)
             /\ TaskChunk(i)' = TaskChunk(i)
             /\ thread'[i].remaining = thread[i].remaining
             /\ OutputPos(i)' = OutputPos(i)
             /\ \A j \in TaskChunk(i) : file_data'[j] = file_data[j]
  BY <1>3 DEF QuietThread, ThreadGoes, TaskOffset, TaskSize, TaskChunk, OutputPos
<1>4. Listens(i) => Listens(i)'
  BY <1>3 DEF Listens, ThreadGoes
<1>5. ASSUME NEW w \in Workers, Gets(w, i)
      PROVE  /\ worker'[w].server = worker[w].server /\ worker'[w].port = i
             /\ worker'[w].seq = worker[w].seq /\ worker'[w].remaining = worker[w].remaining
             /\ worker[w].port = i
             /\ PacketFrom(w)' = PacketFrom(w) /\ PacketLen(w)' = PacketLen(w)
             /\ Waits(w) => Waits(w)'
  <2>1. worker[w] \in WorkerSet
    BY DEF IndInv, TypeOK, ServerTypeOK
  <2>2. /\ worker'[w].server = worker[w].server /\ worker'[w].port = worker[w].port
        /\ worker'[w].seq = worker[w].seq /\ worker'[w].remaining = worker[w].remaining
        /\ worker'[w].offset = worker[w].offset
    BY <1>5, <2>1 DEF QuietHandlers, HandlerGoes, WorkerSet
  <2>3. Waits(w) => Waits(w)'
    BY <1>5 DEF QuietHandlers, HandlerGoes, Waits
  <2>4. PacketFrom(w)' = PacketFrom(w) /\ PacketLen(w)' = PacketLen(w)
    BY <2>2 DEF PacketFrom, PacketLen
  <2>5. QED
    BY <1>5, <2>2, <2>3, <2>4 DEF Gets
<1>6. \A w \in Workers : Gets(w, i)' <=> Gets(w, i)
  BY DEF QuietHandlers
<1>7. ASSUME NEW w \in Workers, Gets(w, i), NEW m, PacketOf(w, m), i \in DOMAIN thread
      PROVE  PacketOf(w, m)'
  BY <1>3, <1>5, <1>7 DEF PacketOf
<1>8. ASSUME NEW w \in Workers, Gets(w, i), NEW s, NEW seq, AckOf(w, s, seq), i \in DOMAIN thread
      PROVE  AckOf(w, s, seq)'
  BY <1>3, <1>5, <1>8 DEF AckOf
<1>9. NetPart(i)'
  <2> SUFFICES ASSUME NEW m \in InFlight', m.port = i
               PROVE  /\ net'[m] = 1
                      /\ \A n \in InFlight' : n.port = i => n = m
                      /\ Listens(i)'
                      /\ ~Queued(i)'
                      /\ m.kind = "GET" =>
                           /\ \A w \in Workers : ~Gets(w, i)'
                           /\ m.from = TaskOffset(i)' /\ m.len = TaskSize(i)'
                           /\ thread'[i].remaining = TaskSize(i)'
                      /\ m.kind = "DATA" => \E w \in Workers : Gets(w, i)' /\ PacketOf(w, m)'
                      /\ m.kind = "ACK" =>
                           \E w \in Workers : Gets(w, i)' /\ AckOf(w, m.server, m.seq)'
    BY DEF NetPart
  <2>1. m \in InFlight /\ net'[m] = net[m]
    BY DEF QuietNet
  <2>2. /\ net[m] = 1
        /\ \A n \in InFlight : n.port = i => n = m
        /\ Listens(i)
        /\ ~Queued(i)
        /\ m.kind = "GET" =>
             /\ \A w \in Workers : ~Gets(w, i)
             /\ m.from = TaskOffset(i) /\ m.len = TaskSize(i)
             /\ thread[i].remaining = TaskSize(i)
        /\ m.kind = "DATA" => \E w \in Workers : Gets(w, i) /\ PacketOf(w, m)
        /\ m.kind = "ACK" => \E w \in Workers : Gets(w, i) /\ AckOf(w, m.server, m.seq)
    BY <2>1 DEF Conversation, NetPart
  <2>3. i \in DOMAIN thread
    BY <2>2 DEF Listens
  <2>4. \A n \in InFlight' : n.port = i => n = m
    BY <2>2 DEF QuietNet
  <2>5. m.kind = "DATA" => \E w \in Workers : Gets(w, i)' /\ PacketOf(w, m)'
    BY <1>6, <1>7, <2>2, <2>3
  <2>6. m.kind = "ACK" => \E w \in Workers : Gets(w, i)' /\ AckOf(w, m.server, m.seq)'
    BY <1>6, <1>8, <2>2, <2>3
  <2>7. m.kind = "GET" =>
          /\ \A w \in Workers : ~Gets(w, i)'
          /\ m.from = TaskOffset(i)' /\ m.len = TaskSize(i)'
          /\ thread'[i].remaining = TaskSize(i)'
    BY <1>3, <1>6, <2>2, <2>3
  <2>8. QED
    BY <1>2, <1>4, <2>1, <2>2, <2>4, <2>5, <2>6, <2>7
<1>10. HandlerPart(i)'
  <2> SUFFICES ASSUME NEW w \in Workers, Gets(w, i)'
               PROVE  /\ \A v \in Workers : Gets(v, i)' => v = w
                      /\ i \in DOMAIN thread' /\ thread'[i].pc \notin {"new", "request"}
                      /\ worker'[w].remaining > 0
                      /\ PacketFrom(w)' + worker'[w].remaining = TaskOffset(i)' + TaskSize(i)'
                      /\ worker'[w].pc = "start" => worker'[w].seq = 0
                      /\ worker'[w].pc \in {"start", "send"} =>
                           /\ Listens(i)'
                           /\ ~Flying(i)'
                           /\ ~Queued(i)'
                           /\ thread'[i].remaining = worker'[w].remaining
    BY DEF HandlerPart
  <2>1. Gets(w, i)
    BY <1>6
  <2>2. /\ \A v \in Workers : Gets(v, i) => v = w
        /\ i \in DOMAIN thread /\ thread[i].pc \notin {"new", "request"}
        /\ worker[w].remaining > 0
        /\ PacketFrom(w) + worker[w].remaining = TaskOffset(i) + TaskSize(i)
        /\ worker[w].pc = "start" => worker[w].seq = 0
        /\ worker[w].pc \in {"start", "send"} =>
             /\ Listens(i)
             /\ ~Flying(i)
             /\ ~Queued(i)
             /\ thread[i].remaining = worker[w].remaining
    BY <2>1 DEF Conversation, HandlerPart
  <2>3. thread'[i].pc \notin {"new", "request"}
    BY <1>3, <2>2 DEF ThreadGoes
  <2>4. /\ worker'[w].pc \in {"start", "send"} => worker[w].pc \in {"start", "send"}
        /\ worker'[w].pc = "start" => worker[w].pc = "start"
    BY <2>1 DEF QuietHandlers, HandlerGoes, Waits
  <2>5. QED
    BY <1>1, <1>2, <1>3, <1>4, <1>5, <1>6, <2>1, <2>2, <2>3, <2>4
<1>11. QueuePart(i)'
  <2> SUFFICES ASSUME NEW s \in Servers, NEW k \in 1 .. Len(ack_queue'[s]), ack_queue'[s][k].port = i
               PROVE  /\ \A j \in 1 .. Len(ack_queue'[s]) : ack_queue'[s][j].port = i => j = k
                      /\ Listens(i)'
                      /\ \E w \in Workers : Gets(w, i)' /\ AckOf(w, s, ack_queue[s][k].seq)'
    BY DEF QueuePart
  <2>1. PICK f \in [1 .. Len(ack_queue'[s]) -> Nat] :
          /\ \A x \in 1 .. Len(ack_queue'[s]) :
               ack_queue'[s][x].port = i =>
                 f[x] \in 1 .. Len(ack_queue[s]) /\ ack_queue'[s][x] = ack_queue[s][f[x]]
          /\ \A x, y \in 1 .. Len(ack_queue'[s]) :
               ack_queue'[s][x].port = i /\ ack_queue'[s][y].port = i /\ f[x] = f[y] => x = y
    BY DEF QuietQueues, NoNewAcks
  <2>2. /\ \A j \in 1 .. Len(ack_queue[s]) : ack_queue[s][j].port = i => j = f[k]
        /\ Listens(i)
        /\ \E w \in Workers : Gets(w, i) /\ AckOf(w, s, ack_queue[s][f[k]].seq)
    BY <2>1 DEF Conversation, QueuePart
  <2>3. \A j \in 1 .. Len(ack_queue'[s]) : ack_queue'[s][j].port = i => j = k
    BY <2>1, <2>2
  <2>4. i \in DOMAIN thread
    BY <2>2 DEF Listens
  <2>5. PICK seq : seq = ack_queue'[s][k].seq
    OBVIOUS
  <2>6. PICK w \in Workers : Gets(w, i) /\ AckOf(w, s, seq)
    BY <2>1, <2>2, <2>5
  <2>7. Gets(w, i)' /\ AckOf(w, s, seq)'
    BY <1>6, <1>8, <2>4, <2>6
  <2>8. AckOf(w, s, ack_queue[s][k].seq)'
    BY <2>5, <2>7 DEF AckOf
  <2>9. QED
    BY <1>4, <2>2, <2>3, <2>7, <2>8
<1>12. ThreadPart(i)'
  <2> SUFFICES ASSUME i \in DOMAIN thread' PROVE ThreadPart(i)'
    BY DEF ThreadPart
  <2>1. i \in DOMAIN thread
    BY DEF QuietThread
  <2>2. ThreadPart(i)
    BY DEF Conversation
  <2>3. \A j \in TaskChunk(i)' : file_data'[j] = IF j < OutputPos(i)' THEN j ELSE Zero
    BY <1>3, <2>1, <2>2 DEF ThreadPart
  <2>4. ASSUME thread'[i].pc = "ack"
        PROVE  /\ thread'[i].buffer.kind = "DATA"
               /\ \E w \in Workers : Gets(w, i)' /\ PacketOf(w, thread[i].buffer)'
    <3>1. thread'[i] = thread[i]
      BY <1>3, <2>1, <2>4 DEF ThreadGoes
    <3> DEFINE m == thread[i].buffer
    <3>2. m.kind = "DATA" /\ \E w \in Workers : Gets(w, i) /\ PacketOf(w, m)
      BY <2>1, <2>2, <2>4, <3>1 DEF ThreadPart
    <3>3. PICK w \in Workers : Gets(w, i) /\ PacketOf(w, m)
      BY <3>2
    <3>4. PacketOf(w, m)'
      BY <1>3, <1>5, <2>1, <3>1, <3>3 DEF PacketOf
    <3>5. QED
      BY <1>6, <3>1, <3>2, <3>3, <3>4
  <2>5. /\ thread'[i].pc \in {"new", "request"} => thread'[i].remaining = TaskSize(i)'
        /\ thread'[i].pc # "exited" => thread'[i].remaining > 0
        /\ thread'[i].pc = "exited" /\ thread'[i].status = 0 =>
             thread'[i].remaining \in {0, TaskSize(i)'}
    BY <1>3, <2>1, <2>2 DEF ThreadPart, ThreadGoes
  <2>6. QED
    BY <2>3, <2>4, <2>5 DEF ThreadPart
<1>13. QED
  BY <1>9, <1>10, <1>11, <1>12 DEF Conversation

-----------------------------------------------------------------------------
(***************************************************************************)
(* What leaves a conversation alone, part by part.                         *)
(***************************************************************************)
LEMMA NetStaysQuiet ==
  ASSUME UNCHANGED net, NEW i
  PROVE  QuietNet(i)
BY DEF QuietNet, InFlight

\* Something is sent to or by another port.
LEMMA OtherSent ==
  ASSUME NEW m, Send(m), NEW i, m.port # i
  PROVE  QuietNet(i)
BY DEF QuietNet, InFlight, Send, BagAdd

\* A datagram is received, or lost.
LEMMA ConsumedQuiet ==
  ASSUME NEW m, Consume(m), NEW i, NetPart(i)
  PROVE  QuietNet(i)
<1> SUFFICES ASSUME NEW n \in InFlight', n.port = i
             PROVE  n \in InFlight /\ net'[n] = net[n]
  BY DEF QuietNet
<1>1. net' = BagRemove(net, m)
  BY DEF Consume
<1>2. n \in InFlight
  BY <1>1 DEF BagRemove, InFlight
<1>3. net[n] = 1
  BY <1>2 DEF NetPart
<1>4. CASE n = m
  BY <1>1, <1>2, <1>3, <1>4 DEF BagRemove, InFlight
<1>5. CASE n # m
  BY <1>1, <1>2, <1>5 DEF BagRemove, InFlight
<1>6. QED
  BY <1>4, <1>5

\* The only datagram of a port is received, or lost.
LEMMA ConsumedAlone ==
  ASSUME NEW m \in InFlight, Consume(m), NetPart(m.port)
  PROVE  ~Flying(m.port)'
<1>1. net' = BagRemove(net, m) /\ net[m] = 1
  BY DEF Consume, NetPart
<1>2. InFlight' = InFlight \ {m}
  BY <1>1 DEF BagRemove, InFlight
<1>3. \A n \in InFlight : n.port = m.port => n = m
  BY DEF NetPart
<1>4. QED
  BY <1>2, <1>3 DEF Flying

\* The first datagram of a port is sent.
LEMMA SentAlone ==
  ASSUME NEW m, Send(m), ~Flying(m.port)
  PROVE  \A n \in InFlight' : n.port = m.port => n = m /\ net'[n] = 1
<1>1. m \notin InFlight
  BY DEF Flying
<1>2. net' = [e \in InFlight \cup {m} |-> IF e = m THEN 1 ELSE net[e]]
  BY <1>1 DEF Send, BagAdd, InFlight
<1>3. QED
  BY <1>2 DEF InFlight, Flying

\* No handler does anything.
LEMMA HandlersStayQuiet ==
  ASSUME UNCHANGED worker, NEW i
  PROVE  QuietHandlers(i)
BY DEF QuietHandlers, HandlerGoes, Gets

\* One handler does something for another port.
LEMMA OtherHandler ==
  ASSUME IndInv, NEW i, NEW w \in Workers, NEW r, worker' = [worker EXCEPT ![w] = r],
         ~Gets(w, i), ~(r.pc # "free" /\ r.kind = "GET" /\ r.port = i)
  PROVE  QuietHandlers(i)
<1>1. worker \in [Workers -> WorkerSet]
  BY DEF IndInv, TypeOK, ServerTypeOK
<1>2. worker'[w] = r /\ \A v \in Workers : v # w => worker'[v] = worker[v]
  BY <1>1
<1>3. QED
  BY <1>2 DEF QuietHandlers, HandlerGoes, Gets

\* Sleeping handlers wake up.
LEMMA HandlersWake ==
  ASSUME IndInv, NEW i,
         \A w \in Workers :
            \/ worker'[w] = worker[w]
            \/ worker[w].pc = "asleep" /\ worker'[w] = [worker[w] EXCEPT !.pc = "scan"]
  PROVE  QuietHandlers(i)
<1> SUFFICES ASSUME NEW w \in Workers
             PROVE  (Gets(w, i)' <=> Gets(w, i)) /\ (Gets(w, i) => HandlerGoes(w))
  BY DEF QuietHandlers
<1>1. worker[w] \in WorkerSet
  BY DEF IndInv, TypeOK, ServerTypeOK
<1>2. CASE worker'[w] = worker[w]
  BY <1>2 DEF HandlerGoes, Gets
<1>3. CASE worker[w].pc = "asleep" /\ worker'[w] = [worker[w] EXCEPT !.pc = "scan"]
  BY <1>1, <1>3 DEF HandlerGoes, Gets, Waits, WorkerSet
<1>4. QED
  BY <1>2, <1>3

\* A handler starts, falls asleep or wakes up.
LEMMA HandlerMoves ==
  ASSUME IndInv, NEW i, NEW w \in Workers, NEW pc,
         worker' = [worker EXCEPT ![w].pc = pc],
         \/ Waits(w) /\ pc \in {"scan", "asleep"}
         \/ worker[w].pc = "start" /\ pc = "send"
  PROVE  QuietHandlers(i)
<1>1. worker \in [Workers -> WorkerSet]
  BY DEF IndInv, TypeOK, ServerTypeOK
<1>2. worker'[w] = [worker[w] EXCEPT !.pc = pc] /\ \A v \in Workers : v # w => worker'[v] = worker[v]
  BY <1>1
<1>3. worker'[w].pc = pc /\ worker'[w].kind = worker[w].kind /\ worker'[w].port = worker[w].port
  BY <1>1, <1>2 DEF WorkerSet
<1>4. (Gets(w, i)' <=> Gets(w, i)) /\ HandlerGoes(w)
  BY <1>2, <1>3 DEF Gets, Waits, HandlerGoes
<1>5. QED
  BY <1>2, <1>4 DEF QuietHandlers, HandlerGoes, Gets

\* No queue changes.
LEMMA QueuesStayQuiet ==
  ASSUME IndInv, UNCHANGED ack_queue, NEW i
  PROVE  QuietQueues(i)
<1> SUFFICES ASSUME NEW s \in Servers PROVE NoNewAcks(ack_queue[s], ack_queue'[s], i)
  BY DEF QuietQueues
<1>1. Len(ack_queue[s]) \in Nat
  BY DEF IndInv, TypeOK, ServerTypeOK
<1> DEFINE f == [k \in 1 .. Len(ack_queue[s]) |-> k]
<1>2. f \in [1 .. Len(ack_queue[s]) -> Nat]
  BY <1>1
<1>3. QED
  BY <1>2 DEF NoNewAcks

\* The ACK of another port is queued.
LEMMA OtherQueued ==
  ASSUME IndInv, NEW t \in Servers, NEW a \in AckSet, NEW i, a.port # i,
         ack_queue' = [ack_queue EXCEPT ![t] = Append(@, a)]
  PROVE  QuietQueues(i)
<1> SUFFICES ASSUME NEW s \in Servers PROVE NoNewAcks(ack_queue[s], ack_queue'[s], i)
  BY DEF QuietQueues
<1>1. ack_queue \in [Servers -> Seq(AckSet)]
  BY DEF IndInv, TypeOK, ServerTypeOK
<1>2. /\ ack_queue[s] \in Seq(AckSet) /\ Len(ack_queue'[s]) \in Nat
      /\ \A k \in 1 .. Len(ack_queue'[s]) :
           \/ k \in 1 .. Len(ack_queue[s]) /\ ack_queue'[s][k] = ack_queue[s][k]
           \/ ack_queue'[s][k] = a
  BY <1>1
<1> DEFINE f == [k \in 1 .. Len(ack_queue'[s]) |-> k]
<1>3. f \in [1 .. Len(ack_queue'[s]) -> Nat]
  BY <1>2
<1>4. \A k \in 1 .. Len(ack_queue'[s]) :
        ack_queue'[s][k].port = i =>
          f[k] \in 1 .. Len(ack_queue[s]) /\ ack_queue'[s][k] = ack_queue[s][f[k]]
  BY <1>2
<1>5. \A j, k \in 1 .. Len(ack_queue'[s]) : f[j] = f[k] => j = k
  OBVIOUS
<1> HIDE DEF f
<1>6. QED
  BY <1>3, <1>4, <1>5 DEF NoNewAcks

\* An ACK is taken from a queue.
LEMMA TakenQuiet ==
  ASSUME IndInv, NEW t \in Servers, NEW n \in 1 .. Len(ack_queue[t]), NEW i,
         ack_queue' = [ack_queue EXCEPT ![t] = RemoveAt(@, n)]
  PROVE  QuietQueues(i)
<1> SUFFICES ASSUME NEW s \in Servers PROVE NoNewAcks(ack_queue[s], ack_queue'[s], i)
  BY DEF QuietQueues
<1>1. ack_queue \in [Servers -> Seq(AckSet)]
  BY DEF IndInv, TypeOK, ServerTypeOK
<1>2. CASE s # t
  <2>1. ack_queue'[s] = ack_queue[s] /\ Len(ack_queue[s]) \in Nat
    BY <1>1, <1>2
  <2> DEFINE f == [k \in 1 .. Len(ack_queue[s]) |-> k]
  <2>2. f \in [1 .. Len(ack_queue[s]) -> Nat]
    BY <2>1
  <2>3. \A k \in 1 .. Len(ack_queue'[s]) :
          f[k] \in 1 .. Len(ack_queue[s]) /\ ack_queue'[s][k] = ack_queue[s][f[k]]
    BY <2>1
  <2>4. \A j, k \in 1 .. Len(ack_queue'[s]) : f[j] = f[k] => j = k
    BY <2>1
  <2> HIDE DEF f
  <2>5. f \in [1 .. Len(ack_queue'[s]) -> Nat]
    BY <2>1, <2>2
  <2>6. QED
    BY <2>3, <2>4, <2>5 DEF NoNewAcks
<1>3. CASE s = t
  <2> DEFINE p == ack_queue[s]
             q == ack_queue'[s]
             f == [k \in 1 .. Len(q) |-> IF k < n THEN k ELSE k + 1]
  <2>1. q = RemoveAt(p, n) /\ p \in Seq(AckSet) /\ n \in 1 .. Len(p) /\ Len(p) \in Nat
    BY <1>1, <1>3
  <2>2. /\ Len(q) = Len(p) - 1
        /\ \A j \in 1 .. Len(p) - 1 : q[j] = IF j < n THEN p[j] ELSE p[j + 1]
    BY <2>1, RemoveAtType
  <2> HIDE DEF p, q
  <2>3. f \in [1 .. Len(q) -> Nat]
    BY <2>1, <2>2
  <2>4. \A k \in 1 .. Len(q) : f[k] \in 1 .. Len(p) /\ q[k] = p[f[k]]
    BY <2>1, <2>2
  <2>5. \A j, k \in 1 .. Len(q) : f[j] = f[k] => j = k
    BY <2>1, <2>2
  <2> HIDE DEF f
  <2>6. NoNewAcks(p, q, i)
    BY <2>3, <2>4, <2>5 DEF NoNewAcks
  <2>7. QED
    BY <2>6 DEF p, q
<1>4. QED
  BY <1>2, <1>3

\* The client does nothing.
LEMMA ThreadStaysQuiet ==
  ASSUME UNCHANGED clientVars, NEW i
  PROVE  QuietThread(i)
BY DEF clientVars, QuietThread, ThreadGoes

\* Another thread does something.
LEMMA OtherThread ==
  ASSUME IndInv, [Next]_vars, Running, UNCHANGED mainVars,
         NEW k \in ThreadIds, NEW r, thread' = [thread EXCEPT ![k] = r],
         NEW i, i # k
  PROVE  QuietThread(i)
<1>1. DOMAIN thread = ThreadIds /\ DOMAIN thread' = ThreadIds
  BY RunningFacts
<1>2. i \in ThreadIds => thread'[i] = thread[i]
  BY <1>1
<1>3. i \in ThreadIds => \A j \in TaskChunk(i) : file_data'[j] = file_data[j]
  BY <1>2, StepIsolated
<1>4. QED
  BY <1>1, <1>2, <1>3 DEF QuietThread, ThreadGoes, mainVars

\* A thread that only changes the place where it is.
LEMMA OwnThread ==
  ASSUME IndInv, Running, UNCHANGED <<file_size, num_connections, file_data>>,
         NEW k \in ThreadIds, NEW r, thread' = [thread EXCEPT ![k] = r],
         r.remaining = thread[k].remaining,
         \/ thread[k].pc = "new" /\ r.pc = "request"
         \/ thread[k].pc \in {"loop", "receive"} /\ r.pc \in {"loop", "receive"}
         \/ thread[k].pc \in {"loop", "receive", "ack"} /\ r.pc = "exited" /\ r.status = 1
         \/ thread[k].pc = "request" /\ r.pc = "exited",
         NEW i
  PROVE  QuietThread(i)
<1>1. DOMAIN thread = ThreadIds /\ DOMAIN thread' = ThreadIds
  BY RunningFacts
<1>2. i \in ThreadIds => thread'[i] = IF i = k THEN r ELSE thread[i]
  BY <1>1
<1>3. i \in ThreadIds => ThreadGoes(i)
  BY <1>2 DEF ThreadGoes
<1>4. QED
  BY <1>1, <1>3 DEF QuietThread

-----------------------------------------------------------------------------
(***************************************************************************)
(* The steps that carry a conversation on, each for its own thread.        *)
(***************************************************************************)
\* Where nothing of a thread is under way, only its own state counts.
LEMMA NothingUnderWay ==
  ASSUME NEW i, ~Flying(i)', ~Queued(i)', \A w \in Workers : ~Gets(w, i)', ThreadPart(i)'
  PROVE  Conversation(i)'
BY DEF Conversation, NetPart, HandlerPart, QueuePart, Flying, Queued

\* The thread sends its request.
LEMMA RequestSent ==
  ASSUME IndInv, NEW i \in ThreadIds, Conversation(i), SendGet(i), UNCHANGED serverVars
  PROVE  Conversation(i)'
<1> DEFINE g == Get(i, TaskServer(i), TaskOffset(i), TaskSize(i))
<1>1. /\ Running /\ thread[i].pc = "request" /\ Send(g)
      /\ thread' = [thread EXCEPT ![i].pc = "loop"]
      /\ UNCHANGED <<mainVars, file_data, lock, faults>>
  BY DEF SendGet
<1>2. DOMAIN thread = ThreadIds /\ thread[i] \in ThreadSet
  BY <1>1, RunningFacts
<1>3. ~Listens(i)
  BY <1>1 DEF Listens
<1>4. ~Flying(i) /\ ~Queued(i) /\ \A w \in Workers : ~Gets(w, i)
  BY <1>1, <1>3 DEF Conversation, NetPart, HandlerPart, QueuePart, Flying, Queued
<1>5. g.port = i /\ g.kind = "GET" /\ g.from = TaskOffset(i) /\ g.len = TaskSize(i)
  BY DEF Get, Datagram
<1> HIDE DEF g
<1>6. \A n \in InFlight' : n.port = i => n = g /\ net'[n] = 1
  BY <1>1, <1>4, <1>5, SentAlone
<1>7. /\ DOMAIN thread' = DOMAIN thread
      /\ thread'[i].pc = "loop" /\ thread'[i].remaining = thread[i].remaining
      /\ TaskOffset(i)' = TaskOffset(i) /\ TaskSize(i)' = TaskSize(i)
      /\ TaskChunk(i)' = TaskChunk(i) /\ OutputPos(i)' = OutputPos(i)
      /\ file_data' = file_data
  BY <1>1, <1>2 DEF mainVars, TaskOffset, TaskSize, TaskChunk, OutputPos, ThreadSet
<1>8. thread[i].remaining = TaskSize(i) /\ thread[i].remaining > 0
  BY <1>1, <1>2 DEF Conversation, ThreadPart
<1>9. ThreadPart(i)'
  BY <1>2, <1>7, <1>8 DEF Conversation, ThreadPart
<1>10. ~Queued(i)' /\ \A w \in Workers : ~Gets(w, i)'
  BY <1>4 DEF serverVars, Queued, Gets
<1>11. NetPart(i)'
  BY <1>2, <1>5, <1>6, <1>7, <1>8, <1>10 DEF NetPart, Listens
<1>12. QED
  BY <1>9, <1>10, <1>11 DEF Conversation, HandlerPart, QueuePart, Queued

\* A server hands the request to a handler.
LEMMA RequestReceived ==
  ASSUME IndInv, RequestsOK, NEW s \in Servers, NEW m \in InFlight, NEW w \in Workers,
         m.kind = "GET", Conversation(m.port), ReceiveRequest(s, m, w), UNCHANGED clientVars
  PROVE  Conversation(m.port)'
<1> DEFINE i == m.port
           r == [pc |-> "start", kind |-> m.kind, server |-> s, port |-> m.port,
                 offset |-> m.from, seq |-> 0, remaining |-> m.len]
<1>1. /\ ~Live(w) /\ Consume(m) /\ worker' = [worker EXCEPT ![w] = r]
      /\ UNCHANGED ack_queue
  BY DEF ReceiveRequest
<1>2. m.kind = "GET" /\ m \in DatagramSet /\ m.len > 0 /\ m.len \in Nat /\ m.from \in Nat
  BY DEF RequestsOK, DatagramsLegal, LegalDatagram, IndInv, TypeOK, NetTypeOK, DatagramSet
<1>3. /\ net[m] = 1 /\ Listens(i) /\ ~Queued(i)
      /\ \A v \in Workers : ~Gets(v, i)
      /\ m.from = TaskOffset(i) /\ m.len = TaskSize(i)
      /\ thread[i].remaining = TaskSize(i)
  BY <1>2 DEF Conversation, NetPart
<1>4. ~Flying(i)'
  BY <1>1, ConsumedAlone DEF Conversation
<1>5. worker \in [Workers -> WorkerSet]
  BY DEF IndInv, TypeOK, ServerTypeOK
<1>6. worker'[w] = r /\ \A v \in Workers : v # w => worker'[v] = worker[v]
  BY <1>1, <1>5
<1>7. /\ \A v \in Workers : Gets(v, i)' => v = w
      /\ worker'[w].remaining = m.len /\ worker'[w].offset = m.from
      /\ worker'[w].seq = 0 /\ worker'[w].pc = "start"
  BY <1>3, <1>6 DEF Gets
<1>8. /\ thread' = thread /\ Listens(i)' = Listens(i)
      /\ TaskOffset(i)' = TaskOffset(i) /\ TaskSize(i)' = TaskSize(i)
      /\ TaskChunk(i)' = TaskChunk(i) /\ OutputPos(i)' = OutputPos(i)
      /\ file_data' = file_data
  BY DEF clientVars, Listens, TaskOffset, TaskSize, TaskChunk, OutputPos
<1>9. ~Queued(i)'
  BY <1>1, <1>3 DEF Queued
<1>10. PacketFrom(w)' = m.from
  BY <1>2, <1>7, ServerAssumption DEF PacketFrom
<1>11. HandlerPart(i)'
  <2>1. i \in DOMAIN thread /\ thread[i].pc \notin {"new", "request"}
    BY <1>3 DEF Listens
  <2>2. QED
    BY <1>2, <1>3, <1>4, <1>7, <1>8, <1>9, <1>10, <2>1 DEF HandlerPart
<1>12. ThreadPart(i)'
  <2>1. thread[i].pc # "ack"
    BY <1>3 DEF Listens
  <2>2. QED
    BY <1>8, <2>1 DEF Conversation, ThreadPart
<1>13. NetPart(i)' /\ QueuePart(i)'
  BY <1>4, <1>9 DEF NetPart, QueuePart, Flying, Queued
<1>14. QED
  BY <1>11, <1>12, <1>13 DEF Conversation

\* The handler sends a packet.
LEMMA PacketSent ==
  ASSUME IndInv, RequestsOK, NEW w \in Workers, NEW i, worker[w].port = i, Conversation(i),
         SendPacket(w), UNCHANGED clientVars
  PROVE  Conversation(i)'
<1>0. PICK s, m : /\ s = worker[w].server
                  /\ m = Data(i, s, worker[w].seq, PacketFrom(w), PacketLen(w))
  OBVIOUS
<1>1. /\ worker[w].pc = "send" /\ Send(m)
      /\ worker' = [worker EXCEPT ![w].pc = "scan"] /\ UNCHANGED ack_queue
  BY <1>0 DEF SendPacket
<1>2. worker \in [Workers -> WorkerSet] /\ worker[w].kind = "GET"
  BY <1>1, PastStart DEF IndInv, TypeOK, ServerTypeOK
<1>3. Gets(w, i)
  BY <1>1, <1>2 DEF Gets
<1>4. /\ \A v \in Workers : Gets(v, i) => v = w
      /\ i \in DOMAIN thread /\ thread[i].pc \notin {"new", "request"}
      /\ worker[w].remaining > 0
      /\ PacketFrom(w) + worker[w].remaining = TaskOffset(i) + TaskSize(i)
      /\ Listens(i) /\ ~Flying(i) /\ ~Queued(i)
      /\ thread[i].remaining = worker[w].remaining
  BY <1>1, <1>3 DEF Conversation, HandlerPart
<1>5. /\ worker'[w].pc = "scan" /\ worker'[w].kind = "GET" /\ worker'[w].port = i
      /\ worker'[w].server = s /\ worker'[w].seq = worker[w].seq
      /\ worker'[w].remaining = worker[w].remaining /\ worker'[w].offset = worker[w].offset
      /\ \A v \in Workers : v # w => worker'[v] = worker[v]
  BY <1>0, <1>1, <1>2 DEF WorkerSet
<1>6. /\ PacketFrom(w)' = PacketFrom(w) /\ PacketLen(w)' = PacketLen(w)
      /\ Gets(w, i)' /\ \A v \in Workers : Gets(v, i)' => v = w
  BY <1>2, <1>4, <1>5 DEF PacketFrom, PacketLen, Gets
<1>7. /\ m.port = i /\ m.kind = "DATA" /\ m.server = s /\ m.seq = worker[w].seq
      /\ m.from = PacketFrom(w) /\ m.len = PacketLen(w)
  BY <1>0 DEF Data, Datagram
<1>8. \A n \in InFlight' : n.port = i => n = m /\ net'[n] = 1
  BY <1>1, <1>4, <1>7, SentAlone
<1>9. /\ thread' = thread /\ Listens(i)' = Listens(i)
      /\ TaskOffset(i)' = TaskOffset(i) /\ TaskSize(i)' = TaskSize(i)
      /\ TaskChunk(i)' = TaskChunk(i) /\ OutputPos(i)' = OutputPos(i)
      /\ file_data' = file_data
  BY DEF clientVars, Listens, TaskOffset, TaskSize, TaskChunk, OutputPos
<1>10. ~Queued(i)'
  BY <1>1, <1>4 DEF Queued
<1>11. PacketOf(w, m)'
  <2>1. Waits(w)'
    BY <1>5 DEF Waits
  <2>2. thread'[worker'[w].port].remaining = worker'[w].remaining
    BY <1>4, <1>5, <1>9
  <2>3. /\ m.server = worker'[w].server /\ m.seq = worker'[w].seq
        /\ m.from = PacketFrom(w)' /\ m.len = PacketLen(w)'
    BY <1>5, <1>6, <1>7
  <2>4. QED
    BY <2>1, <2>2, <2>3 DEF PacketOf
<1>12. NetPart(i)'
  BY <1>4, <1>6, <1>7, <1>8, <1>9, <1>10, <1>11 DEF NetPart
<1>13. HandlerPart(i)'
  BY <1>4, <1>5, <1>6, <1>9 DEF HandlerPart
<1>14. QueuePart(i)'
  BY <1>10 DEF QueuePart, Queued
<1>15. ThreadPart(i)'
  <2>1. thread[i].pc # "ack"
    BY <1>4 DEF Listens
  <2>2. QED
    BY <1>9, <2>1 DEF Conversation, ThreadPart
<1>16. QED
  BY <1>12, <1>13, <1>14, <1>15 DEF Conversation

\* It cannot send it, and ends.
LEMMA PacketNotSent ==
  ASSUME IndInv, RequestsOK, NEW w \in Workers, NEW i, worker[w].port = i, Conversation(i),
         SendPacketFails(w), UNCHANGED clientVars
  PROVE  Conversation(i)'
<1>1. /\ worker[w].pc = "send" /\ worker' = [worker EXCEPT ![w] = NoWorker]
      /\ UNCHANGED <<ack_queue, net>>
  BY DEF SendPacketFails, Exits
<1>2. worker \in [Workers -> WorkerSet] /\ worker[w].kind = "GET"
  BY <1>1, PastStart DEF IndInv, TypeOK, ServerTypeOK
<1>3. Gets(w, i)
  BY <1>1, <1>2 DEF Gets
<1>4. /\ \A v \in Workers : Gets(v, i) => v = w
      /\ Listens(i) /\ ~Flying(i) /\ ~Queued(i)
  BY <1>1, <1>3 DEF Conversation, HandlerPart
<1>5. \A v \in Workers : ~Gets(v, i)'
  BY <1>1, <1>2, <1>4 DEF Gets, NoWorker
<1>6. ~Flying(i)' /\ ~Queued(i)'
  BY <1>1, <1>4 DEF Flying, Queued, InFlight
<1>7. ThreadPart(i)'
  BY <1>4 DEF Conversation, ThreadPart, Listens, clientVars, TaskChunk, TaskSize, OutputPos,
              TaskOffset
<1>8. QED
  BY <1>5, <1>6, <1>7, NothingUnderWay

\* The thread receives its packet.
LEMMA PacketReceived ==
  ASSUME Reliable, IndInv, RequestsOK, NEW i \in ThreadIds, Conversation(i),
         NEW m \in InFlight, Receive(i, m), UNCHANGED serverVars
  PROVE  Conversation(i)'
<1>1. /\ Running /\ thread[i].pc = "receive" /\ m.port = i /\ m.kind \in ToClient
      /\ Consume(m)
      /\ thread' = [thread EXCEPT ![i].pc = "ack", ![i].buffer = m]
      /\ UNCHANGED <<mainVars, file_data>>
  BY DEF Receive
<1>2. DOMAIN thread = ThreadIds /\ thread[i] \in ThreadSet /\ i # CheckPort
  BY <1>1, RunningFacts DEF ThreadIds, CheckPort
<1>3. m \in DatagramSet /\ LegalDatagram(m)
  BY DEF IndInv, TypeOK, NetTypeOK, RequestsOK, DatagramsLegal
<1>4. m.kind = "DATA"
  <2>1. m.kind # "OK"
    BY <1>1, <1>2, <1>3 DEF LegalDatagram
  <2>2. m.kind # "ERROR"
    BY <1>3 DEF LegalDatagram, Reliable, DatagramSet
  <2>3. QED
    BY <1>1, <2>1, <2>2 DEF ToClient
<1>5. /\ ~Queued(i)
      /\ \E w \in Workers : Gets(w, i) /\ PacketOf(w, m)
  BY <1>1, <1>4 DEF Conversation, NetPart
<1>6. PICK w \in Workers : Gets(w, i) /\ PacketOf(w, m)
  BY <1>5
<1>7. /\ DOMAIN thread' = DOMAIN thread
      /\ thread'[i].pc = "ack" /\ thread'[i].remaining = thread[i].remaining
      /\ thread'[i].buffer = m
      /\ TaskOffset(i)' = TaskOffset(i) /\ TaskSize(i)' = TaskSize(i)
      /\ TaskChunk(i)' = TaskChunk(i) /\ OutputPos(i)' = OutputPos(i)
      /\ file_data' = file_data
  BY <1>1, <1>2 DEF mainVars, TaskOffset, TaskSize, TaskChunk, OutputPos, ThreadSet
<1>8. ~Flying(i)' /\ ~Queued(i)'
  BY <1>1, <1>5, ConsumedAlone DEF Conversation, serverVars, Queued
<1>9. \A v \in Workers : /\ Gets(v, i)' <=> Gets(v, i)
                         /\ worker'[v] = worker[v]
                         /\ Waits(v)' <=> Waits(v)
                         /\ PacketFrom(v)' = PacketFrom(v) /\ PacketLen(v)' = PacketLen(v)
  BY DEF serverVars, Gets, Waits, PacketFrom, PacketLen
<1>10. PacketOf(w, m)'
  <2>1. worker'[w].port = i /\ worker[w].port = i
    BY <1>6, <1>9 DEF Gets
  <2>2. QED
    BY <1>6, <1>7, <1>9, <2>1 DEF PacketOf
<1>11. ThreadPart(i)'
  <2>1. \E v \in Workers : Gets(v, i)' /\ PacketOf(v, thread[i].buffer)'
    <3>1. PacketOf(w, thread[i].buffer)'
      BY <1>7, <1>10 DEF PacketOf
    <3>2. QED
      BY <1>6, <1>9, <3>1
  <2>2. thread[i].remaining > 0
    BY <1>1, <1>2 DEF Conversation, ThreadPart
  <2>3. \A j \in TaskChunk(i)' : file_data'[j] = IF j < OutputPos(i)' THEN j ELSE Zero
    BY <1>2, <1>7 DEF Conversation, ThreadPart
  <2>4. QED
    BY <1>4, <1>7, <2>1, <2>2, <2>3 DEF ThreadPart
<1>12. HandlerPart(i)'
  <2> SUFFICES ASSUME NEW v \in Workers, Gets(v, i)'
               PROVE  /\ \A u \in Workers : Gets(u, i)' => u = v
                      /\ i \in DOMAIN thread' /\ thread'[i].pc \notin {"new", "request"}
                      /\ worker'[v].remaining > 0
                      /\ PacketFrom(v)' + worker'[v].remaining = TaskOffset(i)' + TaskSize(i)'
                      /\ worker'[v].pc = "start" => worker'[v].seq = 0
                      /\ worker'[v].pc \notin {"start", "send"}
    BY DEF HandlerPart
  <2>1. /\ v = w
        /\ \A u \in Workers : Gets(u, i) => u = v
        /\ worker[v].remaining > 0
        /\ PacketFrom(v) + worker[v].remaining = TaskOffset(i) + TaskSize(i)
        /\ worker[v].pc = "start" => worker[v].seq = 0
    BY <1>6, <1>9 DEF Conversation, HandlerPart
  <2>2. worker[v].pc \notin {"start", "send"}
    BY <1>6, <2>1 DEF PacketOf, Waits
  <2>3. QED
    BY <1>2, <1>7, <1>9, <2>1, <2>2
<1>13. NetPart(i)' /\ QueuePart(i)'
  BY <1>8 DEF NetPart, QueuePart, Flying, Queued
<1>14. QED
  BY <1>11, <1>12, <1>13 DEF Conversation

\* What the packet holds is what comes next in the chunk, and it fits.
LEMMA PacketComesNext ==
  ASSUME IndInv, Running, NEW i \in ThreadIds, Conversation(i), thread[i].pc = "ack"
  PROVE  LET m == thread[i].buffer
         IN  /\ m.kind = "DATA" /\ PayloadSize(m) = m.len /\ m.from = OutputPos(i)
             /\ m.len \in Nat \ {0} /\ m.len <= thread[i].remaining
             /\ OutputPos(i) + m.len <= TaskOffset(i) + TaskSize(i)
             /\ Fits(i, m)
<1> DEFINE m == thread[i].buffer
<1>1. DOMAIN thread = ThreadIds /\ thread[i] \in ThreadSet /\ HasPlan
  BY RunningFacts
<1>2. m.kind = "DATA" /\ \E w \in Workers : Gets(w, i) /\ PacketOf(w, m)
  BY <1>1 DEF Conversation, ThreadPart
<1>3. PICK w \in Workers : Gets(w, i) /\ PacketOf(w, m)
  BY <1>2
<1>4. worker[w] \in WorkerSet /\ worker[w].port = i
  BY <1>3 DEF IndInv, TypeOK, ServerTypeOK, Gets
<1>5. /\ worker[w].remaining > 0
      /\ PacketFrom(w) + worker[w].remaining = TaskOffset(i) + TaskSize(i)
  BY <1>3 DEF Conversation, HandlerPart
<1>6. /\ m.from = PacketFrom(w) /\ m.len = PacketLen(w)
      /\ thread[i].remaining = worker[w].remaining
  BY <1>3, <1>4 DEF PacketOf
<1>7. /\ worker[w].remaining \in Nat /\ m.from \in Nat
      /\ TaskOffset(i) \in Nat /\ TaskSize(i) \in Nat
  BY <1>1, <1>4, TaskInFile DEF WorkerSet, ThreadSet, DatagramSet, IndInv, TypeOK
<1>8. PacketLen(w) \in Nat \ {0} /\ PacketLen(w) <= worker[w].remaining
  BY <1>5, <1>7, ServerAssumption DEF PacketLen
<1>9. PayloadSize(m) = m.len
  BY <1>2 DEF PayloadSize
<1> HIDE DEF m
<1>10. OutputPos(i) = m.from
  BY <1>5, <1>6, <1>7 DEF OutputPos
<1>11. QED
  BY <1>2, <1>5, <1>6, <1>7, <1>8, <1>9, <1>10 DEF Fits, m

\* The thread acknowledges the packet and stores it.
LEMMA PacketStored ==
  ASSUME IndInv, NEW i \in ThreadIds, Conversation(i), AckAndStore(i), UNCHANGED serverVars
  PROVE  Conversation(i)'
<1>1. Running /\ thread[i].pc = "ack"
  BY DEF AckAndStore
<1>2. /\ DOMAIN thread = ThreadIds /\ thread[i] \in ThreadSet /\ HasPlan
      /\ DOMAIN file_data = 0 .. file_size - 1
  BY <1>1, RunningFacts
<1>3. PICK b, r, a : /\ b = thread[i].buffer
                     /\ r = thread[i].remaining - b.len
                     /\ a = Ack(i, b.server, b.seq)
  OBVIOUS
<1>4. /\ b.kind = "DATA" /\ PayloadSize(b) = b.len /\ b.from = OutputPos(i)
      /\ b.len \in Nat \ {0} /\ b.len <= thread[i].remaining
      /\ OutputPos(i) + b.len <= TaskOffset(i) + TaskSize(i)
      /\ Fits(i, b)
  BY <1>1, <1>3, PacketComesNext
<1>5. /\ Send(a) /\ file_data' = Stored(i, b)
      /\ thread' = [thread EXCEPT ![i].pc = IF r > 0 THEN "loop" ELSE "exited",
                                  ![i].remaining = r, ![i].retries = 0,
                                  ![i].buffer = NoDatagram]
      /\ UNCHANGED mainVars
  BY <1>3, <1>4 DEF AckAndStore
<1>6. a.port = i /\ a.kind = "ACK" /\ a.server = b.server /\ a.seq = b.seq
  BY <1>3 DEF Ack, Datagram
<1>7. PICK w \in Workers : Gets(w, i) /\ PacketOf(w, b)
  BY <1>1, <1>2, <1>3 DEF Conversation, ThreadPart
<1>8. ~Listens(i)
  BY <1>1 DEF Listens
<1>9. ~Flying(i) /\ ~Queued(i)
  BY <1>8 DEF Conversation, NetPart, QueuePart, Flying, Queued
<1>10. \A n \in InFlight' : n.port = i => n = a /\ net'[n] = 1
  BY <1>5, <1>6, <1>9, SentAlone
<1>11. /\ thread[i].remaining \in Nat /\ r \in Nat
       /\ TaskOffset(i) \in Nat /\ TaskSize(i) \in Nat
       /\ TaskOffset(i) + TaskSize(i) <= file_size /\ file_size \in Nat
  BY <1>1, <1>2, <1>3, <1>4, TaskInFile, RunningFacts DEF ThreadSet, IndInv, TypeOK
<1>12. /\ DOMAIN thread' = DOMAIN thread
       /\ thread'[i].pc = IF r > 0 THEN "loop" ELSE "exited"
       /\ thread'[i].remaining = r
       /\ TaskOffset(i)' = TaskOffset(i) /\ TaskSize(i)' = TaskSize(i)
       /\ TaskChunk(i)' = TaskChunk(i)
  BY <1>2, <1>5 DEF mainVars, TaskOffset, TaskSize, TaskChunk, ThreadSet
<1>13. OutputPos(i)' = OutputPos(i) + b.len
  BY <1>3, <1>4, <1>11, <1>12 DEF OutputPos
<1>14. \A v \in Workers : /\ Gets(v, i)' <=> Gets(v, i)
                          /\ worker'[v] = worker[v]
                          /\ Waits(v)' <=> Waits(v)
                          /\ PacketFrom(v)' = PacketFrom(v) /\ PacketLen(v)' = PacketLen(v)
  BY DEF serverVars, Gets, Waits, PacketFrom, PacketLen
<1>15. /\ worker[w].port = i /\ Waits(w)
       /\ b.server = worker[w].server /\ b.seq = worker[w].seq /\ b.len = PacketLen(w)
       /\ thread[i].remaining = worker[w].remaining
  BY <1>7 DEF Gets, PacketOf
<1>16. AckOf(w, a.server, a.seq)'
  BY <1>3, <1>6, <1>12, <1>14, <1>15 DEF AckOf
<1>17. ~Queued(i)'
  BY <1>9 DEF serverVars, Queued
<1>18. NetPart(i)'
  BY <1>2, <1>6, <1>7, <1>10, <1>12, <1>14, <1>16, <1>17 DEF NetPart, Listens
<1>19. HandlerPart(i)'
  <2> SUFFICES ASSUME NEW v \in Workers, Gets(v, i)'
               PROVE  /\ \A u \in Workers : Gets(u, i)' => u = v
                      /\ i \in DOMAIN thread' /\ thread'[i].pc \notin {"new", "request"}
                      /\ worker'[v].remaining > 0
                      /\ PacketFrom(v)' + worker'[v].remaining = TaskOffset(i)' + TaskSize(i)'
                      /\ worker'[v].pc = "start" => worker'[v].seq = 0
                      /\ worker'[v].pc \notin {"start", "send"}
    BY DEF HandlerPart
  <2>1. /\ v = w
        /\ \A u \in Workers : Gets(u, i) => u = v
        /\ worker[v].remaining > 0
        /\ PacketFrom(v) + worker[v].remaining = TaskOffset(i) + TaskSize(i)
        /\ worker[v].pc = "start" => worker[v].seq = 0
    BY <1>7, <1>14 DEF Conversation, HandlerPart
  <2>2. worker[v].pc \notin {"start", "send"}
    BY <1>15, <2>1 DEF Waits
  <2>3. QED
    BY <1>2, <1>12, <1>14, <2>1, <2>2
<1>20. ThreadPart(i)'
  <2>1. ASSUME NEW j \in TaskChunk(i)
        PROVE  file_data'[j] = IF j < OutputPos(i)' THEN j ELSE Zero
    <3>1. j \in TaskOffset(i) .. TaskOffset(i) + TaskSize(i) - 1
      BY DEF TaskChunk, Chunk, TaskOffset, TaskSize
    <3>2. j \in DOMAIN file_data /\ j \in Int
      BY <1>2, <1>11, <3>1
    <3>3. file_data[j] = IF j < OutputPos(i) THEN j ELSE Zero
      BY <1>2 DEF Conversation, ThreadPart
    <3>4. OutputPos(i) \in Int
      BY <1>11 DEF OutputPos
    <3>5. file_data'[j] = IF j >= OutputPos(i) /\ j < OutputPos(i) + b.len
                            THEN PayloadByte(b, j - OutputPos(i)) ELSE file_data[j]
      BY <1>4, <1>5, <3>2 DEF Stored
    <3>6. PayloadByte(b, j - OutputPos(i)) = j
      BY <1>4, <3>2, <3>4 DEF PayloadByte
    <3>7. QED
      BY <1>4, <1>13, <3>2, <3>3, <3>4, <3>5, <3>6
  <2>2. thread'[i].pc = "exited" => thread'[i].remaining = 0
    BY <1>11, <1>12
  <2>3. thread'[i].pc # "exited" => thread'[i].remaining > 0
    BY <1>12
  <2>4. thread'[i].pc \notin {"ack", "new", "request"}
    BY <1>12
  <2>5. QED
    BY <1>12, <2>1, <2>2, <2>3, <2>4 DEF ThreadPart
<1>21. QueuePart(i)'
  BY <1>17 DEF QueuePart, Queued
<1>22. QED
  BY <1>18, <1>19, <1>20, <1>21 DEF Conversation

\* The ACK gets a place in the queue of the server.
LEMMA AckQueued ==
  ASSUME IndInv, RequestsOK, NEW s \in Servers, NEW m \in InFlight, m.kind = "ACK",
         NEW i, m.port = i, Conversation(i), Len(ack_queue[s]) < MaxQueue,
         ReceiveAck(s, m), UNCHANGED clientVars
  PROVE  Conversation(i)'
<1>1. /\ m.server = s /\ Consume(m) /\ worker' = WakeAll(s)
      /\ ack_queue' = [ack_queue EXCEPT ![s] = Append(@, [port |-> i, seq |-> m.seq])]
  BY DEF ReceiveAck, Receivable
<1>2. /\ Listens(i) /\ ~Queued(i)
      /\ \E w \in Workers : Gets(w, i) /\ AckOf(w, s, m.seq)
  BY <1>1 DEF Conversation, NetPart
<1>3. PICK w \in Workers : Gets(w, i) /\ AckOf(w, s, m.seq)
  BY <1>2
<1>4. ~Flying(i)'
  BY <1>1, ConsumedAlone DEF Conversation
<1>5. ack_queue \in [Servers -> Seq(AckSet)] /\ worker \in [Workers -> WorkerSet]
  BY DEF IndInv, TypeOK, ServerTypeOK
<1>6. ASSUME NEW t \in Servers, NEW k \in 1 .. Len(ack_queue'[t]), ack_queue'[t][k].port = i
      PROVE  t = s /\ k = Len(ack_queue[s]) + 1 /\ ack_queue'[t][k].seq = m.seq
  <2>1. ~(k \in 1 .. Len(ack_queue[t]) /\ ack_queue'[t][k] = ack_queue[t][k])
    BY <1>2, <1>6 DEF Queued
  <2>2. CASE t # s
    BY <1>1, <1>5, <2>1, <2>2
  <2>3. CASE t = s
    BY <1>1, <1>5, <2>1, <2>3
  <2>4. QED
    BY <2>2, <2>3
<1>7. \A v \in Workers :
        /\ Gets(v, i)' <=> Gets(v, i)
        /\ Waits(v)' <=> Waits(v)
        /\ worker'[v].pc = "start" <=> worker[v].pc = "start"
        /\ worker'[v].pc = "send" <=> worker[v].pc = "send"
        /\ worker'[v].port = worker[v].port /\ worker'[v].server = worker[v].server
        /\ worker'[v].seq = worker[v].seq /\ worker'[v].remaining = worker[v].remaining
        /\ PacketFrom(v)' = PacketFrom(v) /\ PacketLen(v)' = PacketLen(v)
  <2> SUFFICES ASSUME NEW v \in Workers
               PROVE  /\ Gets(v, i)' <=> Gets(v, i)
                      /\ Waits(v)' <=> Waits(v)
                      /\ worker'[v].pc = "start" <=> worker[v].pc = "start"
                      /\ worker'[v].pc = "send" <=> worker[v].pc = "send"
                      /\ worker'[v].port = worker[v].port
                      /\ worker'[v].server = worker[v].server
                      /\ worker'[v].seq = worker[v].seq
                      /\ worker'[v].remaining = worker[v].remaining
                      /\ PacketFrom(v)' = PacketFrom(v) /\ PacketLen(v)' = PacketLen(v)
    OBVIOUS
  <2>1. worker[v] \in WorkerSet
    BY <1>5
  <2>2. CASE worker'[v] = worker[v]
    BY <2>2 DEF Gets, Waits, PacketFrom, PacketLen
  <2>3. CASE worker[v].pc = "asleep" /\ worker'[v] = [worker[v] EXCEPT !.pc = "scan"]
    BY <2>1, <2>3 DEF Gets, Waits, PacketFrom, PacketLen, WorkerSet
  <2>4. QED
    BY <1>1, <2>2, <2>3 DEF WakeAll
<1>8. /\ thread' = thread /\ Listens(i)' = Listens(i)
      /\ TaskOffset(i)' = TaskOffset(i) /\ TaskSize(i)' = TaskSize(i)
      /\ TaskChunk(i)' = TaskChunk(i) /\ OutputPos(i)' = OutputPos(i)
      /\ file_data' = file_data
  BY DEF clientVars, Listens, TaskOffset, TaskSize, TaskChunk, OutputPos
<1>9. AckOf(w, s, m.seq)'
  BY <1>3, <1>7, <1>8 DEF AckOf
<1>10. QueuePart(i)'
  <2> SUFFICES ASSUME NEW t \in Servers, NEW k \in 1 .. Len(ack_queue'[t]),
                      ack_queue'[t][k].port = i
               PROVE  /\ \A j \in 1 .. Len(ack_queue'[t]) : ack_queue'[t][j].port = i => j = k
                      /\ Listens(i)'
                      /\ \E v \in Workers : Gets(v, i)' /\ AckOf(v, t, ack_queue[t][k].seq)'
    BY DEF QueuePart
  <2>1. t = s /\ ack_queue'[t][k].seq = m.seq
    BY <1>6
  <2>2. AckOf(w, t, ack_queue[t][k].seq)'
    BY <1>9, <2>1 DEF AckOf
  <2>3. QED
    BY <1>2, <1>3, <1>6, <1>7, <1>8, <2>2
<1>11. HandlerPart(i)'
  <2> SUFFICES ASSUME NEW v \in Workers, Gets(v, i)'
               PROVE  /\ \A u \in Workers : Gets(u, i)' => u = v
                      /\ i \in DOMAIN thread' /\ thread'[i].pc \notin {"new", "request"}
                      /\ worker'[v].remaining > 0
                      /\ PacketFrom(v)' + worker'[v].remaining = TaskOffset(i)' + TaskSize(i)'
                      /\ worker'[v].pc = "start" => worker'[v].seq = 0
                      /\ worker'[v].pc \notin {"start", "send"}
    BY DEF HandlerPart
  <2>1. /\ v = w
        /\ \A u \in Workers : Gets(u, i) => u = v
        /\ i \in DOMAIN thread /\ thread[i].pc \notin {"new", "request"}
        /\ worker[v].remaining > 0
        /\ PacketFrom(v) + worker[v].remaining = TaskOffset(i) + TaskSize(i)
        /\ worker[v].pc = "start" => worker[v].seq = 0
    BY <1>3, <1>7 DEF Conversation, HandlerPart
  <2>2. worker[v].pc \notin {"start", "send"}
    BY <1>3, <2>1 DEF AckOf, Waits
  <2>3. QED
    BY <1>7, <1>8, <2>1, <2>2
<1>12. ThreadPart(i)'
  <2>1. thread[i].pc # "ack"
    BY <1>2 DEF Listens
  <2>2. QED
    BY <1>8, <2>1 DEF Conversation, ThreadPart
<1>13. NetPart(i)'
  BY <1>4 DEF NetPart, Flying
<1>14. QED
  BY <1>10, <1>11, <1>12, <1>13 DEF Conversation

\* All packets but the last are full: a handler with bytes left is right behind
\* the packet that was acknowledged.
LEMMA NextPosition ==
  ASSUME NEW w \in Workers, worker[w] \in WorkerSet, worker[w].remaining > 0
  PROVE  LET r == Acknowledged(w)
         IN  /\ r.seq = worker[w].seq + 1
             /\ r.remaining = worker[w].remaining - PacketLen(w)
             /\ r.remaining \in Nat
             /\ r.remaining > 0 =>
                  /\ PacketLen(w) = Payload
                  /\ r.offset + r.seq * Payload = PacketFrom(w) + Payload
             /\ r.port = worker[w].port /\ r.kind = worker[w].kind
             /\ r.server = worker[w].server /\ r.offset = worker[w].offset /\ r.pc = worker[w].pc
<1> DEFINE r == Acknowledged(w)
<1>1. /\ r.seq = worker[w].seq + 1 /\ r.remaining = worker[w].remaining - PacketLen(w)
      /\ r.port = worker[w].port /\ r.kind = worker[w].kind
      /\ r.server = worker[w].server /\ r.offset = worker[w].offset /\ r.pc = worker[w].pc
  BY DEF Acknowledged, WorkerSet
<1>2. /\ worker[w].remaining \in Nat /\ worker[w].seq \in Nat /\ worker[w].offset \in Nat
      /\ Payload \in Nat
  BY ServerAssumption DEF WorkerSet
<1>3. (worker[w].seq + 1) * Payload = worker[w].seq * Payload + Payload
  BY <1>2
<1>4. worker[w].seq * Payload \in Nat
  BY <1>2
<1>5. PacketLen(w) \in Nat /\ PacketLen(w) <= worker[w].remaining
      /\ (worker[w].remaining - PacketLen(w) > 0 => PacketLen(w) = Payload)
  BY <1>2 DEF PacketLen
<1>6. PacketFrom(w) = worker[w].offset + worker[w].seq * Payload
  BY DEF PacketFrom
<1> HIDE DEF r
<1>7. r.offset + r.seq * Payload = PacketFrom(w) + Payload
  BY <1>1, <1>2, <1>3, <1>4, <1>6
<1>8. QED
  BY <1>1, <1>2, <1>5, <1>7 DEF r

\* The handler takes its ACK and goes on to the next packet, or ends.
LEMMA AckTaken ==
  ASSUME IndInv, RequestsOK, NEW w \in Workers, NEW i, worker[w].port = i, Conversation(i),
         TakeAck(w), UNCHANGED clientVars
  PROVE  Conversation(i)'
<1>1. PICK s : s = worker[w].server
  OBVIOUS
<1>2. PICK k \in Matches(w) : ack_queue' = [ack_queue EXCEPT ![s] = RemoveAt(@, k)]
  BY <1>1 DEF TakeAck
<1>3. /\ worker[w].pc = "scan" /\ UNCHANGED net
      /\ worker' = [worker EXCEPT ![w] = NextPacket(Acknowledged(w))]
  BY DEF TakeAck, netVars
<1>4. /\ worker \in [Workers -> WorkerSet] /\ worker[w].kind = "GET"
      /\ ack_queue \in [Servers -> Seq(AckSet)]
      /\ s \in Servers
  BY <1>1, <1>3, PastStart DEF IndInv, TypeOK, ServerTypeOK, WorkerSet
<1>5. Gets(w, i)
  BY <1>3, <1>4 DEF Gets
<1>6. /\ k \in 1 .. Len(ack_queue[s]) /\ ack_queue[s][k].port = i
      /\ ack_queue[s][k].seq = worker[w].seq
  BY <1>1 DEF Matches, Awaited
<1>7. /\ \A v \in Workers : Gets(v, i) => v = w
      /\ i \in DOMAIN thread /\ thread[i].pc \notin {"new", "request"}
      /\ worker[w].remaining > 0
      /\ PacketFrom(w) + worker[w].remaining = TaskOffset(i) + TaskSize(i)
  BY <1>5 DEF Conversation, HandlerPart
<1>8. /\ \A j \in 1 .. Len(ack_queue[s]) : ack_queue[s][j].port = i => j = k
      /\ Listens(i)
      /\ \E v \in Workers : Gets(v, i) /\ AckOf(v, s, ack_queue[s][k].seq)
  BY <1>4, <1>6 DEF Conversation, QueuePart
<1>9. thread[i].remaining = worker[w].remaining - PacketLen(w)
  BY <1>5, <1>7, <1>8 DEF AckOf
<1>10. ~Flying(i)
  BY <1>4, <1>6 DEF Conversation, NetPart, Flying, Queued
<1>11. \A t \in Servers : t # s =>
         \A j \in 1 .. Len(ack_queue[t]) : ack_queue[t][j].port # i
  BY <1>1, <1>7 DEF Conversation, QueuePart, AckOf
<1>12. ~Queued(i)'
  <2> SUFFICES ASSUME NEW t \in Servers, NEW j \in 1 .. Len(ack_queue'[t])
               PROVE  ack_queue'[t][j].port # i
    BY DEF Queued
  <2>1. CASE t # s
    BY <1>2, <1>4, <1>11, <2>1
  <2>2. CASE t = s
    <3>1. PICK q, p : q = ack_queue'[s] /\ p = ack_queue[s]
      OBVIOUS
    <3>2. q = RemoveAt(p, k) /\ p \in Seq(AckSet) /\ k \in 1 .. Len(p) /\ Len(p) \in Nat
      BY <1>2, <1>4, <1>6, <3>1
    <3>3. /\ Len(q) = Len(p) - 1
          /\ \A x \in 1 .. Len(p) - 1 : q[x] = IF x < k THEN p[x] ELSE p[x + 1]
      BY <3>2, RemoveAtType
    <3>4. \A x \in 1 .. Len(p) : p[x].port = i => x = k
      BY <1>8, <3>1
    <3>5. j \in 1 .. Len(q)
      BY <2>2, <3>1
    <3>6. q[j].port # i
      BY <3>2, <3>3, <3>4, <3>5
    <3>7. QED
      BY <2>2, <3>1, <3>6
  <2>3. QED
    BY <2>1, <2>2
<1>13. /\ thread' = thread /\ Listens(i)' = Listens(i)
       /\ TaskOffset(i)' = TaskOffset(i) /\ TaskSize(i)' = TaskSize(i)
       /\ TaskChunk(i)' = TaskChunk(i) /\ OutputPos(i)' = OutputPos(i)
       /\ file_data' = file_data
  BY DEF clientVars, Listens, TaskOffset, TaskSize, TaskChunk, OutputPos
<1>14. ThreadPart(i)'
  <2>1. thread[i].pc # "ack"
    BY <1>8 DEF Listens
  <2>2. QED
    BY <1>13, <2>1 DEF Conversation, ThreadPart
<1>15. ~Flying(i)'
  BY <1>3, <1>10 DEF Flying, InFlight
<1>16. PICK r : r = Acknowledged(w)
  OBVIOUS
<1>17. /\ r.seq = worker[w].seq + 1
       /\ r.remaining = worker[w].remaining - PacketLen(w)
       /\ r.remaining \in Nat
       /\ r.remaining > 0 =>
            /\ PacketLen(w) = Payload
            /\ r.offset + r.seq * Payload = PacketFrom(w) + Payload
       /\ r.port = worker[w].port /\ r.kind = worker[w].kind
       /\ r.server = worker[w].server /\ r.offset = worker[w].offset /\ r.pc = worker[w].pc
  BY <1>4, <1>7, <1>16, NextPosition
<1>18. /\ worker'[w] = NextPacket(r)
       /\ \A v \in Workers : v # w => worker'[v] = worker[v]
  BY <1>3, <1>4, <1>16
<1>19. CASE r.remaining > 0
  <2>1. /\ worker'[w].pc = "send" /\ worker'[w].kind = "GET" /\ worker'[w].port = i
        /\ worker'[w].remaining = r.remaining /\ worker'[w].offset = r.offset
        /\ worker'[w].seq = r.seq
    <3>1. worker'[w] = [r EXCEPT !.pc = "send"]
      BY <1>18, <1>19 DEF NextPacket
    <3>2. DOMAIN r = DOMAIN worker[w]
      BY <1>16 DEF Acknowledged
    <3>3. QED
      BY <1>4, <1>17, <3>1, <3>2 DEF WorkerSet
  <2>2. PacketFrom(w)' = PacketFrom(w) + PacketLen(w)
    BY <1>17, <1>19, <2>1 DEF PacketFrom
  <2>3. PacketFrom(w) \in Int /\ PacketLen(w) \in Int /\ worker[w].remaining \in Nat
    BY <1>4, ServerAssumption DEF PacketFrom, PacketLen, WorkerSet
  <2>4. PacketFrom(w)' + worker'[w].remaining = TaskOffset(i) + TaskSize(i)
    BY <1>7, <1>17, <2>1, <2>2, <2>3
  <2>5. \A v \in Workers : Gets(v, i)' => v = w
    BY <1>7, <1>18 DEF Gets
  <2>6. HandlerPart(i)'
    BY <1>7, <1>8, <1>9, <1>12, <1>13, <1>15, <1>17, <1>19, <2>1, <2>4, <2>5 DEF HandlerPart
  <2>7. NetPart(i)' /\ QueuePart(i)'
    BY <1>12, <1>15 DEF NetPart, QueuePart, Flying, Queued
  <2>8. QED
    BY <1>14, <2>6, <2>7 DEF Conversation
<1>20. CASE ~(r.remaining > 0)
  <2>1. worker'[w] = NoWorker
    BY <1>18, <1>20 DEF NextPacket
  <2>2. \A v \in Workers : ~Gets(v, i)'
    BY <1>7, <1>18, <2>1 DEF Gets, NoWorker
  <2>3. QED
    BY <1>12, <1>14, <1>15, <2>2, NothingUnderWay
<1>21. QED
  BY <1>19, <1>20

-----------------------------------------------------------------------------
(***************************************************************************)
(* Every step carries one conversation on and leaves the others alone.     *)
(***************************************************************************)
\* main() plans: all threads are new and all bytes zero.
LEMMA SizeGot ==
  ASSUME IndInv, InOnePlace, NEW m, GetSize(m), UNCHANGED serverVars, NEW i \in Ports
  PROVE  Conversation(i)'
<1>1. /\ main = "size" /\ Consume(m)
      /\ num_connections' = Connections(file_size', num_connections)
      /\ ~DividesByZero(file_size', num_connections)
      /\ file_size' \in SizeIn(m) \ {0}
      /\ file_data' = [j \in 0 .. file_size' - 1 |-> Zero]
      /\ thread' = [k \in 0 .. num_connections' - 1 |->
                      [pc |-> "new", remaining |-> Size(file_size', num_connections', k),
                       retries |-> 0, status |-> 0, buffer |-> NoDatagram]]
  BY DEF GetSize, CheckReply
<1>2. thread = << >> /\ Conversation(i)
  BY <1>1 DEF InOnePlace, NoThreadYet
<1>3. ~Listens(i) /\ i \notin DOMAIN thread
  BY <1>2 DEF Listens
<1>4. ~Flying(i) /\ ~Queued(i) /\ \A w \in Workers : ~Gets(w, i)
  BY <1>2, <1>3 DEF Conversation, NetPart, HandlerPart, QueuePart, Flying, Queued
<1>5. ~Flying(i)'
  <2>1. InFlight' \subseteq InFlight
    BY <1>1 DEF Consume, BagRemove, InFlight
  <2>2. QED
    BY <1>4, <2>1 DEF Flying
<1>6. ~Queued(i)' /\ \A w \in Workers : ~Gets(w, i)'
  BY <1>4 DEF serverVars, Queued, Gets
<1>7. ThreadPart(i)'
  <2> SUFFICES ASSUME i \in DOMAIN thread' PROVE ThreadPart(i)'
    BY DEF ThreadPart
  <2>1. HasPlan' /\ ClientTypeOK'
    <3>1. HasPlan'
      BY DEF GetSize, HasPlan
    <3>2. [Next]_vars
      <4>1. m \in InFlight
        BY DEF GetSize, CheckReply
      <4>2. QED
        BY <4>1 DEF Next, ClientMain, MainStep
    <3>3. QED
      BY <3>1, <3>2, NextInd DEF IndInv, TypeOK
  <2>2. /\ file_size' \in Nat \ {0} /\ num_connections' \in 1 .. file_size'
        /\ i \in 0 .. num_connections' - 1
    BY <1>1, <2>1 DEF ClientTypeOK, HasPlan
  <2>3. /\ Offset(file_size', num_connections', i) \in Nat
        /\ Size(file_size', num_connections', i) \in Nat \ {0}
    BY <2>2, ChunkInFile
  <2>4. thread'[i].pc = "new" /\ thread'[i].remaining = Size(file_size', num_connections', i)
    BY <1>1, <2>2
  <2>5. TaskOffset(i)' \in Nat /\ TaskSize(i)' \in Nat \ {0} /\ thread'[i].remaining = TaskSize(i)'
    BY <2>3, <2>4 DEF TaskOffset, TaskSize
  <2>6. OutputPos(i)' = TaskOffset(i)'
    BY <2>5 DEF OutputPos
  <2>7. TaskChunk(i)' = TaskOffset(i)' .. TaskOffset(i)' + TaskSize(i)' - 1
    BY DEF TaskChunk, Chunk, TaskOffset, TaskSize
  <2>8. TaskOffset(i)' + TaskSize(i)' <= file_size'
    BY <2>2, ChunkInFile DEF TaskOffset, TaskSize
  <2>9. \A j \in TaskChunk(i)' : file_data'[j] = IF j < OutputPos(i)' THEN j ELSE Zero
    BY <1>1, <2>2, <2>5, <2>6, <2>7, <2>8
  <2>10. QED
    BY <2>4, <2>5, <2>9 DEF ThreadPart
<1>8. QED
  BY <1>5, <1>6, <1>7, NothingUnderWay

\* The steps of main().
LEMMA MainConversation ==
  ASSUME IndInv, InOnePlace, ClientMain, NEW i \in Ports
  PROVE  Conversation(i)'
<1>1. MainStep /\ UNCHANGED serverVars
  BY DEF ClientMain
<1>2. QuietHandlers(i) /\ QuietQueues(i)
  BY <1>1, HandlersStayQuiet, QueuesStayQuiet DEF serverVars
<1>3. Conversation(i) /\ i # CheckPort
  BY DEF InOnePlace, Ports
<1>4. CASE SendCheck
  <2>1. Check(0).port # i
    BY <1>3 DEF Check, Datagram
  <2>2. QuietNet(i)
    BY <1>4, <2>1, OtherSent DEF SendCheck
  <2>3. QuietThread(i)
    BY <1>4 DEF SendCheck, QuietThread, ThreadGoes
  <2>4. QED
    BY <1>2, <1>3, <2>2, <2>3, QuietKept
<1>5. CASE SendCheckFails \/ CreateThreadFails \/ WriteOutput
  <2>1. QuietNet(i)
    BY <1>5, NetStaysQuiet DEF SendCheckFails, CreateThreadFails, WriteOutput, netVars
  <2>2. QuietThread(i)
    BY <1>5 DEF SendCheckFails, CreateThreadFails, WriteOutput, QuietThread, ThreadGoes
  <2>3. QED
    BY <1>2, <1>3, <2>1, <2>2, QuietKept
<1>6. ASSUME NEW m \in InFlight, GetSize(m) PROVE Conversation(i)'
  BY <1>1, <1>6, SizeGot
<1>7. ASSUME NEW m \in InFlight, GetSizeFails(m) PROVE Conversation(i)'
  <2>1. Consume(m) /\ main = "size" /\ UNCHANGED thread
    BY <1>7 DEF GetSizeFails, CheckReply
  <2>2. QuietNet(i)
    BY <1>3, <2>1, ConsumedQuiet DEF Conversation
  <2>3. thread = << >>
    BY <2>1 DEF InOnePlace, NoThreadYet
  <2>4. QuietThread(i)
    BY <2>1, <2>3 DEF QuietThread
  <2>5. QED
    BY <1>2, <1>3, <2>2, <2>4, QuietKept
<1>8. CASE CreateThread
  <2>1. /\ Running /\ main = "create" /\ UNCHANGED <<file_size, num_connections, file_data>>
        /\ UNCHANGED net
        /\ thread' = [thread EXCEPT ![created].pc = "request"]
    BY <1>8 DEF CreateThread, Running, netVars
  <2>2. created \in ThreadIds /\ thread[created].pc = "new" /\ thread[created] \in ThreadSet
    BY <2>1, RunningFacts DEF IndInv, TypeOK, ClientTypeOK, ThreadIds
  <2>3. PICK k, r : k = created /\ r = [thread[k] EXCEPT !.pc = "request"]
    OBVIOUS
  <2>4. /\ thread' = [thread EXCEPT ![k] = r] /\ k \in ThreadIds
        /\ r.remaining = thread[k].remaining /\ thread[k].pc = "new" /\ r.pc = "request"
    BY <2>1, <2>2, <2>3 DEF ThreadSet
  <2>5. QuietThread(i)
    BY <2>1, <2>4, OwnThread
  <2>6. QuietNet(i)
    BY <2>1, NetStaysQuiet
  <2>7. QED
    BY <1>2, <1>3, <2>5, <2>6, QuietKept
<1>9. QED
  BY <1>1, <1>4, <1>5, <1>6, <1>7, <1>8 DEF MainStep

\* The steps of the threads.
LEMMA ThreadConversation ==
  ASSUME Reliable, IndInv, RequestsOK, InOnePlace, ClientThreads, NEW i \in Ports
  PROVE  Conversation(i)'
<1>1. UNCHANGED serverVars /\ [Next]_vars
  BY DEF ClientThreads, Next
<1>2. PICK k \in DOMAIN thread : ThreadStep(k) \/ Timeout(k)
  BY DEF ClientThreads
<1>3. QuietHandlers(i) /\ QuietQueues(i)
  BY <1>1, HandlersStayQuiet, QueuesStayQuiet DEF serverVars
<1>4. Conversation(i) /\ i # CheckPort
  BY DEF InOnePlace, Ports
<1>5. Running
  BY <1>2 DEF ThreadStep, Timeout, TimesOut, SendGet, SendGetFails, Lock, Receive, AckAndStore,
              AckFails
<1>6. k \in ThreadIds /\ thread[k] \in ThreadSet
  BY <1>2, <1>5, RunningFacts
\* Another thread changes its own state and what it sends and receives.
<1>7. ASSUME QuietNet(i), k # i, UNCHANGED mainVars, NEW r, thread' = [thread EXCEPT ![k] = r]
      PROVE  Conversation(i)'
  <2>1. QuietThread(i)
    BY <1>1, <1>5, <1>6, <1>7, OtherThread
  <2>2. QED
    BY <1>3, <1>4, <1>7, <2>1, QuietKept
<1>8. ASSUME UNCHANGED net, UNCHANGED <<mainVars, file_data>>,
             NEW r, thread' = [thread EXCEPT ![k] = r], r.remaining = thread[k].remaining,
             \/ thread[k].pc = "new" /\ r.pc = "request"
             \/ thread[k].pc \in {"loop", "receive"} /\ r.pc \in {"loop", "receive"}
             \/ thread[k].pc \in {"loop", "receive", "ack"} /\ r.pc = "exited" /\ r.status = 1
             \/ thread[k].pc = "request" /\ r.pc = "exited"
      PROVE  Conversation(i)'
  <2>1. QuietThread(i)
    BY <1>5, <1>6, <1>8, OwnThread DEF mainVars
  <2>2. QED
    BY <1>3, <1>4, <1>8, <2>1, NetStaysQuiet, QuietKept
<1>9. CASE SendGet(k)
  <2>1. CASE k = i
    BY <1>1, <1>4, <1>6, <1>9, <2>1, RequestSent
  <2>2. CASE k # i
    <3>1. PICK g, r : /\ g = Get(k, TaskServer(k), TaskOffset(k), TaskSize(k))
                      /\ r = [thread[k] EXCEPT !.pc = "loop"]
      OBVIOUS
    <3>2. g.port # i /\ Send(g) /\ thread' = [thread EXCEPT ![k] = r] /\ UNCHANGED mainVars
      BY <1>9, <2>2, <3>1 DEF SendGet, Get, Datagram
    <3>3. QED
      BY <1>7, <2>2, <3>2, OtherSent
  <2>3. QED
    BY <2>1, <2>2
<1>10. CASE SendGetFails(k)
  <2>1. PICK r : r = [thread[k] EXCEPT !.pc = "exited", !.status = 0, !.buffer = NoDatagram]
    OBVIOUS
  <2>2. r.remaining = thread[k].remaining /\ r.pc = "exited"
    BY <1>6, <2>1 DEF ThreadSet
  <2>3. /\ thread[k].pc = "request" /\ UNCHANGED <<mainVars, file_data>> /\ UNCHANGED net
        /\ thread' = [thread EXCEPT ![k] = r]
    BY <1>10, <2>1 DEF SendGetFails, ExitWith
  <2>4. QED
    BY <1>8, <2>2, <2>3
<1>11. CASE Lock(k)
  <2>1. PICK r : r = [thread[k] EXCEPT !.pc = "receive"]
    OBVIOUS
  <2>2. r.remaining = thread[k].remaining /\ r.pc = "receive"
    BY <1>6, <2>1 DEF ThreadSet
  <2>3. /\ thread[k].pc = "loop" /\ UNCHANGED <<mainVars, file_data>> /\ UNCHANGED net
        /\ thread' = [thread EXCEPT ![k] = r]
    BY <1>11, <2>1 DEF Lock, netVars
  <2>4. QED
    BY <1>8, <2>2, <2>3
<1>12. ASSUME NEW m \in InFlight, Receive(k, m) PROVE Conversation(i)'
  <2>1. CASE k = i
    BY <1>1, <1>4, <1>6, <1>12, <2>1, PacketReceived
  <2>2. CASE k # i
    <3>1. PICK r : r = [thread[k] EXCEPT !.pc = "ack", !.buffer = m]
      OBVIOUS
    <3>2. Consume(m) /\ thread' = [thread EXCEPT ![k] = r] /\ UNCHANGED mainVars
      BY <1>12, <3>1 DEF Receive
    <3>3. QuietNet(i)
      BY <1>4, <3>2, ConsumedQuiet DEF Conversation
    <3>4. QED
      BY <1>7, <2>2, <3>2, <3>3
  <2>3. QED
    BY <2>1, <2>2
<1>13. CASE AckAndStore(k)
  <2>1. CASE k = i
    BY <1>1, <1>4, <1>6, <1>13, <2>1, PacketStored
  <2>2. CASE k # i
    <3>1. PICK a : a = Ack(k, thread[k].buffer.server, thread[k].buffer.seq)
      OBVIOUS
    <3>2. a.port # i /\ Send(a) /\ UNCHANGED mainVars
      BY <1>13, <2>2, <3>1 DEF AckAndStore, Ack, Datagram
    <3>3. \E r : thread' = [thread EXCEPT ![k] = r]
      BY <1>13 DEF AckAndStore, ExitWith
    <3>4. QED
      BY <1>7, <2>2, <3>2, <3>3, OtherSent
  <2>3. QED
    BY <2>1, <2>2
<1>14. CASE AckFails(k)
  <2>1. PICK r : r = [thread[k] EXCEPT !.pc = "exited", !.status = 1, !.buffer = NoDatagram]
    OBVIOUS
  <2>2. r.remaining = thread[k].remaining /\ r.pc = "exited" /\ r.status = 1
    BY <1>6, <2>1 DEF ThreadSet
  <2>3. /\ thread[k].pc = "ack" /\ UNCHANGED <<mainVars, file_data>> /\ UNCHANGED net
        /\ thread' = [thread EXCEPT ![k] = r]
    BY <1>14, <2>1 DEF AckFails, ExitWith
  <2>4. QED
    BY <1>8, <2>2, <2>3
<1>15. CASE Timeout(k)
  <2>1. /\ thread[k].pc = "receive" /\ UNCHANGED <<mainVars, file_data>> /\ UNCHANGED net
        /\ IF thread[k].retries + 1 > MaxRetries
             THEN ExitWith(k, 1)
             ELSE thread' = [thread EXCEPT ![k].pc = "loop", ![k].retries = @ + 1]
    BY <1>15 DEF Timeout, TimesOut
  <2>2. CASE thread[k].retries + 1 > MaxRetries
    <3>1. PICK r : r = [thread[k] EXCEPT !.pc = "exited", !.status = 1, !.buffer = NoDatagram]
      OBVIOUS
    <3>2. r.remaining = thread[k].remaining /\ r.pc = "exited" /\ r.status = 1
      BY <1>6, <3>1 DEF ThreadSet
    <3>3. thread' = [thread EXCEPT ![k] = r]
      BY <2>1, <2>2, <3>1 DEF ExitWith
    <3>4. QED
      BY <1>8, <2>1, <3>2, <3>3
  <2>3. CASE ~(thread[k].retries + 1 > MaxRetries)
    <3>1. PICK r : r = [thread[k] EXCEPT !.pc = "loop", !.retries = @ + 1]
      OBVIOUS
    <3>2. r.remaining = thread[k].remaining /\ r.pc = "loop"
      BY <1>6, <3>1 DEF ThreadSet
    <3>3. thread' = [thread EXCEPT ![k] = r]
      BY <2>1, <2>3, <3>1
    <3>4. QED
      BY <1>8, <2>1, <3>2, <3>3
  <2>4. QED
    BY <2>2, <2>3
<1>16. QED
  BY <1>2, <1>9, <1>10, <1>11, <1>12, <1>13, <1>14, <1>15 DEF ThreadStep

-----------------------------------------------------------------------------
\* The main thread of a server.
LEMMA ReceiveConversation ==
  ASSUME IndInv, RequestsOK, InOnePlace, NEW s \in Servers, ServerMain(s), NEW i \in Ports
  PROVE  Conversation(i)'
<1>1. UNCHANGED clientVars /\ MainReceive(s)
  BY DEF ServerMain
<1>2. Conversation(i) /\ QuietThread(i)
  BY <1>1, ThreadStaysQuiet DEF InOnePlace
<1>3. ASSUME NEW m \in InFlight, ReceiveAck(s, m) PROVE Conversation(i)'
  <2>1. m.kind = "ACK" /\ Consume(m) /\ m \in DatagramSet
    BY <1>3 DEF ReceiveAck, IndInv, TypeOK, NetTypeOK
  <2>2. QuietNet(i)
    BY <1>2, <2>1, ConsumedQuiet DEF Conversation
  <2>3. CASE ~(Len(ack_queue[s]) < MaxQueue)
    <3>1. UNCHANGED <<ack_queue, worker>>
      BY <1>3, <2>3 DEF ReceiveAck
    <3>2. QED
      BY <1>2, <2>2, <3>1, QueuesStayQuiet, HandlersStayQuiet, QuietKept
  <2>4. CASE Len(ack_queue[s]) < MaxQueue /\ m.port = i
    BY <1>1, <1>2, <1>3, <2>1, <2>4, AckQueued
  <2>5. CASE Len(ack_queue[s]) < MaxQueue /\ m.port # i
    <3>1. PICK a : a = [port |-> m.port, seq |-> m.seq]
      OBVIOUS
    <3>2. a \in AckSet /\ a.port # i /\ ack_queue' = [ack_queue EXCEPT ![s] = Append(@, a)]
      BY <1>3, <2>1, <2>5, <3>1 DEF ReceiveAck, AckSet, DatagramSet
    <3>3. worker' = WakeAll(s)
      BY <1>3, <2>5 DEF ReceiveAck
    <3>4. QuietHandlers(i)
      <4>1. \A w \in Workers :
              \/ worker'[w] = worker[w]
              \/ worker[w].pc = "asleep" /\ worker'[w] = [worker[w] EXCEPT !.pc = "scan"]
        BY <3>3 DEF WakeAll
      <4>2. QED
        BY <4>1, HandlersWake
    <3>5. QuietQueues(i)
      BY <3>2, OtherQueued
    <3>6. QED
      BY <1>2, <2>2, <3>4, <3>5, QuietKept
  <2>6. QED
    BY <2>3, <2>4, <2>5
<1>4. ASSUME NEW m \in InFlight, NEW w \in Workers, ReceiveRequest(s, m, w)
      PROVE  Conversation(i)'
  <2>1. PICK r : r = [pc |-> "start", kind |-> m.kind, server |-> s, port |-> m.port,
                      offset |-> m.from, seq |-> 0, remaining |-> m.len]
    OBVIOUS
  <2>2. /\ Consume(m) /\ ~Live(w) /\ worker' = [worker EXCEPT ![w] = r]
        /\ UNCHANGED ack_queue
    BY <1>4, <2>1 DEF ReceiveRequest
  <2>3. CASE m.kind = "GET" /\ m.port = i
    BY <1>1, <1>2, <1>4, <2>3, RequestReceived
  <2>4. CASE ~(m.kind = "GET" /\ m.port = i)
    <3>1. ~Gets(w, i) /\ ~(r.pc # "free" /\ r.kind = "GET" /\ r.port = i)
      BY <2>1, <2>2, <2>4 DEF Gets, Live
    <3>2. QuietHandlers(i)
      BY <2>2, <3>1, OtherHandler
    <3>3. QuietNet(i)
      BY <1>2, <2>2, ConsumedQuiet DEF Conversation
    <3>4. QED
      BY <1>2, <2>2, <3>2, <3>3, QueuesStayQuiet, QuietKept
  <2>5. QED
    BY <2>3, <2>4
<1>5. QED
  BY <1>1, <1>3, <1>4 DEF MainReceive

\* The handlers.
LEMMA HandlerConversation ==
  ASSUME Reliable, IndInv, RequestsOK, InOnePlace, NEW w \in Workers,
         WorkerStep(w) \/ SpuriousWakeup(w), UNCHANGED clientVars, NEW i \in Ports
  PROVE  Conversation(i)'
<1>1. Conversation(i) /\ QuietThread(i) /\ i # CheckPort
  BY ThreadStaysQuiet DEF InOnePlace, Ports
<1>2. worker[w] \in WorkerSet /\ LegalHandler(worker[w])
  BY DEF IndInv, TypeOK, ServerTypeOK, RequestsOK, HandlersLegal
\* A handler of another port.
<1>3. ASSUME ~Gets(w, i), QuietNet(i), QuietQueues(i),
             NEW r, worker' = [worker EXCEPT ![w] = r],
             \/ r.pc = "free"
             \/ r.port = worker[w].port /\ r.kind = worker[w].kind /\ worker[w].pc # "free"
      PROVE  Conversation(i)'
  <2>1. ~(r.pc # "free" /\ r.kind = "GET" /\ r.port = i)
    BY <1>3 DEF Gets
  <2>2. QuietHandlers(i)
    BY <1>3, <2>1, OtherHandler
  <2>3. QED
    BY <1>1, <1>3, <2>2, QuietKept
<1>4. CASE HandleCheck(w)
  <2>1. PICK m : /\ net' = IF srv[worker[w].server] = "up" THEN BagAdd(net, m) ELSE net
                 /\ m.port = worker[w].port
    BY <1>4 DEF HandleCheck, SendUnchecked, Error, Ok, Datagram
  <2>2. /\ worker[w].kind = "CHECK" /\ worker[w].port = CheckPort
        /\ worker' = [worker EXCEPT ![w] = NoWorker] /\ UNCHANGED ack_queue
    BY <1>2, <1>4 DEF HandleCheck, Exits, LegalHandler
  <2>3. QuietNet(i)
    BY <1>1, <2>1, <2>2, OtherSent, NetStaysQuiet DEF Send
  <2>4. PICK r : r = NoWorker
    OBVIOUS
  <2>5. ~Gets(w, i) /\ r.pc = "free" /\ worker' = [worker EXCEPT ![w] = r]
    BY <2>2, <2>4 DEF Gets, NoWorker
  <2>6. QED
    BY <1>3, <2>2, <2>3, <2>5, QueuesStayQuiet
<1>5. CASE HandleGetMissing(w)
  BY <1>2, <1>5 DEF HandleGetMissing, Reliable, WorkerSet
<1>6. CASE HandleGetOutOfRange(w)
  <2>1. /\ worker[w].pc = "start" /\ worker[w].kind = "GET" /\ ~InRange(w)
        /\ HostedSize[worker[w].server] = HostedSize[0] /\ HostedSize[0] # NoFile
    BY <1>2, <1>6 DEF HandleGetOutOfRange, Reliable, WorkerSet
  <2>2. /\ worker[w].remaining > 0
        /\ worker[w].offset + worker[w].remaining <= HostedSize[0]
    BY <1>2, <2>1 DEF LegalHandler
  <2>3. HostedSize[0] \in Int /\ worker[w].offset \in Nat /\ worker[w].remaining \in Nat
    BY <1>2, NetAssumption, ServerAssumption DEF WorkerSet, Servers, NoFile
  <2>4. QED
    BY <2>1, <2>2, <2>3 DEF InRange
<1>7. CASE HandleGet(w)
  <2>1. /\ worker[w].pc = "start" /\ worker[w].kind = "GET"
        /\ worker' = [worker EXCEPT ![w] = NextPacket(@)] /\ UNCHANGED ack_queue
        /\ UNCHANGED net
    BY <1>7 DEF HandleGet, netVars
  <2>2. worker[w].remaining > 0
    BY <1>2, <2>1 DEF LegalHandler
  <2>3. worker' = [worker EXCEPT ![w].pc = "send"]
    BY <2>1, <2>2 DEF NextPacket
  <2>4. QuietHandlers(i)
    BY <2>1, <2>3, HandlerMoves
  <2>5. QED
    BY <1>1, <2>1, <2>4, QueuesStayQuiet, NetStaysQuiet, QuietKept
<1>8. CASE SendPacket(w)
  <2>1. CASE worker[w].port = i
    BY <1>1, <1>8, <2>1, PacketSent
  <2>2. CASE worker[w].port # i
    <3>1. PICK m, r : /\ m = Data(worker[w].port, worker[w].server, worker[w].seq, PacketFrom(w),
                                  PacketLen(w))
                      /\ r = [worker[w] EXCEPT !.pc = "scan"]
      OBVIOUS
    <3>2. /\ Send(m) /\ m.port # i /\ UNCHANGED ack_queue /\ worker[w].pc = "send"
          /\ worker' = [worker EXCEPT ![w] = r]
      BY <1>8, <2>2, <3>1 DEF SendPacket, Data, Datagram
    <3>3. ~Gets(w, i) /\ r.port = worker[w].port /\ r.kind = worker[w].kind
      BY <1>2, <2>2, <3>1 DEF Gets, WorkerSet
    <3>4. QED
      BY <1>3, <3>2, <3>3, OtherSent, QueuesStayQuiet
  <2>3. QED
    BY <2>1, <2>2
<1>9. CASE SendPacketFails(w)
  <2>1. CASE worker[w].port = i
    BY <1>1, <1>9, <2>1, PacketNotSent
  <2>2. CASE worker[w].port # i
    <3>1. UNCHANGED <<ack_queue, net>> /\ worker' = [worker EXCEPT ![w] = NoWorker]
      BY <1>9 DEF SendPacketFails, Exits
    <3>2. PICK r : r = NoWorker
      OBVIOUS
    <3>3. ~Gets(w, i) /\ r.pc = "free" /\ worker' = [worker EXCEPT ![w] = r]
      BY <2>2, <3>1, <3>2 DEF Gets, NoWorker
    <3>4. QED
      BY <1>3, <3>1, <3>3, NetStaysQuiet, QueuesStayQuiet
  <2>3. QED
    BY <2>1, <2>2
<1>10. CASE TakeAck(w)
  <2>1. CASE worker[w].port = i
    BY <1>1, <1>10, <2>1, AckTaken
  <2>2. CASE worker[w].port # i
    <3>1. PICK t, n, r : /\ t = worker[w].server
                         /\ n \in Matches(w)
                         /\ ack_queue' = [ack_queue EXCEPT ![t] = RemoveAt(@, n)]
                         /\ r = NextPacket(Acknowledged(w))
      BY <1>10 DEF TakeAck
    <3>2. UNCHANGED net /\ worker' = [worker EXCEPT ![w] = r] /\ worker[w].pc = "scan"
      BY <1>10, <3>1 DEF TakeAck, netVars
    <3>3. t \in Servers /\ n \in 1 .. Len(ack_queue[t])
      BY <1>2, <3>1 DEF Matches, WorkerSet
    <3>4. QuietQueues(i)
      BY <3>1, <3>3, TakenQuiet
    <3>5. r.pc = "free" \/ (r.port = worker[w].port /\ r.kind = worker[w].kind)
      <4>1. PICK a : a = Acknowledged(w)
        OBVIOUS
      <4>2. a.port = worker[w].port /\ a.kind = worker[w].kind /\ DOMAIN a = DOMAIN worker[w]
        BY <1>2, <4>1 DEF Acknowledged, WorkerSet
      <4>3. r = NoWorker \/ r = [a EXCEPT !.pc = "send"]
        BY <3>1, <4>1 DEF NextPacket
      <4>4. QED
        BY <1>2, <4>2, <4>3 DEF NoWorker, WorkerSet
    <3>6. ~Gets(w, i)
      BY <2>2 DEF Gets
    <3>7. QED
      BY <1>3, <3>2, <3>4, <3>5, <3>6, NetStaysQuiet
  <2>3. QED
    BY <2>1, <2>2
<1>11. CASE Sleep(w) \/ SpuriousWakeup(w)
  <2>1. UNCHANGED ack_queue /\ UNCHANGED net
    BY <1>11 DEF Sleep, SpuriousWakeup, netVars
  <2>2. QuietHandlers(i)
    BY <1>11, HandlerMoves DEF Sleep, SpuriousWakeup, Waits
  <2>3. QED
    BY <1>1, <2>1, <2>2, QueuesStayQuiet, NetStaysQuiet, QuietKept
<1>12. QED
  BY <1>4, <1>5, <1>6, <1>7, <1>8, <1>9, <1>10, <1>11 DEF WorkerStep

\* All ACKs in a queue are for threads.
LEMMA QueuesStayLegal ==
  ASSUME IndInv, RequestsOK, QueuesLegal, [Next]_vars
  PROVE  QueuesLegal'
<1>1. ack_queue \in [Servers -> Seq(AckSet)]
  BY DEF IndInv, TypeOK, ServerTypeOK
<1>2. CASE UNCHANGED ack_queue
  BY <1>2 DEF QueuesLegal
<1>3. ASSUME NEW s \in Servers, NEW m \in InFlight, ReceiveAck(s, m) PROVE QueuesLegal'
  <2>1. m.port # CheckPort
    BY <1>3 DEF ReceiveAck, RequestsOK, DatagramsLegal, LegalDatagram
  <2>2. \/ ack_queue' = [ack_queue EXCEPT ![s] = Append(@, [port |-> m.port, seq |-> m.seq])]
        \/ UNCHANGED ack_queue
    BY <1>3 DEF ReceiveAck
  <2>3. PICK a : a = [port |-> m.port, seq |-> m.seq]
    OBVIOUS
  <2>4. CASE ack_queue' = [ack_queue EXCEPT ![s] = Append(@, a)]
    <3> SUFFICES ASSUME NEW t \in Servers, NEW k \in 1 .. Len(ack_queue'[t])
                 PROVE  ack_queue'[t][k].port # CheckPort
      BY DEF QueuesLegal
    <3>1. \/ k \in 1 .. Len(ack_queue[t]) /\ ack_queue'[t][k] = ack_queue[t][k]
          \/ ack_queue'[t][k] = a
      <4>1. CASE t = s
        BY <1>1, <2>4, <4>1
      <4>2. CASE t # s
        BY <1>1, <2>4, <4>2
      <4>3. QED
        BY <4>1, <4>2
    <3>2. QED
      BY <2>1, <2>3, <3>1 DEF QueuesLegal
  <2>5. QED
    BY <1>2, <2>2, <2>3, <2>4
<1>4. ASSUME NEW w \in Workers, TakeAck(w) PROVE QueuesLegal'
  <2>1. PICK t, n : /\ t = worker[w].server /\ n \in Matches(w)
                    /\ ack_queue' = [ack_queue EXCEPT ![t] = RemoveAt(@, n)]
    BY <1>4 DEF TakeAck
  <2>2. t \in Servers /\ n \in 1 .. Len(ack_queue[t])
    BY <2>1 DEF Matches, IndInv, TypeOK, ServerTypeOK, WorkerSet
  <2>3. SomeOf(RemoveAt(ack_queue[t], n), ack_queue[t])
    BY <1>1, <2>2, RemoveAtType
  <2>4. ASSUME NEW s \in Servers PROVE SomeOf(ack_queue'[s], ack_queue[s])
    BY <1>1, <2>1, <2>3 DEF SomeOf
  <2>5. ASSUME NEW s \in Servers, NEW j \in 1 .. Len(ack_queue'[s])
        PROVE  ack_queue'[s][j].port # CheckPort
    <3>1. PICK k \in 1 .. Len(ack_queue[s]) : ack_queue'[s][j] = ack_queue[s][k]
      BY <2>4 DEF SomeOf
    <3>2. ack_queue[s][k].port # CheckPort
      BY DEF QueuesLegal
    <3>3. QED
      BY <3>1, <3>2
  <2>6. QED
    BY <2>5 DEF QueuesLegal
<1>5. (\E s \in Servers : ServerMain(s)) =>
        UNCHANGED ack_queue \/ \E s \in Servers, m \in InFlight : ReceiveAck(s, m)
  BY DEF ServerMain, MainReceive, ReceiveRequest
<1>6. (\E w \in Workers : ServerWorker(w)) =>
        UNCHANGED ack_queue \/ \E w \in Workers : TakeAck(w)
  BY DEF ServerWorker, WorkerStep, HandleCheck, HandleGetMissing, HandleGetOutOfRange, HandleGet,
         SendPacket, SendPacketFails, Sleep
<1>7. ClientMain \/ ClientThreads \/ ServerEnvironment \/ NetworkFault \/ UNCHANGED vars =>
        UNCHANGED ack_queue
  BY DEF ClientMain, ClientThreads, ServerEnvironment, NetworkFault, RefuseRequest,
         SpuriousWakeup, serverVars, vars
<1>8. QED
  BY <1>2, <1>3, <1>4, <1>5, <1>6, <1>7 DEF Next

\* The invariant holds at the start.
LEMMA InitConversations == Init => InOnePlace
<1> SUFFICES ASSUME Init PROVE InOnePlace
  OBVIOUS
<1>1. thread = << >> /\ net = EmptyBag
  BY DEF Init, NetInit, ClientInit
<1>2. (\A s \in Servers : ack_queue[s] = << >>) /\ \A w \in Workers : worker[w].pc = "free"
  BY DEF Init, ServerInit, NoWorker
<1>3. InFlight = {}
  BY <1>1 DEF InFlight, EmptyBag, SetToBag
<1>4. ASSUME NEW i PROVE Conversation(i)
  BY <1>1, <1>2, <1>3
  DEF Conversation, NetPart, HandlerPart, QueuePart, ThreadPart, Gets
<1>5. QED
  BY <1>1, <1>2, <1>4 DEF InOnePlace, NoThreadYet, QueuesLegal

\* Every step keeps it.
LEMMA NextConversations ==
  ASSUME Reliable
  PROVE  IndInv /\ RequestsOK /\ InOnePlace /\ [Next]_vars => InOnePlace'
<1> SUFFICES ASSUME IndInv, RequestsOK, InOnePlace, [Next]_vars PROVE InOnePlace'
  OBVIOUS
<1>1. QueuesLegal'
  BY QueuesStayLegal DEF InOnePlace
<1>2. NoThreadYet'
  <2>1. CASE ClientMain
    BY <2>1
    DEF ClientMain, MainStep, SendCheck, SendCheckFails, GetSize, GetSizeFails, CheckReply,
        CreateThread, CreateThreadFails, WriteOutput, InOnePlace, NoThreadYet
  <2>2. CASE ClientThreads
    <3>1. Running /\ main' = main
      BY <2>2
      DEF ClientThreads, ThreadStep, Timeout, TimesOut, SendGet, SendGetFails, Lock, Receive,
          AckAndStore, AckFails, mainVars
    <3>2. QED
      BY <3>1 DEF Running, NoThreadYet
  <2>3. CASE UNCHANGED clientVars
    BY <2>3 DEF clientVars, InOnePlace, NoThreadYet
  <2>4. QED
    BY <2>1, <2>2, <2>3
    DEF Next, ServerMain, ServerWorker, ServerEnvironment, NetworkFault, vars
<1>3. ASSUME NEW i \in Ports PROVE Conversation(i)'
  <2>1. CASE ClientMain
    BY <2>1, MainConversation
  <2>2. CASE ClientThreads
    BY <2>2, ThreadConversation
  <2>3. ASSUME NEW s \in Servers, ServerMain(s) PROVE Conversation(i)'
    BY <2>3, ReceiveConversation
  <2>4. ASSUME NEW w \in Workers, ServerWorker(w) PROVE Conversation(i)'
    BY <2>4, HandlerConversation DEF ServerWorker
  <2>5. Conversation(i)
    BY DEF InOnePlace
  <2>6. CASE ServerEnvironment
    <3>1. UNCHANGED clientVars
      BY <2>6 DEF ServerEnvironment
    <3>2. ASSUME NEW s \in Servers, NEW m \in InFlight, RefuseRequest(s, m)
          PROVE  Conversation(i)'
      <4>1. Consume(m) /\ UNCHANGED <<ack_queue, worker>>
        BY <3>2 DEF RefuseRequest
      <4>2. QED
        BY <2>5, <3>1, <4>1, ConsumedQuiet, HandlersStayQuiet, QueuesStayQuiet,
           ThreadStaysQuiet, QuietKept DEF Conversation
    <3>3. ASSUME NEW w \in Workers, SpuriousWakeup(w) PROVE Conversation(i)'
      BY <3>1, <3>3, HandlerConversation
    <3>4. QED
      BY <2>6, <3>2, <3>3 DEF ServerEnvironment
  <2>7. CASE NetworkFault
    <3>1. PICK m \in InFlight : Lose(m) \/ Duplicate(m)
      BY <2>7 DEF NetworkFault
    <3>2. UNCHANGED <<serverVars, clientVars>>
      BY <2>7 DEF NetworkFault
    <3>3. Consume(m)
      BY <3>1 DEF Reliable, Lose, Duplicate, Fault
    <3>4. QED
      BY <2>5, <3>2, <3>3, ConsumedQuiet, HandlersStayQuiet, QueuesStayQuiet, ThreadStaysQuiet,
         QuietKept DEF Conversation, serverVars
  <2>8. CASE UNCHANGED vars
    BY <2>5, <2>8, NetStaysQuiet, HandlersStayQuiet, QueuesStayQuiet, ThreadStaysQuiet, QuietKept
    DEF vars, netVars, serverVars
  <2>9. QED
    BY <2>1, <2>2, <2>3, <2>4, <2>6, <2>7, <2>8 DEF Next
<1>4. QED
  BY <1>1, <1>2, <1>3 DEF InOnePlace

-----------------------------------------------------------------------------
(***************************************************************************)
(* What follows for the queues and for the output.                         *)
(***************************************************************************)
\* So the three invariants hold in every reachable state.
LEMMA ConversationsHold ==
  ASSUME Reliable
  PROVE  Spec => [](IndInv /\ RequestsOK /\ InOnePlace)
<1>1. Init => IndInv /\ RequestsOK /\ InOnePlace
  BY InitInd, InitRequests, InitConversations
<1>2. (IndInv /\ RequestsOK /\ InOnePlace) /\ [Next]_vars => (IndInv /\ RequestsOK /\ InOnePlace)'
  BY NextInd, NextRequests, NextConversations
<1>3. QED
  BY <1>1, <1>2, PTL DEF Spec

(***************************************************************************)
(* Every ACK in a queue is awaited by a handler of that server, so no slot *)
(* is lost for ever (tftp/server.c:122-141, 207-215), whatever is lost,    *)
(* delayed or refused.  With duplicates it is not so.                      *)
(***************************************************************************)
THEOREM AcksAwaited ==
  ASSUME Reliable
  PROVE  Spec => []QueuedAcksAwaited
<1>1. IndInv /\ RequestsOK /\ InOnePlace => QueuedAcksAwaited
  <2> SUFFICES ASSUME IndInv, InOnePlace, NEW s \in Servers, NEW k \in DOMAIN ack_queue[s]
               PROVE  \E w \in Workers :
                        /\ worker[w].server = s
                        /\ worker[w].pc \in {"scan", "asleep"}
                        /\ Awaited(w, ack_queue[s][k])
    BY DEF QueuedAcksAwaited
  <2>1. ack_queue[s] \in Seq(AckSet) /\ k \in 1 .. Len(ack_queue[s])
    BY DEF IndInv, TypeOK, ServerTypeOK
  <2>2. PICK i : i = ack_queue[s][k].port
    OBVIOUS
  <2>3. i \in Ports
    <3>1. ack_queue[s][k] \in AckSet
      BY <2>1
    <3>2. i # CheckPort
      BY <2>1, <2>2 DEF InOnePlace, QueuesLegal
    <3>3. QED
      BY <2>2, <3>1, <3>2 DEF AckSet, Ports
  <2>4. PICK w \in Workers : Gets(w, i) /\ AckOf(w, s, ack_queue[s][k].seq)
    BY <2>1, <2>2, <2>3 DEF InOnePlace, Conversation, QueuePart
  <2>5. QED
    BY <2>2, <2>4 DEF Gets, AckOf, Waits, Awaited
<1>2. QED
  BY <1>1, ConversationsHold, PTL

(***************************************************************************)
(* A thread that exits with status 0 has its whole chunk, or nothing of it *)
(* when its request could not be sent (tftp/client.c:47, 64, 139).         *)
(***************************************************************************)
THEOREM ZeroMeansAllOrNothing ==
  ASSUME Reliable
  PROVE  Spec => []StatusZeroAllOrNothing
<1>1. IndInv /\ RequestsOK /\ InOnePlace => StatusZeroAllOrNothing
  <2> SUFFICES ASSUME IndInv, InOnePlace, HasPlan, NEW i \in ThreadIds,
                      thread[i].pc = "exited", thread[i].status = 0
               PROVE  \/ \A j \in TaskChunk(i) : file_data[j] = j
                      \/ \A j \in TaskChunk(i) : file_data[j] = Zero
    BY DEF StatusZeroAllOrNothing, HasPlan
  <2>1. /\ i \in DOMAIN thread /\ i \in Ports
        /\ TaskOffset(i) \in Nat /\ TaskSize(i) \in Nat \ {0}
    BY TaskInFile DEF IndInv, TypeOK, ClientTypeOK, HasPlan, Ports, CheckPort, NoThread
  <2>2. /\ thread[i].remaining \in {0, TaskSize(i)}
        /\ \A j \in TaskChunk(i) : file_data[j] = IF j < OutputPos(i) THEN j ELSE Zero
    BY <2>1 DEF InOnePlace, Conversation, ThreadPart
  <2>3. TaskChunk(i) = TaskOffset(i) .. TaskOffset(i) + TaskSize(i) - 1
    BY DEF TaskChunk, Chunk, TaskOffset, TaskSize
  <2>4. CASE thread[i].remaining = 0
    BY <2>1, <2>2, <2>3, <2>4 DEF OutputPos
  <2>5. CASE thread[i].remaining = TaskSize(i)
    BY <2>1, <2>2, <2>3, <2>5 DEF OutputPos
  <2>6. QED
    BY <2>2, <2>4, <2>5
<1>2. QED
  BY <1>1, ConversationsHold, PTL

-----------------------------------------------------------------------------
(***************************************************************************)
(* The state of ChunkedDownload that a state of Tftp stands for.           *)
(***************************************************************************)
DTotal  == IF Planned THEN file_size ELSE 0
DChunk  == [i \in DOMAIN thread |->
              [lo |-> TaskOffset(i), hi |-> TaskOffset(i) + TaskSize(i)]]
DFilled == [i \in DOMAIN thread |-> OutputPos(i)]
DOpen   == {i \in DOMAIN thread : thread[i].pc # "exited"}

\* A step that leaves it alone.
LEMMA ToStutter ==
  ASSUME UNCHANGED <<DownloadPhase, DTotal, DChunk, DFilled, DOpen, file_data>>
  PROVE  [Download!DNext]_(Download!dvars)
BY DEF DTotal, DChunk, DFilled, DOpen, Download!dvars

\* A chunk is given up.
LEMMA ToGiveUp ==
  ASSUME DownloadPhase = "fetching", NEW i \in DOpen, DOpen' = DOpen \ {i},
         UNCHANGED <<DownloadPhase, DTotal, DChunk, DFilled, file_data>>
  PROVE  [Download!DNext]_(Download!dvars)
<1>1. Download!GiveUp(i)
  BY DEF DTotal, DChunk, DFilled, DOpen, Download!GiveUp
<1>2. Download!DNext
  BY <1>1 DEF DOpen, Download!DNext
<1>3. QED
  BY <1>2

\* Bytes arrive.
LEMMA ToFill ==
  ASSUME DownloadPhase = "fetching", NEW i \in DOpen, NEW p \in DFilled[i] + 1 .. DChunk[i].hi,
         DFilled' = [DFilled EXCEPT ![i] = p],
         file_data' = [j \in DOMAIN file_data |-> IF DFilled[i] <= j /\ j < p THEN j ELSE file_data[j]],
         DOpen' = IF p = DChunk[i].hi THEN DOpen \ {i} ELSE DOpen,
         UNCHANGED <<DownloadPhase, DTotal, DChunk>>
  PROVE  [Download!DNext]_(Download!dvars)
<1>1. Download!Fill(i, p)
  BY Zenon DEF DTotal, DChunk, DFilled, DOpen, Download!Fill
<1>2. Download!DNext
  BY <1>1, Zenon DEF DChunk, DFilled, DOpen, Download!DNext
<1>3. QED
  BY <1>2

\* The file is written, or the client stops.
LEMMA ToEnd ==
  ASSUME \/ DownloadPhase = "fetching" /\ DOpen = {} /\ DownloadPhase' = "written"
         \/ DownloadPhase \in {"sizing", "fetching"} /\ DownloadPhase' = "aborted",
         UNCHANGED <<DTotal, DChunk, DFilled, DOpen, file_data>>
  PROVE  [Download!DNext]_(Download!dvars)
<1>1. Download!Write \/ Download!Abort
  BY Zenon DEF DTotal, DChunk, DFilled, DOpen, Download!Write, Download!Abort
<1>2. QED
  BY <1>1 DEF Download!DNext

\* The plan is made.
LEMMA ToPlan ==
  ASSUME DownloadPhase = "sizing", DownloadPhase' = "fetching", DTotal' \in Nat \ {0},
         DChunk' \in [DOMAIN DChunk' -> [lo : Nat, hi : Nat]],
         Download!Partition(DChunk', DTotal'),
         DFilled' = [i \in DOMAIN DChunk' |-> DChunk'[i].lo],
         DOpen' = DOMAIN DChunk',
         file_data' = [j \in 0 .. DTotal' - 1 |-> Zero]
  PROVE  [Download!DNext]_(Download!dvars)
<1>1. Download!Plan
  BY Zenon DEF DTotal, DChunk, DFilled, DOpen, Download!Plan
<1>2. QED
  BY <1>1 DEF Download!DNext

\* Nothing is planned yet.
LEMMA DownloadInit == Init => Download!DInit
<1> SUFFICES ASSUME Init PROVE Download!DInit
  OBVIOUS
<1>1. main = "check" /\ thread = << >> /\ file_data = << >>
  BY DEF Init, ClientInit
<1>2. ~Planned /\ DownloadPhase = "sizing"
  BY <1>1 DEF Planned, DownloadPhase
<1>3. DOMAIN thread = {}
  BY <1>1
<1>4. DChunk = << >> /\ DFilled = << >> /\ DOpen = {}
  BY <1>3 DEF DChunk, DFilled, DOpen
<1>5. QED
  BY <1>1, <1>2, <1>4, Zenon DEF DChunk, DFilled, DOpen, Download!DInit

-----------------------------------------------------------------------------
\* Servers and network do not appear in it.
LEMMA SameDownload ==
  ASSUME UNCHANGED clientVars
  PROVE  [Download!DNext]_(Download!dvars)
<1>1. UNCHANGED <<main, thread, file_data, file_size, num_connections>>
  BY DEF clientVars
<1>2. Planned' = Planned /\ DownloadPhase' = DownloadPhase
  BY <1>1 DEF Planned, DownloadPhase
<1>3. \A i : TaskOffset(i)' = TaskOffset(i) /\ TaskSize(i)' = TaskSize(i)
  BY <1>1 DEF TaskOffset, TaskSize
<1>4. \A i : OutputPos(i)' = OutputPos(i)
  BY <1>1, <1>3 DEF OutputPos
<1>5. QED
  BY <1>1, <1>2, <1>3, <1>4, ToStutter DEF DTotal, DChunk, DFilled, DOpen

SamePlan == UNCHANGED <<file_size, num_connections>>

\* Plan and buffer stay as they are, and no thread stores a packet.
LEMMA SameShape ==
  ASSUME SamePlan, Planned, Planned', DOMAIN thread' = DOMAIN thread,
         \A i \in DOMAIN thread : thread'[i].remaining = thread[i].remaining
  PROVE  UNCHANGED <<DTotal, DChunk, DFilled>>
<1>1. \A i : TaskOffset(i)' = TaskOffset(i) /\ TaskSize(i)' = TaskSize(i)
  BY DEF SamePlan, TaskOffset, TaskSize
<1>2. \A i \in DOMAIN thread : OutputPos(i)' = OutputPos(i)
  BY <1>1 DEF OutputPos
<1>3. QED
  BY <1>1, <1>2 DEF DTotal, DChunk, DFilled, SamePlan

\* A thread goes on, or exits without the rest of its chunk.
LEMMA QuietDownload ==
  ASSUME IndInv, Running, UNCHANGED <<mainVars, file_data>>,
         NEW k \in ThreadIds, NEW r, thread' = [thread EXCEPT ![k] = r],
         r.remaining = thread[k].remaining, thread[k].pc # "exited"
  PROVE  [Download!DNext]_(Download!dvars)
<1>1. /\ DOMAIN thread = ThreadIds /\ DOMAIN thread' = DOMAIN thread
      /\ \A i \in DOMAIN thread : thread'[i] = IF i = k THEN r ELSE thread[i]
  BY RunningFacts
<1>2. /\ Planned /\ Planned' /\ DownloadPhase = "fetching" /\ DownloadPhase' = "fetching"
      /\ SamePlan
  BY DEF Running, Planned, DownloadPhase, mainVars, SamePlan
<1>3. UNCHANGED <<DTotal, DChunk, DFilled>>
  BY <1>1, <1>2, SameShape
<1>4. k \in DOpen /\ DOpen' = IF r.pc = "exited" THEN DOpen \ {k} ELSE DOpen
  BY <1>1 DEF DOpen
<1>5. QED
  BY <1>2, <1>3, <1>4, ToGiveUp, ToStutter

\* A packet fills the next part of the chunk.
LEMMA StoreDownload ==
  ASSUME IndInv, InOnePlace, NEW i \in ThreadIds, AckAndStore(i)
  PROVE  [Download!DNext]_(Download!dvars)
<1>1. Running /\ thread[i].pc = "ack" /\ i \in Ports
  BY RunningFacts DEF AckAndStore, Ports, ThreadIds, CheckPort
<1>2. /\ DOMAIN thread = ThreadIds /\ thread[i] \in ThreadSet /\ HasPlan
      /\ DOMAIN file_data = 0 .. file_size - 1
  BY <1>1, RunningFacts
<1>3. PICK b, r : b = thread[i].buffer /\ r = thread[i].remaining - b.len
  OBVIOUS
<1>4. /\ b.kind = "DATA" /\ PayloadSize(b) = b.len /\ b.from = OutputPos(i)
      /\ b.len \in Nat \ {0} /\ b.len <= thread[i].remaining
      /\ OutputPos(i) + b.len <= TaskOffset(i) + TaskSize(i)
      /\ Fits(i, b)
  BY <1>1, <1>3, PacketComesNext DEF InOnePlace
<1>5. /\ file_data' = Stored(i, b)
      /\ thread' = [thread EXCEPT ![i].pc = IF r > 0 THEN "loop" ELSE "exited",
                                  ![i].remaining = r, ![i].retries = 0,
                                  ![i].buffer = NoDatagram]
      /\ UNCHANGED mainVars
  BY <1>3, <1>4 DEF AckAndStore
<1>6. /\ thread[i].remaining \in Nat /\ r \in Nat
      /\ TaskOffset(i) \in Nat /\ TaskSize(i) \in Nat
  BY <1>1, <1>2, <1>3, <1>4, TaskInFile DEF ThreadSet, IndInv, TypeOK
<1>7. /\ DOMAIN thread' = DOMAIN thread
      /\ thread'[i].pc = IF r > 0 THEN "loop" ELSE "exited"
      /\ thread'[i].remaining = r
      /\ \A k \in DOMAIN thread : k # i => thread'[k] = thread[k]
  BY <1>2, <1>5 DEF ThreadSet
<1>8. /\ Planned /\ Planned' /\ DownloadPhase = "fetching" /\ DownloadPhase' = "fetching"
      /\ \A k : TaskOffset(k)' = TaskOffset(k) /\ TaskSize(k)' = TaskSize(k)
  BY <1>1, <1>5 DEF Running, Planned, DownloadPhase, mainVars, TaskOffset, TaskSize
<1>9. DTotal' = DTotal /\ DChunk' = DChunk
  BY <1>5, <1>7, <1>8 DEF DTotal, DChunk, mainVars
<1>10. PICK p : p = OutputPos(i) + b.len
  OBVIOUS
<1>11. /\ p \in OutputPos(i) + 1 .. TaskOffset(i) + TaskSize(i) /\ OutputPos(i) \in Int
       /\ p = TaskOffset(i) + TaskSize(i) <=> ~(r > 0)
       /\ OutputPos(i)' = p
  <2>1. OutputPos(i)' = TaskOffset(i) + TaskSize(i) - r
    BY <1>7, <1>8 DEF OutputPos
  <2>2. OutputPos(i) = TaskOffset(i) + TaskSize(i) - thread[i].remaining
    BY DEF OutputPos
  <2>3. QED
    BY <1>3, <1>4, <1>6, <1>10, <2>1, <2>2
<1>12. i \in DOpen /\ DFilled[i] = OutputPos(i) /\ DChunk[i].hi = TaskOffset(i) + TaskSize(i)
  BY <1>1, <1>2 DEF DOpen, DFilled, DChunk
<1>13. \A k \in DOMAIN thread : OutputPos(k)' = IF k = i THEN p ELSE OutputPos(k)
  BY <1>7, <1>8, <1>11 DEF OutputPos
<1>14. DFilled' = [DFilled EXCEPT ![i] = p]
  BY <1>7, <1>13 DEF DFilled
<1>15. DOpen' = IF p = DChunk[i].hi THEN DOpen \ {i} ELSE DOpen
  BY <1>1, <1>7, <1>11, <1>12 DEF DOpen
<1>16. file_data' = [j \in DOMAIN file_data |->
                       IF DFilled[i] <= j /\ j < p THEN j ELSE file_data[j]]
  <2>1. ASSUME NEW j \in DOMAIN file_data
        PROVE  (IF j >= OutputPos(i) /\ j < OutputPos(i) + PayloadSize(b)
                  THEN PayloadByte(b, j - OutputPos(i)) ELSE file_data[j])
               = (IF DFilled[i] <= j /\ j < p THEN j ELSE file_data[j])
    <3>1. j \in Int
      BY <1>1, <1>2, RunningFacts
    <3>2. PayloadByte(b, j - OutputPos(i)) = j
      BY <1>4, <1>11, <3>1 DEF PayloadByte
    <3>3. QED
      BY <1>4, <1>10, <1>11, <1>12, <3>1, <3>2
  <2>2. QED
    BY <1>5, <2>1 DEF Stored
<1>17. QED
  BY <1>8, <1>9, <1>11, <1>12, <1>14, <1>15, <1>16, ToFill

\* The plan of ChunkPlan is a partition.
LEMMA PlanPartition ==
  ASSUME NEW total \in Nat \ {0}, NEW n \in 1 .. total,
         NEW c, c = [i \in 0 .. n - 1 |-> [lo |-> Offset(total, n, i),
                                           hi |-> Offset(total, n, i) + Size(total, n, i)]]
  PROVE  /\ c \in [0 .. n - 1 -> [lo : Nat, hi : Nat]]
         /\ Download!Partition(c, total)
<1>1. ASSUME NEW i \in 0 .. n - 1
      PROVE  /\ c[i] \in [lo : Nat, hi : Nat] /\ c[i].lo < c[i].hi /\ c[i].hi <= total
             /\ c[i].lo \in Nat /\ c[i].hi \in Nat
             /\ Chunk(total, n, i) = c[i].lo .. c[i].hi - 1
  <2>1. /\ Offset(total, n, i) \in Nat /\ Size(total, n, i) \in Nat \ {0}
        /\ Offset(total, n, i) + Size(total, n, i) <= total
    BY ChunkInFile
  <2>2. c[i] = [lo |-> Offset(total, n, i), hi |-> Offset(total, n, i) + Size(total, n, i)]
    OBVIOUS
  <2>3. QED
    BY <2>1, <2>2 DEF Chunk
<1>2. DOMAIN c = 0 .. n - 1 /\ c \in [0 .. n - 1 -> [lo : Nat, hi : Nat]]
  BY <1>1
<1>3. n \in Int \ {0} /\ Connections(total, n) = n
  BY DEF Connections
<1>4. ChunksDisjoint(total, n) /\ ChunksCover(total, n)
  BY <1>3, PlanDisjoint, PlanCovers
<1>5. ASSUME NEW b \in 0 .. total - 1
      PROVE  \E i \in 0 .. n - 1 : \A k \in 0 .. n - 1 : (c[k].lo <= b /\ b < c[k].hi) <=> k = i
  <2>1. PICK i \in 0 .. n - 1 : b \in Chunk(total, n, i)
    BY <1>4 DEF ChunksCover
  <2>2. \A k \in 0 .. n - 1 : (c[k].lo <= b /\ b < c[k].hi) <=> b \in Chunk(total, n, k)
    BY <1>1
  <2>3. \A k \in 0 .. n - 1 : b \in Chunk(total, n, k) <=> k = i
    BY <1>4, <2>1 DEF ChunksDisjoint
  <2>4. QED
    BY <2>2, <2>3
<1>6. \A i \in DOMAIN c : 0 <= c[i].lo /\ c[i].lo < c[i].hi /\ c[i].hi <= total
  BY <1>1, <1>2
<1>7. QED
  BY <1>2, <1>5, <1>6, Zenon DEF Download!Partition

\* The size is known: every chunk is open and empty.
LEMMA PlanDownload ==
  ASSUME IndInv, InOnePlace, ClientMain, NEW m \in InFlight, GetSize(m)
  PROVE  [Download!DNext]_(Download!dvars)
<1>1. PICK total, n, c :
        /\ total = file_size' /\ n = num_connections'
        /\ c = [i \in 0 .. n - 1 |-> [lo |-> Offset(total, n, i),
                                      hi |-> Offset(total, n, i) + Size(total, n, i)]]
  OBVIOUS
<1>2. /\ main = "size" /\ main' = "create"
      /\ file_data' = [j \in 0 .. total - 1 |-> Zero]
      /\ thread' = [i \in 0 .. n - 1 |->
                      [pc |-> "new", remaining |-> Size(total, n, i),
                       retries |-> 0, status |-> 0, buffer |-> NoDatagram]]
  BY <1>1 DEF GetSize, CheckReply
<1>3. IndInv'
  BY NextInd DEF Next
<1>4. total \in Nat \ {0} /\ n \in 1 .. total
  BY <1>1, <1>2, <1>3 DEF IndInv, TypeOK, ClientTypeOK
<1>5. c \in [0 .. n - 1 -> [lo : Nat, hi : Nat]] /\ Download!Partition(c, total)
  BY <1>1, <1>4, PlanPartition
<1>6. \A i : TaskOffset(i)' = Offset(total, n, i) /\ TaskSize(i)' = Size(total, n, i)
  BY <1>1 DEF TaskOffset, TaskSize
<1>7. DChunk' = c
  BY <1>1, <1>2, <1>6 DEF DChunk
<1>8. ASSUME NEW i \in 0 .. n - 1 PROVE OutputPos(i)' = c[i].lo
  <2>1. Offset(total, n, i) \in Nat /\ Size(total, n, i) \in Nat
    BY <1>4, ChunkInFile
  <2>2. thread'[i].remaining = Size(total, n, i) /\ c[i].lo = Offset(total, n, i)
    BY <1>1, <1>2
  <2>3. QED
    BY <1>6, <2>1, <2>2 DEF OutputPos
<1>9. DFilled' = [i \in DOMAIN DChunk' |-> DChunk'[i].lo]
  BY <1>2, <1>5, <1>7, <1>8 DEF DFilled
<1>10. DOpen' = DOMAIN DChunk'
  BY <1>2, <1>5, <1>7 DEF DOpen
<1>11. DownloadPhase = "sizing" /\ DownloadPhase' = "fetching" /\ DTotal' = total
  BY <1>1, <1>2 DEF DownloadPhase, DTotal, Planned
<1>12. QED
  BY <1>2, <1>4, <1>5, <1>7, <1>9, <1>10, <1>11, ToPlan

\* main() starts its threads, ends, or stops on the way.
LEMMA MainDownload ==
  ASSUME IndInv, InOnePlace, ClientMain
  PROVE  [Download!DNext]_(Download!dvars)
<1>1. CASE SendCheck
  <2>1. /\ main = "check" /\ main' = "size" /\ UNCHANGED <<file_data, thread>>
    BY <1>1 DEF SendCheck
  <2>2. thread = << >> /\ DOMAIN thread = {}
    BY <2>1 DEF InOnePlace, NoThreadYet
  <2>3. ~Planned /\ ~Planned' /\ DownloadPhase' = DownloadPhase
    BY <2>1, <2>2 DEF Planned, DownloadPhase
  <2>4. QED
    BY <2>1, <2>2, <2>3, ToStutter DEF DTotal, DChunk, DFilled, DOpen
<1>2. CASE SendCheckFails \/ \E m \in InFlight : GetSizeFails(m)
  <2>1. /\ main \in {"check", "size"} /\ main' \in {"failed", "sigfpe"}
        /\ UNCHANGED <<file_data, thread>>
    BY <1>2 DEF SendCheckFails, GetSizeFails, CheckReply
  <2>2. thread = << >> /\ DOMAIN thread = {}
    BY <2>1 DEF InOnePlace, NoThreadYet
  <2>3. ~Planned /\ ~Planned' /\ DownloadPhase = "sizing" /\ DownloadPhase' = "aborted"
    BY <2>1, <2>2 DEF Planned, DownloadPhase
  <2>4. QED
    BY <2>1, <2>2, <2>3, ToEnd DEF DTotal, DChunk, DFilled, DOpen
<1>3. CASE CreateThread
  <2>1. /\ main = "create" /\ main' \in {"create", "join"} /\ file_data' = file_data
        /\ Running /\ SamePlan
        /\ thread' = [thread EXCEPT ![created].pc = "request"]
    BY <1>3 DEF CreateThread, Running, SamePlan
  <2>2. created \in ThreadIds /\ thread[created].pc = "new" /\ DOMAIN thread = ThreadIds
    BY <2>1, RunningFacts DEF IndInv, TypeOK, ClientTypeOK, ThreadIds
  <2>3. /\ DOMAIN thread' = DOMAIN thread
        /\ \A i \in DOMAIN thread : /\ thread'[i].remaining = thread[i].remaining
                                    /\ thread'[i].pc = "exited" <=> thread[i].pc = "exited"
    <3>1. thread \in [ThreadIds -> ThreadSet]
      BY <2>1, RunningFacts
    <3>2. QED
      BY <2>1, <2>2, <3>1 DEF ThreadSet
  <2>4. Planned /\ Planned' /\ DownloadPhase' = DownloadPhase
    BY <2>1 DEF Planned, DownloadPhase
  <2>5. UNCHANGED <<DTotal, DChunk, DFilled>>
    BY <2>1, <2>3, <2>4, SameShape
  <2>6. DOpen' = DOpen
    BY <2>3 DEF DOpen
  <2>7. QED
    BY <2>1, <2>4, <2>5, <2>6, ToStutter
<1>4. CASE CreateThreadFails \/ WriteOutput
  <2>1. /\ Running /\ SamePlan /\ UNCHANGED <<thread, file_data>>
        /\ \/ main' = "failed"
           \/ main' = "done" /\ \A i \in ThreadIds : thread[i].pc = "exited"
    BY <1>4 DEF CreateThreadFails, WriteOutput, Running, SamePlan
  <2>2. DOMAIN thread = ThreadIds /\ 0 \in ThreadIds
    BY <2>1, RunningFacts DEF ThreadIds
  <2>3. thread # << >>
    BY <2>2
  <2>4. Planned /\ Planned' /\ DownloadPhase = "fetching"
    BY <2>1, <2>3 DEF Planned, DownloadPhase, Running
  <2>5. UNCHANGED <<DTotal, DChunk, DFilled>>
    BY <2>1, <2>4, SameShape
  <2>6. DOpen' = DOpen
    BY <2>1 DEF DOpen
  <2>7. CASE main' = "failed"
    <3>1. DownloadPhase' = "aborted"
      BY <2>7 DEF DownloadPhase
    <3>2. QED
      BY <2>1, <2>4, <2>5, <2>6, <3>1, ToEnd
  <2>8. CASE main' = "done" /\ \A i \in ThreadIds : thread[i].pc = "exited"
    <3>1. DownloadPhase' = "written" /\ DOpen = {}
      BY <2>2, <2>8 DEF DownloadPhase, DOpen
    <3>2. QED
      BY <2>1, <2>4, <2>5, <2>6, <3>1, ToEnd
  <2>9. QED
    BY <2>1, <2>7, <2>8
<1>5. QED
  BY <1>1, <1>2, <1>3, <1>4, PlanDownload DEF ClientMain, MainStep

\* The threads fill their chunks or give them up.
LEMMA ThreadDownload ==
  ASSUME IndInv, InOnePlace, ClientThreads
  PROVE  [Download!DNext]_(Download!dvars)
<1>1. PICK k \in DOMAIN thread : ThreadStep(k) \/ Timeout(k)
  BY DEF ClientThreads
<1>2. Running
  BY <1>1 DEF ThreadStep, Timeout, TimesOut, SendGet, SendGetFails, Lock, Receive, AckAndStore,
              AckFails
<1>3. k \in ThreadIds /\ thread[k] \in ThreadSet
  BY <1>1, <1>2, RunningFacts
<1>4. ASSUME UNCHANGED <<mainVars, file_data>>, NEW r, thread' = [thread EXCEPT ![k] = r],
             r.remaining = thread[k].remaining, thread[k].pc # "exited"
      PROVE  [Download!DNext]_(Download!dvars)
  BY <1>2, <1>3, <1>4, QuietDownload
<1>5. CASE AckAndStore(k)
  BY <1>3, <1>5, StoreDownload
<1>6. CASE SendGet(k) \/ Lock(k)
  <2>1. /\ UNCHANGED <<mainVars, file_data>> /\ thread[k].pc # "exited"
        /\ \E r : thread' = [thread EXCEPT ![k] = r] /\ r.remaining = thread[k].remaining
    BY <1>3, <1>6 DEF SendGet, Lock, ThreadSet
  <2>2. QED
    BY <1>4, <2>1
<1>7. ASSUME NEW m \in InFlight, Receive(k, m) PROVE [Download!DNext]_(Download!dvars)
  <2>1. PICK r : r = [thread[k] EXCEPT !.pc = "ack", !.buffer = m]
    OBVIOUS
  <2>2. /\ UNCHANGED <<mainVars, file_data>> /\ thread[k].pc # "exited"
        /\ thread' = [thread EXCEPT ![k] = r]
    BY <1>7, <2>1 DEF Receive
  <2>3. r.remaining = thread[k].remaining
    BY <1>3, <2>1 DEF ThreadSet
  <2>4. QED
    BY <1>4, <2>2, <2>3
<1>8. CASE SendGetFails(k) \/ AckFails(k)
  <2>1. /\ UNCHANGED <<mainVars, file_data>> /\ thread[k].pc # "exited"
        /\ \E r : thread' = [thread EXCEPT ![k] = r] /\ r.remaining = thread[k].remaining
    BY <1>3, <1>8 DEF SendGetFails, AckFails, ExitWith, ThreadSet
  <2>2. QED
    BY <1>4, <2>1
<1>9. CASE Timeout(k)
  <2>1. /\ UNCHANGED <<mainVars, file_data>> /\ thread[k].pc # "exited"
        /\ \E r : thread' = [thread EXCEPT ![k] = r] /\ r.remaining = thread[k].remaining
    BY <1>3, <1>9 DEF Timeout, TimesOut, ExitWith, ThreadSet
  <2>2. QED
    BY <1>4, <2>1
<1>10. QED
  BY <1>1, <1>5, <1>6, <1>7, <1>8, <1>9 DEF ThreadStep

\* Every step is one of the download, or none.
LEMMA StepDownload ==
  ASSUME IndInv, InOnePlace, [Next]_vars
  PROVE  [Download!DNext]_(Download!dvars)
<1>1. ClientMain \/ ClientThreads \/ UNCHANGED clientVars
  BY DEF Next, ServerMain, ServerWorker, ServerEnvironment, NetworkFault, vars
<1>2. QED
  BY <1>1, MainDownload, ThreadDownload, SameDownload

(***************************************************************************)
(* The TFTP download is a ChunkedDownload: on a network that duplicates    *)
(* nothing every packet that a thread stores is the next one of its chunk, *)
(* although the thread does not compare sequence numbers                   *)
(* (tftp/client.c:115-135), whatever is lost, delayed or refused.          *)
(***************************************************************************)
THEOREM TftpDownloads ==
  ASSUME Reliable
  PROVE  Spec => RefinesDownload
<1>1. IndInv /\ RequestsOK /\ InOnePlace /\ [Next]_vars => [Download!DNext]_(Download!dvars)
  BY StepDownload
<1>2. QED
  BY DownloadInit, ConversationsHold, <1>1, PTL DEF Spec, RefinesDownload, Download!DSpec

-----------------------------------------------------------------------------
\* ChunkedDownload with what has been proved about it.
Right == INSTANCE ChunkedDownloadProofs WITH
  Zero <- Zero, phase <- DownloadPhase, total <- DTotal, chunk <- DChunk, filled <- DFilled,
  open <- DOpen, data <- file_data

\* It is the same ChunkedDownload.
LEMMA SameStep == [Download!DNext]_(Download!dvars) => [Right!DNext]_(Right!dvars)
<1>1. Download!Plan => Right!Plan
  BY Zenon
  DEF Download!Plan, Right!Plan, Download!Partition, Right!Partition, DTotal, DChunk, DFilled,
      DOpen
<1>2. ASSUME NEW i \in DOpen PROVE Download!GiveUp(i) => Right!GiveUp(i)
  BY Zenon DEF Download!GiveUp, Right!GiveUp, DTotal, DChunk, DFilled, DOpen
<1>3. ASSUME NEW i \in DOpen, NEW p PROVE Download!Fill(i, p) => Right!Fill(i, p)
  BY Zenon DEF Download!Fill, Right!Fill, DTotal, DChunk, DFilled, DOpen
<1>4. Download!Write => Right!Write
  BY Zenon DEF Download!Write, Right!Write, DTotal, DChunk, DFilled, DOpen
<1>5. Download!Abort => Right!Abort
  BY Zenon DEF Download!Abort, Right!Abort, DTotal, DChunk, DFilled, DOpen
<1>6. UNCHANGED Download!dvars => UNCHANGED Right!dvars
  BY Zenon DEF Download!dvars, Right!dvars, DTotal, DChunk, DFilled, DOpen
<1>7. Download!DNext => Right!DNext
  BY <1>1, <1>2, <1>3, <1>4, <1>5, Zenon DEF Download!DNext, Right!DNext, DFilled, DOpen, DChunk
<1>8. QED
  BY <1>6, <1>7

(***************************************************************************)
(* What output.dat holds after losses and delays: in each chunk the right  *)
(* bytes up to where its thread got, and zeros after them                  *)
(* (tftp/client.c:263-279 writes the buffer whatever the threads say).     *)
(***************************************************************************)
THEOREM OutputRight ==
  ASSUME Reliable
  PROVE  Spec => []Download!RightUpToFilled
<1>1. Init => Right!DInit
  <2>1. Download!DInit => Right!DInit
    BY DEF Download!DInit, Right!DInit, DTotal, DChunk, DFilled, DOpen
  <2>2. QED
    BY <2>1, DownloadInit
<1>2. IndInv /\ RequestsOK /\ InOnePlace /\ [Next]_vars => [Right!DNext]_(Right!dvars)
  BY StepDownload, SameStep
<1>3. Right!DSpec => []Right!RightUpToFilled
  BY Right!DownloadRight
<1>4. Right!RightUpToFilled => Download!RightUpToFilled
  BY DEF Download!RightUpToFilled, Right!RightUpToFilled, DTotal, DChunk, DFilled, DOpen
<1>5. QED
  BY ConversationsHold, <1>1, <1>2, <1>3, <1>4, PTL DEF Spec, Right!DSpec
=============================================================================

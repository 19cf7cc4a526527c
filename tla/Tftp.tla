---------------------------------- MODULE Tftp ----------------------------------
(***************************************************************************)
(* The client and the servers of tftp/ over the network of TftpNet.        *)
(***************************************************************************)
EXTENDS TftpClient, TftpServer

vars == <<netVars, serverVars, clientVars>>

Init == NetInit /\ ServerInit /\ ClientInit

\* Something that leads to a datagram for thread i is under way.
ReplyComing(i) ==
  \/ \E m \in InFlight :
       m.port = i /\ (m.kind \in ToClient \/ srv[m.server] = "up")
  \/ \E w \in Workers :
       /\ worker[w].port = i
       /\ \/ worker[w].pc \in {"start", "send"}
          \/ worker[w].pc = "scan" /\ Matches(w) # {}

\* The servers and the network answer within TIMEOUT_SEC, unless a fault
\* delays the answer.
Timeout(i) ==
  /\ TimesOut(i)
  /\ IF ReplyComing(i) THEN Fault("delay") ELSE UNCHANGED faults

ClientMain == MainStep /\ UNCHANGED serverVars

ClientThreads ==
  /\ \E i \in DOMAIN thread : ThreadStep(i) \/ Timeout(i)
  /\ UNCHANGED serverVars

ServerMain(s) == MainReceive(s) /\ UNCHANGED clientVars

ServerWorker(w) == WorkerStep(w) /\ UNCHANGED clientVars

ServerEnvironment ==
  /\ \/ \E s \in Servers, m \in InFlight : RefuseRequest(s, m)
     \/ \E w \in Workers : SpuriousWakeup(w)
  /\ UNCHANGED clientVars

NetworkFault ==
  /\ \E m \in InFlight : Lose(m) \/ Duplicate(m)
  /\ UNCHANGED <<serverVars, clientVars>>

Next ==
  \/ ClientMain
  \/ ClientThreads
  \/ \E s \in Servers : ServerMain(s)
  \/ \E w \in Workers : ServerWorker(w)
  \/ ServerEnvironment
  \/ NetworkFault

\* Threads that can run do run, and a blocked recvfrom returns: with a
\* datagram or, in the client's threads, with the timeout.
Fairness ==
  /\ WF_vars(ClientMain)
  /\ WF_vars(ClientThreads)
  /\ \A s \in Servers : WF_vars(ServerMain(s))
  /\ \A w \in Workers : WF_vars(ServerWorker(w))

Spec == Init /\ [][Next]_vars

FairSpec == Spec /\ Fairness

-----------------------------------------------------------------------------
(***************************************************************************)
(* The variables keep their types, a queue never holds more than MaxQueue  *)
(* ACKs, the lock is held exactly by the thread that is in recvfrom, and   *)
(* main() creates the threads in order.                                    *)
(***************************************************************************)
NetTypeOK ==
  /\ net \in [InFlight -> Nat \ {0}]
  /\ InFlight \subseteq DatagramSet
  /\ faults \in 0 .. MaxFaults

ServerTypeOK ==
  /\ srv \in [Servers -> SrvStates]
  /\ ack_queue \in [Servers -> Seq(AckSet)]
  /\ \A s \in Servers : Len(ack_queue[s]) <= MaxQueue
  /\ worker \in [Workers -> WorkerSet]

ClientTypeOK ==
  /\ main \in MainStates
  /\ num_connections \in Int
  /\ file_size \in Nat
  /\ created \in Nat
  /\ main \in {"check", "size"} => lock = NoThread
  /\ main \in {"create", "join", "done"} =>
       /\ file_size > 0
       /\ num_connections \in 1 .. file_size
       /\ created <= num_connections
       /\ main = "create" => created < num_connections
       /\ \A i \in ThreadIds : i >= created => thread[i].pc = "new"
       /\ DOMAIN thread = ThreadIds
       /\ DOMAIN file_data = 0 .. file_size - 1
  /\ thread \in [DOMAIN thread -> ThreadSet]
  /\ file_data \in [DOMAIN file_data -> Int]
  /\ Running => \A i \in ThreadIds : thread[i].pc = "receive" <=> lock = i

TypeOK == NetTypeOK /\ ServerTypeOK /\ ClientTypeOK

(***************************************************************************)
(* A handler never sleeps while its ACK is in the queue: the main thread   *)
(* puts an ACK and wakes the handlers in one critical section, and a       *)
(* handler searches the queue and goes to sleep in one                     *)
(* (tftp/server.c:122-141, 207-215).                                       *)
(***************************************************************************)
NoLostWakeup ==
  \A w \in Workers : worker[w].pc = "asleep" => Matches(w) = {}

(***************************************************************************)
(* Every ACK in a queue is the one that a handler of that server waits     *)
(* for, so no slot of the queue is lost for ever.  It takes a network that *)
(* duplicates nothing and servers that have the file.                      *)
(***************************************************************************)
QueuedAcksAwaited ==
  \A s \in Servers : \A k \in DOMAIN ack_queue[s] :
    \E w \in Workers :
      /\ worker[w].server = s
      /\ worker[w].pc \in {"scan", "asleep"}
      /\ Awaited(w, ack_queue[s][k])

(***************************************************************************)
(* The comment of tftp/client.c:132: a thread writes only to its own part  *)
(* of file_data.  A step in which thread i does nothing leaves the bytes   *)
(* of chunk i alone, even with duplicated packets and error replies.       *)
(***************************************************************************)
ChunkIsolation ==
  [][Running =>
       \A i \in ThreadIds :
         thread'[i] = thread[i] =>
           \A j \in TaskChunk(i) : file_data'[j] = file_data[j]]_vars

(***************************************************************************)
(* The output pointer of a thread stays in its chunk, or right behind it,  *)
(* whatever arrives (tftp/client.c:116-123): packets that come twice, or   *)
(* error messages taken for packets.                                       *)
(***************************************************************************)
OutputInChunk ==
  main \in {"create", "join", "done"} =>
    \A i \in ThreadIds :
      /\ OutputPos(i) >= TaskOffset(i)
      /\ OutputPos(i) <= TaskOffset(i) + TaskSize(i)

(***************************************************************************)
(* The file is in output.dat.                                              *)
(***************************************************************************)
Complete ==
  /\ main = "done"
  /\ file_size = HostedSize[0]
  /\ \A j \in 0 .. file_size - 1 : file_data[j] = j

(***************************************************************************)
(* Without faults the download ends with a complete output.dat, although   *)
(* the datagrams arrive in any order.                                      *)
(***************************************************************************)
Delivered == [](faults = 0) => <>Complete

(***************************************************************************)
(* Once the threads run, a complete output.dat follows (README.md:6 "UDP   *)
(* version handles basic retransmission.").                                *)
(***************************************************************************)
DownloadCompletes == Running ~> Complete

(***************************************************************************)
(* Without faults no handler is left behind: each one gets its last ACK    *)
(* and exits, although the wait for it has no timeout                      *)
(* (tftp/server.c:138).                                                    *)
(***************************************************************************)
HandlersEnd == [](faults = 0) => <>[](\A w \in Workers : ~Live(w))

(***************************************************************************)
(* Once the client knows the size it always ends: every thread gives up    *)
(* after MaxRetries timeouts in a row, although it holds the lock that the *)
(* others need while it waits (tftp/client.c:74-94).                       *)
(***************************************************************************)
ClientEnds == Running ~> (main \in {"done", "failed"})

(***************************************************************************)
(* A thread that exits with status 0 has its whole chunk                   *)
(* (tftp/client.c:139 "Success") or, when it could not send its request,   *)
(* nothing of it (tftp/client.c:47, 64): never a part.  This is claimed of *)
(* a network that duplicates nothing: a packet that comes twice is stored  *)
(* and counted twice (tftp/client.c:130).                                  *)
(***************************************************************************)
StatusZeroAllOrNothing ==
  main \in {"create", "join", "done"} =>
    \A i \in ThreadIds :
      thread[i].pc = "exited" /\ thread[i].status = 0 =>
        \/ \A j \in TaskChunk(i) : file_data[j] = j
        \/ \A j \in TaskChunk(i) : file_data[j] = Zero

(***************************************************************************)
(* A server whose copy has the size that CHECK reported is never brought   *)
(* down by a request (tftp/server.c:84-89 exits the whole process).        *)
(***************************************************************************)
ServersSurvive ==
  \A s \in Servers : HostedSize[s] = HostedSize[0] => srv[s] # "down"

-----------------------------------------------------------------------------
(***************************************************************************)
(* The client as a ChunkedDownload.                                        *)
(***************************************************************************)
Planned == main \in {"create", "join", "done"} \/ (main = "failed" /\ thread # << >>)

DownloadPhase ==
  CASE main \in {"check", "size"}      -> "sizing"
    [] main \in {"create", "join"}     -> "fetching"
    [] main = "done"                   -> "written"
    [] main \in {"failed", "sigfpe"}   -> "aborted"

Download == INSTANCE ChunkedDownload WITH
  Zero   <- Zero,
  phase  <- DownloadPhase,
  total  <- IF Planned THEN file_size ELSE 0,
  chunk  <- [i \in DOMAIN thread |->
               [lo |-> TaskOffset(i), hi |-> TaskOffset(i) + TaskSize(i)]],
  filled <- [i \in DOMAIN thread |-> OutputPos(i)],
  open   <- {i \in DOMAIN thread : thread[i].pc # "exited"},
  data   <- file_data

(***************************************************************************)
(* On a network that duplicates nothing, and with servers that agree on    *)
(* the file, the TFTP download is a ChunkedDownload, whatever is lost,     *)
(* delayed or refused.                                                     *)
(***************************************************************************)
RefinesDownload == Download!DSpec
=============================================================================

------------------------------ MODULE TftpServer ------------------------------
(***************************************************************************)
(* The TFTP servers (tftp/server.c), one process per element of Servers.   *)
(*                                                                         *)
(* The main thread of a server takes datagrams from the socket: an ACK     *)
(* goes to ack_queue, which it shares with the handlers, and any other     *)
(* request gets a handler thread of its own.  A handler sends its chunk    *)
(* packet by packet and waits on a condition variable for the ACK of each. *)
(* Neither the sending nor the waiting has a timeout.                      *)
(*                                                                         *)
(* A step is the code between two operations on shared state: a critical   *)
(* section of ack_queue_lock is one step, as is a sendto or a recvfrom.    *)
(***************************************************************************)
EXTENDS TftpNet, SequencesExt

CONSTANTS
  HostedSize,   \* the size of a server's copy of the file, NoFile if it has none
  Payload,      \* BUFFER_SIZE - sizeof(seq_num), the file bytes in a full packet
  MaxQueue,     \* MAX_QUEUE_SIZE
  MaxWorkers    \* BOUND: handler threads alive at the same time, at least one per
                \* connection and per request that is duplicated

NoFile == -1

ASSUME ServerAssumption ==
  /\ HostedSize \in [Servers -> Nat \cup {NoFile}]
  /\ Payload \in Nat \ {0}
  /\ MaxQueue \in Nat \ {0}
  /\ MaxWorkers \in Nat \ {0}

VARIABLES
  srv,        \* srv[s]: the process and its socket, see SrvStates
  ack_queue,  \* ack_queue[s][1 .. ack_queue_size]
  worker      \* worker[w]: a handler thread

serverVars == <<srv, ack_queue, worker>>

\* "closing": a handler closed the shared socket while the main thread waits
\* in recvfrom, which may still return one datagram; "deaf": recvfrom and
\* sendto fail from now on; "down": the process has exited.
SrvStates == {"up", "closing", "deaf", "down"}

Workers == 1 .. MaxWorkers

\* "send": at the head of the loop; "scan": about to search ack_queue;
\* "asleep": in pthread_cond_wait.
WorkerStates == {"free", "start", "send", "scan", "asleep"}

WorkerSet ==
  [pc : WorkerStates, kind : {"CHECK", "GET"}, server : Servers, port : Int,
   offset : Nat, seq : Nat, remaining : Nat]

\* The value of a slot that no thread uses.
NoWorker ==
  [pc |-> "free", kind |-> "CHECK", server |-> 0, port |-> 0,
   offset |-> 0, seq |-> 0, remaining |-> 0]

AckSet == [port : Int, seq : Int]

ServerInit ==
  /\ srv = [s \in Servers |-> "up"]
  /\ ack_queue = [s \in Servers |-> << >>]
  /\ worker = [w \in Workers |-> NoWorker]

Live(w) == worker[w].pc # "free"

-----------------------------------------------------------------------------
(***************************************************************************)
(* The main thread.                                                        *)
(***************************************************************************)

\* What recvfrom does to the socket that a handler has closed meanwhile.
AfterReceive(s) == [srv EXCEPT ![s] = IF @ = "closing" THEN "deaf" ELSE @]

Receivable(s, m) ==
  /\ srv[s] \in {"up", "closing"}
  /\ m \in InFlight
  /\ m.server = s
  /\ m.kind \in ToServer

\* pthread_cond_signal: only one handler wakes up.
WakeOne(s) ==
  LET sleeping == {w \in Workers : worker[w].pc = "asleep" /\ worker[w].server = s}
  IN  [w \in Workers |->
         IF w \in sleeping /\ \A v \in sleeping : w <= v
           THEN [worker[w] EXCEPT !.pc = "scan"] ELSE worker[w]]

\* pthread_cond_broadcast: every handler of the server that sleeps wakes up.
WakeAll(s) ==
  [w \in Workers |->
     IF worker[w].pc = "asleep" /\ worker[w].server = s
       THEN [worker[w] EXCEPT !.pc = "scan"] ELSE worker[w]]

\* An ACK for a full queue is dropped, and nobody hears of it.
ReceiveAck(s, m) ==
  /\ Receivable(s, m)
  /\ m.kind = "ACK"
  /\ IF Len(ack_queue[s]) < MaxQueue
       THEN /\ ack_queue' = [ack_queue EXCEPT
                               ![s] = Append(@, [port |-> m.port, seq |-> m.seq])]
            /\ worker' = WakeAll(s)
       ELSE UNCHANGED <<ack_queue, worker>>
  /\ srv' = AfterReceive(s)
  /\ Consume(m)
  /\ UNCHANGED faults

\* The handler of a CHECK or GET starts in the first free slot.
ReceiveRequest(s, m, w) ==
  /\ Receivable(s, m)
  /\ m.kind \in {"CHECK", "GET"}
  /\ ~Live(w) /\ \A v \in 1 .. w - 1 : Live(v)
  /\ worker' = [worker EXCEPT ![w] =
                  [pc |-> "start", kind |-> m.kind, server |-> s, port |-> m.port,
                   offset |-> m.from, seq |-> 0, remaining |-> m.len]]
  /\ srv' = AfterReceive(s)
  /\ Consume(m)
  /\ UNCHANGED <<ack_queue, faults>>

\* pthread_create fails: the request is forgotten.
RefuseRequest(s, m) ==
  /\ Receivable(s, m)
  /\ m.kind \in {"CHECK", "GET"}
  /\ Fault("create")
  /\ srv' = AfterReceive(s)
  /\ Consume(m)
  /\ UNCHANGED <<ack_queue, worker>>

-----------------------------------------------------------------------------
(***************************************************************************)
(* The handler thread, handle_request.                                     *)
(***************************************************************************)

Exits(w) == worker' = [worker EXCEPT ![w] = NoWorker]

\* A reply whose sendto is not checked: with the socket closed nothing is sent.
SendUnchecked(s, m) == net' = IF srv[s] = "up" THEN BagAdd(net, m) ELSE net

HandleCheck(w) ==
  LET s == worker[w].server
      p == worker[w].port
  IN  /\ worker[w].pc = "start"
      /\ worker[w].kind = "CHECK"
      /\ SendUnchecked(s, IF HostedSize[s] = NoFile THEN Error(p, s)
                          ELSE Ok(p, s, HostedSize[s]))
      /\ Exits(w)
      /\ UNCHANGED <<srv, ack_queue, faults>>

HandleGetMissing(w) ==
  LET s == worker[w].server
  IN  /\ worker[w].pc = "start"
      /\ worker[w].kind = "GET"
      /\ HostedSize[s] = NoFile
      /\ SendUnchecked(s, Error(worker[w].port, s))
      /\ Exits(w)
      /\ UNCHANGED <<srv, ack_queue, faults>>

\* A chunk that ends with the file is refused.
InRangeStrictly(w) ==
  worker[w].offset + worker[w].remaining < HostedSize[worker[w].server]

InRange(w) ==
  LET size == HostedSize[worker[w].server]
  IN  /\ worker[w].offset < size
      /\ worker[w].offset + worker[w].remaining <= size

\* A chunk outside the file: exit() ends the whole server, all its handlers
\* included.
HandleGetOutOfRange(w) ==
  LET s == worker[w].server
  IN  /\ worker[w].pc = "start"
      /\ worker[w].kind = "GET"
      /\ HostedSize[s] # NoFile
      /\ ~InRange(w)
      /\ srv' = [srv EXCEPT ![s] = "down"]
      /\ worker' = [v \in Workers |-> IF worker[v].server = s THEN NoWorker
                                      ELSE worker[v]]
      /\ UNCHANGED <<ack_queue, net, faults>>

\* The loop of a handler ends when no byte remains.
NextPacket(record) == IF record.remaining > 0 THEN [record EXCEPT !.pc = "send"]
                      ELSE NoWorker

HandleGet(w) ==
  /\ worker[w].pc = "start"
  /\ worker[w].kind = "GET"
  /\ HostedSize[worker[w].server] # NoFile
  /\ InRange(w)
  /\ worker' = [worker EXCEPT ![w] = NextPacket(@)]
  /\ UNCHANGED <<srv, ack_queue, netVars>>

PacketLen(w) ==
  IF worker[w].remaining > Payload THEN Payload ELSE worker[w].remaining

\* Without the fseek to the chunk.
PacketFromStart(w) == worker[w].seq * Payload

\* The position of the file after seq packets: all but the last are full.
PacketFrom(w) == worker[w].offset + worker[w].seq * Payload

SendPacket(w) ==
  LET s == worker[w].server
  IN  /\ worker[w].pc = "send"
      /\ srv[s] = "up"
      /\ Send(Data(worker[w].port, s, worker[w].seq, PacketFrom(w), PacketLen(w)))
      /\ worker' = [worker EXCEPT ![w].pc = "scan"]
      /\ UNCHANGED <<srv, ack_queue, faults>>

\* sendto fails, as it always does on the closed socket.  The handler closes
\* the socket of the whole server.
SendPacketFails(w) ==
  LET s == worker[w].server
  IN  /\ worker[w].pc = "send"
      /\ IF srv[s] = "up" THEN Fault("send") ELSE UNCHANGED faults
      /\ srv' = [srv EXCEPT ![s] = IF @ = "up" THEN "closing" ELSE @]
      /\ Exits(w)
      /\ UNCHANGED <<ack_queue, net>>

\* The client's address is not compared.
AwaitedByAnyone(w, ack) == ack.seq = worker[w].seq

\* The ACKs that handler w waits for: its packet, its client.
Awaited(w, ack) == ack.seq = worker[w].seq /\ ack.port = worker[w].port

\* Where they are in the queue.
Matches(w) ==
  LET queue == ack_queue[worker[w].server]
  IN  {k \in 1 .. Len(queue) : Awaited(w, queue[k])}

\* The handler once its packet is acknowledged.
Acknowledged(w) ==
  [worker[w] EXCEPT !.seq = @ + 1, !.remaining = @ - PacketLen(w)]

\* The match stays in the queue.
TakeAckAndKeep(w) ==
  /\ worker[w].pc = "scan"
  /\ Matches(w) # {}
  /\ worker' = [worker EXCEPT ![w] = NextPacket(Acknowledged(w))]
  /\ UNCHANGED <<srv, ack_queue, netVars>>

\* The first match is taken out of the queue.
TakeAck(w) ==
  LET s == worker[w].server
  IN  /\ worker[w].pc = "scan"
      /\ \E k \in Matches(w) :
           /\ \A m \in Matches(w) : k <= m
           /\ ack_queue' = [ack_queue EXCEPT ![s] = RemoveAt(@, k)]
      /\ worker' = [worker EXCEPT ![w] = NextPacket(Acknowledged(w))]
      /\ UNCHANGED <<srv, netVars>>

\* No match: pthread_cond_wait gives the lock back and sleeps, in one step.
Sleep(w) ==
  /\ worker[w].pc = "scan"
  /\ Matches(w) = {}
  /\ worker' = [worker EXCEPT ![w].pc = "asleep"]
  /\ UNCHANGED <<srv, ack_queue, netVars>>

\* pthread_cond_wait may return without a broadcast.
SpuriousWakeup(w) ==
  /\ worker[w].pc = "asleep"
  /\ worker' = [worker EXCEPT ![w].pc = "scan"]
  /\ UNCHANGED <<srv, ack_queue, netVars>>

-----------------------------------------------------------------------------
MainReceive(s) ==
  \E m \in InFlight :
    \/ ReceiveAck(s, m)
    \/ \E w \in Workers : ReceiveRequest(s, m, w)

WorkerStep(w) ==
  \/ HandleCheck(w)
  \/ HandleGetMissing(w)
  \/ HandleGetOutOfRange(w)
  \/ HandleGet(w)
  \/ SendPacket(w)
  \/ SendPacketFails(w)
  \/ TakeAck(w)
  \/ Sleep(w)
=============================================================================

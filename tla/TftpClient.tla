------------------------------ MODULE TftpClient ------------------------------
(***************************************************************************)
(* The TFTP client (tftp/client.c): main() asks the first server for the   *)
(* size of the file, plans the chunks, creates one download_chunk thread   *)
(* per chunk, waits for all of them and writes output.dat.                 *)
(*                                                                         *)
(* A byte of the file is represented by its position, so file_data[j] = j  *)
(* says that byte j of the buffer is right.  A step is the code between    *)
(* two operations on shared state: taking shared_socket_lock, recvfrom     *)
(* (which gives the lock back), the locked sendto with what follows it.    *)
(***************************************************************************)
EXTENDS TftpNet, ChunkPlan

CONSTANTS
  Arguments,     \* the values of num_connections = atoi(argv[2])
  MaxRetries,    \* MAX_RETRIES
  ErrorPayload,  \* the bytes of "ERROR File not found" after the first eight
  UninitSizes    \* what an uninitialised file_size may hold

ASSUME ClientAssumption ==
  /\ Arguments \subseteq Int
  /\ MaxRetries \in Nat
  /\ ErrorPayload \in Nat \ {0}
  /\ UninitSizes \subseteq Nat

VARIABLES
  main,             \* where main() is, see MainStates
  num_connections,
  file_size,
  file_data,        \* the buffer, which output.dat is a copy of
  created,          \* the loop index of main(): threads created so far
  thread,           \* thread[i]: download_chunk for tasks[i]
  lock              \* the holder of shared_socket_lock

clientVars ==
  <<main, num_connections, file_size, file_data, created, thread, lock>>

\* "size": in recvfrom for the reply to CHECK; "join": waiting for the
\* threads; "failed": ended without output.dat; "sigfpe": killed by the
\* division.
MainStates == {"check", "size", "create", "join", "done", "failed", "sigfpe"}

\* "loop": at the head of the while loop, wanting the lock; "receive": in
\* recvfrom, holding the lock; "ack": with a datagram in buffer.
ThreadStates == {"new", "request", "loop", "receive", "ack", "exited"}

NoThread == -1
Zero     == -1    \* a byte of file_data as calloc left it
Junk     == -2    \* a byte of an error message

NoDatagram == Check(0)

ThreadSet ==
  [pc : ThreadStates, remaining : Nat, retries : Nat, status : {0, 1},
   buffer : DatagramSet]

\* Of the threads and sockets of a process only the running one acts.
Running == main \in {"create", "join"}

ThreadIds == 0 .. num_connections - 1

ClientInit ==
  /\ main = "check"
  /\ num_connections \in Arguments
  /\ file_size = 0
  /\ file_data = << >>
  /\ created = 0
  /\ thread = << >>
  /\ lock = NoThread

-----------------------------------------------------------------------------
(***************************************************************************)
(* main()                                                                  *)
(***************************************************************************)

SendCheck ==
  /\ main = "check"
  /\ Send(Check(0))
  /\ main' = "size"
  /\ UNCHANGED <<num_connections, file_size, file_data, created, thread, lock, faults>>

SendCheckFails ==
  /\ main = "check"
  /\ Fault("send")
  /\ main' = "failed"
  /\ UNCHANGED <<num_connections, file_size, file_data, created, thread, lock, net>>

\* The size read from the reply.  sscanf leaves file_size alone when the reply
\* is not an OK.
SizeIn(m) == IF m.kind = "OK" THEN {m.len} ELSE UninitSizes

CheckReply(m) ==
  /\ main = "size"
  /\ m \in InFlight
  /\ m.port = CheckPort
  /\ m.kind \in ToClient
  /\ Consume(m)
  /\ created' = 0
  /\ UNCHANGED lock

\* A size with which the client goes on: it plans the chunks and clears the
\* buffer.
GetSize(m) ==
  /\ CheckReply(m)
  /\ file_size' \in SizeIn(m) \ {0}
  /\ ~DividesByZero(file_size', num_connections)
  /\ main' = "create"
  /\ num_connections' = Connections(file_size', num_connections)
  /\ file_data' = [j \in 0 .. file_size' - 1 |-> Zero]
  /\ thread' = [i \in 0 .. num_connections' - 1 |->
                  [pc |-> "new", remaining |-> Size(file_size', num_connections', i),
                   retries |-> 0, status |-> 0, buffer |-> NoDatagram]]
  /\ UNCHANGED faults

\* An empty file, a division by zero, or a buffer that cannot be allocated.
GetSizeFails(m) ==
  /\ CheckReply(m)
  /\ file_size' \in SizeIn(m)
  /\ \/ file_size' = 0 /\ main' = "failed" /\ UNCHANGED faults
     \/ /\ file_size' # 0
        /\ DividesByZero(file_size', num_connections)
        /\ main' = "sigfpe"
        /\ UNCHANGED faults
     \/ /\ file_size' # 0
        /\ ~DividesByZero(file_size', num_connections)
        /\ Fault("create")
        /\ main' = "failed"
  /\ UNCHANGED <<num_connections, file_data, thread>>

\* ValidTask holds for every task, see ChunkPlanProofs!TasksValid; were it to
\* fail the client would exit.
CreateThread ==
  /\ main = "create"
  /\ ValidTask(file_size, num_connections, created)
  /\ thread' = [thread EXCEPT ![created].pc = "request"]
  /\ created' = created + 1
  /\ main' = IF created + 1 = num_connections THEN "join" ELSE "create"
  /\ UNCHANGED <<num_connections, file_size, file_data, lock, netVars>>

\* pthread_create fails: the process exits, its other threads with it.
CreateThreadFails ==
  /\ main = "create"
  /\ Fault("create")
  /\ main' = "failed"
  /\ UNCHANGED <<num_connections, file_size, file_data, created, thread, lock, net>>

\* All threads are joined.  A status other than 0 is only reported; the buffer
\* is written out whatever the threads say.
WriteOutput ==
  /\ main = "join"
  /\ \A i \in ThreadIds : thread[i].pc = "exited"
  /\ main' = "done"
  /\ UNCHANGED <<num_connections, file_size, file_data, created, thread, lock, netVars>>

-----------------------------------------------------------------------------
(***************************************************************************)
(* download_chunk, thread i.                                               *)
(***************************************************************************)

mainVars == <<main, num_connections, file_size, created>>

TaskOffset(i) == Offset(file_size, num_connections, i)
TaskSize(i)   == Size(file_size, num_connections, i)
TaskChunk(i)  == Chunk(file_size, num_connections, i)
TaskServer(i) == ServerOf(i, NumServers)

\* output_ptr, as a position in file_data.
OutputPos(i) == TaskOffset(i) + TaskSize(i) - thread[i].remaining

ExitWith(i, status) ==
  thread' = [thread EXCEPT ![i].pc = "exited", ![i].status = status,
                           ![i].buffer = NoDatagram]

SendGet(i) ==
  /\ Running
  /\ thread[i].pc = "request"
  /\ Send(Get(i, TaskServer(i), TaskOffset(i), TaskSize(i)))
  /\ thread' = [thread EXCEPT ![i].pc = "loop"]
  /\ UNCHANGED <<mainVars, file_data, lock, faults>>

\* No socket, or sendto fails: pthread_exit(NULL), which is status 0.
SendGetFails(i) ==
  /\ Running
  /\ thread[i].pc = "request"
  /\ Fault("send")
  /\ ExitWith(i, 0)
  /\ UNCHANGED <<mainVars, file_data, lock, net>>

Lock(i) ==
  /\ Running
  /\ thread[i].pc = "loop"
  /\ lock = NoThread
  /\ lock' = i
  /\ thread' = [thread EXCEPT ![i].pc = "receive"]
  /\ UNCHANGED <<mainVars, file_data, netVars>>

Receive(i, m) ==
  /\ Running
  /\ thread[i].pc = "receive"
  /\ m \in InFlight
  /\ m.port = i
  /\ m.kind \in ToClient
  /\ Consume(m)
  /\ lock' = NoThread
  /\ thread' = [thread EXCEPT ![i].pc = "ack", ![i].buffer = m]
  /\ UNCHANGED <<mainVars, file_data, faults>>

\* The timeout is not counted: the thread tries for ever.
UncountedTimesOut(i) ==
  /\ Running
  /\ thread[i].pc = "receive"
  /\ lock' = NoThread
  /\ thread' = [thread EXCEPT ![i].pc = "loop"]
  /\ UNCHANGED <<mainVars, file_data, net>>

\* The lock is not given back when the retries are used up.
TimesOutLocked(i) ==
  /\ Running
  /\ thread[i].pc = "receive"
  /\ IF thread[i].retries + 1 > MaxRetries
       THEN ExitWith(i, 1) /\ UNCHANGED lock
       ELSE /\ thread' = [thread EXCEPT ![i].pc = "loop", ![i].retries = @ + 1]
            /\ lock' = NoThread
  /\ UNCHANGED <<mainVars, file_data, net>>

\* recvfrom returns after TIMEOUT_SEC.  The request is not sent again.
TimesOut(i) ==
  /\ Running
  /\ thread[i].pc = "receive"
  /\ lock' = NoThread
  /\ IF thread[i].retries + 1 > MaxRetries
       THEN ExitWith(i, 1)
       ELSE thread' = [thread EXCEPT ![i].pc = "loop", ![i].retries = @ + 1]
  /\ UNCHANGED <<mainVars, file_data, net>>

PayloadSize(m) == IF m.kind = "ERROR" THEN ErrorPayload ELSE m.len

\* The byte of m that goes to position pos + k.
PayloadByte(m, k) == IF m.kind = "ERROR" THEN Junk ELSE m.from + k

\* memcpy to the output pointer, whatever the sequence number is.
Stored(i, m) ==
  [j \in DOMAIN file_data |->
     IF j >= OutputPos(i) /\ j < OutputPos(i) + PayloadSize(m)
       THEN PayloadByte(m, j - OutputPos(i)) ELSE file_data[j]]

\* Without the test against bytes_remaining.
AlwaysFits(i, m) == TRUE

\* The two tests before the memcpy.
Fits(i, m) ==
  /\ PayloadSize(m) <= thread[i].remaining
  /\ OutputPos(i) + PayloadSize(m) <= TaskOffset(i) + TaskSize(i)

\* The acknowledgment goes out under the lock, before the tests.
AckAndStore(i) ==
  LET m == thread[i].buffer
      r == thread[i].remaining - PayloadSize(m)
  IN  /\ Running
      /\ thread[i].pc = "ack"
      /\ lock = NoThread
      /\ Send(Ack(i, m.server, m.seq))
      /\ IF Fits(i, m)
           THEN /\ file_data' = Stored(i, m)
                /\ thread' = [thread EXCEPT ![i].pc = IF r > 0 THEN "loop" ELSE "exited",
                                            ![i].remaining = r, ![i].retries = 0,
                                            ![i].buffer = NoDatagram]
           ELSE /\ ExitWith(i, 1)
                /\ UNCHANGED file_data
      /\ UNCHANGED <<mainVars, lock, faults>>

AckFails(i) ==
  /\ Running
  /\ thread[i].pc = "ack"
  /\ lock = NoThread
  /\ Fault("send")
  /\ ExitWith(i, 1)
  /\ UNCHANGED <<mainVars, file_data, lock, net>>

-----------------------------------------------------------------------------
MainStep ==
  \/ SendCheck
  \/ SendCheckFails
  \/ \E m \in InFlight : GetSize(m) \/ GetSizeFails(m)
  \/ CreateThread
  \/ CreateThreadFails
  \/ WriteOutput

\* Timeouts are added by Tftp, which knows whether a reply is on its way.
ThreadStep(i) ==
  \/ SendGet(i)
  \/ SendGetFails(i)
  \/ Lock(i)
  \/ \E m \in InFlight : Receive(i, m)
  \/ AckAndStore(i)
  \/ AckFails(i)
=============================================================================

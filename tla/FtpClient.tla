------------------------------- MODULE FtpClient -------------------------------
(***************************************************************************)
(* The FTP client (ftp/client.c).  It works as the TFTP client does, with  *)
(* one TCP connection per chunk: no locks, no acknowledgments, and the     *)
(* retries are those of connect().                                         *)
(***************************************************************************)
EXTENDS FtpServer, ChunkPlan

CONSTANTS
  Arguments,     \* the values of num_connections = atoi(argv[2])
  MaxRetries,    \* the initial value of retries
  UninitSizes    \* what an uninitialised file_size may hold

ASSUME FtpClientAssumption ==
  /\ Arguments \subseteq Int
  /\ MaxRetries \in Nat \ {0}
  /\ UninitSizes \subseteq Nat

VARIABLES main, num_connections, file_size, file_data, created, thread

ftpClientVars == <<main, num_connections, file_size, file_data, created, thread>>

MainStates == {"check", "size", "create", "join", "done", "failed", "sigfpe", "sigpipe"}

ThreadStates == {"new", "connect", "request", "recv", "exited"}

\* accepted: connect() has succeeded, which the code does not keep.
ThreadSet ==
  [pc : ThreadStates, retries : Nat, remaining : Nat, status : {0, 1},
   accepted : BOOLEAN]

Zero == -1

Running == main \in {"create", "join"}

ThreadIds == 0 .. num_connections - 1

ClientInit ==
  /\ main = "check"
  /\ num_connections \in Arguments
  /\ file_size = 0
  /\ file_data = << >>
  /\ created = 0
  /\ thread = << >>
  /\ conn = [c \in {CheckConn} |-> NewConn]

-----------------------------------------------------------------------------
(***************************************************************************)
(* main()                                                                  *)
(***************************************************************************)

SendCheck ==
  /\ main = "check"
  /\ CanConnect(0)
  /\ conn' = [conn EXCEPT ![CheckConn].request = "CHECK"]
  /\ backlog' = [backlog EXCEPT ![0] = Append(@, CheckConn)]
  /\ main' = "size"
  /\ UNCHANGED <<hosted, free, srv, faults, num_connections, file_size, file_data, created, thread>>

\* The result of connect() is not tested: write() to the unconnected socket
\* raises SIGPIPE.
SendCheckFails ==
  /\ main = "check"
  /\ Fault("connect")
  /\ main' = "sigpipe"
  /\ UNCHANGED <<ftpServerVars, num_connections, file_size, file_data, created, thread>>

\* read() returns the reply or, on a connection that is gone, nothing;
\* file_size is set by an OK only.
SizeIn(c) ==
  IF c.stream # << >> /\ c.stream # <<Junk>> THEN {c.stream[1]} ELSE UninitSizes

ReadSize ==
  LET c == conn[CheckConn]
  IN  /\ main = "size"
      /\ c.stream # << >> \/ ~c.server
      /\ file_size' \in SizeIn(c)
      /\ created' = 0
      /\ UNCHANGED <<hosted, free, backlog, srv>>

\* main() closes the connection of CHECK; those of the threads start fresh.
GetSize ==
  /\ ReadSize
  /\ file_size' # 0
  /\ ~DividesByZero(file_size', num_connections)
  /\ main' = "create"
  /\ num_connections' = Connections(file_size', num_connections)
  /\ file_data' = [j \in 0 .. file_size' - 1 |-> Zero]
  /\ thread' = [i \in 0 .. num_connections' - 1 |->
                  [pc |-> "new", retries |-> MaxRetries,
                   remaining |-> Size(file_size', num_connections', i),
                   status |-> 0, accepted |-> FALSE]]
  /\ conn' = [c \in {CheckConn} \cup (0 .. num_connections' - 1) |->
                IF c = CheckConn THEN [conn[c] EXCEPT !.client = FALSE] ELSE NewConn]
  /\ UNCHANGED faults

GetSizeFails ==
  /\ ReadSize
  /\ \/ file_size' = 0 /\ main' = "failed" /\ UNCHANGED faults
     \/ /\ file_size' # 0
        /\ DividesByZero(file_size', num_connections)
        /\ main' = "sigfpe"
        /\ UNCHANGED faults
     \/ /\ file_size' # 0
        /\ ~DividesByZero(file_size', num_connections)
        /\ Fault("create")
        /\ main' = "failed"
  /\ conn' = [conn EXCEPT ![CheckConn].client = FALSE]
  /\ UNCHANGED <<num_connections, file_data, thread>>

CreateThread ==
  /\ main = "create"
  /\ ValidTask(file_size, num_connections, created)
  /\ thread' = [thread EXCEPT ![created].pc = "connect"]
  /\ created' = created + 1
  /\ main' = IF created + 1 = num_connections THEN "join" ELSE "create"
  /\ UNCHANGED <<ftpServerVars, faults, num_connections, file_size, file_data>>

\* pthread_create fails: the process exits and all its connections close.
CreateThreadFails ==
  /\ main = "create"
  /\ Fault("create")
  /\ main' = "failed"
  /\ conn' = [c \in DOMAIN conn |-> [conn[c] EXCEPT !.client = FALSE]]
  /\ UNCHANGED <<hosted, free, backlog, srv, num_connections, file_size, file_data, created, thread>>

WriteOutput ==
  /\ main = "join"
  /\ \A i \in ThreadIds : thread[i].pc = "exited"
  /\ main' = "done"
  /\ UNCHANGED <<ftpServerVars, faults, num_connections, file_size, file_data, created, thread>>

-----------------------------------------------------------------------------
(***************************************************************************)
(* download_chunk, thread i.                                               *)
(***************************************************************************)

mainVars == <<main, num_connections, file_size, created>>

TaskOffset(i) == Offset(file_size, num_connections, i)
TaskSize(i)   == Size(file_size, num_connections, i)
TaskChunk(i)  == Chunk(file_size, num_connections, i)
TaskServer(i) == ServerOf(i, NumServers)

OutputPos(i) == TaskOffset(i) + TaskSize(i) - thread[i].remaining

ExitWith(i, status) ==
  thread' = [thread EXCEPT ![i].pc = "exited", ![i].status = status]

\* connect() succeeds.  After MaxRetries failures the thread then finds
\* retries == 0, takes itself for unconnected, closes and exits.
Connect(i) ==
  LET lastTry == thread[i].retries = 0
  IN  /\ Running
      /\ thread[i].pc = "connect"
      /\ CanConnect(TaskServer(i))
      /\ backlog' = [backlog EXCEPT ![TaskServer(i)] = Append(@, i)]
      /\ conn' = [conn EXCEPT ![i].client = ~lastTry]
      /\ thread' = [thread EXCEPT ![i].pc = IF lastTry THEN "exited" ELSE "request",
                                  ![i].accepted = TRUE]
      /\ UNCHANGED <<mainVars, file_data, hosted, free, srv, faults>>

\* The number of retries is not counted down.
ConnectFailsUncounted(i) ==
  /\ Running
  /\ thread[i].pc = "connect"
  /\ ~Up(TaskServer(i))
  /\ UNCHANGED <<mainVars, file_data, thread, ftpServerVars, faults>>

\* Refused by a server that is down, or failed for a reason of its own.
ConnectFails(i) ==
  /\ Running
  /\ thread[i].pc = "connect"
  /\ IF Up(TaskServer(i)) THEN Fault("connect") ELSE UNCHANGED faults
  /\ IF thread[i].retries > 0
       THEN thread' = [thread EXCEPT ![i].retries = @ - 1]
       ELSE ExitWith(i, 0)
  /\ UNCHANGED <<mainVars, file_data, ftpServerVars>>

\* On a connection that is gone write() may still succeed; nothing arrives.
SendGet(i) ==
  /\ Running
  /\ thread[i].pc = "request"
  /\ conn' = IF conn[i].server
               THEN [conn EXCEPT ![i].request = "GET", ![i].offset = TaskOffset(i),
                                 ![i].size = TaskSize(i)]
               ELSE conn
  /\ thread' = [thread EXCEPT ![i].pc = "recv"]
  /\ UNCHANGED <<mainVars, file_data, hosted, free, backlog, srv, faults>>

\* write() fails on a connection that was reset: pthread_exit(NULL).
SendGetFails(i) ==
  /\ Running
  /\ thread[i].pc = "request"
  /\ ~conn[i].server
  /\ conn' = [conn EXCEPT ![i].client = FALSE]
  /\ ExitWith(i, 0)
  /\ UNCHANGED <<mainVars, file_data, hosted, free, backlog, srv, faults>>

\* output_ptr is not advanced: every recv() writes to the start of the chunk.
StoredAtStart(i, k) ==
  [j \in DOMAIN file_data |->
     IF j >= TaskOffset(i) /\ j < TaskOffset(i) + k
       THEN conn[i].stream[j - TaskOffset(i) + 1] ELSE file_data[j]]

\* The first k bytes of what has arrived go to the output pointer.
Stored(i, k) ==
  [j \in DOMAIN file_data |->
     IF j >= OutputPos(i) /\ j < OutputPos(i) + k
       THEN conn[i].stream[j - OutputPos(i) + 1] ELSE file_data[j]]

\* A whole buffer is asked for, whatever is missing.
BytesUnbounded(i) == Buffer

\* The most that one recv() may return.  It is never more than what is missing
\* of the chunk, so the defensive check after it cannot fail.
BytesToRead(i) == IF thread[i].remaining > Buffer THEN Buffer ELSE thread[i].remaining

\* One recv() of k bytes.  A thread that has its chunk returns without a
\* value, so its status is anything.
RecvBytes(i, k) ==
  LET rest == thread[i].remaining - k
  IN  /\ Running
      /\ thread[i].pc = "recv"
      /\ k <= BytesToRead(i)
      /\ k <= Len(conn[i].stream)
      /\ file_data' = Stored(i, k)
      /\ conn' = [conn EXCEPT ![i].stream = SubSeq(@, k + 1, Len(@)),
                              ![i].client = @ /\ rest > 0]
      /\ \E status \in IF rest > 0 THEN {0} ELSE {0, 1} :
           thread' = [thread EXCEPT
                        ![i] = [@ EXCEPT !.pc = IF rest > 0 THEN "recv" ELSE "exited",
                                         !.remaining = rest, !.status = status]]
      /\ UNCHANGED <<mainVars, hosted, free, backlog, srv, faults>>

\* recv() returns 0 or an error.
RecvEnd(i) ==
  /\ Running
  /\ thread[i].pc = "recv"
  /\ conn[i].stream = << >>
  /\ ~conn[i].server
  /\ conn' = [conn EXCEPT ![i].client = FALSE]
  /\ ExitWith(i, 1)
  /\ UNCHANGED <<mainVars, file_data, hosted, free, backlog, srv, faults>>

-----------------------------------------------------------------------------
MainStep ==
  \/ SendCheck
  \/ SendCheckFails
  \/ GetSize
  \/ GetSizeFails
  \/ CreateThread
  \/ CreateThreadFails
  \/ WriteOutput

ThreadStep(i) ==
  \/ Connect(i)
  \/ ConnectFails(i)
  \/ SendGet(i)
  \/ SendGetFails(i)
  \/ \E k \in 1 .. Len(conn[i].stream) : RecvBytes(i, k)
  \/ RecvEnd(i)
=============================================================================

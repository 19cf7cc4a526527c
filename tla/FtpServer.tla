------------------------------- MODULE FtpServer -------------------------------
(***************************************************************************)
(* The FTP servers (ftp/server.c) and the TCP connections to them.  A      *)
(* server is iterative: it accepts a connection, serves its one request to *)
(* the end and closes it before it accepts the next.                       *)
(*                                                                         *)
(* A connection is a record that both ends see.  The bytes on their way to *)
(* the client are a sequence, a byte of the file being represented by its  *)
(* position and a byte of an error message by Junk.  The whole reply to    *)
(* CHECK is one element: the size, or Junk.                                *)
(***************************************************************************)
EXTENDS Integers, Sequences

CONSTANTS
  NumServers,   \* the length of the client's server list
  Setups,       \* how the servers may start: the size of each one's copy of the
                \* file, NoFile if it has none, and the descriptors it has left
  Buffer,       \* BUFFER_SIZE, the most that one read or write handles
  Backlog,      \* the argument of listen()
  ErrorBytes,   \* the length of "ERROR File not found"
  FaultKinds,   \* which faults may happen
  MaxFaults     \* BOUND: how many may happen in one behaviour

Servers   == 0 .. NumServers - 1
NoFile    == -1
Junk      == -2
CheckConn == -1   \* the connection that main() uses for CHECK

ASSUME FtpServerAssumption ==
  /\ NumServers \in Nat \ {0}
  /\ \A u \in Setups : /\ u.hosted \in [Servers -> Nat \cup {NoFile}]
                       /\ u.free \in Nat
  /\ Buffer \in Nat \ {0}
  /\ Backlog \in Nat \ {0}
  /\ ErrorBytes \in Nat \ {0}
  /\ FaultKinds \subseteq {"connect", "create", "reset"}
  /\ MaxFaults \in Nat

VARIABLES
  hosted,    \* hosted[s]: the size of the copy that server s has
  free,      \* free[s]: how many more files server s can open
  conn,      \* conn[c]: the connection c, once connected
  backlog,   \* backlog[s]: connected and not yet accepted, in order
  srv,       \* srv[s]: the server process
  faults

ftpServerVars == <<hosted, free, conn, backlog, srv>>

SrvStates == {"accept", "recv", "write", "down"}

\* request: what the client has written, "none" at first; stream: what the
\* client has not read yet; client, server: that end is open.
ConnSet ==
  [request : {"none", "CHECK", "GET"}, offset : Int, size : Int,
   stream : Seq(Int), client : BOOLEAN, server : BOOLEAN]

NewConn ==
  [request |-> "none", offset |-> 0, size |-> 0, stream |-> << >>,
   client |-> TRUE, server |-> TRUE]

IdleSrv == [pc |-> "accept", conn |-> CheckConn, offset |-> 0, remaining |-> 0]

ServerInit ==
  /\ \E u \in Setups : hosted = u.hosted /\ free = [s \in Servers |-> u.free]
  /\ backlog = [s \in Servers |-> << >>]
  /\ srv = [s \in Servers |-> IdleSrv]
  /\ faults = 0

Fault(kind) ==
  /\ kind \in FaultKinds
  /\ faults < MaxFaults
  /\ faults' = faults + 1

Up(s) == srv[s].pc # "down"

\* The kernel completes a connection while there is room in the backlog.
CanConnect(s) == Up(s) /\ Len(backlog[s]) < Backlog

\* A terminated process: the kernel closes its end of every connection.
ServerDies(s) ==
  LET mine == {backlog[s][k] : k \in DOMAIN backlog[s]} \cup
                (IF srv[s].pc = "accept" THEN {} ELSE {srv[s].conn})
  IN  /\ srv' = [srv EXCEPT ![s] = [IdleSrv EXCEPT !.pc = "down"]]
      /\ conn' = [c \in DOMAIN conn |->
                    IF c \in mine THEN [conn[c] EXCEPT !.server = FALSE] ELSE conn[c]]
      /\ backlog' = [backlog EXCEPT ![s] = << >>]

-----------------------------------------------------------------------------
Accept(s) ==
  /\ srv[s].pc = "accept"
  /\ backlog[s] # << >>
  /\ srv' = [srv EXCEPT ![s] = [IdleSrv EXCEPT !.pc = "recv", !.conn = Head(backlog[s])]]
  /\ backlog' = [backlog EXCEPT ![s] = Tail(@)]
  /\ UNCHANGED <<hosted, free, conn, faults>>

\* Sends bytes, unless the client is gone (write() is not tested here), and
\* closes the connection.
Reply(s, bytes) ==
  LET c == srv[s].conn
  IN  /\ conn' = [conn EXCEPT ![c].stream = IF conn[c].client THEN bytes ELSE @,
                              ![c].server = FALSE]
      /\ srv' = [srv EXCEPT ![s] = IdleSrv]
      /\ UNCHANGED <<backlog, faults>>

\* recv returns 0 or an error: the client is gone and left no request.
RecvClosed(s) ==
  /\ srv[s].pc = "recv"
  /\ conn[srv[s].conn].request = "none"
  /\ ~conn[srv[s].conn].client
  /\ Reply(s, << >>)
  /\ UNCHANGED <<hosted, free>>

\* The file cannot be opened, whatever the command: the server has none, or no
\* descriptor left.
RecvNoFile(s) ==
  LET c == conn[srv[s].conn]
  IN  /\ srv[s].pc = "recv"
      /\ c.request # "none"
      /\ hosted[s] = NoFile \/ free[s] = 0
      /\ Reply(s, IF c.request = "CHECK" THEN <<Junk>>
                  ELSE [k \in 1 .. ErrorBytes |-> Junk])
      /\ UNCHANGED <<hosted, free>>

\* The file of the second fopen is not closed either.
OpenFileBothLeak(s) ==
  /\ srv[s].pc = "recv"
  /\ hosted[s] # NoFile
  /\ free[s] > 0
  /\ free' = [free EXCEPT ![s] = IF @ > 1 THEN @ - 2 ELSE 0]
  /\ UNCHANGED hosted

\* The first fopen of a request, whose FILE the second one hides: it is never
\* closed.
OpenFile(s) ==
  /\ srv[s].pc = "recv"
  /\ hosted[s] # NoFile
  /\ free[s] > 0
  /\ free' = [free EXCEPT ![s] = @ - 1]
  /\ UNCHANGED hosted

\* The second fopen finds a descriptor.
OpensAgain(s) == free[s] > 1

\* It does not: the connection is closed without a reply.
RecvNoDescriptor(s) ==
  /\ conn[srv[s].conn].request # "none"
  /\ OpenFile(s)
  /\ ~OpensAgain(s)
  /\ Reply(s, << >>)

RecvCheck(s) ==
  /\ conn[srv[s].conn].request = "CHECK"
  /\ OpenFile(s)
  /\ OpensAgain(s)
  /\ Reply(s, <<hosted[s]>>)

\* A chunk that ends with the file is refused too.
InRangeStrictly(s, c) == c.offset < hosted[s] /\ c.offset + c.size < hosted[s]

InRange(s, c) == c.offset < hosted[s] /\ c.offset + c.size <= hosted[s]

RecvGet(s) ==
  LET c == conn[srv[s].conn]
  IN  /\ c.request = "GET"
      /\ OpenFile(s)
      /\ OpensAgain(s)
      /\ InRange(s, c)
      /\ srv' = [srv EXCEPT ![s].pc = "write", ![s].offset = c.offset,
                            ![s].remaining = c.size]
      /\ UNCHANGED <<conn, backlog, faults>>

\* exit(EXIT_FAILURE) in handle_client.
RecvOutOfRange(s) ==
  LET c == conn[srv[s].conn]
  IN  /\ c.request = "GET"
      /\ OpenFile(s)
      /\ OpensAgain(s)
      /\ ~InRange(s, c)
      /\ ServerDies(s)
      /\ UNCHANGED faults

BytesToWrite(s) == IF srv[s].remaining < Buffer THEN srv[s].remaining ELSE Buffer

\* The server after k more bytes; the last of them ends the request.
AfterBytes(s, k) ==
  IF k = srv[s].remaining THEN IdleSrv
  ELSE [srv[s] EXCEPT !.offset = @ + k, !.remaining = @ - k]

\* A short write is taken for a whole one.
AfterWholeBuffer(s, k) == AfterBytes(s, BytesToWrite(s))

\* The server after a write() that took k bytes.
Written(s, k) == AfterBytes(s, k)

\* One write() of up to Buffer bytes; it may take fewer than it was given.  To
\* a client that is gone the first write() may still succeed.
WriteBytes(s) ==
  LET c == srv[s].conn
  IN  /\ srv[s].pc = "write"
      /\ \E k \in 1 .. BytesToWrite(s) :
           /\ conn' = [conn EXCEPT
                         ![c].stream = IF conn[c].client
                                         THEN @ \o [b \in 1 .. k |-> srv[s].offset + b - 1]
                                         ELSE @,
                         ![c].server = @ /\ Written(s, k) # IdleSrv]
           /\ srv' = [srv EXCEPT ![s] = Written(s, k)]
      /\ UNCHANGED <<hosted, free, backlog, faults>>

\* The client's end is gone: write() raises SIGPIPE, at the latest in the
\* second call (the test for an error compares a size_t with 0).
WriteBroken(s) ==
  /\ srv[s].pc = "write"
  /\ ~conn[srv[s].conn].client
  /\ ServerDies(s)
  /\ UNCHANGED <<hosted, free, faults>>

ServerStep(s) ==
  \/ Accept(s)
  \/ RecvClosed(s)
  \/ RecvNoFile(s)
  \/ RecvNoDescriptor(s)
  \/ RecvCheck(s)
  \/ RecvGet(s)
  \/ RecvOutOfRange(s)
  \/ WriteBytes(s)
  \/ WriteBroken(s)
=============================================================================

------------------------------- MODULE FtpProofs -------------------------------
(***************************************************************************)
(* Safety of Ftp, for every number of servers and connections, every file  *)
(* and any number of faults of any kind.                                   *)
(***************************************************************************)
EXTENDS Ftp, ChunkPlanProofs, SequenceTheorems, TLAPS

(***************************************************************************)
(* Where a connection is: waiting in a backlog, or being served.           *)
(***************************************************************************)
Queued(c, s) == \E k \in 1 .. Len(backlog[s]) : backlog[s][k] = c

Busy(s) == srv[s].pc \in {"recv", "write"}

Serves(s, c) == Busy(s) /\ srv[s].conn = c

Placed(c, s) == Queued(c, s) \/ Serves(s, c)

\* A connection goes to one server only.
Home(c, s) == IF c = CheckConn THEN s = 0 ELSE TaskServer(c) = s

HomeOK == \A s \in Servers : \A c \in DOMAIN conn : Placed(c, s) => Home(c, s)

Writes(s, c) == srv[s].pc = "write" /\ srv[s].conn = c

-----------------------------------------------------------------------------
(***************************************************************************)
(* The parts of the inductive invariant.                                   *)
(***************************************************************************)

\* Which connections there are, and what is asked on them.
ConnsOK ==
  /\ num_connections \in Int
  /\ CheckConn \in DOMAIN conn
  /\ main \in {"check", "size"} => DOMAIN conn = {CheckConn}
  /\ Running => DOMAIN conn = {CheckConn} \cup ThreadIds
  /\ \A c \in DOMAIN conn : conn[c].size \in Nat /\ (conn[c].request = "GET" => conn[c].size > 0)
  /\ \A s \in Servers : srv[s].pc = "write" => srv[s].remaining > 0 /\ srv[s].conn # CheckConn

\* The connection of CHECK carries one size, or one error.
CheckOK ==
  /\ conn[CheckConn].request # "GET"
  /\ conn[CheckConn].stream # << >> =>
       /\ Len(conn[CheckConn].stream) = 1
       /\ conn[CheckConn].stream[1] \in Nat \cup {Junk}
  /\ conn[CheckConn].server => conn[CheckConn].stream = << >>
  /\ main = "check" =>
       /\ conn[CheckConn] = NewConn
       /\ \A s \in Servers : srv[s].pc = "accept" /\ backlog[s] = << >>

\* main() has started the first ones of the threads.
CreatedOK ==
  main = "create" =>
    /\ created \in ThreadIds
    /\ \A i \in ThreadIds : i >= created => thread[i].pc = "new"

\* What the servers and thread i have agreed on.
Agreed(i) ==
  /\ thread[i].remaining <= TaskSize(i)
  /\ thread[i].pc \in {"new", "connect", "request"} =>
       /\ conn[i].request = "none"
       /\ conn[i].stream = << >>
       /\ thread[i].remaining = TaskSize(i)
       /\ conn[i].server => conn[i].client
       /\ \A s \in Servers : ~Writes(s, i)
  /\ thread[i].pc = "recv" /\ conn[i].server =>
       /\ conn[i].client
       /\ conn[i].request = "GET"
       /\ conn[i].offset = TaskOffset(i)
       /\ conn[i].size = TaskSize(i)
       /\ \/ /\ \A s \in Servers : ~Writes(s, i)
             /\ conn[i].stream = << >>
             /\ thread[i].remaining = TaskSize(i)
          \/ \E s \in Servers :
               /\ Writes(s, i)
               /\ thread[i].remaining = Len(conn[i].stream) + srv[s].remaining
               /\ srv[s].offset = OutputPos(i) + Len(conn[i].stream)

ThreadsOK == Running => \A i \in ThreadIds : Agreed(i)

\* A connection is placed once, and both its ends are open as long as it is.
PlacedOnce ==
  \A s \in Servers :
    /\ \A j, k \in 1 .. Len(backlog[s]) : backlog[s][j] = backlog[s][k] => j = k
    /\ Busy(s) => ~Queued(srv[s].conn, s)

PlacedOpen ==
  \A s \in Servers : \A c \in DOMAIN conn :
    Placed(c, s) =>
      /\ conn[c].server
      /\ conn[c].client
      /\ c = CheckConn => main = "size" /\ conn[c].request = "CHECK"
      /\ c # CheckConn => Running /\ thread[c].pc \in {"request", "recv"}

\* A thread that has not connected has all its retries, as its server is up.
FreshOK ==
  Running =>
    \A i \in ThreadIds :
      thread[i].pc \in {"new", "connect"} =>
        /\ conn[i].server
        /\ Up(TaskServer(i)) => thread[i].retries = MaxRetries

\* No server can open the file.
NoDescriptors == \A s \in Servers : free[s] <= 1

\* The size that CHECK found is that of the file, unless no server can open it.
SizeOK ==
  hosted[0] # NoFile =>
    /\ main \in {"check", "size"} /\ conn[CheckConn].server =>
         \A s \in Servers : free[s] = free[0]
    /\ main = "size" /\ ~conn[CheckConn].server =>
         conn[CheckConn].stream = <<hosted[0]>> \/ NoDescriptors
    /\ Running => file_size = hosted[0] \/ NoDescriptors

QuietOK == faults = 0 => PlacedOnce /\ PlacedOpen /\ FreshOK /\ SizeOK

IndInv ==
  /\ TypeOK
  /\ ConnsOK
  /\ CheckOK
  /\ CreatedOK
  /\ HomeOK
  /\ ThreadsOK
  /\ QuietOK
  /\ ServersSurvive
-----------------------------------------------------------------------------
(***************************************************************************)
(* What the type of the state says, piece by piece.                        *)
(***************************************************************************)
ConnsType ==
  /\ conn \in [DOMAIN conn -> ConnSet]
  /\ DOMAIN conn \subseteq {CheckConn} \cup ThreadIds

ServersType ==
  /\ backlog \in [Servers -> Seq(DOMAIN conn)]
  /\ \A s \in Servers : Len(backlog[s]) <= Backlog
  /\ srv \in [Servers -> [pc : SrvStates, conn : DOMAIN conn, offset : Int, remaining : Nat]]

HostsType ==
  \E u \in Setups : hosted = u.hosted /\ free \in [Servers -> 0 .. u.free]

ClientType ==
  /\ faults \in 0 .. MaxFaults
  /\ main \in MainStates
  /\ file_size \in Nat
  /\ thread \in [DOMAIN thread -> ThreadSet]
  /\ Running => /\ num_connections \in 1 .. file_size
                /\ DOMAIN thread = ThreadIds
                /\ DOMAIN file_data = 0 .. file_size - 1

\* The type invariant is that of the four groups of variables.
LEMMA TypeParts == TypeOK <=> ConnsType /\ ServersType /\ HostsType /\ ClientType
BY DEF TypeOK, ConnsType, ServersType, HostsType, ClientType

\* A connection is a record.
LEMMA ConnFacts ==
  ASSUME TypeOK, NEW c \in DOMAIN conn
  PROVE  /\ conn[c] \in ConnSet
         /\ conn[c].request \in {"none", "CHECK", "GET"}
         /\ conn[c].offset \in Int /\ conn[c].size \in Int
         /\ conn[c].stream \in Seq(Int) /\ Len(conn[c].stream) \in Nat
         /\ conn[c].client \in BOOLEAN /\ conn[c].server \in BOOLEAN
<1>1. conn[c] \in ConnSet
  BY DEF TypeOK
<1>2. QED
  BY <1>1 DEF ConnSet

\* So is a server.
LEMMA SrvFacts ==
  ASSUME TypeOK, NEW s \in Servers
  PROVE  /\ srv[s] \in [pc : SrvStates, conn : DOMAIN conn, offset : Int, remaining : Nat]
         /\ srv[s].pc \in SrvStates /\ srv[s].conn \in DOMAIN conn
         /\ srv[s].offset \in Int /\ srv[s].remaining \in Nat
         /\ backlog[s] \in Seq(DOMAIN conn) /\ Len(backlog[s]) \in Nat
         /\ Len(backlog[s]) <= Backlog
<1>1. srv[s] \in [pc : SrvStates, conn : DOMAIN conn, offset : Int, remaining : Nat]
  BY DEF TypeOK
<1>2. backlog[s] \in Seq(DOMAIN conn) /\ Len(backlog[s]) <= Backlog
  BY DEF TypeOK
<1>3. QED
  BY <1>1, <1>2

\* A thread is a record.
LEMMA ThreadFacts ==
  ASSUME TypeOK, NEW i \in DOMAIN thread
  PROVE  /\ thread[i] \in ThreadSet
         /\ thread[i].pc \in ThreadStates /\ thread[i].retries \in Nat
         /\ thread[i].remaining \in Nat
<1>1. thread[i] \in ThreadSet
  BY DEF TypeOK
<1>2. QED
  BY <1>1 DEF ThreadSet

\* What a server has: descriptors, and a file of some size or none.
LEMMA HostFacts ==
  ASSUME TypeOK, NEW s \in Servers
  PROVE  free[s] \in Nat /\ hosted[s] \in Nat \cup {NoFile}
<1>1. PICK u \in Setups : hosted = u.hosted /\ free \in [Servers -> 0 .. u.free]
  BY DEF TypeOK
<1>2. u.hosted \in [Servers -> Nat \cup {NoFile}] /\ u.free \in Nat
  BY FtpServerAssumption
<1>3. QED
  BY <1>1, <1>2

\* There is a server to ask for the size.
LEMMA FirstServer == 0 \in Servers
BY FtpServerAssumption DEF Servers

\* The connection of CHECK is that of no thread.
LEMMA CheckApart ==
  ASSUME ConnsOK, NEW i \in ThreadIds
  PROVE  i \in Nat /\ i # CheckConn
BY DEF ConnsOK, ThreadIds, CheckConn

(***************************************************************************)
(* What the plan says of the chunk of a thread.                            *)
(***************************************************************************)
LEMMA TaskInFile ==
  ASSUME TypeOK, Running, NEW i \in ThreadIds
  PROVE  /\ TaskOffset(i) \in Nat
         /\ TaskSize(i) \in Nat \ {0}
         /\ TaskOffset(i) + TaskSize(i) <= file_size
         /\ TaskServer(i) \in Servers
<1>1. file_size \in Nat \ {0} /\ num_connections \in 1 .. file_size
  BY DEF TypeOK
<1>2. i \in 0 .. num_connections - 1
  BY DEF ThreadIds
<1>3. /\ Offset(file_size, num_connections, i) \in Nat
      /\ Size(file_size, num_connections, i) \in Nat \ {0}
      /\ Offset(file_size, num_connections, i) + Size(file_size, num_connections, i) <= file_size
  BY <1>1, <1>2, ChunkInFile
<1>4. i % NumServers \in 0 .. NumServers - 1
  BY <1>1, <1>2, FtpServerAssumption
<1>5. QED
  BY <1>3, <1>4 DEF TaskOffset, TaskSize, TaskServer, ServerOf, Servers

\* A new connection and an idle server have their types.
LEMMA NewTypes ==
  /\ NewConn \in ConnSet /\ NewConn.request = "none" /\ NewConn.size = 0
  /\ NewConn.stream = << >> /\ NewConn.client = TRUE /\ NewConn.server = TRUE
  /\ IdleSrv.pc = "accept" /\ IdleSrv.conn = CheckConn /\ IdleSrv.offset = 0
  /\ IdleSrv.remaining = 0
BY DEF NewConn, ConnSet, IdleSrv

-----------------------------------------------------------------------------
\* No connection is placed at the start.
LEMMA InitInd == Init => IndInv
<1> SUFFICES ASSUME Init PROVE IndInv
  OBVIOUS
<1>1. /\ backlog = [s \in Servers |-> << >>] /\ srv = [s \in Servers |-> IdleSrv] /\ faults = 0
      /\ main = "check" /\ num_connections \in Arguments /\ file_size = 0 /\ thread = << >>
      /\ conn = [c \in {CheckConn} |-> NewConn]
      /\ \E u \in Setups : hosted = u.hosted /\ free = [s \in Servers |-> u.free]
  BY DEF Init, ServerInit, ClientInit
<1>2. /\ DOMAIN conn = {CheckConn} /\ conn[CheckConn] = NewConn
      /\ \A s \in Servers : backlog[s] = << >> /\ srv[s] = IdleSrv
  BY <1>1
<1>3. TypeOK
  <2>1. ConnsType
    BY <1>1, <1>2, NewTypes DEF ConnsType
  <2>2. ServersType
    <3>1. IdleSrv \in [pc : SrvStates, conn : DOMAIN conn, offset : Int, remaining : Nat]
      BY <1>2 DEF IdleSrv, SrvStates
    <3>2. QED
      BY <1>1, <1>2, <3>1, FtpServerAssumption DEF ServersType
  <2>3. HostsType
    <3>1. PICK u \in Setups : hosted = u.hosted /\ free = [s \in Servers |-> u.free]
      BY <1>1
    <3>2. u.free \in Nat
      BY FtpServerAssumption
    <3>3. free \in [Servers -> 0 .. u.free]
      BY <3>1, <3>2
    <3>4. QED
      BY <3>1, <3>3 DEF HostsType
  <2>4. ClientType
    BY <1>1, FtpServerAssumption DEF ClientType, MainStates, Running
  <2>5. QED
    BY <2>1, <2>2, <2>3, <2>4, TypeParts
<1>4. ConnsOK
  BY <1>1, <1>2, NewTypes, FtpClientAssumption DEF ConnsOK, Running
<1>5. CheckOK /\ CreatedOK /\ ThreadsOK
  BY <1>1, <1>2, NewTypes DEF CheckOK, CreatedOK, ThreadsOK, Running
<1>6. \A s \in Servers : \A c \in DOMAIN conn : ~Placed(c, s) /\ ~Busy(s)
  BY <1>2, NewTypes DEF Placed, Queued, Serves, Busy
<1>7. HomeOK
  BY <1>6 DEF HomeOK
<1>8. PlacedOnce /\ PlacedOpen
  BY <1>2, <1>6 DEF PlacedOnce, PlacedOpen
<1>9. FreshOK
  BY <1>1 DEF FreshOK, Running
<1>10. SizeOK
  BY <1>1, FirstServer DEF SizeOK, Running
<1>11. ServersSurvive
  BY <1>2, NewTypes DEF ServersSurvive, Up
<1>12. QED
  BY <1>3, <1>4, <1>5, <1>7, <1>8, <1>9, <1>10, <1>11 DEF IndInv, QuietOK

-----------------------------------------------------------------------------
(***************************************************************************)
(* Steps that do not concern a thread or a connection.                     *)
(***************************************************************************)

\* The plan stays as it is.
SamePlan == file_size' = file_size /\ num_connections' = num_connections

\* The chunks follow from the size and the number of connections only.
LEMMA PlanKept ==
  ASSUME SamePlan
  PROVE  /\ ThreadIds' = ThreadIds
         /\ \A i : TaskOffset(i)' = TaskOffset(i) /\ TaskSize(i)' = TaskSize(i)
BY DEF SamePlan, ThreadIds, TaskOffset, TaskSize

\* The other end may have closed the connection, nothing else has changed on it.
SameButClosed(i) ==
  /\ conn'[i].request = conn[i].request
  /\ conn'[i].offset = conn[i].offset
  /\ conn'[i].size = conn[i].size
  /\ conn'[i].stream = conn[i].stream
  /\ conn'[i].client = conn[i].client
  /\ conn'[i].server => conn[i].server

\* A step that touches neither thread i nor its connection leaves their
\* agreement alone.
LEMMA AgreedKept ==
  ASSUME NEW i \in ThreadIds, Agreed(i), SamePlan, thread'[i] = thread[i], SameButClosed(i),
         \A s \in Servers : Writes(s, i)' => Writes(s, i),
         conn'[i].server => \A s \in Servers : Writes(s, i) => srv'[s] = srv[s]
  PROVE  Agreed(i)'
<1>1. TaskOffset(i)' = TaskOffset(i) /\ TaskSize(i)' = TaskSize(i)
  BY PlanKept
<1>2. OutputPos(i)' = OutputPos(i)
  BY <1>1 DEF OutputPos
<1>3. ASSUME thread'[i].pc \in {"new", "connect", "request"}
      PROVE  /\ conn'[i].request = "none" /\ conn'[i].stream = << >>
             /\ thread'[i].remaining = TaskSize(i)
             /\ conn'[i].server => conn'[i].client
             /\ \A s \in Servers : ~Writes(s, i)'
  BY <1>3 DEF Agreed, SameButClosed
<1>4. ASSUME thread'[i].pc = "recv", conn'[i].server
      PROVE  /\ conn'[i].client /\ conn'[i].request = "GET"
             /\ conn'[i].offset = TaskOffset(i) /\ conn'[i].size = TaskSize(i)
             /\ \/ /\ \A s \in Servers : ~Writes(s, i)'
                   /\ conn'[i].stream = << >>
                   /\ thread'[i].remaining = TaskSize(i)
                \/ \E s \in Servers :
                     /\ Writes(s, i)'
                     /\ thread'[i].remaining = Len(conn'[i].stream) + srv'[s].remaining
                     /\ srv'[s].offset = OutputPos(i) + Len(conn'[i].stream)
  <2>1. conn[i].server /\ thread[i].pc = "recv"
    BY <1>4 DEF SameButClosed
  <2>2. CASE \A s \in Servers : ~Writes(s, i)
    BY <2>1, <2>2 DEF Agreed, SameButClosed
  <2>3. CASE ~(\A s \in Servers : ~Writes(s, i))
    <3>1. PICK s \in Servers :
            /\ Writes(s, i)
            /\ thread[i].remaining = Len(conn[i].stream) + srv[s].remaining
            /\ srv[s].offset = OutputPos(i) + Len(conn[i].stream)
      BY <2>1, <2>3 DEF Agreed
    <3>2. srv'[s] = srv[s]
      BY <1>4, <3>1
    <3>3. Writes(s, i)'
      BY <3>1, <3>2 DEF Writes
    <3>4. QED
      BY <2>1, <3>1, <3>2, <3>3 DEF Agreed, SameButClosed
  <2>4. QED
    BY <2>2, <2>3
<1>5. thread'[i].remaining <= TaskSize(i)
  BY DEF Agreed
<1>6. QED
  BY <1>1, <1>2, <1>3, <1>4, <1>5 DEF Agreed
-----------------------------------------------------------------------------
(***************************************************************************)
(* The servers.                                                            *)
(***************************************************************************)

\* A request costs its server a descriptor, or nothing.
LEMMA HostsKept ==
  ASSUME TypeOK, NEW s \in Servers, (hosted' = hosted /\ free' = free) \/ OpenFile(s)
  PROVE  /\ HostsType' /\ hosted' = hosted
         /\ \A t \in Servers : free'[t] \in Nat /\ free'[t] <= free[t]
<1>1. hosted' = hosted
  BY DEF OpenFile
<1>2. PICK u \in Setups : hosted = u.hosted /\ free \in [Servers -> 0 .. u.free]
  BY DEF TypeOK
<1>3. u.free \in Nat
  BY FtpServerAssumption
<1>4. /\ free' \in [Servers -> 0 .. u.free]
      /\ \A t \in Servers : free'[t] \in Nat /\ free'[t] <= free[t]
  <2>1. CASE free' = free
    BY <1>2, <1>3, <2>1
  <2>2. CASE OpenFile(s)
    <3>1. free' = [free EXCEPT ![s] = free[s] - 1] /\ free[s] > 0
      BY <2>2 DEF OpenFile
    <3>2. \A t \in Servers : free[t] \in 0 .. u.free
      BY <1>2
    <3>3. QED
      BY <1>2, <1>3, <3>1, <3>2
  <2>3. QED
    BY <2>1, <2>2
<1>5. QED
  BY <1>1, <1>2, <1>4 DEF HostsType

\* What a step of a server leaves alone of the client.
LEMMA SameClient ==
  ASSUME UNCHANGED ftpClientVars
  PROVE  /\ main' = main /\ created' = created /\ thread' = thread /\ file_data' = file_data
         /\ SamePlan /\ Running' = Running /\ ThreadIds' = ThreadIds
         /\ \A c, s : Home(c, s)' = Home(c, s)
BY DEF ftpClientVars, SamePlan, Running, ThreadIds, Home, TaskServer

\* A step of a server is type correct if connections and servers are.
LEMMA ServerTypes ==
  ASSUME IndInv, UNCHANGED ftpClientVars, faults' = faults, HostsType',
         DOMAIN conn' = DOMAIN conn,
         \A c \in DOMAIN conn : conn'[c] \in ConnSet,
         conn' = [c \in DOMAIN conn' |-> conn'[c]],
         ServersType'
  PROVE  TypeOK' /\ CreatedOK'
<1>1. /\ main' = main /\ created' = created /\ thread' = thread /\ file_data' = file_data
      /\ SamePlan /\ Running' = Running /\ ThreadIds' = ThreadIds
  BY SameClient
<1>2. ConnsType'
  <2>1. conn' \in [DOMAIN conn' -> ConnSet]
    OBVIOUS
  <2>2. QED
    BY <1>1, <2>1 DEF IndInv, TypeOK, ConnsType
<1>3. ClientType'
  BY <1>1, TypeParts DEF IndInv, ClientType, SamePlan
<1>4. TypeOK'
  <2>1. TypeOK' <=> ConnsType' /\ ServersType' /\ HostsType' /\ ClientType'
    BY DEF TypeOK, ConnsType, ServersType, HostsType, ClientType
  <2>2. QED
    BY <1>2, <1>3, <2>1
<1>5. CreatedOK'
  BY <1>1 DEF IndInv, CreatedOK
<1>6. QED
  BY <1>4, <1>5

\* The same connections, with the same requests.
LEMMA ConnsKept ==
  ASSUME IndInv, UNCHANGED ftpClientVars, DOMAIN conn' = DOMAIN conn,
         \A x \in DOMAIN conn :
            conn'[x].size \in Nat /\ (conn'[x].request = "GET" => conn'[x].size > 0),
         \A t \in Servers : srv'[t].pc = "write" => srv'[t].remaining > 0 /\ srv'[t].conn # CheckConn
  PROVE  ConnsOK'
<1>1. main' = main /\ Running' = Running /\ ThreadIds' = ThreadIds /\ num_connections' = num_connections
  BY SameClient DEF SamePlan
<1>2. /\ num_connections' \in Int /\ CheckConn \in DOMAIN conn'
      /\ main' \in {"check", "size"} => DOMAIN conn' = {CheckConn}
      /\ Running' => DOMAIN conn' = {CheckConn} \cup ThreadIds'
  BY <1>1 DEF IndInv, ConnsOK
<1>3. \A x \in DOMAIN conn' :
         conn'[x].size \in Nat /\ (conn'[x].request = "GET" => conn'[x].size > 0)
  BY Zenon
<1>4. \A t \in Servers : srv'[t].pc = "write" => srv'[t].remaining > 0 /\ srv'[t].conn # CheckConn
  OBVIOUS
<1>5. QED
  BY <1>2, <1>3, <1>4 DEF ConnsOK

\* A connection that is placed was placed before.
NotPlacedAnew ==
  \A s \in Servers : \A c \in DOMAIN conn : Placed(c, s)' => Placed(c, s)

\* Connections that are not placed anew stay with their servers.
LEMMA HomeKept ==
  ASSUME IndInv, UNCHANGED ftpClientVars, DOMAIN conn' = DOMAIN conn, NotPlacedAnew
  PROVE  HomeOK'
<1>1. \A c, s : Home(c, s)' = Home(c, s)
  BY SameClient
<1>2. QED
  BY <1>1 DEF IndInv, HomeOK, NotPlacedAnew

\* Nor has anything happened to it.
LEMMA OpenKept ==
  ASSUME IndInv, PlacedOpen, UNCHANGED ftpClientVars, DOMAIN conn' = DOMAIN conn, NotPlacedAnew,
         \A s \in Servers : \A c \in DOMAIN conn :
           Placed(c, s)' => /\ conn'[c].server = conn[c].server
                            /\ conn'[c].client = conn[c].client
                            /\ conn'[c].request = conn[c].request
  PROVE  PlacedOpen'
<1>1. main' = main /\ thread' = thread /\ Running' = Running
  BY SameClient
<1>2. QED
  BY <1>1 DEF PlacedOpen, NotPlacedAnew

\* A connection is a number.
LEMMA ConnIsNumber ==
  ASSUME IndInv, NEW c \in DOMAIN conn
  PROVE  c \in Int /\ (c # CheckConn => c \in ThreadIds)
<1>1. c = CheckConn \/ c \in ThreadIds
  BY DEF IndInv, TypeOK
<1>2. QED
  BY <1>1 DEF IndInv, ConnsOK, ThreadIds, CheckConn

\* A server that has accepted c, and a dead one.
LEMMA ServingSrv ==
  ASSUME NEW S, NEW c \in S,
         NEW r, r = [IdleSrv EXCEPT !.pc = "recv", !.conn = c]
  PROVE  /\ r \in [pc : SrvStates, conn : S, offset : Int, remaining : Nat]
         /\ r.pc = "recv" /\ r.conn = c
<1>1. r.pc = "recv" /\ r.conn = c
  BY DEF IdleSrv
<1>2. /\ IdleSrv \in [pc : SrvStates, conn : {CheckConn}, offset : Int, remaining : Nat]
      /\ "recv" \in SrvStates
  BY DEF IdleSrv, SrvStates
<1>3. r \in [pc : SrvStates, conn : S, offset : Int, remaining : Nat]
  BY <1>2
<1>4. QED
  BY <1>1, <1>3

\* The record of a server that has exited.
LEMMA DeadSrv ==
  [IdleSrv EXCEPT !.pc = "down"]
    = [pc |-> "down", conn |-> CheckConn, offset |-> 0, remaining |-> 0]
BY DEF IdleSrv

\* The server takes the first connection of its backlog (ftp/server.c:181).
LEMMA AcceptInd ==
  ASSUME IndInv, NEW s \in Servers, Accept(s), UNCHANGED ftpClientVars
  PROVE  IndInv'
<1>1. /\ srv[s].pc = "accept" /\ backlog[s] # << >> /\ conn' = conn /\ faults' = faults
      /\ hosted' = hosted /\ free' = free
  BY DEF Accept
<1>2. /\ main' = main /\ created' = created /\ thread' = thread
      /\ SamePlan /\ Running' = Running /\ ThreadIds' = ThreadIds
  BY SameClient
<1>3. \A t \in Servers : /\ srv[t].pc \in SrvStates /\ srv[t].conn \in DOMAIN conn
                         /\ backlog[t] \in Seq(DOMAIN conn) /\ Len(backlog[t]) <= Backlog
                         /\ Len(backlog[t]) \in Nat
  BY SrvFacts DEF IndInv
<1> DEFINE new == [IdleSrv EXCEPT !.pc = "recv", !.conn = Head(backlog[s])]
<1>4. srv' = [srv EXCEPT ![s] = new] /\ backlog' = [backlog EXCEPT ![s] = Tail(backlog[s])]
  BY Zenon DEF Accept
<1>5. /\ Head(backlog[s]) = backlog[s][1] /\ Head(backlog[s]) \in DOMAIN conn
      /\ Tail(backlog[s]) \in Seq(DOMAIN conn) /\ Len(Tail(backlog[s])) = Len(backlog[s]) - 1
      /\ \A k \in 1 .. Len(backlog[s]) - 1 : Tail(backlog[s])[k] = backlog[s][k + 1]
      /\ 1 \in 1 .. Len(backlog[s])
  <2> DEFINE q == backlog[s]
  <2>1. q \in Seq(DOMAIN conn) /\ q # << >>
    BY <1>1, <1>3
  <2> HIDE DEF q
  <2>2. /\ Head(q) \in DOMAIN conn /\ Tail(q) \in Seq(DOMAIN conn)
    BY <2>1, HeadTailProperties
  <2>3. /\ Head(q) = q[1] /\ Len(Tail(q)) = Len(q) - 1 /\ 1 \in 1 .. Len(q)
        /\ \A k \in 1 .. Len(q) - 1 : Tail(q)[k] = q[k + 1]
    BY <2>1
  <2>4. QED
    BY <2>2, <2>3 DEF q
<1>6. new \in [pc : SrvStates, conn : DOMAIN conn, offset : Int, remaining : Nat]
      /\ new.pc = "recv" /\ new.conn = backlog[s][1]
  BY <1>5, ServingSrv, ZenonT(30)
<1> HIDE DEF new
<1>7. /\ srv'[s] = new /\ backlog'[s] = Tail(backlog[s])
      /\ \A t \in Servers \ {s} : srv'[t] = srv[t] /\ backlog'[t] = backlog[t]
  BY <1>4 DEF IndInv, TypeOK
<1>8. HostsType'
  BY <1>1, HostsKept DEF IndInv
<1>9. ServersType'
  <2>1. \A t \in Servers : backlog'[t] \in Seq(DOMAIN conn) /\ Len(backlog'[t]) <= Backlog
    <3>1. Len(backlog[s]) - 1 <= Backlog
      BY <1>3, FtpServerAssumption
    <3>2. QED
      BY <1>3, <1>5, <1>7, <3>1
  <2>2. backlog' \in [Servers -> Seq(DOMAIN conn)]
    BY <1>4, <1>5 DEF IndInv, TypeOK
  <2>3. srv' \in [Servers -> [pc : SrvStates, conn : DOMAIN conn, offset : Int, remaining : Nat]]
    BY <1>4, <1>6 DEF IndInv, TypeOK
  <2>4. QED
    BY <1>1, <2>1, <2>2, <2>3 DEF ServersType
<1>10. TypeOK' /\ CreatedOK'
  <2>1. \A c \in DOMAIN conn : conn'[c] \in ConnSet
    BY <1>1, ConnFacts DEF IndInv
  <2>2. conn' = [c \in DOMAIN conn' |-> conn'[c]]
    BY <1>1 DEF IndInv, TypeOK
  <2>3. QED
    BY <1>1, <1>8, <1>9, <2>1, <2>2, ServerTypes
<1>11. ConnsOK'
  BY <1>1, <1>2, <1>6, <1>7 DEF IndInv, ConnsOK, SamePlan
<1>12. CheckOK'
  BY <1>1, <1>2 DEF IndInv, CheckOK
<1>13. NotPlacedAnew
  <2>1. ASSUME NEW t \in Servers, NEW c \in DOMAIN conn, Placed(c, t)' PROVE Placed(c, t)
    <3>1. CASE t # s
      BY <1>7, <2>1, <3>1 DEF Placed, Queued, Serves, Busy
    <3>2. CASE t = s
      <4>1. Queued(c, s)' => Queued(c, s)
        <5>1. SUFFICES ASSUME NEW k \in 1 .. Len(backlog'[s]), backlog'[s][k] = c
                       PROVE  Queued(c, s)
          BY DEF Queued
        <5>2. k + 1 \in 1 .. Len(backlog[s]) /\ backlog[s][k + 1] = c
          BY <1>3, <1>5, <1>7, <5>1
        <5>3. QED
          BY <5>2 DEF Queued
      <4>2. Serves(s, c)' => Queued(c, s)
        BY <1>5, <1>6, <1>7 DEF Serves, Queued
      <4>3. QED
        BY <2>1, <3>2, <4>1, <4>2 DEF Placed
    <3>3. QED
      BY <3>1, <3>2
  <2>2. QED
    BY <2>1 DEF NotPlacedAnew
<1>14. HomeOK'
  BY <1>1, <1>13, HomeKept
<1>15. ThreadsOK'
  <2>1. SUFFICES ASSUME Running, NEW i \in ThreadIds PROVE Agreed(i)'
    BY <1>2 DEF ThreadsOK
  <2>2. Agreed(i)
    BY <2>1 DEF IndInv, ThreadsOK
  <2>3. \A t \in Servers : (Writes(t, i)' => Writes(t, i)) /\ (Writes(t, i) => srv'[t] = srv[t])
    BY <1>1, <1>6, <1>7 DEF Writes
  <2>4. SameButClosed(i) /\ thread'[i] = thread[i]
    BY <1>1, <1>2 DEF SameButClosed
  <2>5. QED
    BY <1>2, <2>2, <2>3, <2>4, AgreedKept
<1>16. QuietOK'
  <2>1. SUFFICES ASSUME faults = 0 PROVE PlacedOnce' /\ PlacedOpen' /\ FreshOK' /\ SizeOK'
    BY <1>1 DEF QuietOK
  <2>2. PlacedOnce /\ PlacedOpen /\ FreshOK /\ SizeOK
    BY <2>1 DEF IndInv, QuietOK
  <2>3. PlacedOnce'
    <3>1. ASSUME NEW t \in Servers, t # s
          PROVE  /\ \A j, k \in 1 .. Len(backlog'[t]) : backlog'[t][j] = backlog'[t][k] => j = k
                 /\ Busy(t)' => ~Queued(srv[t].conn, t)'
      BY <1>7, <2>2, <3>1 DEF PlacedOnce, Busy, Queued
    <3>2. ASSUME NEW j \in 1 .. Len(backlog'[s]), NEW k \in 1 .. Len(backlog'[s]),
                 backlog'[s][j] = backlog'[s][k]
          PROVE  j = k
      <4>1. /\ j + 1 \in 1 .. Len(backlog[s]) /\ k + 1 \in 1 .. Len(backlog[s])
            /\ backlog[s][j + 1] = backlog[s][k + 1]
        BY <1>3, <1>5, <1>7, <3>2
      <4>2. j + 1 = k + 1
        BY <2>2, <4>1 DEF PlacedOnce
      <4>3. QED
        BY <1>3, <1>5, <1>7, <4>2
    <3>3. ~Queued(srv[s].conn, s)'
      <4>1. SUFFICES ASSUME NEW k \in 1 .. Len(backlog'[s]), backlog'[s][k] = backlog[s][1]
                     PROVE  FALSE
        BY <1>6, <1>7 DEF Queued
      <4>2. k + 1 \in 1 .. Len(backlog[s]) /\ backlog[s][k + 1] = backlog[s][1]
        BY <1>3, <1>5, <1>7, <4>1
      <4>3. k + 1 = 1
        BY <1>5, <2>2, <4>2 DEF PlacedOnce
      <4>4. QED
        BY <1>3, <1>5, <1>7, <4>3
    <3>4. QED
      BY <1>7, <3>1, <3>2, <3>3 DEF PlacedOnce
  <2>4. PlacedOpen'
    BY <1>1, <1>13, <2>2, OpenKept
  <2>5. \A t \in Servers : Up(t)' <=> Up(t)
    BY <1>1, <1>6, <1>7 DEF Up
  <2>6. FreshOK'
    <3>1. SUFFICES ASSUME Running, NEW i \in ThreadIds, thread[i].pc \in {"new", "connect"}
                   PROVE  conn[i].server /\ (Up(TaskServer(i))' => thread[i].retries = MaxRetries)
      BY <1>1, <1>2 DEF FreshOK, TaskServer
    <3>2. TaskServer(i) \in Servers
      BY <3>1, TaskInFile DEF IndInv
    <3>3. QED
      BY <2>2, <2>5, <3>1, <3>2 DEF FreshOK
  <2>7. SizeOK'
    BY <1>1, <1>2, <2>2 DEF SizeOK, NoDescriptors, SamePlan
  <2>8. QED
    BY <2>3, <2>4, <2>6, <2>7
<1>17. ServersSurvive'
  BY <1>1, <1>6, <1>7 DEF IndInv, ServersSurvive, Up
<1>18. QED
  BY <1>10, <1>11, <1>12, <1>14, <1>15, <1>16, <1>17 DEF IndInv

\* What a reply does to its connection.
LEMMA ReplyConn ==
  ASSUME IndInv, NEW s \in Servers, NEW bytes \in Seq(Int), Reply(s, bytes)
  PROVE  LET c == srv[s].conn
         IN  /\ DOMAIN conn' = DOMAIN conn
             /\ conn' = [x \in DOMAIN conn' |-> conn'[x]]
             /\ \A x \in DOMAIN conn : conn'[x] \in ConnSet
             /\ \A x \in DOMAIN conn \ {c} : conn'[x] = conn[x]
             /\ conn'[c].request = conn[c].request /\ conn'[c].offset = conn[c].offset
             /\ conn'[c].size = conn[c].size /\ conn'[c].client = conn[c].client
             /\ conn'[c].server = FALSE
             /\ conn'[c].stream = IF conn[c].client THEN bytes ELSE conn[c].stream
<1> DEFINE c == srv[s].conn
           b == IF conn[c].client THEN bytes ELSE conn[c].stream
<1>1. c \in DOMAIN conn
  BY SrvFacts DEF IndInv
<1>2. conn[c] \in ConnSet /\ b \in Seq(Int)
  BY <1>1, ConnFacts DEF IndInv
<1>3. conn' = [conn EXCEPT ![c].stream = IF conn[c].client THEN bytes ELSE @, ![c].server = FALSE]
  BY Zenon DEF Reply
<1>4. conn \in [DOMAIN conn -> ConnSet]
  BY DEF IndInv, TypeOK
<1> HIDE DEF c
<1>5. /\ DOMAIN conn' = DOMAIN conn /\ \A x \in DOMAIN conn \ {c} : conn'[x] = conn[x]
      /\ conn'[c].request = conn[c].request /\ conn'[c].offset = conn[c].offset
      /\ conn'[c].size = conn[c].size /\ conn'[c].client = conn[c].client
      /\ conn'[c].server = FALSE /\ conn'[c].stream = b
  BY <1>1, <1>2, <1>3, <1>4 DEF ConnSet
<1>6. conn'[c] \in ConnSet
  BY <1>1, <1>2, <1>3, <1>4 DEF ConnSet
<1>7. conn' = [x \in DOMAIN conn' |-> conn'[x]]
  BY <1>3, <1>4
<1>8. \A x \in DOMAIN conn : conn'[x] \in ConnSet
  BY <1>4, <1>5, <1>6
<1>9. QED
  BY <1>5, <1>7, <1>8 DEF c

\* What the budget of descriptors and the size say after a request.
LEMMA SizeKept ==
  ASSUME IndInv, SizeOK, NEW s \in Servers, UNCHANGED ftpClientVars,
         (hosted' = hosted /\ free' = free) \/ OpenFile(s),
         main # "check",
         main = "size" =>
           \/ free' = free /\ conn'[CheckConn] = conn[CheckConn]
           \/ /\ ~conn'[CheckConn].server
              /\ conn'[CheckConn].stream = <<hosted[0]>> \/ NoDescriptors'
  PROVE  SizeOK'
<1>1. /\ hosted' = hosted
      /\ \A t \in Servers : free'[t] \in Nat /\ free'[t] <= free[t]
  BY HostsKept DEF IndInv
<1>2. main' = main /\ file_size' = file_size /\ Running' = Running
  BY SameClient DEF SamePlan
<1>3. NoDescriptors => NoDescriptors'
  BY <1>1, HostFacts DEF NoDescriptors, IndInv
<1>4. CASE main = "size"
  BY <1>1, <1>2, <1>3, <1>4 DEF SizeOK, Running
<1>5. CASE main # "size"
  BY <1>1, <1>2, <1>3, <1>5 DEF SizeOK
<1>6. QED
  BY <1>4, <1>5

\* The server has replied and waits for the next connection.
LEMMA ReplyInd ==
  ASSUME IndInv, NEW s \in Servers, NEW bytes \in Seq(Int), Reply(s, bytes),
         UNCHANGED ftpClientVars, srv[s].pc = "recv",
         (hosted' = hosted /\ free' = free) \/ OpenFile(s),
         conn[srv[s].conn].request = "none" => bytes = << >>,
         srv[s].conn = CheckConn /\ bytes # << >> =>
           Len(bytes) = 1 /\ bytes[1] \in Nat \cup {Junk},
         srv[s].conn = CheckConn /\ main = "size" /\ faults = 0 /\ hosted[0] # NoFile =>
           bytes = <<hosted[0]>> \/ NoDescriptors'
  PROVE  IndInv'
<1> DEFINE c == srv[s].conn
<1>1. /\ DOMAIN conn' = DOMAIN conn
      /\ conn' = [x \in DOMAIN conn' |-> conn'[x]]
      /\ \A x \in DOMAIN conn : conn'[x] \in ConnSet
      /\ \A x \in DOMAIN conn \ {c} : conn'[x] = conn[x]
      /\ conn'[c].request = conn[c].request /\ conn'[c].offset = conn[c].offset
      /\ conn'[c].size = conn[c].size /\ conn'[c].client = conn[c].client
      /\ conn'[c].server = FALSE
      /\ conn'[c].stream = IF conn[c].client THEN bytes ELSE conn[c].stream
  BY ReplyConn
<1>2. /\ main' = main /\ created' = created /\ thread' = thread
      /\ SamePlan /\ Running' = Running /\ ThreadIds' = ThreadIds
  BY SameClient
<1>3. srv' = [srv EXCEPT ![s] = IdleSrv] /\ backlog' = backlog /\ faults' = faults
  BY DEF Reply
<1>4. c \in DOMAIN conn /\ CheckConn \in DOMAIN conn
  BY SrvFacts DEF IndInv, ConnsOK
<1> HIDE DEF c
<1>5. srv'[s] = IdleSrv /\ \A t \in Servers \ {s} : srv'[t] = srv[t]
  BY <1>3 DEF IndInv, TypeOK
<1>6. /\ HostsType' /\ hosted' = hosted
      /\ \A t \in Servers : free'[t] \in Nat /\ free'[t] <= free[t]
  BY HostsKept DEF IndInv
<1>7. TypeOK' /\ CreatedOK'
  <2>1. IdleSrv \in [pc : SrvStates, conn : DOMAIN conn, offset : Int, remaining : Nat]
    BY <1>4 DEF IdleSrv, SrvStates
  <2>2. srv' \in [Servers -> [pc : SrvStates, conn : DOMAIN conn, offset : Int, remaining : Nat]]
    BY <1>3, <2>1 DEF IndInv, TypeOK
  <2>3. ServersType'
    BY <1>1, <1>3, <2>2 DEF IndInv, TypeOK, ServersType
  <2>4. QED
    BY <1>1, <1>3, <1>6, <2>3, ServerTypes
<1>8. ConnsOK'
  <2>1. \A x \in DOMAIN conn : conn'[x].size = conn[x].size /\ conn'[x].request = conn[x].request
    BY <1>1
  <2>2. \A t \in Servers : srv'[t].pc = "write" => srv'[t].remaining > 0 /\ srv'[t].conn # CheckConn
    BY <1>5, NewTypes DEF IndInv, ConnsOK
  <2>3. \A x \in DOMAIN conn :
           conn'[x].size \in Nat /\ (conn'[x].request = "GET" => conn'[x].size > 0)
    BY <2>1 DEF IndInv, ConnsOK
  <2>4. QED
    BY <1>1, <1>2, <2>2, <2>3 DEF IndInv, ConnsOK, SamePlan
<1>9. main # "check"
  BY DEF IndInv, CheckOK
<1>10. CheckOK'
  <2>1. CASE c # CheckConn
    BY <1>1, <1>2, <1>4, <1>9, <2>1 DEF IndInv, CheckOK
  <2>2. CASE c = CheckConn
    <3>1. conn'[c].stream # << >> => Len(conn'[c].stream) = 1 /\ conn'[c].stream[1] \in Nat \cup {Junk}
      BY <1>1, <2>2 DEF IndInv, CheckOK, c
    <3>2. QED
      BY <1>1, <1>2, <1>9, <2>2, <3>1 DEF IndInv, CheckOK
  <2>3. QED
    BY <2>1, <2>2
<1>11. Serves(s, c) /\ Placed(c, s) /\ Home(c, s)
  BY <1>4 DEF IndInv, HomeOK, Placed, Serves, Busy, c
<1>12. \A t \in Servers : /\ ~Busy(s)'
                          /\ t # s => (Busy(t)' <=> Busy(t)) /\ \A x : Serves(t, x)' <=> Serves(t, x)
                          /\ \A x : Queued(x, t)' <=> Queued(x, t)
  BY <1>3, <1>5, NewTypes DEF Serves, Busy, Queued
<1>13. NotPlacedAnew
  BY <1>12 DEF NotPlacedAnew, Placed, Serves
<1>14. HomeOK'
  BY <1>1, <1>13, HomeKept
<1>15. ThreadsOK'
  <2>1. SUFFICES ASSUME Running, NEW i \in ThreadIds PROVE Agreed(i)'
    BY <1>2 DEF ThreadsOK
  <2>2. Agreed(i) /\ i \in DOMAIN conn
    BY <2>1 DEF IndInv, ThreadsOK, ConnsOK
  <2>3. \A t \in Servers : (Writes(t, i)' => Writes(t, i)) /\ (Writes(t, i) => srv'[t] = srv[t])
    BY <1>5, NewTypes DEF Writes
  <2>4. CASE i # c
    <3>1. SameButClosed(i) /\ thread'[i] = thread[i]
      BY <1>1, <1>2, <2>2, <2>4 DEF SameButClosed
    <3>2. QED
      BY <1>2, <2>2, <2>3, <3>1, AgreedKept
  <2>5. CASE i = c
    <3>1. conn[c].request = "none" => bytes = << >>
      BY DEF c
    <3>2. TaskSize(i)' = TaskSize(i) /\ thread'[i] = thread[i]
      BY <1>2, PlanKept
    <3>3. QED
      BY <1>1, <2>2, <2>3, <2>5, <3>1, <3>2 DEF Agreed
  <2>6. QED
    BY <2>4, <2>5
<1>16. QuietOK'
  <2>1. SUFFICES ASSUME faults = 0 PROVE PlacedOnce' /\ PlacedOpen' /\ FreshOK' /\ SizeOK'
    BY <1>3 DEF QuietOK
  <2>2. PlacedOnce /\ PlacedOpen /\ FreshOK /\ SizeOK
    BY <2>1 DEF IndInv, QuietOK
  <2>3. PlacedOnce'
    BY <1>3, <1>5, <1>12, <2>2 DEF PlacedOnce
  <2>4. PlacedOpen'
    <3>1. ASSUME NEW t \in Servers, NEW x \in DOMAIN conn, Placed(x, t)' PROVE x # c
      <4>1. SUFFICES ASSUME x = c PROVE FALSE
        OBVIOUS
      <4>2. Placed(c, t)
        BY <1>4, <1>13, <3>1, <4>1 DEF NotPlacedAnew
      <4>3. t = s
        BY <1>4, <1>11, <4>2 DEF IndInv, HomeOK, Home
      <4>4. QED
        BY <1>11, <1>12, <2>2, <3>1, <4>1, <4>3 DEF Placed, Serves, PlacedOnce
    <3>2. QED
      BY <1>1, <1>13, <2>2, <3>1, OpenKept
  <2>5. \A t \in Servers : Up(t)' <=> Up(t)
    BY <1>5, NewTypes DEF Up
  <2>6. FreshOK'
    <3>1. SUFFICES ASSUME Running, NEW i \in ThreadIds, thread[i].pc \in {"new", "connect"}
                   PROVE  conn'[i].server /\ (Up(TaskServer(i))' => thread[i].retries = MaxRetries)
      BY <1>2 DEF FreshOK, TaskServer
    <3>2. TaskServer(i) \in Servers /\ i \in DOMAIN conn
      BY <3>1, TaskInFile DEF IndInv, ConnsOK
    <3>3. i # c
      BY <1>4, <1>11, <2>2, <3>1, CheckApart DEF PlacedOpen, IndInv
    <3>4. QED
      BY <1>1, <2>2, <2>5, <3>1, <3>2, <3>3 DEF FreshOK
  <2>7. SizeOK'
    <3>1. main = "size" /\ hosted[0] # NoFile =>
            /\ ~conn'[CheckConn].server
            /\ conn'[CheckConn].stream = <<hosted[0]>> \/ NoDescriptors'
      <4>1. SUFFICES ASSUME main = "size", hosted[0] # NoFile
                     PROVE  /\ ~conn'[CheckConn].server
                            /\ conn'[CheckConn].stream = <<hosted[0]>> \/ NoDescriptors'
        OBVIOUS
      <4>2. c = CheckConn
        BY <1>4, <4>1 DEF IndInv, ConnsOK
      <4>3. conn[c].client
        BY <1>4, <1>11, <2>2 DEF PlacedOpen
      <4>4. QED
        BY <1>1, <2>1, <4>1, <4>2, <4>3 DEF c
    <3>2. CASE hosted[0] # NoFile
      BY <1>9, <2>2, <3>1, <3>2, SizeKept
    <3>3. CASE hosted[0] = NoFile
      BY <1>6, <3>3 DEF SizeOK
    <3>4. QED
      BY <3>2, <3>3
  <2>8. QED
    BY <2>3, <2>4, <2>6, <2>7
<1>17. ServersSurvive'
  BY <1>3, <1>5, <1>6, NewTypes DEF IndInv, ServersSurvive, Up
<1>18. QED
  BY <1>7, <1>8, <1>10, <1>14, <1>15, <1>16, <1>17 DEF IndInv

\* The client is gone and has left no request.
LEMMA RecvClosedInd ==
  ASSUME IndInv, NEW s \in Servers, RecvClosed(s), UNCHANGED ftpClientVars
  PROVE  IndInv'
<1>1. /\ srv[s].pc = "recv" /\ ~conn[srv[s].conn].client /\ Reply(s, << >>)
      /\ hosted' = hosted /\ free' = free
  BY DEF RecvClosed
<1>2. faults = 0 => conn[srv[s].conn].client
  <2>1. Placed(srv[s].conn, s) /\ srv[s].conn \in DOMAIN conn
    BY <1>1, SrvFacts DEF Placed, Serves, Busy, IndInv
  <2>2. QED
    BY <2>1 DEF IndInv, QuietOK, PlacedOpen
<1>3. << >> \in Seq(Int)
  OBVIOUS
<1>4. QED
  BY <1>1, <1>2, <1>3, ReplyInd

\* Before CHECK is served all servers have the same number of descriptors.
LEMMA FreeBefore ==
  ASSUME IndInv, NEW s \in Servers, srv[s].pc = "recv", srv[s].conn = CheckConn,
         main = "size", faults = 0, hosted[0] # NoFile
  PROVE  s = 0 /\ conn[CheckConn].request = "CHECK" /\ \A t \in Servers : free[t] = free[0]
<1>1. Placed(CheckConn, s) /\ CheckConn \in DOMAIN conn
  BY DEF Placed, Serves, Busy, IndInv, ConnsOK
<1>2. conn[CheckConn].server /\ conn[CheckConn].request = "CHECK"
  BY <1>1 DEF IndInv, QuietOK, PlacedOpen
<1>3. s = 0
  BY <1>1 DEF IndInv, HomeOK, Home
<1>4. QED
  BY <1>2, <1>3 DEF IndInv, QuietOK, SizeOK

\* An error message.
LEMMA RecvNoFileInd ==
  ASSUME IndInv, NEW s \in Servers, RecvNoFile(s), UNCHANGED ftpClientVars
  PROVE  IndInv'
<1> DEFINE c     == conn[srv[s].conn]
           bytes == IF c.request = "CHECK" THEN <<Junk>> ELSE [k \in 1 .. ErrorBytes |-> Junk]
<1>1. /\ srv[s].pc = "recv" /\ c.request # "none"
      /\ hosted[s] = NoFile \/ free[s] = 0
      /\ hosted' = hosted /\ free' = free /\ Reply(s, bytes)
  BY Zenon DEF RecvNoFile
<1>2. bytes \in Seq(Int)
  BY FtpServerAssumption DEF Junk
<1>3. srv[s].conn = CheckConn => bytes = <<Junk>>
  <2>1. srv[s].conn \in DOMAIN conn
    BY SrvFacts DEF IndInv
  <2>2. QED
    BY <1>1, <2>1, ConnFacts DEF IndInv, CheckOK
<1>4. srv[s].conn = CheckConn /\ bytes # << >> => Len(bytes) = 1 /\ bytes[1] \in Nat \cup {Junk}
  BY <1>3
<1>5. srv[s].conn = CheckConn /\ main = "size" /\ faults = 0 /\ hosted[0] # NoFile => NoDescriptors'
  <2>1. SUFFICES ASSUME srv[s].conn = CheckConn, main = "size", faults = 0, hosted[0] # NoFile
                 PROVE  NoDescriptors'
    OBVIOUS
  <2>2. s = 0 /\ \A t \in Servers : free[t] = free[0]
    BY <1>1, <2>1, FreeBefore
  <2>3. free[0] = 0
    BY <1>1, <2>1, <2>2
  <2>4. \A t \in Servers : free'[t] = 0
    BY <1>1, <2>2, <2>3, Zenon
  <2>5. QED
    BY <2>4 DEF NoDescriptors
<1>6. QED
  BY <1>1, <1>2, <1>4, <1>5, ReplyInd

\* CHECK or GET finds no second descriptor: the server closes without an
\* answer.
LEMMA RecvNoDescriptorInd ==
  ASSUME IndInv, NEW s \in Servers, RecvNoDescriptor(s), UNCHANGED ftpClientVars
  PROVE  IndInv'
<1>1. /\ srv[s].pc = "recv" /\ OpenFile(s) /\ ~OpensAgain(s) /\ Reply(s, << >>)
  BY DEF RecvNoDescriptor, OpenFile
<1>2. srv[s].conn = CheckConn /\ main = "size" /\ faults = 0 /\ hosted[0] # NoFile => NoDescriptors'
  <2>1. SUFFICES ASSUME srv[s].conn = CheckConn, main = "size", faults = 0, hosted[0] # NoFile
                 PROVE  NoDescriptors'
    OBVIOUS
  <2>2. s = 0 /\ \A t \in Servers : free[t] = free[0]
    BY <1>1, <2>1, FreeBefore
  <2>3. \A t \in Servers : free[t] \in Nat /\ free'[t] \in Nat /\ free'[t] <= free[t]
    BY <1>1, HostsKept, HostFacts DEF IndInv
  <2>4. \A t \in Servers : free[t] <= 1
    BY <1>1, <2>2, <2>3, FirstServer DEF OpensAgain
  <2>5. QED
    BY <2>3, <2>4 DEF NoDescriptors
<1>3. << >> \in Seq(Int)
  OBVIOUS
<1>4. QED
  BY <1>1, <1>2, <1>3, ReplyInd

\* CHECK is answered with the size of the server's file (ftp/server.c:62-73).
LEMMA RecvCheckInd ==
  ASSUME IndInv, NEW s \in Servers, RecvCheck(s), UNCHANGED ftpClientVars
  PROVE  IndInv'
<1>1. /\ srv[s].pc = "recv" /\ OpenFile(s) /\ Reply(s, <<hosted[s]>>) /\ hosted[s] # NoFile
      /\ conn[srv[s].conn].request = "CHECK"
  BY DEF RecvCheck, OpenFile
<1>2. hosted[s] \in Nat
  BY <1>1, HostFacts DEF IndInv
<1>3. <<hosted[s]>> \in Seq(Int) /\ Len(<<hosted[s]>>) = 1 /\ <<hosted[s]>>[1] \in Nat
  BY <1>2
<1>4. srv[s].conn = CheckConn /\ main = "size" /\ faults = 0 /\ hosted[0] # NoFile => s = 0
  BY <1>1, FreeBefore
<1>5. QED
  BY <1>1, <1>3, <1>4, ReplyInd

\* The server starts to write the chunk that the thread has asked for.
LEMMA RecvGetInd ==
  ASSUME IndInv, NEW s \in Servers, RecvGet(s), UNCHANGED ftpClientVars
  PROVE  IndInv'
<1> DEFINE c == srv[s].conn
<1>1. /\ srv[s].pc = "recv" /\ conn[c].request = "GET" /\ OpenFile(s)
      /\ conn' = conn /\ backlog' = backlog /\ faults' = faults
      /\ srv' = [srv EXCEPT ![s].pc = "write", ![s].offset = conn[c].offset,
                            ![s].remaining = conn[c].size]
  BY Zenon DEF RecvGet, OpenFile
<1>2. /\ main' = main /\ created' = created /\ thread' = thread
      /\ SamePlan /\ Running' = Running /\ ThreadIds' = ThreadIds
  BY SameClient
<1>3. /\ c \in DOMAIN conn /\ c # CheckConn /\ conn[c].offset \in Int
      /\ conn[c].size \in Nat /\ conn[c].size > 0
  <2>1. c \in DOMAIN conn
    BY SrvFacts DEF IndInv
  <2>2. QED
    BY <1>1, <2>1, ConnFacts DEF IndInv, ConnsOK, CheckOK
<1>4. /\ srv'[s].pc = "write" /\ srv'[s].conn = c /\ srv'[s].offset = conn[c].offset
      /\ srv'[s].remaining = conn[c].size /\ \A t \in Servers \ {s} : srv'[t] = srv[t]
      /\ srv' \in [Servers -> [pc : SrvStates, conn : DOMAIN conn, offset : Int, remaining : Nat]]
  <2>1. srv \in [Servers -> [pc : SrvStates, conn : DOMAIN conn, offset : Int, remaining : Nat]]
    BY DEF IndInv, TypeOK
  <2>2. "write" \in SrvStates
    BY DEF SrvStates
  <2>3. QED
    BY <1>1, <1>3, <2>1, <2>2, ZenonT(30)
<1>5. /\ HostsType' /\ hosted' = hosted
      /\ \A t \in Servers : free'[t] \in Nat /\ free'[t] <= free[t]
  BY <1>1, HostsKept DEF IndInv
<1>6. Serves(s, c) /\ Home(c, s)
  BY <1>1, <1>3 DEF IndInv, HomeOK, Placed, Serves, Busy
<1> HIDE DEF c
<1>7. TypeOK' /\ CreatedOK'
  <2>1. \A x \in DOMAIN conn : conn'[x] \in ConnSet
    BY <1>1, ConnFacts DEF IndInv
  <2>2. conn' = [x \in DOMAIN conn' |-> conn'[x]]
    BY <1>1 DEF IndInv, TypeOK
  <2>3. ServersType'
    BY <1>1, <1>4 DEF IndInv, TypeOK, ServersType
  <2>4. QED
    BY <1>1, <1>5, <2>1, <2>2, <2>3, ServerTypes
<1>8. ConnsOK'
  BY <1>1, <1>2, <1>3, <1>4 DEF IndInv, ConnsOK, SamePlan
<1>9. main \notin {"check", "size"}
  BY <1>3 DEF IndInv, ConnsOK
<1>10. CheckOK'
  BY <1>1, <1>2, <1>9 DEF IndInv, CheckOK
<1>11. /\ \A t \in Servers : \A x : Queued(x, t)' <=> Queued(x, t)
       /\ \A t \in Servers : Busy(t)' <=> Busy(t)
       /\ \A t \in Servers : \A x : Serves(t, x)' <=> Serves(t, x)
  <2>1. \A t \in Servers : \A x : Queued(x, t)' <=> Queued(x, t)
    BY <1>1 DEF Queued
  <2>2. \A t \in Servers : Busy(t)' <=> Busy(t)
    BY <1>1, <1>4 DEF Busy
  <2>3. \A t \in Servers : srv'[t].conn = srv[t].conn
    BY <1>4 DEF c
  <2>4. QED
    BY <2>1, <2>2, <2>3 DEF Serves
<1>12. NotPlacedAnew
  BY <1>11 DEF NotPlacedAnew, Placed
<1>13. HomeOK'
  BY <1>1, <1>12, HomeKept
<1>14. ThreadsOK'
  <2>1. SUFFICES ASSUME Running, NEW i \in ThreadIds PROVE Agreed(i)'
    BY <1>2 DEF ThreadsOK
  <2>2. Agreed(i) /\ i \in DOMAIN conn
    BY <2>1 DEF IndInv, ThreadsOK, ConnsOK
  <2>3. CASE i # c
    <3>1. \A t \in Servers : (Writes(t, i)' => Writes(t, i)) /\ (Writes(t, i) => srv'[t] = srv[t])
      BY <1>1, <1>4, <2>3 DEF Writes
    <3>2. SameButClosed(i) /\ thread'[i] = thread[i]
      BY <1>1, <1>2 DEF SameButClosed
    <3>3. QED
      BY <1>2, <2>2, <3>1, <3>2, AgreedKept
  <2>4. CASE i = c
    <3>1. thread[i].pc \notin {"new", "connect", "request"}
      BY <1>1, <2>2, <2>4 DEF Agreed, c
    <3>2. \A t \in Servers : ~Writes(t, i)
      <4>1. SUFFICES ASSUME NEW t \in Servers, Writes(t, i) PROVE FALSE
        OBVIOUS
      <4>2. Placed(i, t)
        BY <4>1 DEF Writes, Placed, Serves, Busy
      <4>3. t = s
        BY <1>3, <1>6, <2>2, <2>4, <4>2 DEF IndInv, HomeOK, Home
      <4>4. QED
        BY <1>1, <4>1, <4>3 DEF Writes
    <3>3. TaskOffset(i)' = TaskOffset(i) /\ TaskSize(i)' = TaskSize(i) /\ thread'[i] = thread[i]
      BY <1>2, PlanKept
    <3>4. OutputPos(i)' = TaskOffset(i) + TaskSize(i) - thread[i].remaining
      BY <3>3 DEF OutputPos
    <3>5. TaskOffset(i) \in Nat /\ TaskSize(i) \in Nat
      BY <2>1, TaskInFile DEF IndInv
    <3>6. ASSUME thread[i].pc = "recv", conn[i].server
          PROVE  /\ conn[i].client /\ conn[i].request = "GET"
                 /\ conn[i].offset = TaskOffset(i) /\ conn[i].size = TaskSize(i)
                 /\ Writes(s, i)'
                 /\ thread[i].remaining = Len(conn[i].stream) + srv'[s].remaining
                 /\ srv'[s].offset = OutputPos(i)' + Len(conn[i].stream)
      <4>1. /\ conn[i].client /\ conn[i].request = "GET"
            /\ conn[i].offset = TaskOffset(i) /\ conn[i].size = TaskSize(i)
            /\ conn[i].stream = << >> /\ thread[i].remaining = TaskSize(i)
        BY <2>2, <3>2, <3>6 DEF Agreed
      <4>2. Writes(s, i)'
        BY <1>4, <2>4 DEF Writes
      <4>3. Len(conn[i].stream) = 0
        BY <4>1
      <4>4. QED
        BY <1>4, <2>4, <3>4, <3>5, <4>1, <4>2, <4>3
    <3>7. thread[i].remaining <= TaskSize(i)
      BY <2>2 DEF Agreed
    <3>8. QED
      BY <1>1, <3>1, <3>3, <3>6, <3>7 DEF Agreed
  <2>5. QED
    BY <2>3, <2>4
<1>15. \A t \in Servers : Up(t)' <=> Up(t)
  BY <1>1, <1>4 DEF Up
<1>16. QuietOK'
  <2>1. SUFFICES ASSUME faults = 0 PROVE PlacedOnce' /\ PlacedOpen' /\ FreshOK' /\ SizeOK'
    BY <1>1 DEF QuietOK
  <2>2. PlacedOnce /\ PlacedOpen /\ FreshOK /\ SizeOK
    BY <2>1 DEF IndInv, QuietOK
  <2>3. PlacedOnce'
    <3>1. \A t \in Servers : srv'[t].conn = srv[t].conn
      BY <1>4 DEF c
    <3>2. QED
      BY <1>1, <1>11, <2>2, <3>1 DEF PlacedOnce
  <2>4. PlacedOpen'
    BY <1>1, <1>12, <2>2, OpenKept
  <2>5. FreshOK'
    <3>1. SUFFICES ASSUME Running, NEW i \in ThreadIds, thread[i].pc \in {"new", "connect"}
                   PROVE  conn[i].server /\ (Up(TaskServer(i))' => thread[i].retries = MaxRetries)
      BY <1>1, <1>2 DEF FreshOK, TaskServer
    <3>2. TaskServer(i) \in Servers
      BY <3>1, TaskInFile DEF IndInv
    <3>3. QED
      BY <1>15, <2>2, <3>1, <3>2 DEF FreshOK
  <2>6. SizeOK'
    BY <1>1, <1>9, <2>2, SizeKept
  <2>7. QED
    BY <2>3, <2>4, <2>5, <2>6
<1>17. ServersSurvive'
  BY <1>1, <1>5, <1>15 DEF IndInv, ServersSurvive
<1>18. QED
  BY <1>7, <1>8, <1>10, <1>13, <1>14, <1>16, <1>17 DEF IndInv

\* The connections of a server that dies are closed at its end, and no other.
LEMMA DiesConn ==
  ASSUME IndInv, NEW s \in Servers, ServerDies(s), Busy(s)
  PROVE  /\ DOMAIN conn' = DOMAIN conn
         /\ conn' = [x \in DOMAIN conn' |-> conn'[x]]
         /\ \A x \in DOMAIN conn :
              /\ conn'[x] \in ConnSet
              /\ SameButClosed(x)
              /\ ~Placed(x, s) => conn'[x] = conn[x]
              /\ Placed(x, s) => ~conn'[x].server
<1> DEFINE mine == {backlog[s][k] : k \in DOMAIN backlog[s]} \cup
                     (IF srv[s].pc = "accept" THEN {} ELSE {srv[s].conn})
<1>1. conn' = [x \in DOMAIN conn |->
                 IF x \in mine THEN [conn[x] EXCEPT !.server = FALSE] ELSE conn[x]]
  BY Zenon DEF ServerDies
<1>2. backlog[s] \in Seq(DOMAIN conn)
  BY SrvFacts DEF IndInv
<1>3. \A x : x \in mine <=> Placed(x, s)
  <2>1. DOMAIN backlog[s] = 1 .. Len(backlog[s])
    BY <1>2
  <2>2. QED
    BY <2>1 DEF Placed, Queued, Serves, Busy
<1> HIDE DEF mine
<1>4. ASSUME NEW x \in DOMAIN conn
      PROVE  /\ conn'[x] \in ConnSet /\ SameButClosed(x)
             /\ ~Placed(x, s) => conn'[x] = conn[x]
             /\ Placed(x, s) => ~conn'[x].server
  <2>1. conn[x] \in ConnSet
    BY ConnFacts DEF IndInv
  <2> DEFINE gone == [conn[x] EXCEPT !.server = FALSE]
  <2>2. /\ gone \in ConnSet /\ gone.request = conn[x].request /\ gone.offset = conn[x].offset
        /\ gone.size = conn[x].size /\ gone.stream = conn[x].stream
        /\ gone.client = conn[x].client /\ gone.server = FALSE
    BY <2>1 DEF ConnSet
  <2>3. conn'[x] = IF x \in mine THEN gone ELSE conn[x]
    BY <1>1
  <2> HIDE DEF gone
  <2>4. QED
    BY <1>3, <2>1, <2>2, <2>3 DEF SameButClosed
<1>5. QED
  BY <1>1, <1>4

\* A server exits: never while nothing has failed and its file is the one
\* that was reported.
LEMMA DiesInd ==
  ASSUME IndInv, NEW s \in Servers, ServerDies(s), UNCHANGED ftpClientVars, faults' = faults,
         Busy(s), main \notin {"check", "size"},
         (hosted' = hosted /\ free' = free) \/ OpenFile(s),
         ~(faults = 0 /\ hosted[0] # NoFile /\ hosted[s] = hosted[0])
  PROVE  IndInv'
<1>1. /\ DOMAIN conn' = DOMAIN conn
      /\ conn' = [x \in DOMAIN conn' |-> conn'[x]]
      /\ \A x \in DOMAIN conn :
              /\ conn'[x] \in ConnSet
              /\ SameButClosed(x)
              /\ ~Placed(x, s) => conn'[x] = conn[x]
              /\ Placed(x, s) => ~conn'[x].server
  BY DiesConn
<1>2. /\ main' = main /\ created' = created /\ thread' = thread
      /\ SamePlan /\ Running' = Running /\ ThreadIds' = ThreadIds
  BY SameClient
<1> DEFINE dead == [IdleSrv EXCEPT !.pc = "down"]
<1>3. srv' = [srv EXCEPT ![s] = dead] /\ backlog' = [backlog EXCEPT ![s] = << >>]
  BY Zenon DEF ServerDies
<1>4. CheckConn \in DOMAIN conn
  BY DEF IndInv, ConnsOK
<1>5. /\ dead \in [pc : SrvStates, conn : DOMAIN conn, offset : Int, remaining : Nat]
      /\ dead.pc = "down"
  BY <1>4, DeadSrv DEF SrvStates
<1> HIDE DEF dead
<1>6. /\ srv'[s] = dead /\ backlog'[s] = << >>
      /\ \A t \in Servers \ {s} : srv'[t] = srv[t] /\ backlog'[t] = backlog[t]
  BY <1>3 DEF IndInv, TypeOK
<1>7. /\ HostsType' /\ hosted' = hosted
      /\ \A t \in Servers : free'[t] \in Nat /\ free'[t] <= free[t]
  BY HostsKept DEF IndInv
<1>8. TypeOK' /\ CreatedOK'
  <2>1. srv' \in [Servers -> [pc : SrvStates, conn : DOMAIN conn, offset : Int, remaining : Nat]]
    BY <1>3, <1>5 DEF IndInv, TypeOK
  <2>2. backlog' \in [Servers -> Seq(DOMAIN conn)]
    BY <1>3 DEF IndInv, TypeOK
  <2>3. \A t \in Servers : Len(backlog'[t]) <= Backlog
    <3>1. Len(<< >>) <= Backlog
      BY FtpServerAssumption
    <3>2. QED
      BY <1>6, <3>1 DEF IndInv, TypeOK
  <2>4. ServersType'
    BY <1>1, <2>1, <2>2, <2>3 DEF ServersType
  <2>5. QED
    BY <1>1, <1>7, <2>4, ServerTypes
<1>9. ConnsOK'
  <2>1. \A t \in Servers : srv'[t].pc = "write" => srv'[t].remaining > 0 /\ srv'[t].conn # CheckConn
    BY <1>5, <1>6 DEF IndInv, ConnsOK
  <2>2. \A x \in DOMAIN conn :
           conn'[x].size \in Nat /\ (conn'[x].request = "GET" => conn'[x].size > 0)
    BY <1>1 DEF IndInv, ConnsOK, SameButClosed
  <2>3. DOMAIN conn' = DOMAIN conn
    BY <1>1
  <2>4. QED
    BY <2>1, <2>2, <2>3, ConnsKept
<1>10. CheckOK'
  BY <1>1, <1>2, <1>4 DEF IndInv, CheckOK, SameButClosed
<1>11. \A t \in Servers : \A x :
         /\ t = s => ~Queued(x, t)' /\ ~Busy(t)'
         /\ t # s => /\ Queued(x, t)' <=> Queued(x, t)
                     /\ Busy(t)' <=> Busy(t)
                     /\ Serves(t, x)' <=> Serves(t, x)
  <2>1. \A x : ~Queued(x, s)' /\ ~Busy(s)'
    BY <1>5, <1>6 DEF Queued, Busy
  <2>2. QED
    BY <1>6, <2>1 DEF Queued, Busy, Serves
<1>12. NotPlacedAnew
  BY <1>11 DEF NotPlacedAnew, Placed, Serves
<1>13. HomeOK'
  BY <1>1, <1>12, HomeKept
<1>14. ThreadsOK'
  <2>1. SUFFICES ASSUME Running, NEW i \in ThreadIds PROVE Agreed(i)'
    BY <1>2 DEF ThreadsOK
  <2>2. Agreed(i) /\ i \in DOMAIN conn
    BY <2>1 DEF IndInv, ThreadsOK, ConnsOK
  <2>3. \A t \in Servers : Writes(t, i)' => Writes(t, i)
    BY <1>5, <1>6 DEF Writes
  <2>4. ASSUME conn'[i].server, NEW t \in Servers, Writes(t, i) PROVE srv'[t] = srv[t]
    <3>1. ~Placed(i, s)
      BY <1>1, <2>2, <2>4
    <3>2. t # s
      BY <2>4, <3>1 DEF Writes, Placed, Serves, Busy
    <3>3. QED
      BY <1>6, <3>2
  <2>5. SameButClosed(i) /\ thread'[i] = thread[i]
    BY <1>1, <1>2, <2>2
  <2>6. QED
    BY <1>2, <2>2, <2>3, <2>4, <2>5, AgreedKept
<1>15. \A t \in Servers : (Up(t)' => Up(t)) /\ (t # s => (Up(t)' <=> Up(t)))
  BY <1>5, <1>6 DEF Up
<1>16. QuietOK'
  <2>1. SUFFICES ASSUME faults = 0 PROVE PlacedOnce' /\ PlacedOpen' /\ FreshOK' /\ SizeOK'
    BY DEF QuietOK
  <2>2. PlacedOnce /\ PlacedOpen /\ FreshOK /\ SizeOK
    BY <2>1 DEF IndInv, QuietOK
  <2>3. PlacedOnce'
    <3>1. ASSUME NEW t \in Servers, t # s
          PROVE  /\ \A j, k \in 1 .. Len(backlog'[t]) : backlog'[t][j] = backlog'[t][k] => j = k
                 /\ Busy(t)' => ~Queued(srv[t].conn, t)'
      BY <1>6, <1>11, <2>2, <3>1 DEF PlacedOnce
    <3>2. Len(backlog'[s]) = 0 /\ ~Busy(s)'
      BY <1>6, <1>11
    <3>3. QED
      BY <3>1, <3>2 DEF PlacedOnce
  <2>4. PlacedOpen'
    <3>1. ASSUME NEW t \in Servers, NEW x \in DOMAIN conn, Placed(x, t)'
          PROVE  conn'[x] = conn[x]
      <4>1. t # s /\ Placed(x, t)
        BY <1>11, <1>12, <3>1 DEF Placed, Serves, NotPlacedAnew
      <4>2. ~Placed(x, s)
        BY <4>1 DEF IndInv, HomeOK, Home
      <4>3. QED
        BY <1>1, <4>2
    <3>2. QED
      BY <1>1, <1>12, <2>2, <3>1, OpenKept
  <2>5. FreshOK'
    <3>1. SUFFICES ASSUME Running, NEW i \in ThreadIds, thread[i].pc \in {"new", "connect"}
                   PROVE  conn'[i].server /\ (Up(TaskServer(i))' => thread[i].retries = MaxRetries)
      BY <1>2 DEF FreshOK, TaskServer
    <3>2. TaskServer(i) \in Servers /\ i \in DOMAIN conn
      BY <3>1, TaskInFile DEF IndInv, ConnsOK
    <3>3. ~Placed(i, s)
      BY <2>2, <3>1, <3>2, CheckApart DEF PlacedOpen, IndInv
    <3>4. QED
      BY <1>1, <1>15, <2>2, <3>1, <3>2, <3>3 DEF FreshOK
  <2>6. SizeOK'
    BY <2>2, SizeKept
  <2>7. QED
    BY <2>3, <2>4, <2>5, <2>6
<1>17. ServersSurvive'
  BY <1>7, <1>15 DEF IndInv, ServersSurvive
<1>18. QED
  BY <1>8, <1>9, <1>10, <1>13, <1>14, <1>16, <1>17 DEF IndInv

\* No chunk that the client asks for is outside the file it knows the size of.
LEMMA RecvOutOfRangeInd ==
  ASSUME IndInv, NEW s \in Servers, RecvOutOfRange(s), UNCHANGED ftpClientVars
  PROVE  IndInv'
<1> DEFINE c == srv[s].conn
<1>1. /\ srv[s].pc = "recv" /\ conn[c].request = "GET" /\ OpenFile(s) /\ OpensAgain(s)
      /\ ~InRange(s, conn[c]) /\ ServerDies(s) /\ faults' = faults
  BY Zenon DEF RecvOutOfRange, OpenFile
<1>2. Busy(s) /\ Placed(c, s) /\ c \in DOMAIN conn
  BY <1>1, SrvFacts DEF Busy, Placed, Serves, IndInv
<1>3. c # CheckConn
  BY <1>1 DEF IndInv, CheckOK
<1>4. main \notin {"check", "size"}
  BY <1>2, <1>3 DEF IndInv, ConnsOK
<1> HIDE DEF c
<1>5. ~(faults = 0 /\ hosted[0] # NoFile /\ hosted[s] = hosted[0])
  <2>1. SUFFICES ASSUME faults = 0, hosted[0] # NoFile, hosted[s] = hosted[0] PROVE FALSE
    OBVIOUS
  <2>2. Running /\ conn[c].server /\ thread[c].pc \in {"request", "recv"} /\ c \in ThreadIds
    BY <1>2, <1>3, <2>1, ConnIsNumber DEF IndInv, QuietOK, PlacedOpen
  <2>3. Agreed(c)
    BY <2>2 DEF IndInv, ThreadsOK
  <2>4. conn[c].offset = TaskOffset(c) /\ conn[c].size = TaskSize(c)
    BY <1>1, <2>2, <2>3 DEF Agreed
  <2>5. file_size = hosted[0]
    <3>1. free[s] \in Nat /\ ~(free[s] <= 1)
      BY <1>1, HostFacts DEF OpensAgain, IndInv
    <3>2. QED
      BY <2>1, <2>2, <3>1 DEF IndInv, QuietOK, SizeOK, NoDescriptors
  <2>6. /\ TaskOffset(c) \in Nat /\ TaskSize(c) \in Nat \ {0}
        /\ TaskOffset(c) + TaskSize(c) <= file_size /\ file_size \in Nat
    BY <2>2, TaskInFile DEF IndInv, TypeOK
  <2>7. InRange(s, conn[c])
    BY <2>1, <2>4, <2>5, <2>6 DEF InRange
  <2>8. QED
    BY <1>1, <2>7
<1>6. QED
  BY <1>1, <1>2, <1>4, <1>5, DiesInd

\* The client keeps its end open until it has the last byte.
LEMMA WriteBrokenInd ==
  ASSUME IndInv, NEW s \in Servers, WriteBroken(s), UNCHANGED ftpClientVars
  PROVE  IndInv'
<1> DEFINE c == srv[s].conn
<1>1. /\ srv[s].pc = "write" /\ ~conn[c].client /\ ServerDies(s) /\ faults' = faults
      /\ hosted' = hosted /\ free' = free
  BY DEF WriteBroken
<1>2. Busy(s) /\ Placed(c, s) /\ c \in DOMAIN conn
  BY <1>1, SrvFacts DEF Busy, Placed, Serves, IndInv
<1>3. c # CheckConn
  BY <1>1 DEF IndInv, ConnsOK
<1>4. main \notin {"check", "size"}
  BY <1>2, <1>3 DEF IndInv, ConnsOK
<1>5. faults # 0
  BY <1>1, <1>2 DEF IndInv, QuietOK, PlacedOpen
<1>6. QED
  BY <1>1, <1>2, <1>4, <1>5, DiesInd

\* A server that has more to write.
LEMMA WrittenSrv ==
  ASSUME NEW S, NEW r \in [pc : SrvStates, conn : S, offset : Int, remaining : Nat],
         NEW k, r.remaining - k \in Nat, r.offset + k \in Int,
         NEW x, x = [r EXCEPT !.offset = @ + k, !.remaining = @ - k]
  PROVE  /\ x \in [pc : SrvStates, conn : S, offset : Int, remaining : Nat]
         /\ x.pc = r.pc /\ x.conn = r.conn /\ x.offset = r.offset + k
         /\ x.remaining = r.remaining - k
<1>1. /\ x.pc = r.pc /\ x.conn = r.conn /\ x.offset = r.offset + k
      /\ x.remaining = r.remaining - k
  OBVIOUS
<1>2. x \in [pc : SrvStates, conn : S, offset : Int, remaining : Nat]
  OBVIOUS
<1>3. QED
  BY <1>1, <1>2

\* The bytes that a write() takes are in the stream, in order.
LEMMA WriteBytesInd ==
  ASSUME IndInv, NEW s \in Servers, WriteBytes(s), UNCHANGED ftpClientVars
  PROVE  IndInv'
<1> DEFINE c == srv[s].conn
<1>1. PICK k \in 1 .. BytesToWrite(s) :
        /\ conn' = [conn EXCEPT
                      ![c].stream = IF conn[c].client
                                      THEN @ \o [b \in 1 .. k |-> srv[s].offset + b - 1]
                                      ELSE @,
                      ![c].server = @ /\ Written(s, k) # IdleSrv]
        /\ srv' = [srv EXCEPT ![s] = Written(s, k)]
  BY Zenon DEF WriteBytes
<1>2. srv[s].pc = "write" /\ hosted' = hosted /\ free' = free /\ backlog' = backlog /\ faults' = faults
  BY DEF WriteBytes
<1>3. /\ main' = main /\ created' = created /\ thread' = thread
      /\ SamePlan /\ Running' = Running /\ ThreadIds' = ThreadIds
  BY SameClient
<1>4. /\ c \in DOMAIN conn /\ c # CheckConn /\ CheckConn \in DOMAIN conn
      /\ srv[s] \in [pc : SrvStates, conn : DOMAIN conn, offset : Int, remaining : Nat]
      /\ srv[s].offset \in Int /\ srv[s].remaining \in Nat
  BY <1>2, SrvFacts DEF IndInv, ConnsOK
<1>5. k \in Nat \ {0} /\ k <= srv[s].remaining
  BY <1>4, FtpServerAssumption DEF BytesToWrite
<1> DEFINE new  == [b \in 1 .. k |-> srv[s].offset + b - 1]
           next == Written(s, k)
           st   == IF conn[c].client THEN conn[c].stream \o new ELSE conn[c].stream
<1>6. new \in Seq(Int) /\ Len(new) = k
  BY <1>4, <1>5
<1>7. /\ k = srv[s].remaining => next = IdleSrv
      /\ k # srv[s].remaining =>
           /\ next \in [pc : SrvStates, conn : DOMAIN conn, offset : Int, remaining : Nat]
           /\ next.pc = "write" /\ next.conn = c /\ next.offset = srv[s].offset + k
           /\ next.remaining = srv[s].remaining - k /\ next # IdleSrv
  <2>1. k = srv[s].remaining => next = IdleSrv
    BY DEF Written, AfterBytes
  <2>2. ASSUME k # srv[s].remaining
        PROVE  /\ next \in [pc : SrvStates, conn : DOMAIN conn, offset : Int, remaining : Nat]
               /\ next.pc = "write" /\ next.conn = c /\ next.offset = srv[s].offset + k
               /\ next.remaining = srv[s].remaining - k
    <3>1. next = [srv[s] EXCEPT !.offset = @ + k, !.remaining = @ - k]
      BY <2>2, Zenon DEF Written, AfterBytes
    <3>2. srv[s].remaining - k \in Nat /\ srv[s].offset + k \in Int
      BY <1>4, <1>5
    <3> HIDE DEF next
    <3>3. /\ next \in [pc : SrvStates, conn : DOMAIN conn, offset : Int, remaining : Nat]
          /\ next.pc = srv[s].pc /\ next.conn = srv[s].conn /\ next.offset = srv[s].offset + k
          /\ next.remaining = srv[s].remaining - k
      BY <1>4, <3>1, <3>2, WrittenSrv
    <3>4. QED
      BY <1>2, <3>3
  <2>3. QED
    BY <2>1, <2>2, NewTypes
<1> HIDE DEF new, next
<1>8. conn[c] \in ConnSet /\ st \in Seq(Int) /\ conn[c].server \in BOOLEAN
  <2>1. /\ conn[c] \in ConnSet /\ conn[c].stream \in Seq(Int) /\ conn[c].server \in BOOLEAN
    BY <1>4, ConnFacts DEF IndInv
  <2>2. QED
    BY <1>6, <2>1
<1>9. conn \in [DOMAIN conn -> ConnSet]
  BY DEF IndInv, TypeOK
<1>10. conn' = [conn EXCEPT ![c].stream = IF conn[c].client THEN @ \o new ELSE @,
                            ![c].server = @ /\ next # IdleSrv]
  BY <1>1, Zenon DEF new, next
<1> HIDE DEF c
<1>11. /\ DOMAIN conn' = DOMAIN conn /\ \A x \in DOMAIN conn \ {c} : conn'[x] = conn[x]
       /\ conn'[c].request = conn[c].request /\ conn'[c].offset = conn[c].offset
       /\ conn'[c].size = conn[c].size /\ conn'[c].client = conn[c].client
       /\ conn'[c].server = (conn[c].server /\ next # IdleSrv) /\ conn'[c].stream = st
       /\ conn'[c] \in ConnSet
  <2> HIDE DEF st
  <2>1. conn' = [conn EXCEPT ![c] = [conn[c] EXCEPT !.stream = st, !.server = conn[c].server /\ next # IdleSrv]]
    BY <1>10, Zenon DEF st
  <2> DEFINE r == [conn[c] EXCEPT !.stream = st, !.server = conn[c].server /\ next # IdleSrv]
  <2>2. /\ r.request = conn[c].request /\ r.offset = conn[c].offset /\ r.size = conn[c].size
        /\ r.client = conn[c].client /\ r.server = (conn[c].server /\ next # IdleSrv)
        /\ r.stream = st /\ r \in ConnSet
    BY <1>8 DEF ConnSet
  <2> HIDE DEF r
  <2>3. conn' = [conn EXCEPT ![c] = r]
    BY <2>1 DEF r
  <2>4. QED
    BY <1>4, <1>9, <2>2, <2>3
<1>12. srv'[s] = next /\ \A t \in Servers \ {s} : srv'[t] = srv[t]
  BY <1>1 DEF IndInv, TypeOK, next
<1>13. conn' = [x \in DOMAIN conn' |-> conn'[x]]
  BY <1>9, <1>10
<1>14. HostsType'
  BY <1>2, HostsKept DEF IndInv
<1>15. IdleSrv \in [pc : SrvStates, conn : DOMAIN conn, offset : Int, remaining : Nat]
  BY <1>4 DEF IdleSrv, SrvStates
<1>16. TypeOK' /\ CreatedOK'
  <2>1. next \in [pc : SrvStates, conn : DOMAIN conn, offset : Int, remaining : Nat]
    BY <1>7, <1>15
  <2>2. srv' = [srv EXCEPT ![s] = next]
    BY <1>1 DEF next
  <2>3. srv' \in [Servers -> [pc : SrvStates, conn : DOMAIN conn, offset : Int, remaining : Nat]]
    BY <2>1, <2>2 DEF IndInv, TypeOK
  <2>4. ServersType'
    BY <1>2, <1>11, <2>3 DEF IndInv, TypeOK, ServersType
  <2>5. \A x \in DOMAIN conn : conn'[x] \in ConnSet
    BY <1>9, <1>11
  <2>6. QED
    BY <1>2, <1>11, <1>13, <1>14, <2>4, <2>5, ServerTypes
<1>17. ConnsOK'
  <2>1. next.pc = "write" => next.remaining > 0 /\ next.conn # CheckConn
    BY <1>4, <1>5, <1>7, NewTypes
  <2>2. \A t \in Servers : srv'[t].pc = "write" => srv'[t].remaining > 0 /\ srv'[t].conn # CheckConn
    BY <1>12, <2>1 DEF IndInv, ConnsOK
  <2>3. \A x \in DOMAIN conn : conn'[x].size = conn[x].size /\ conn'[x].request = conn[x].request
    BY <1>11
  <2>4. \A x \in DOMAIN conn :
           conn'[x].size \in Nat /\ (conn'[x].request = "GET" => conn'[x].size > 0)
    BY <2>3 DEF IndInv, ConnsOK
  <2>5. DOMAIN conn' = DOMAIN conn
    BY <1>11
  <2>6. QED
    BY <2>2, <2>4, <2>5, ConnsKept
<1>18. main \notin {"check", "size"}
  BY <1>4 DEF IndInv, ConnsOK
<1>19. CheckOK'
  <2>1. conn'[CheckConn] = conn[CheckConn]
    BY <1>4, <1>11
  <2>2. QED
    BY <1>3, <1>18, <2>1 DEF IndInv, CheckOK
<1>20. Serves(s, c) /\ Placed(c, s) /\ Home(c, s)
  BY <1>2, <1>4 DEF IndInv, HomeOK, Placed, Serves, Busy, c
<1>21. /\ \A t \in Servers : \A x : Queued(x, t)' <=> Queued(x, t)
       /\ \A t \in Servers : t # s => (Busy(t)' <=> Busy(t)) /\ \A x : Serves(t, x)' <=> Serves(t, x)
       /\ Busy(s)' => next # IdleSrv /\ srv'[s].conn = c
       /\ \A x : Serves(s, x)' => x = c /\ next # IdleSrv
  <2>1. /\ \A t \in Servers : \A x : Queued(x, t)' <=> Queued(x, t)
        /\ \A t \in Servers : t # s => (Busy(t)' <=> Busy(t)) /\ \A x : Serves(t, x)' <=> Serves(t, x)
    BY <1>2, <1>12 DEF Queued, Busy, Serves
  <2>2. Busy(s)' => next # IdleSrv /\ srv'[s].conn = c
    BY <1>7, <1>12, NewTypes DEF Busy
  <2>3. QED
    BY <2>1, <2>2 DEF Serves
<1>22. NotPlacedAnew
  BY <1>20, <1>21 DEF NotPlacedAnew, Placed
<1>23. HomeOK'
  BY <1>11, <1>22, HomeKept
<1>24. ThreadsOK'
  <2>1. SUFFICES ASSUME Running, NEW i \in ThreadIds PROVE Agreed(i)'
    BY <1>3 DEF ThreadsOK
  <2>2. Agreed(i) /\ i \in DOMAIN conn
    BY <2>1 DEF IndInv, ThreadsOK, ConnsOK
  <2>3. CASE i # c
    <3>1. \A t \in Servers : (Writes(t, i)' => Writes(t, i)) /\ (Writes(t, i) => srv'[t] = srv[t])
      <4>1. ~Writes(s, i) /\ ~Writes(s, i)'
        BY <1>7, <1>12, <2>3, NewTypes DEF Writes, c
      <4>2. QED
        BY <1>12, <4>1 DEF Writes
    <3>2. SameButClosed(i) /\ thread'[i] = thread[i]
      BY <1>3, <1>11, <2>2, <2>3 DEF SameButClosed
    <3>3. QED
      BY <1>3, <2>2, <3>1, <3>2, AgreedKept
  <2>4. CASE i = c
    <3>1. Writes(s, i)
      BY <1>2, <2>4 DEF Writes, c
    <3>2. thread[i].pc \notin {"new", "connect", "request"}
      BY <2>2, <3>1 DEF Agreed
    <3>3. \A t \in Servers : Writes(t, i) => t = s
      <4>1. \A t \in Servers : Writes(t, i) => Placed(i, t)
        BY DEF Writes, Placed, Serves, Busy
      <4>2. QED
        BY <1>4, <1>20, <2>2, <2>4, <4>1 DEF IndInv, HomeOK, Home
    <3>4. TaskOffset(i)' = TaskOffset(i) /\ TaskSize(i)' = TaskSize(i) /\ thread'[i] = thread[i]
      BY <1>3, PlanKept
    <3>5. OutputPos(i)' = OutputPos(i)
      BY <3>4 DEF OutputPos
    <3>6. /\ TaskOffset(i) \in Nat /\ TaskSize(i) \in Nat /\ thread[i].remaining \in Nat
          /\ OutputPos(i) \in Int
      <4>1. TaskOffset(i) \in Nat /\ TaskSize(i) \in Nat
        BY <2>1, TaskInFile DEF IndInv
      <4>2. thread[i].remaining \in Nat
        BY <2>1, ThreadFacts DEF IndInv, TypeOK
      <4>3. QED
        BY <4>1, <4>2 DEF OutputPos
    <3>7. ASSUME thread[i].pc = "recv", conn'[i].server
          PROVE  /\ conn'[i].client /\ conn'[i].request = "GET"
                 /\ conn'[i].offset = TaskOffset(i) /\ conn'[i].size = TaskSize(i)
                 /\ Writes(s, i)'
                 /\ thread[i].remaining = Len(conn'[i].stream) + srv'[s].remaining
                 /\ srv'[s].offset = OutputPos(i) + Len(conn'[i].stream)
      <4>1. conn[i].server /\ next # IdleSrv
        BY <1>11, <2>4, <3>7
      <4>2. /\ conn[i].client /\ conn[i].request = "GET"
            /\ conn[i].offset = TaskOffset(i) /\ conn[i].size = TaskSize(i)
            /\ thread[i].remaining = Len(conn[i].stream) + srv[s].remaining
            /\ srv[s].offset = OutputPos(i) + Len(conn[i].stream)
        BY <2>2, <3>1, <3>3, <3>7, <4>1 DEF Agreed
      <4>3. conn[i].stream \in Seq(Int) /\ Len(conn[i].stream) \in Nat
        BY <2>2, ConnFacts DEF IndInv
      <4>4. conn'[i].stream = conn[i].stream \o new
        BY <1>11, <2>4, <4>2
      <4>5. Len(conn'[i].stream) = Len(conn[i].stream) + k
        BY <1>6, <4>3, <4>4, ConcatProperties
      <4>6. /\ next.pc = "write" /\ next.conn = c /\ next.offset = srv[s].offset + k
            /\ next.remaining = srv[s].remaining - k
        BY <1>7, <4>1
      <4>7. Writes(s, i)'
        BY <1>12, <2>4, <4>6 DEF Writes
      <4>8. /\ thread[i].remaining = Len(conn'[i].stream) + srv'[s].remaining
            /\ srv'[s].offset = OutputPos(i) + Len(conn'[i].stream)
        <5>1. \A a \in Nat, b \in Nat, d \in Nat, e \in Nat :
                d <= b /\ e = a + b => e = (a + d) + (b - d)
          OBVIOUS
        <5>2. \A p \in Int, a \in Nat, d \in Nat : (p + a) + d = p + (a + d)
          OBVIOUS
        <5>3. srv'[s].remaining = srv[s].remaining - k /\ srv'[s].offset = srv[s].offset + k
          BY <1>12, <4>6
        <5>4. thread[i].remaining = (Len(conn[i].stream) + k) + (srv[s].remaining - k)
          BY <1>4, <1>5, <3>6, <4>2, <4>3, <5>1
        <5>5. srv[s].offset + k = OutputPos(i) + (Len(conn[i].stream) + k)
          <6>1. srv[s].offset = OutputPos(i) + Len(conn[i].stream)
            BY <4>2
          <6>2. Len(conn[i].stream) \in Nat /\ k \in Nat /\ OutputPos(i) \in Int
            BY <1>4, <1>5, <3>6, <4>3
          <6>3. \A o : \A p \in Int, a \in Nat, d \in Nat : o = p + a => o + d = p + (a + d)
            OBVIOUS
          <6>4. QED
            BY ONLY <6>1, <6>2, <6>3, Zenon
        <5>6. QED
          BY <4>5, <5>3, <5>4, <5>5, ZenonT(30)
      <4>9. QED
        BY <1>11, <2>4, <4>2, <4>7, <4>8
    <3>8. thread[i].remaining <= TaskSize(i)
      BY <2>2 DEF Agreed
    <3>9. QED
      BY <3>2, <3>4, <3>5, <3>7, <3>8 DEF Agreed
  <2>5. QED
    BY <2>3, <2>4
<1>25. \A t \in Servers : Up(t)' <=> Up(t)
  BY <1>2, <1>7, <1>12, NewTypes DEF Up
<1>26. QuietOK'
  <2>1. SUFFICES ASSUME faults = 0 PROVE PlacedOnce' /\ PlacedOpen' /\ FreshOK' /\ SizeOK'
    BY <1>2 DEF QuietOK
  <2>2. PlacedOnce /\ PlacedOpen /\ FreshOK /\ SizeOK
    BY <2>1 DEF IndInv, QuietOK
  <2>3. PlacedOnce'
    <3>1. ASSUME NEW t \in Servers, Busy(t)' PROVE ~Queued(srv[t].conn, t)'
      <4>1. Busy(t) /\ srv'[t].conn = srv[t].conn
        BY <1>12, <1>20, <1>21, <3>1 DEF Serves
      <4>2. QED
        BY <1>2, <2>2, <4>1 DEF PlacedOnce, Queued
    <3>2. QED
      BY <1>2, <2>2, <3>1 DEF PlacedOnce
  <2>4. PlacedOpen'
    <3>1. ASSUME NEW t \in Servers, NEW x \in DOMAIN conn, Placed(x, t)'
          PROVE  /\ conn'[x].server = conn[x].server
                 /\ conn'[x].client = conn[x].client
                 /\ conn'[x].request = conn[x].request
      <4>1. CASE x # c
        BY <1>11, <4>1
      <4>2. CASE x = c
        <5>1. t = s
          BY <1>4, <1>20, <1>22, <3>1, <4>2 DEF IndInv, HomeOK, Home, NotPlacedAnew
        <5>2. ~Queued(c, s)
          BY <1>20, <2>2 DEF PlacedOnce, Serves
        <5>3. next # IdleSrv
          BY <1>21, <3>1, <4>2, <5>1, <5>2 DEF Placed
        <5>4. QED
          BY <1>8, <1>11, <4>2, <5>3
      <4>3. QED
        BY <4>1, <4>2
    <3>2. QED
      BY <1>11, <1>22, <2>2, <3>1, OpenKept
  <2>5. FreshOK'
    <3>1. SUFFICES ASSUME Running, NEW i \in ThreadIds, thread[i].pc \in {"new", "connect"}
                   PROVE  conn'[i].server /\ (Up(TaskServer(i))' => thread[i].retries = MaxRetries)
      BY <1>3 DEF FreshOK, TaskServer
    <3>2. TaskServer(i) \in Servers /\ i \in DOMAIN conn
      BY <3>1, TaskInFile DEF IndInv, ConnsOK
    <3>3. i # c
      BY <1>4, <1>20, <2>2, <3>1 DEF PlacedOpen
    <3>4. QED
      BY <1>11, <1>25, <2>2, <3>1, <3>2, <3>3 DEF FreshOK
  <2>6. SizeOK'
    BY <1>2, <1>18, <2>2, SizeKept
  <2>7. QED
    BY <2>3, <2>4, <2>5, <2>6
<1>27. ServersSurvive'
  BY <1>2, <1>25 DEF IndInv, ServersSurvive
<1>28. QED
  BY <1>16, <1>17, <1>19, <1>23, <1>24, <1>26, <1>27 DEF IndInv

\* Every step of a server.
LEMMA ServerInd ==
  ASSUME IndInv, NEW s \in Servers, ServerProcess(s)
  PROVE  IndInv'
BY AcceptInd, RecvClosedInd, RecvNoFileInd, RecvNoDescriptorInd, RecvCheckInd, RecvGetInd,
   RecvOutOfRangeInd, WriteBytesInd, WriteBrokenInd
DEF ServerProcess, ServerStep

-----------------------------------------------------------------------------
(***************************************************************************)
(* The threads of the client.                                              *)
(***************************************************************************)

\* A step of thread i that keeps what concerns it keeps everything.
LEMMA ThreadInd ==
  ASSUME IndInv, Running, NEW i \in ThreadIds, UNCHANGED <<mainVars, hosted, free, srv>>,
         NEW r \in ThreadSet, thread' = [thread EXCEPT ![i] = r], thread[i].pc # "new",
         NEW q \in ConnSet, conn' = [conn EXCEPT ![i] = q],
         q.size \in Nat, q.request = "GET" => q.size > 0,
         DOMAIN file_data' = DOMAIN file_data,
         faults' \in 0 .. MaxFaults, faults' = 0 => faults = 0,
         backlog' \in [Servers -> Seq(DOMAIN conn)],
         \A s \in Servers : Len(backlog'[s]) <= Backlog,
         \A s \in Servers : \A c \in DOMAIN conn :
           Placed(c, s)' => Placed(c, s) \/ (c = i /\ s = TaskServer(i)),
         Agreed(i)',
         faults' = 0 => PlacedOnce',
         faults' = 0 => \A s \in Servers :
           Placed(i, s)' => q.server /\ q.client /\ r.pc \in {"request", "recv"},
         faults' = 0 /\ r.pc \in {"new", "connect"} =>
           q.server /\ (Up(TaskServer(i)) => r.retries = MaxRetries)
  PROVE  IndInv'
<1>1. /\ main' = main /\ created' = created /\ SamePlan /\ num_connections' = num_connections
      /\ Running' = Running /\ ThreadIds' = ThreadIds
      /\ hosted' = hosted /\ free' = free /\ srv' = srv /\ file_size' = file_size
  BY DEF mainVars, SamePlan, Running, ThreadIds
<1>2. /\ i \in DOMAIN conn /\ i # CheckConn /\ CheckConn \in DOMAIN conn
      /\ DOMAIN thread = ThreadIds /\ main \notin {"check", "size"}
      /\ DOMAIN conn = {CheckConn} \cup ThreadIds
  BY CheckApart DEF IndInv, ConnsOK, TypeOK, Running
<1>3. /\ DOMAIN conn' = DOMAIN conn /\ conn'[i] = q
      /\ \A c \in DOMAIN conn \ {i} : conn'[c] = conn[c]
      /\ conn' \in [DOMAIN conn' -> ConnSet]
  BY <1>2 DEF IndInv, TypeOK
<1>4. /\ DOMAIN thread' = DOMAIN thread /\ thread'[i] = r
      /\ \A j \in DOMAIN thread \ {i} : thread'[j] = thread[j]
      /\ thread' \in [DOMAIN thread' -> ThreadSet]
  BY <1>2 DEF IndInv, TypeOK
<1>5. TypeOK'
  <2>1. ConnsType'
    BY <1>1, <1>3 DEF IndInv, TypeOK, ConnsType
  <2>2. ServersType'
    BY <1>1, <1>3 DEF IndInv, TypeOK, ServersType
  <2>3. HostsType'
    BY <1>1 DEF IndInv, TypeOK, HostsType
  <2>4. ClientType'
    BY <1>1, <1>2, <1>4 DEF IndInv, TypeOK, ClientType
  <2>5. QED
    BY <2>1, <2>2, <2>3, <2>4 DEF TypeOK, ConnsType, ServersType, HostsType, ClientType
<1>6. ConnsOK'
  <2>1. \A c \in DOMAIN conn' : conn'[c].size \in Nat /\ (conn'[c].request = "GET" => conn'[c].size > 0)
    BY <1>3 DEF IndInv, ConnsOK
  <2>2. \A s \in Servers : srv'[s].pc = "write" => srv'[s].remaining > 0 /\ srv'[s].conn # CheckConn
    BY <1>1 DEF IndInv, ConnsOK
  <2>3. /\ num_connections' \in Int /\ CheckConn \in DOMAIN conn'
        /\ main' \in {"check", "size"} => DOMAIN conn' = {CheckConn}
        /\ Running' => DOMAIN conn' = {CheckConn} \cup ThreadIds'
    BY <1>1, <1>2, <1>3 DEF IndInv, ConnsOK
  <2>4. QED
    BY <2>1, <2>2, <2>3 DEF ConnsOK
<1>7. CheckOK'
  <2>1. conn'[CheckConn] = conn[CheckConn] /\ main' # "check"
    BY <1>1, <1>2, <1>3
  <2>2. QED
    BY <2>1 DEF IndInv, CheckOK
<1>8. CreatedOK'
  <2>1. SUFFICES ASSUME main = "create"
                 PROVE  created \in ThreadIds /\ \A j \in ThreadIds : j >= created => thread'[j].pc = "new"
    BY <1>1 DEF CreatedOK
  <2>2. created \in ThreadIds /\ \A j \in ThreadIds : j >= created => thread[j].pc = "new"
    BY <2>1 DEF IndInv, CreatedOK
  <2>3. QED
    BY <1>2, <1>4, <2>2
<1>9. \A c, s : Home(c, s)' = Home(c, s)
  BY DEF Home, TaskServer
<1>10. HomeOK'
  <2>1. ASSUME NEW s \in Servers, NEW c \in DOMAIN conn, Placed(c, s)' PROVE Home(c, s)
    BY <1>2, <2>1 DEF IndInv, HomeOK, Home
  <2>2. QED
    BY <1>3, <1>9, <2>1 DEF HomeOK
<1>11. ThreadsOK'
  <2>1. ASSUME NEW j \in ThreadIds, j # i PROVE Agreed(j)'
    <3>1. Agreed(j) /\ j \in DOMAIN conn
      BY <1>2 DEF IndInv, ThreadsOK
    <3>2. SameButClosed(j) /\ thread'[j] = thread[j]
      BY <1>2, <1>3, <1>4, <2>1, <3>1 DEF SameButClosed
    <3>3. \A s \in Servers : (Writes(s, j)' => Writes(s, j)) /\ srv'[s] = srv[s]
      BY <1>1 DEF Writes
    <3>4. QED
      BY <1>1, <3>1, <3>2, <3>3, AgreedKept
  <2>2. QED
    BY <1>1, <2>1 DEF ThreadsOK
<1>12. \A s \in Servers : Up(s)' <=> Up(s)
  BY <1>1 DEF Up
<1>13. QuietOK'
  <2>1. SUFFICES ASSUME faults' = 0 PROVE PlacedOpen' /\ FreshOK' /\ SizeOK'
    BY DEF QuietOK
  <2>2. PlacedOpen /\ FreshOK /\ SizeOK
    BY <2>1 DEF IndInv, QuietOK
  <2>3. PlacedOpen'
    <3>1. ASSUME NEW s \in Servers, NEW c \in DOMAIN conn, Placed(c, s)'
          PROVE  /\ conn'[c].server /\ conn'[c].client
                 /\ c = CheckConn => main = "size" /\ conn'[c].request = "CHECK"
                 /\ c # CheckConn => Running /\ thread'[c].pc \in {"request", "recv"}
      <4>1. CASE c = i
        BY <1>2, <1>3, <1>4, <2>1, <3>1, <4>1
      <4>2. CASE c # i
        <5>1. Placed(c, s)
          BY <3>1, <4>2
        <5>2. /\ conn[c].server /\ conn[c].client
              /\ c = CheckConn => main = "size" /\ conn[c].request = "CHECK"
              /\ c # CheckConn => Running /\ thread[c].pc \in {"request", "recv"}
          BY <2>2, <5>1 DEF PlacedOpen
        <5>3. c # CheckConn => c \in DOMAIN thread
          BY <1>2
        <5>4. QED
          BY <1>3, <1>4, <4>2, <5>2, <5>3
      <4>3. QED
        BY <4>1, <4>2
    <3>2. QED
      BY <1>1, <1>3, <3>1 DEF PlacedOpen
  <2>4. FreshOK'
    <3>1. SUFFICES ASSUME NEW j \in ThreadIds, thread'[j].pc \in {"new", "connect"}
                   PROVE  conn'[j].server /\ (Up(TaskServer(j))' => thread'[j].retries = MaxRetries)
      BY <1>1 DEF FreshOK
    <3>2. TaskServer(j) \in Servers /\ TaskServer(j)' = TaskServer(j) /\ j \in DOMAIN conn
      BY <1>2, TaskInFile DEF IndInv, TaskServer
    <3>3. Up(TaskServer(j))' <=> Up(TaskServer(j))
      BY <1>1, <3>2 DEF Up
    <3>4. CASE j = i
      BY <1>2, <1>3, <1>4, <2>1, <3>1, <3>3, <3>4
    <3>5. CASE j # i
      BY <1>2, <1>3, <1>4, <2>2, <3>1, <3>2, <3>3, <3>5 DEF FreshOK
    <3>6. QED
      BY <3>4, <3>5
  <2>5. SizeOK'
    BY <1>1, <1>2, <2>2 DEF SizeOK, NoDescriptors
  <2>6. QED
    BY <2>3, <2>4, <2>5
<1>14. ServersSurvive'
  BY <1>1, <1>12 DEF IndInv, ServersSurvive
<1>15. QED
  BY <1>5, <1>6, <1>7, <1>8, <1>10, <1>11, <1>13, <1>14 DEF IndInv

\* The servers and what waits for them stay as they are.
LEMMA PlacedKept ==
  ASSUME UNCHANGED <<srv, backlog>>
  PROVE  /\ \A c, s : (Placed(c, s)' <=> Placed(c, s)) /\ (Writes(s, c)' <=> Writes(s, c))
         /\ \A s : Up(s)' <=> Up(s)
         /\ PlacedOnce' <=> PlacedOnce
BY DEF Placed, Queued, Serves, Busy, Writes, Up, PlacedOnce

\* A step of thread i that changes its own record, its own connection and its
\* own bytes.
LEMMA ThreadAloneInd ==
  ASSUME IndInv, Running, NEW i \in ThreadIds, UNCHANGED <<mainVars, hosted, free, srv, backlog>>,
         NEW r \in ThreadSet, thread' = [thread EXCEPT ![i] = r], thread[i].pc # "new",
         NEW q \in ConnSet, conn' = [conn EXCEPT ![i] = q],
         q.size \in Nat, q.request = "GET" => q.size > 0,
         DOMAIN file_data' = DOMAIN file_data,
         faults' \in 0 .. MaxFaults, faults' = 0 => faults = 0,
         Agreed(i)',
         faults' = 0 => \A s \in Servers :
           Placed(i, s) => q.server /\ q.client /\ r.pc \in {"request", "recv"},
         faults' = 0 /\ r.pc \in {"new", "connect"} =>
           q.server /\ (Up(TaskServer(i)) => r.retries = MaxRetries)
  PROVE  IndInv'
<1>1. /\ \A c, s : Placed(c, s)' <=> Placed(c, s)
      /\ PlacedOnce' <=> PlacedOnce
  BY PlacedKept
<1>2. /\ backlog' \in [Servers -> Seq(DOMAIN conn)]
      /\ \A s \in Servers : Len(backlog'[s]) <= Backlog
  BY DEF IndInv, TypeOK
<1>3. faults' = 0 => PlacedOnce'
  BY <1>1 DEF IndInv, QuietOK
<1>4. \A s \in Servers : \A c \in DOMAIN conn :
        Placed(c, s)' => Placed(c, s) \/ (c = i /\ s = TaskServer(i))
  BY <1>1
<1>5. faults' = 0 => \A s \in Servers :
        Placed(i, s)' => q.server /\ q.client /\ r.pc \in {"request", "recv"}
  BY <1>1
<1>6. UNCHANGED <<mainVars, hosted, free, srv>>
  OBVIOUS
<1>7. QED
  BY <1>2, <1>3, <1>4, <1>5, <1>6, ThreadInd

\* What is known of thread i and its connection.
LEMMA OwnFacts ==
  ASSUME IndInv, Running, NEW i \in ThreadIds
  PROVE  /\ i \in DOMAIN thread /\ i \in DOMAIN conn /\ i \in Nat /\ i # CheckConn
         /\ thread[i] \in ThreadSet /\ thread[i].remaining \in Nat /\ thread[i].retries \in Nat
         /\ conn[i] \in ConnSet /\ conn[i].stream \in Seq(Int) /\ Len(conn[i].stream) \in Nat
         /\ conn[i].client \in BOOLEAN /\ conn[i].server \in BOOLEAN
         /\ conn[i].size \in Nat /\ (conn[i].request = "GET" => conn[i].size > 0)
         /\ conn = [conn EXCEPT ![i] = conn[i]]
         /\ faults \in 0 .. MaxFaults
         /\ TaskOffset(i) \in Nat /\ TaskSize(i) \in Nat \ {0} /\ TaskServer(i) \in Servers
         /\ TaskOffset(i) + TaskSize(i) <= file_size
         /\ Agreed(i)
<1>1. i \in DOMAIN thread /\ i \in DOMAIN conn /\ i \in Nat /\ i # CheckConn
  BY CheckApart DEF IndInv, TypeOK, ConnsOK
<1>2. thread[i] \in ThreadSet /\ thread[i].remaining \in Nat /\ thread[i].retries \in Nat
  BY <1>1, ThreadFacts DEF IndInv
<1>3. /\ conn[i] \in ConnSet /\ conn[i].stream \in Seq(Int) /\ Len(conn[i].stream) \in Nat
      /\ conn[i].client \in BOOLEAN /\ conn[i].server \in BOOLEAN
  BY <1>1, ConnFacts DEF IndInv
<1>4. conn[i].size \in Nat /\ (conn[i].request = "GET" => conn[i].size > 0)
  BY <1>1 DEF IndInv, ConnsOK
<1>5. conn = [conn EXCEPT ![i] = conn[i]] /\ faults \in 0 .. MaxFaults
  BY <1>1 DEF IndInv, TypeOK
<1>6. /\ TaskOffset(i) \in Nat /\ TaskSize(i) \in Nat \ {0} /\ TaskServer(i) \in Servers
      /\ TaskOffset(i) + TaskSize(i) <= file_size
  BY TaskInFile DEF IndInv
<1>7. Agreed(i)
  BY DEF IndInv, ThreadsOK
<1>8. QED
  BY <1>1, <1>2, <1>3, <1>4, <1>5, <1>6, <1>7

\* The plan does not change when a thread takes a step.
LEMMA SameTask ==
  ASSUME UNCHANGED mainVars
  PROVE  \A i : TaskOffset(i)' = TaskOffset(i) /\ TaskSize(i)' = TaskSize(i)
BY DEF mainVars, TaskOffset, TaskSize

\* A failed connect is tried again until the retries are used up
\* (ftp/client.c:38-48).
LEMMA ConnectFailsInd ==
  ASSUME IndInv, NEW i \in ThreadIds, ConnectFails(i)
  PROVE  IndInv'
<1> DEFINE r == IF thread[i].retries > 0 THEN [thread[i] EXCEPT !.retries = @ - 1]
                ELSE [thread[i] EXCEPT !.pc = "exited", !.status = 0]
<1>1. /\ Running /\ thread[i].pc = "connect" /\ UNCHANGED <<mainVars, hosted, free, srv, backlog>>
      /\ conn' = conn /\ file_data' = file_data
      /\ IF Up(TaskServer(i)) THEN Fault("connect") ELSE UNCHANGED faults
  BY DEF ConnectFails, ftpServerVars
<1>2. thread' = [thread EXCEPT ![i] = r]
  BY Zenon DEF ConnectFails, ExitWith
<1>3. /\ i \in DOMAIN thread /\ i \in DOMAIN conn /\ thread[i] \in ThreadSet
      /\ conn[i] \in ConnSet /\ conn = [conn EXCEPT ![i] = conn[i]]
      /\ conn[i].size \in Nat /\ (conn[i].request = "GET" => conn[i].size > 0)
      /\ faults \in 0 .. MaxFaults /\ Agreed(i) /\ TaskServer(i) \in Servers
      /\ thread[i].retries \in Nat
  BY <1>1, OwnFacts
<1>4. /\ r \in ThreadSet /\ r.remaining = thread[i].remaining
      /\ r.pc \in {"connect", "exited"}
  <2>1. CASE thread[i].retries > 0
    BY <1>1, <1>3, <2>1 DEF ThreadSet
  <2>2. CASE ~(thread[i].retries > 0)
    BY <1>1, <1>3, <2>2 DEF ThreadSet, ThreadStates
  <2>3. QED
    BY <2>1, <2>2
<1> HIDE DEF r
<1>5. /\ faults' \in 0 .. MaxFaults
      /\ faults' = 0 => faults = 0 /\ ~Up(TaskServer(i))
  BY <1>1, <1>3, FtpServerAssumption DEF Fault
<1>6. thread'[i] = r
  BY <1>2, <1>3
<1>7. Agreed(i)'
  <2>1. /\ TaskOffset(i)' = TaskOffset(i) /\ TaskSize(i)' = TaskSize(i)
        /\ \A s \in Servers : Writes(s, i)' <=> Writes(s, i)
    BY <1>1, SameTask, PlacedKept
  <2>2. QED
    BY <1>1, <1>3, <1>4, <1>6, <2>1 DEF Agreed
<1>8. faults' = 0 => \A s \in Servers : ~Placed(i, s)
  BY <1>1, <1>3, <1>5, OwnFacts DEF IndInv, QuietOK, PlacedOpen
<1>9. faults' = 0 => conn[i].server
  BY <1>1, <1>5 DEF IndInv, QuietOK, FreshOK
<1>10. QED
  BY <1>1, <1>2, <1>3, <1>4, <1>5, <1>7, <1>8, <1>9, ThreadAloneInd

\* The request goes to the server if the connection is still open at the
\* other end.
LEMMA SendGetInd ==
  ASSUME IndInv, NEW i \in ThreadIds, SendGet(i)
  PROVE  IndInv'
<1> DEFINE r   == [thread[i] EXCEPT !.pc = "recv"]
           get == [conn[i] EXCEPT !.request = "GET", !.offset = TaskOffset(i), !.size = TaskSize(i)]
           q   == IF conn[i].server THEN get ELSE conn[i]
<1>1. /\ Running /\ thread[i].pc = "request" /\ UNCHANGED <<mainVars, hosted, free, srv, backlog>>
      /\ faults' = faults /\ file_data' = file_data
  BY DEF SendGet
<1>2. thread' = [thread EXCEPT ![i] = r]
  BY Zenon DEF SendGet
<1>3. /\ i \in DOMAIN thread /\ i \in DOMAIN conn /\ thread[i] \in ThreadSet
      /\ conn[i] \in ConnSet /\ conn = [conn EXCEPT ![i] = conn[i]]
      /\ conn[i].size \in Nat /\ (conn[i].request = "GET" => conn[i].size > 0)
      /\ faults \in 0 .. MaxFaults /\ Agreed(i)
      /\ TaskOffset(i) \in Nat /\ TaskSize(i) \in Nat \ {0}
  BY <1>1, OwnFacts
<1>4. conn' = [conn EXCEPT ![i] = q]
  <2>1. conn[i].server => conn' = [conn EXCEPT ![i] = get]
    BY Zenon DEF SendGet
  <2>2. ~conn[i].server => conn' = conn
    BY DEF SendGet
  <2> HIDE DEF get
  <2>3. QED
    BY <1>3, <2>1, <2>2
<1>5. r \in ThreadSet /\ r.remaining = thread[i].remaining /\ r.pc = "recv"
  BY <1>3 DEF ThreadSet, ThreadStates
<1>6. /\ get \in ConnSet /\ get.request = "GET" /\ get.offset = TaskOffset(i)
      /\ get.size = TaskSize(i) /\ get.stream = conn[i].stream
      /\ get.client = conn[i].client /\ get.server = conn[i].server
  <2>1. conn[i] \in ConnSet /\ TaskOffset(i) \in Int /\ TaskSize(i) \in Int
    BY <1>3
  <2>2. conn[i] \in [request : {"none", "CHECK", "GET"}, offset : Int, size : Int,
                    stream : Seq(Int), client : BOOLEAN, server : BOOLEAN]
    BY <2>1 DEF ConnSet
  <2>3. get \in [request : {"none", "CHECK", "GET"}, offset : Int, size : Int,
                stream : Seq(Int), client : BOOLEAN, server : BOOLEAN]
    BY <2>1, <2>2
  <2>4. /\ get.request = "GET" /\ get.offset = TaskOffset(i)
        /\ get.size = TaskSize(i) /\ get.stream = conn[i].stream
        /\ get.client = conn[i].client /\ get.server = conn[i].server
    BY <2>2
  <2>5. QED
    BY <2>3, <2>4 DEF ConnSet
<1> HIDE DEF r, get
<1>7. /\ q \in ConnSet /\ q.size \in Nat /\ (q.request = "GET" => q.size > 0)
      /\ q.server = conn[i].server /\ q.client = conn[i].client /\ q.stream = conn[i].stream
      /\ q.server => q.request = "GET" /\ q.offset = TaskOffset(i) /\ q.size = TaskSize(i)
  BY <1>3, <1>6
<1> HIDE DEF q
<1>8. thread'[i] = r /\ conn'[i] = q
  BY <1>2, <1>3, <1>4
<1>9. Agreed(i)'
  <2>1. /\ TaskOffset(i)' = TaskOffset(i) /\ TaskSize(i)' = TaskSize(i)
        /\ \A s \in Servers : Writes(s, i)' <=> Writes(s, i)
    BY <1>1, SameTask, PlacedKept
  <2>2. QED
    BY <1>1, <1>3, <1>5, <1>7, <1>8, <2>1 DEF Agreed
<1>10. faults' = 0 => \A s \in Servers : Placed(i, s) => q.server /\ q.client
  BY <1>1, <1>3, <1>7 DEF IndInv, QuietOK, PlacedOpen
<1>11. QED
  BY <1>1, <1>2, <1>3, <1>4, <1>5, <1>7, <1>9, <1>10, ThreadAloneInd

\* A thread closes a connection that its server has closed, and ends.
LEMMA GivesUpInd ==
  ASSUME IndInv, Running, NEW i \in ThreadIds, NEW status \in {0, 1}, ~conn[i].server,
         thread[i].pc \in {"request", "recv"}, ExitWith(i, status),
         conn' = [conn EXCEPT ![i].client = FALSE],
         UNCHANGED <<mainVars, file_data, hosted, free, backlog, srv, faults>>
  PROVE  IndInv'
<1> DEFINE r == [thread[i] EXCEPT !.pc = "exited", !.status = status]
           q == [conn[i] EXCEPT !.client = FALSE]
<1>1. thread' = [thread EXCEPT ![i] = r]
  BY Zenon DEF ExitWith
<1>2. conn' = [conn EXCEPT ![i] = q]
  OBVIOUS
<1>3. /\ i \in DOMAIN thread /\ i \in DOMAIN conn /\ thread[i] \in ThreadSet
      /\ conn[i] \in ConnSet
      /\ conn[i].size \in Nat /\ (conn[i].request = "GET" => conn[i].size > 0)
      /\ faults \in 0 .. MaxFaults /\ Agreed(i)
  BY OwnFacts
<1>4. r \in ThreadSet /\ r.remaining = thread[i].remaining /\ r.pc = "exited"
  BY <1>3 DEF ThreadSet, ThreadStates
<1>5. /\ q \in ConnSet /\ q.size \in Nat /\ (q.request = "GET" => q.size > 0)
  BY <1>3 DEF ConnSet
<1> HIDE DEF r, q
<1>6. thread'[i] = r
  BY <1>1, <1>3
<1>7. Agreed(i)'
  <2>1. TaskSize(i)' = TaskSize(i)
    BY SameTask
  <2>2. QED
    BY <1>3, <1>4, <1>6, <2>1 DEF Agreed
<1>8. faults' = 0 => \A s \in Servers : ~Placed(i, s)
  BY <1>3 DEF IndInv, QuietOK, PlacedOpen
<1>9. thread[i].pc # "new" /\ r.pc \notin {"new", "connect"}
  BY <1>4
<1>10. /\ UNCHANGED <<mainVars, hosted, free, srv, backlog>>
       /\ DOMAIN file_data' = DOMAIN file_data /\ faults' \in 0 .. MaxFaults
       /\ faults' = 0 => faults = 0
  BY <1>3
<1>11. QED
  BY <1>1, <1>2, <1>4, <1>5, <1>7, <1>8, <1>9, <1>10, ThreadAloneInd

\* write() to a closed connection ends the thread.
LEMMA SendGetFailsInd ==
  ASSUME IndInv, NEW i \in ThreadIds, SendGetFails(i)
  PROVE  IndInv'
<1>1. /\ Running /\ ~conn[i].server /\ thread[i].pc \in {"request", "recv"} /\ ExitWith(i, 0)
      /\ UNCHANGED <<mainVars, file_data, hosted, free, backlog, srv, faults>>
  BY DEF SendGetFails
<1>2. conn' = [conn EXCEPT ![i].client = FALSE]
  BY Zenon DEF SendGetFails
<1>3. QED
  BY <1>1, <1>2, GivesUpInd

\* The end of the stream ends the thread.
LEMMA RecvEndInd ==
  ASSUME IndInv, NEW i \in ThreadIds, RecvEnd(i)
  PROVE  IndInv'
<1>1. /\ Running /\ ~conn[i].server /\ thread[i].pc \in {"request", "recv"} /\ ExitWith(i, 1)
      /\ UNCHANGED <<mainVars, file_data, hosted, free, backlog, srv, faults>>
  BY DEF RecvEnd
<1>2. conn' = [conn EXCEPT ![i].client = FALSE]
  BY Zenon DEF RecvEnd
<1>3. QED
  BY <1>1, <1>2, GivesUpInd

\* A thread whose connection is open misses more than what has arrived.
LEMMA MoreToCome ==
  ASSUME IndInv, Running, NEW i \in ThreadIds, thread[i].pc = "recv", conn[i].server,
         conn[i].stream # << >>
  PROVE  /\ conn[i].client
         /\ \E s \in Servers :
              /\ Writes(s, i)
              /\ srv[s].remaining \in Nat \ {0}
              /\ srv[s].offset \in Int
              /\ thread[i].remaining = Len(conn[i].stream) + srv[s].remaining
              /\ srv[s].offset = OutputPos(i) + Len(conn[i].stream)
<1>1. Agreed(i)
  BY OwnFacts
<1>2. PICK s \in Servers :
        /\ Writes(s, i)
        /\ thread[i].remaining = Len(conn[i].stream) + srv[s].remaining
        /\ srv[s].offset = OutputPos(i) + Len(conn[i].stream)
  BY <1>1 DEF Agreed
<1>3. srv[s].remaining \in Nat \ {0} /\ srv[s].offset \in Int
  BY <1>2, SrvFacts DEF IndInv, ConnsOK, Writes
<1>4. QED
  BY <1>1, <1>2, <1>3 DEF Agreed

\* recv takes any part of the stream, and memcpy puts it where the thread has
\* got to.
LEMMA RecvBytesInd ==
  ASSUME IndInv, NEW i \in ThreadIds, NEW k \in 1 .. Len(conn[i].stream), RecvBytes(i, k)
  PROVE  IndInv'
<1> DEFINE rest == thread[i].remaining - k
           left == SubSeq(conn[i].stream, k + 1, Len(conn[i].stream))
           q    == [conn[i] EXCEPT !.stream = left, !.client = conn[i].client /\ rest > 0]
<1>1. /\ Running /\ thread[i].pc = "recv" /\ k <= BytesToRead(i)
      /\ UNCHANGED <<mainVars, hosted, free, backlog, srv, faults>>
      /\ file_data' = Stored(i, k)
  BY DEF RecvBytes
<1>2. conn' = [conn EXCEPT ![i] = q]
  BY Zenon DEF RecvBytes
<1>3. PICK status \in {0, 1} :
        thread' = [thread EXCEPT
                     ![i] = [@ EXCEPT !.pc = IF rest > 0 THEN "recv" ELSE "exited",
                                      !.remaining = rest, !.status = status]]
  <2>1. \E status \in IF rest > 0 THEN {0} ELSE {0, 1} :
           thread' = [thread EXCEPT
                        ![i] = [@ EXCEPT !.pc = IF rest > 0 THEN "recv" ELSE "exited",
                                         !.remaining = rest, !.status = status]]
    BY Zenon DEF RecvBytes
  <2>2. QED
    BY <2>1, Zenon
<1> DEFINE r == [thread[i] EXCEPT !.pc = IF rest > 0 THEN "recv" ELSE "exited",
                                  !.remaining = rest, !.status = status]
<1>4. thread' = [thread EXCEPT ![i] = r]
  BY <1>3, Zenon
<1>5. /\ i \in DOMAIN thread /\ i \in DOMAIN conn /\ thread[i] \in ThreadSet
      /\ conn[i] \in ConnSet /\ conn[i].stream \in Seq(Int) /\ Len(conn[i].stream) \in Nat
      /\ conn[i].client \in BOOLEAN /\ conn[i].server \in BOOLEAN
      /\ conn[i].size \in Nat /\ (conn[i].request = "GET" => conn[i].size > 0)
      /\ faults \in 0 .. MaxFaults /\ Agreed(i) /\ thread[i].remaining \in Nat
      /\ TaskOffset(i) \in Nat /\ TaskSize(i) \in Nat \ {0}
  BY <1>1, OwnFacts
<1>6. /\ k \in Nat \ {0} /\ rest \in Nat /\ rest <= thread[i].remaining
  BY <1>1, <1>5, FtpServerAssumption DEF BytesToRead
<1>7. left \in Seq(Int) /\ Len(left) = Len(conn[i].stream) - k
  <2> DEFINE st == conn[i].stream
  <2>1. st \in Seq(Int) /\ k + 1 \in 1 .. Len(st) + 1 /\ Len(st) \in Nat
    BY <1>5, <1>6, SMTT(30)
  <2> HIDE DEF st
  <2>2. SubSeq(st, k + 1, Len(st)) \in Seq(Int) /\ Len(SubSeq(st, k + 1, Len(st))) = Len(st) - k
    BY <2>1, <1>6, SubSeqProperties
  <2>3. QED
    BY <2>2 DEF st
<1> HIDE DEF rest, left
<1>8. /\ r \in ThreadSet /\ r.remaining = rest
      /\ r.pc = IF rest > 0 THEN "recv" ELSE "exited"
  <2>1. thread[i] \in [pc : ThreadStates, retries : Nat, remaining : Nat, status : {0, 1},
                       accepted : BOOLEAN]
    BY <1>5 DEF ThreadSet
  <2>2. (IF rest > 0 THEN "recv" ELSE "exited") \in ThreadStates
    BY DEF ThreadStates
  <2>3. r \in [pc : ThreadStates, retries : Nat, remaining : Nat, status : {0, 1},
               accepted : BOOLEAN]
    BY <1>6, <2>1, <2>2
  <2>4. r.remaining = rest /\ r.pc = IF rest > 0 THEN "recv" ELSE "exited"
    BY <2>1
  <2>5. QED
    BY <2>3, <2>4 DEF ThreadSet
<1>9. /\ q \in ConnSet /\ q.size = conn[i].size /\ q.request = conn[i].request
      /\ q.offset = conn[i].offset /\ q.server = conn[i].server /\ q.stream = left
      /\ q.client = (conn[i].client /\ rest > 0)
  <2>1. conn[i] \in [request : {"none", "CHECK", "GET"}, offset : Int, size : Int,
                     stream : Seq(Int), client : BOOLEAN, server : BOOLEAN]
    BY <1>5 DEF ConnSet
  <2>2. (conn[i].client /\ rest > 0) \in BOOLEAN
    OBVIOUS
  <2>3. q \in [request : {"none", "CHECK", "GET"}, offset : Int, size : Int,
               stream : Seq(Int), client : BOOLEAN, server : BOOLEAN]
    BY <1>7, <2>1, <2>2
  <2>4. /\ q.size = conn[i].size /\ q.request = conn[i].request
        /\ q.offset = conn[i].offset /\ q.server = conn[i].server /\ q.stream = left
        /\ q.client = (conn[i].client /\ rest > 0)
    BY <2>1
  <2>5. QED
    BY <2>3, <2>4 DEF ConnSet
<1> HIDE DEF r, q
<1>10. thread'[i] = r /\ conn'[i] = q
  BY <1>2, <1>4, <1>5
<1>11. conn[i].stream # << >>
  BY <1>5, <1>6
<1>12. conn[i].server => rest > 0
  <2>1. SUFFICES ASSUME conn[i].server PROVE rest > 0
    OBVIOUS
  <2>2. PICK s \in Servers : /\ srv[s].remaining \in Nat \ {0}
                             /\ thread[i].remaining = Len(conn[i].stream) + srv[s].remaining
    BY <1>1, <1>11, <2>1, MoreToCome
  <2>3. QED
    BY <1>5, <1>6, <2>2 DEF rest
<1>13. Agreed(i)'
  <2>1. /\ TaskOffset(i)' = TaskOffset(i) /\ TaskSize(i)' = TaskSize(i)
        /\ \A s \in Servers : Writes(s, i)' <=> Writes(s, i)
    BY <1>1, SameTask, PlacedKept
  <2>2. thread'[i].remaining <= TaskSize(i)
    BY <1>5, <1>6, <1>8, <1>10 DEF Agreed
  <2>3. thread'[i].pc \notin {"new", "connect", "request"}
    BY <1>8, <1>10
  <2>4. ASSUME conn'[i].server
        PROVE  /\ conn'[i].client
               /\ conn'[i].request = "GET"
               /\ conn'[i].offset = TaskOffset(i)
               /\ conn'[i].size = TaskSize(i)
               /\ \E s \in Servers :
                    /\ Writes(s, i)
                    /\ thread'[i].remaining = Len(conn'[i].stream) + srv[s].remaining
                    /\ srv[s].offset = OutputPos(i)' + Len(conn'[i].stream)
    <3>1. conn[i].server
      BY <1>9, <1>10, <2>4
    <3>2. PICK s \in Servers :
              /\ Writes(s, i)
              /\ srv[s].remaining \in Nat \ {0}
              /\ srv[s].offset \in Int
              /\ thread[i].remaining = Len(conn[i].stream) + srv[s].remaining
              /\ srv[s].offset = OutputPos(i) + Len(conn[i].stream)
      BY <1>1, <1>11, <3>1, MoreToCome
    <3>3. thread'[i].remaining = Len(conn'[i].stream) + srv[s].remaining
      <4>1. thread'[i].remaining = thread[i].remaining - k
        BY <1>8, <1>10 DEF rest
      <4>2. Len(conn'[i].stream) = Len(conn[i].stream) - k
        BY <1>7, <1>9, <1>10
      <4>3. \A a \in Nat, b \in Nat : (a + b) - k = (a - k) + b
        BY <1>6
      <4>4. (Len(conn[i].stream) + srv[s].remaining) - k
              = (Len(conn[i].stream) - k) + srv[s].remaining
        BY <1>5, <3>2, <4>3, Zenon
      <4>5. QED
        BY <3>2, <4>1, <4>2, <4>4, Zenon
    <3>4. OutputPos(i)' = TaskOffset(i) + TaskSize(i) - rest
      BY <1>8, <1>10, <2>1 DEF OutputPos
    <3>5. srv[s].offset = OutputPos(i)' + Len(conn'[i].stream)
      <4>1. Len(conn'[i].stream) = Len(conn[i].stream) - k
        BY <1>7, <1>9, <1>10
      <4>2. OutputPos(i) = TaskOffset(i) + TaskSize(i) - thread[i].remaining
        BY DEF OutputPos
      <4>3. \A a \in Nat, b \in Nat, c \in Nat, d \in Nat :
              (a + b - c) + d = (a + b - (c - k)) + (d - k)
        BY <1>6
      <4>4. srv[s].offset = (TaskOffset(i) + TaskSize(i) - thread[i].remaining) + Len(conn[i].stream)
        BY <3>2, <4>2
      <4>5. QED
        BY <1>5, <3>4, <4>1, <4>3, <4>4 DEF rest
    <3>6. conn'[i].client
      BY <1>1, <1>9, <1>10, <1>11, <1>12, <3>1, MoreToCome
    <3>7. QED
      BY <1>1, <1>5, <1>9, <1>10, <3>1, <3>2, <3>3, <3>5, <3>6 DEF Agreed
  <2>5. QED
    BY <1>1, <2>1, <2>2, <2>3, <2>4 DEF Agreed
<1>14. ASSUME faults' = 0, NEW s \in Servers, Placed(i, s)
       PROVE  q.server /\ q.client /\ r.pc \in {"request", "recv"}
  <2>1. conn[i].server /\ conn[i].client
    BY <1>1, <1>5, <1>14 DEF IndInv, QuietOK, PlacedOpen
  <2>2. QED
    BY <1>8, <1>9, <1>12, <2>1
<1>15. r.pc \notin {"new", "connect"} /\ thread[i].pc # "new"
  BY <1>1, <1>8
<1>16. DOMAIN file_data' = DOMAIN file_data
  BY <1>1 DEF Stored
<1>17. q.size \in Nat /\ (q.request = "GET" => q.size > 0)
  BY <1>5, <1>9
<1>18. /\ UNCHANGED <<mainVars, hosted, free, srv, backlog>>
       /\ faults' \in 0 .. MaxFaults
       /\ faults' = 0 => faults = 0
       /\ r \in ThreadSet /\ q \in ConnSet
  BY <1>1, <1>5, <1>8, <1>9
<1>19. QED
  BY <1>1, <1>2, <1>4, <1>13, <1>14, <1>15, <1>16, <1>17, <1>18, ThreadAloneInd

\* A connection joins the backlog of a server.
LEMMA Queueing ==
  ASSUME IndInv, NEW t \in Servers, NEW c \in DOMAIN conn, CanConnect(t), srv' = srv,
         backlog' = [backlog EXCEPT ![t] = Append(backlog[t], c)]
  PROVE  /\ backlog' \in [Servers -> Seq(DOMAIN conn)]
         /\ \A s \in Servers : Len(backlog'[s]) <= Backlog
         /\ \A s \in Servers : \A x : Placed(x, s)' => Placed(x, s) \/ (x = c /\ s = t)
         /\ PlacedOnce /\ ~Placed(c, t) => PlacedOnce'
<1> DEFINE old == backlog[t]
           new == Append(backlog[t], c)
<1>1. old \in Seq(DOMAIN conn) /\ Len(old) \in Nat /\ Len(old) < Backlog
  BY SrvFacts DEF IndInv, CanConnect
<1>2. /\ new \in Seq(DOMAIN conn) /\ Len(new) = Len(old) + 1
      /\ \A k \in 1 .. Len(old) : new[k] = old[k]
      /\ new[Len(old) + 1] = c
  <2> HIDE DEF old
  <2>1. new = Append(old, c)
    BY DEF old
  <2> HIDE DEF new
  <2>2. QED
    BY <1>1, <2>1, AppendProperties
<1>3. backlog' = [backlog EXCEPT ![t] = new]
  OBVIOUS
<1> HIDE DEF old, new
<1>4. /\ backlog'[t] = new /\ \A s \in Servers \ {t} : backlog'[s] = backlog[s]
      /\ backlog' \in [Servers -> Seq(DOMAIN conn)]
  BY <1>2, <1>3 DEF IndInv, TypeOK
<1>5. backlog[t] = old
  BY DEF old
<1>6. \A s \in Servers : Len(backlog'[s]) <= Backlog
  <2>1. Len(new) <= Backlog
    BY <1>1, <1>2, FtpServerAssumption
  <2>2. QED
    BY <1>4, <2>1 DEF IndInv, TypeOK
<1>7. \A x : Queued(x, t)' <=> Queued(x, t) \/ x = c
  <2>1. ASSUME NEW x, Queued(x, t)' PROVE Queued(x, t) \/ x = c
    <3>1. PICK k \in 1 .. Len(new) : new[k] = x
      BY <1>4, <2>1 DEF Queued
    <3>2. k \in 1 .. Len(old) \/ k = Len(old) + 1
      BY <1>1, <1>2
    <3>3. QED
      BY <1>2, <1>5, <3>1, <3>2 DEF Queued
  <2>2. ASSUME NEW x, Queued(x, t) \/ x = c PROVE Queued(x, t)'
    <3>1. \E k \in 1 .. Len(new) : new[k] = x
      BY <1>1, <1>2, <1>5, <2>2 DEF Queued
    <3>2. QED
      BY <1>4, <3>1 DEF Queued
  <2>3. QED
    BY <2>1, <2>2
<1>8. \A s \in Servers : \A x : /\ Serves(s, x)' <=> Serves(s, x)
                                /\ s # t => (Queued(x, s)' <=> Queued(x, s))
                                /\ Busy(s)' <=> Busy(s)
  BY <1>4 DEF Serves, Busy, Queued
<1>9. \A s \in Servers : \A x : Placed(x, s)' => Placed(x, s) \/ (x = c /\ s = t)
  BY <1>7, <1>8 DEF Placed
<1>10. ASSUME PlacedOnce, ~Placed(c, t) PROVE PlacedOnce'
  <2>1. ASSUME NEW s \in Servers, s # t
        PROVE  /\ \A j, k \in 1 .. Len(backlog'[s]) : backlog'[s][j] = backlog'[s][k] => j = k
               /\ Busy(s)' => ~Queued(srv[s].conn, s)'
    BY <1>4, <1>8, <1>10, <2>1 DEF PlacedOnce
  <2>2. ASSUME NEW j \in 1 .. Len(new), NEW k \in 1 .. Len(new), new[j] = new[k] PROVE j = k
    <3>1. \A m \in 1 .. Len(old) : old[m] # c
      BY <1>5, <1>10 DEF Placed, Queued
    <3>2. \A m, n \in 1 .. Len(old) : old[m] = old[n] => m = n
      BY <1>5, <1>10 DEF PlacedOnce
    <3>3. /\ j \in 1 .. Len(old) \/ j = Len(old) + 1
          /\ k \in 1 .. Len(old) \/ k = Len(old) + 1
      BY <1>1, <1>2
    <3>4. QED
      BY <1>2, <2>2, <3>1, <3>2, <3>3
  <2>3. Busy(t)' => ~Queued(srv[t].conn, t)'
    BY <1>7, <1>8, <1>10 DEF PlacedOnce, Placed, Serves
  <2>4. \A j, k \in 1 .. Len(backlog'[t]) : backlog'[t][j] = backlog'[t][k] => j = k
    BY <1>4, <2>2
  <2>5. \A s \in Servers :
          /\ \A j, k \in 1 .. Len(backlog'[s]) : backlog'[s][j] = backlog'[s][k] => j = k
          /\ Busy(s)' => ~Queued(srv[s].conn, s)'
    BY <2>1, <2>3, <2>4, ZenonT(30)
  <2>6. QED
    BY <2>5 DEF PlacedOnce, Queued
<1>11. QED
  BY <1>4, <1>6, <1>9, <1>10

\* A new connection is the last in the backlog of its server.
LEMMA ConnectInd ==
  ASSUME IndInv, NEW i \in ThreadIds, Connect(i)
  PROVE  IndInv'
<1> DEFINE lastTry == thread[i].retries = 0
           q == [conn[i] EXCEPT !.client = ~lastTry]
           r == [thread[i] EXCEPT !.pc = IF lastTry THEN "exited" ELSE "request", !.accepted = TRUE]
           t == TaskServer(i)
<1>1. /\ Running /\ thread[i].pc = "connect" /\ CanConnect(t)
      /\ UNCHANGED <<mainVars, file_data, hosted, free, srv, faults>>
  BY DEF Connect
<1>2. /\ thread' = [thread EXCEPT ![i] = r] /\ conn' = [conn EXCEPT ![i] = q]
      /\ backlog' = [backlog EXCEPT ![t] = Append(backlog[t], i)]
  BY Zenon DEF Connect
<1>3. /\ i \in DOMAIN thread /\ i \in DOMAIN conn /\ thread[i] \in ThreadSet
      /\ conn[i] \in ConnSet /\ i # CheckConn
      /\ conn[i].size \in Nat /\ (conn[i].request = "GET" => conn[i].size > 0)
      /\ faults \in 0 .. MaxFaults /\ Agreed(i) /\ t \in Servers
  BY <1>1, OwnFacts
<1>4. r \in ThreadSet /\ r.remaining = thread[i].remaining
  BY <1>3 DEF ThreadSet, ThreadStates
<1>5. r.pc = IF lastTry THEN "exited" ELSE "request"
  BY <1>3 DEF ThreadSet
<1>6. /\ q \in ConnSet /\ q.size = conn[i].size /\ q.request = conn[i].request
      /\ q.offset = conn[i].offset /\ q.server = conn[i].server /\ q.stream = conn[i].stream
      /\ q.client = ~lastTry
  BY <1>3 DEF ConnSet
<1> HIDE DEF q, r, t
<1>7. thread'[i] = r /\ conn'[i] = q
  BY <1>2, <1>3
<1>8. /\ backlog' \in [Servers -> Seq(DOMAIN conn)]
      /\ \A s \in Servers : Len(backlog'[s]) <= Backlog
      /\ \A s \in Servers : \A x : Placed(x, s)' => Placed(x, s) \/ (x = i /\ s = t)
      /\ PlacedOnce /\ ~Placed(i, t) => PlacedOnce'
  BY <1>1, <1>2, <1>3, Queueing
<1>9. Agreed(i)'
  <2>1. /\ TaskOffset(i)' = TaskOffset(i) /\ TaskSize(i)' = TaskSize(i)
        /\ \A s \in Servers : Writes(s, i)' <=> Writes(s, i)
    BY <1>1, SameTask DEF Writes
  <2>2. QED
    BY <1>1, <1>3, <1>4, <1>5, <1>6, <1>7, <2>1 DEF Agreed
<1>10. ASSUME faults' = 0 PROVE PlacedOnce' /\ q.server /\ q.client /\ r.pc = "request"
  <2>1. PlacedOnce /\ PlacedOpen /\ FreshOK
    BY <1>1, <1>10 DEF IndInv, QuietOK
  <2>2. ~Placed(i, t)
    BY <1>1, <1>3, <2>1 DEF PlacedOpen
  <2>3. conn[i].server /\ thread[i].retries = MaxRetries
    BY <1>1, <2>1 DEF FreshOK, CanConnect, t
  <2>4. ~lastTry
    BY <2>3, FtpClientAssumption
  <2>5. QED
    BY <1>5, <1>6, <1>8, <2>1, <2>2, <2>3, <2>4
<1>11. r.pc \notin {"new", "connect"}
  BY <1>5
<1>12. \A s \in Servers : \A c \in DOMAIN conn :
         Placed(c, s)' => Placed(c, s) \/ (c = i /\ s = TaskServer(i))
  BY <1>8 DEF t
<1>13. /\ UNCHANGED <<mainVars, hosted, free, srv>> /\ DOMAIN file_data' = DOMAIN file_data
       /\ faults' \in 0 .. MaxFaults /\ (faults' = 0 => faults = 0)
       /\ q.size \in Nat /\ (q.request = "GET" => q.size > 0) /\ thread[i].pc # "new"
  BY <1>1, <1>3, <1>6
<1>14. QED
  BY <1>1, <1>2, <1>4, <1>6, <1>8, <1>9, <1>10, <1>11, <1>12, <1>13, ThreadInd

\* Every step of a thread.
LEMMA ThreadStepInd ==
  ASSUME IndInv, NEW i \in DOMAIN thread, ThreadStep(i)
  PROVE  IndInv'
<1>1. Running
  BY DEF ThreadStep, Connect, ConnectFails, SendGet, SendGetFails, RecvBytes, RecvEnd
<1>2. i \in ThreadIds
  BY <1>1 DEF IndInv, TypeOK
<1>3. QED
  BY <1>2, ConnectInd, ConnectFailsInd, SendGetInd, SendGetFailsInd, RecvBytesInd, RecvEndInd
  DEF ThreadStep

-----------------------------------------------------------------------------
(***************************************************************************)
(* main() of the client.                                                   *)
(***************************************************************************)

\* main() has got its size or its chunks, or it fails: the servers still have
\* the connections, the threads are of no interest any more.
LEMMA StoppedInd ==
  ASSUME IndInv, main' \in {"done", "failed", "sigfpe", "sigpipe"},
         UNCHANGED <<hosted, free, srv, backlog, thread, num_connections>>,
         file_size' \in Nat, faults' \in 0 .. MaxFaults,
         conn' \in [DOMAIN conn -> ConnSet],
         \A c \in DOMAIN conn : /\ conn'[c].request = conn[c].request
                                /\ conn'[c].size = conn[c].size
                                /\ conn'[c].stream = conn[c].stream
                                /\ conn'[c].server = conn[c].server,
         faults' = 0 => faults = 0 /\ \A s \in Servers : \A c \in DOMAIN conn : ~Placed(c, s)
  PROVE  IndInv'
<1>1. /\ ~Running' /\ main' \notin {"check", "size", "create"} /\ DOMAIN conn' = DOMAIN conn
      /\ ThreadIds' = ThreadIds /\ main' \in MainStates /\ CheckConn \in DOMAIN conn
  BY DEF Running, ThreadIds, MainStates, IndInv, ConnsOK
<1>2. TypeOK'
  <2>1. ConnsType'
    BY <1>1 DEF IndInv, TypeOK, ConnsType
  <2>2. ServersType'
    BY <1>1 DEF IndInv, TypeOK, ServersType
  <2>3. HostsType'
    BY DEF IndInv, TypeOK, HostsType
  <2>4. ClientType'
    BY <1>1 DEF IndInv, TypeOK, ClientType
  <2>5. QED
    BY <2>1, <2>2, <2>3, <2>4 DEF TypeOK, ConnsType, ServersType, HostsType, ClientType
<1>3. ConnsOK'
  <2>1. \A c \in DOMAIN conn' : conn'[c].size \in Nat /\ (conn'[c].request = "GET" => conn'[c].size > 0)
    BY <1>1 DEF IndInv, ConnsOK
  <2>2. \A s \in Servers : srv'[s].pc = "write" => srv'[s].remaining > 0 /\ srv'[s].conn # CheckConn
    BY DEF IndInv, ConnsOK
  <2>3. num_connections' \in Int /\ CheckConn \in DOMAIN conn'
    BY <1>1 DEF IndInv, ConnsOK
  <2>4. QED
    BY <1>1, <2>1, <2>2, <2>3 DEF ConnsOK
<1>4. CheckOK'
  BY <1>1 DEF IndInv, CheckOK
<1>5. CreatedOK' /\ ThreadsOK'
  BY <1>1 DEF CreatedOK, ThreadsOK
<1>6. /\ \A c, s : (Placed(c, s)' <=> Placed(c, s)) /\ (Home(c, s)' <=> Home(c, s))
      /\ \A s : Up(s)' <=> Up(s)
      /\ PlacedOnce' <=> PlacedOnce
  BY PlacedKept DEF Home, TaskServer
<1>7. HomeOK'
  BY <1>1, <1>6 DEF IndInv, HomeOK
<1>8. QuietOK'
  <2>1. SUFFICES ASSUME faults' = 0 PROVE PlacedOnce' /\ PlacedOpen' /\ FreshOK' /\ SizeOK'
    BY DEF QuietOK
  <2>2. PlacedOnce'
    BY <1>6, <2>1 DEF IndInv, QuietOK
  <2>3. PlacedOpen'
    BY <1>1, <1>6, <2>1 DEF PlacedOpen
  <2>4. FreshOK' /\ SizeOK'
    BY <1>1 DEF FreshOK, SizeOK
  <2>5. QED
    BY <2>2, <2>3, <2>4
<1>9. ServersSurvive'
  <2>1. faults' = 0 => faults = 0
    OBVIOUS
  <2>2. QED
    BY <1>6, <2>1 DEF IndInv, ServersSurvive
<1>10. QED
  BY <1>2, <1>3, <1>4, <1>5, <1>7, <1>8, <1>9 DEF IndInv

\* The server cannot be reached with CHECK.
LEMMA SendCheckFailsInd ==
  ASSUME IndInv, SendCheckFails
  PROVE  IndInv'
<1>1. /\ main' = "sigpipe" /\ Fault("connect")
      /\ UNCHANGED <<hosted, free, srv, backlog, thread, num_connections>>
      /\ file_size' = file_size /\ conn' = conn
  BY DEF SendCheckFails, ftpServerVars
<1>2. /\ faults' \in 0 .. MaxFaults /\ faults' # 0 /\ file_size \in Nat
      /\ conn \in [DOMAIN conn -> ConnSet]
  BY <1>1, FtpServerAssumption DEF Fault, IndInv, TypeOK
<1>3. QED
  BY <1>1, <1>2, StoppedInd

\* A thread that has ended has no connection, nor has main() then.
LEMMA WriteOutputInd ==
  ASSUME IndInv, WriteOutput
  PROVE  IndInv'
<1>1. /\ main = "join" /\ main' = "done" /\ faults' = faults
      /\ \A i \in ThreadIds : thread[i].pc = "exited"
      /\ UNCHANGED <<hosted, free, srv, backlog, thread, num_connections>>
      /\ file_size' = file_size /\ conn' = conn
  BY DEF WriteOutput, ftpServerVars
<1>2. /\ faults \in 0 .. MaxFaults /\ file_size \in Nat
      /\ conn \in [DOMAIN conn -> ConnSet]
  BY DEF IndInv, TypeOK
<1>3. ASSUME faults = 0, NEW s \in Servers, NEW c \in DOMAIN conn PROVE ~Placed(c, s)
  <2>1. c # CheckConn => thread[c].pc = "exited"
    BY <1>1, ConnIsNumber
  <2>2. QED
    BY <1>1, <1>3, <2>1 DEF IndInv, QuietOK, PlacedOpen
<1>4. QED
  BY <1>1, <1>2, <1>3, StoppedInd

\* pthread_create fails: the process exits and its connections close.
LEMMA CreateThreadFailsInd ==
  ASSUME IndInv, CreateThreadFails
  PROVE  IndInv'
<1>1. /\ main' = "failed" /\ Fault("create")
      /\ UNCHANGED <<hosted, free, srv, backlog, thread, num_connections>>
      /\ file_size' = file_size
      /\ conn' = [c \in DOMAIN conn |-> [conn[c] EXCEPT !.client = FALSE]]
  BY DEF CreateThreadFails
<1>2. faults' \in 0 .. MaxFaults /\ faults' # 0 /\ file_size \in Nat
  BY <1>1, FtpServerAssumption DEF Fault, IndInv, TypeOK
<1>3. ASSUME NEW c \in DOMAIN conn
      PROVE  /\ conn'[c] \in ConnSet
             /\ conn'[c].request = conn[c].request /\ conn'[c].size = conn[c].size
             /\ conn'[c].stream = conn[c].stream /\ conn'[c].server = conn[c].server
  BY <1>1, ConnFacts DEF IndInv, ConnSet
<1>4. conn' \in [DOMAIN conn -> ConnSet]
  BY <1>1, <1>3
<1>5. QED
  BY <1>1, <1>2, <1>3, <1>4, StoppedInd

\* main() reads when the first server has answered and closed.
LEMMA SizeRead ==
  ASSUME IndInv, ReadSize
  PROVE  /\ main = "size" /\ ~conn[CheckConn].server /\ DOMAIN conn = {CheckConn}
         /\ UNCHANGED <<hosted, free, backlog, srv>> /\ created' = 0
         /\ file_size' \in Nat
         /\ conn[CheckConn] \in ConnSet
         /\ \A s \in Servers : srv[s].pc # "write"
         /\ faults = 0 => \A s \in Servers : \A c \in DOMAIN conn : ~Placed(c, s)
         /\ faults = 0 /\ hosted[0] # NoFile => file_size' = hosted[0] \/ NoDescriptors
<1> DEFINE c  == conn[CheckConn]
           st == conn[CheckConn].stream
<1>1. /\ main = "size"
      /\ st # << >> \/ ~c.server
      /\ UNCHANGED <<hosted, free, backlog, srv>> /\ created' = 0
  BY DEF ReadSize
<1>2. file_size' \in (IF st # << >> /\ st # <<Junk>> THEN {st[1]} ELSE UninitSizes)
  BY Zenon DEF ReadSize, SizeIn
<1>3. /\ CheckConn \in DOMAIN conn /\ DOMAIN conn = {CheckConn} /\ c \in ConnSet
      /\ c.server => st = << >>
      /\ st # << >> => Len(st) = 1 /\ st[1] \in Nat \cup {Junk}
      /\ st \in Seq(Int)
  <2>1. CheckConn \in DOMAIN conn /\ DOMAIN conn = {CheckConn}
    BY <1>1 DEF IndInv, ConnsOK
  <2>2. c \in ConnSet /\ st \in Seq(Int)
    BY <2>1, ConnFacts DEF IndInv
  <2>3. /\ c.server => st = << >>
        /\ st # << >> => Len(st) = 1 /\ st[1] \in Nat \cup {Junk}
    BY DEF IndInv, CheckOK
  <2>4. QED
    BY <2>1, <2>2, <2>3
<1>4. ~c.server
  BY <1>1, <1>3
<1>5. file_size' \in Nat
  <2>1. CASE st # << >> /\ st # <<Junk>>
    <3>1. st[1] # Junk
      BY <1>3, <2>1
    <3>2. QED
      BY <1>2, <1>3, <2>1, <3>1
  <2>2. CASE ~(st # << >> /\ st # <<Junk>>)
    BY <1>2, <2>2, FtpClientAssumption
  <2>3. QED
    BY <2>1, <2>2
<1>6. \A s \in Servers : srv[s].pc # "write"
  BY <1>3, SrvFacts DEF IndInv, ConnsOK
<1>7. faults = 0 => \A s \in Servers : \A x \in DOMAIN conn : ~Placed(x, s)
  BY <1>3, <1>4 DEF IndInv, QuietOK, PlacedOpen
<1>8. ASSUME faults = 0, hosted[0] # NoFile, ~NoDescriptors PROVE file_size' = hosted[0]
  <2>1. st = <<hosted[0]>>
    BY <1>1, <1>4, <1>8 DEF IndInv, QuietOK, SizeOK
  <2>2. hosted[0] \in Nat
    BY <1>8, FirstServer, HostFacts DEF IndInv
  <2>3. st # << >> /\ st # <<Junk>> /\ st[1] = hosted[0]
    BY <2>1, <2>2 DEF Junk
  <2>4. QED
    BY <1>2, <2>3
<1>9. QED
  BY <1>1, <1>3, <1>4, <1>5, <1>6, <1>7, <1>8

\* No size to go on with, or no memory for the file.
LEMMA GetSizeFailsInd ==
  ASSUME IndInv, GetSizeFails
  PROVE  IndInv'
<1>1. /\ ReadSize /\ UNCHANGED <<num_connections, thread>>
      /\ main' \in {"done", "failed", "sigfpe", "sigpipe"}
      /\ faults' = faults \/ Fault("create")
  BY DEF GetSizeFails
<1>2. conn' = [conn EXCEPT ![CheckConn].client = FALSE]
  BY Zenon DEF GetSizeFails
<1>3. /\ DOMAIN conn = {CheckConn} /\ UNCHANGED <<hosted, free, backlog, srv>>
      /\ file_size' \in Nat /\ conn[CheckConn] \in ConnSet
      /\ faults = 0 => \A s \in Servers : \A c \in DOMAIN conn : ~Placed(c, s)
  BY <1>1, SizeRead
<1>4. conn \in [DOMAIN conn -> ConnSet] /\ faults \in 0 .. MaxFaults
  BY DEF IndInv, TypeOK
<1>5. faults' \in 0 .. MaxFaults /\ (faults' = 0 => faults = 0)
  BY <1>1, <1>4, FtpServerAssumption DEF Fault
<1> DEFINE q == [conn[CheckConn] EXCEPT !.client = FALSE]
<1>6. /\ q \in ConnSet /\ q.request = conn[CheckConn].request /\ q.size = conn[CheckConn].size
      /\ q.stream = conn[CheckConn].stream /\ q.server = conn[CheckConn].server
  BY <1>3 DEF ConnSet
<1>7. conn' = [conn EXCEPT ![CheckConn] = q]
  BY <1>2
<1> HIDE DEF q
<1>8. conn' \in [DOMAIN conn -> ConnSet] /\ conn'[CheckConn] = q
  BY <1>3, <1>4, <1>6, <1>7
<1>9. \A c \in DOMAIN conn : /\ conn'[c].request = conn[c].request
                             /\ conn'[c].size = conn[c].size
                             /\ conn'[c].stream = conn[c].stream
                             /\ conn'[c].server = conn[c].server
  BY <1>3, <1>6, <1>8
<1>10. QED
  BY <1>1, <1>3, <1>5, <1>8, <1>9, StoppedInd

\* The plan is made; the connections and the threads start fresh.
LEMMA GetSizeInd ==
  ASSUME IndInv, GetSize
  PROVE  IndInv'
<1> DEFINE n   == num_connections'
           ids == 0 .. n - 1
           new(i) == [pc |-> "new", retries |-> MaxRetries,
                      remaining |-> Size(file_size', n, i), status |-> 0, accepted |-> FALSE]
           old == [conn[CheckConn] EXCEPT !.client = FALSE]
<1>1. /\ ReadSize /\ file_size' # 0 /\ ~DividesByZero(file_size', num_connections)
      /\ main' = "create" /\ n = Connections(file_size', num_connections) /\ faults' = faults
      /\ file_data' = [j \in 0 .. file_size' - 1 |-> Zero]
  BY DEF GetSize
<1>2. thread' = [i \in ids |-> new(i)]
  BY Zenon DEF GetSize
<1>3. conn' = [c \in {CheckConn} \cup ids |->
                 IF c = CheckConn THEN [conn[c] EXCEPT !.client = FALSE] ELSE NewConn]
  BY Zenon DEF GetSize
<1>4. /\ main = "size" /\ ~conn[CheckConn].server /\ DOMAIN conn = {CheckConn}
      /\ UNCHANGED <<hosted, free, backlog, srv>> /\ created' = 0 /\ file_size' \in Nat
      /\ conn[CheckConn] \in ConnSet
      /\ \A s \in Servers : srv[s].pc # "write"
      /\ faults = 0 => \A s \in Servers : \A c \in DOMAIN conn : ~Placed(c, s)
      /\ faults = 0 /\ hosted[0] # NoFile => file_size' = hosted[0] \/ NoDescriptors
  BY <1>1, SizeRead
<1>5. /\ file_size' \in Nat \ {0} /\ n \in 1 .. file_size'
  <2>1. num_connections \in Int
    BY DEF IndInv, ConnsOK
  <2>2. num_connections \in Int \ {0}
    <3>1. num_connections = 0 => Connections(file_size', num_connections) = 0
      BY <1>1, <1>4 DEF Connections
    <3>2. QED
      BY <1>1, <2>1, <3>1 DEF DividesByZero
  <2>3. QED
    BY <1>1, <1>4, <2>2, ConnectionsRange
<1>6. /\ main' \notin {"check", "size"} /\ Running' /\ ThreadIds' = ids
      /\ 0 \in ids /\ \A i \in ids : i \in Nat /\ i # CheckConn
  BY <1>1, <1>5 DEF Running, ThreadIds, CheckConn
<1>7. ASSUME NEW i \in ids
      PROVE  /\ Size(file_size', n, i) \in Nat
             /\ new(i) \in ThreadSet /\ new(i).pc = "new" /\ new(i).retries = MaxRetries
             /\ new(i).remaining = Size(file_size', n, i)
  <2>1. Size(file_size', n, i) \in Nat
    BY <1>5, ChunkInFile
  <2>2. QED
    BY <2>1, FtpClientAssumption DEF ThreadSet, ThreadStates
<1>8. /\ old \in ConnSet /\ old.request = conn[CheckConn].request
      /\ old.size = conn[CheckConn].size
      /\ old.stream = conn[CheckConn].stream /\ old.server = conn[CheckConn].server
  BY <1>4 DEF ConnSet
<1>9. /\ DOMAIN conn' = {CheckConn} \cup ids /\ conn'[CheckConn] = old
      /\ \A i \in ids : conn'[i] = NewConn
  BY <1>3, <1>6
<1>10. conn' \in [DOMAIN conn' -> ConnSet]
  BY <1>3, <1>8, <1>9, NewTypes
<1>11. /\ DOMAIN thread' = ids /\ \A i \in ids : thread'[i] = new(i)
       /\ thread' \in [DOMAIN thread' -> ThreadSet]
  BY <1>2, <1>7
<1> HIDE DEF new, old
<1>12. \A i \in ids : TaskSize(i)' = Size(file_size', n, i)
  BY DEF TaskSize
<1>13. TypeOK'
  <2>1. ConnsType'
    BY <1>6, <1>9, <1>10 DEF ConnsType
  <2>2. ServersType'
    <3>1. \A s \in Servers : backlog[s] \in Seq(DOMAIN conn')
      <4>1. \A s \in Servers : backlog[s] \in Seq({CheckConn})
        BY <1>4 DEF IndInv, TypeOK
      <4>2. \A q \in Seq({CheckConn}) : q \in Seq({CheckConn} \cup ids)
        OBVIOUS
      <4>3. QED
        BY <1>9, <4>1, <4>2
    <3>2. backlog' \in [Servers -> Seq(DOMAIN conn')]
      BY <1>4, <3>1 DEF IndInv, TypeOK
    <3>3. srv' \in [Servers -> [pc : SrvStates, conn : DOMAIN conn', offset : Int, remaining : Nat]]
      <4>1. [pc : SrvStates, conn : {CheckConn}, offset : Int, remaining : Nat]
              \subseteq [pc : SrvStates, conn : {CheckConn} \cup ids, offset : Int, remaining : Nat]
        OBVIOUS
      <4>2. srv \in [Servers -> [pc : SrvStates, conn : {CheckConn}, offset : Int, remaining : Nat]]
        BY <1>4 DEF IndInv, TypeOK
      <4>3. QED
        BY <1>4, <1>9, <4>1, <4>2
    <3>4. QED
      BY <1>4, <3>2, <3>3 DEF IndInv, TypeOK, ServersType
  <2>3. HostsType'
    BY <1>4 DEF IndInv, TypeOK, HostsType
  <2>4. ClientType'
    <3>1. DOMAIN file_data' = 0 .. file_size' - 1 /\ main' \in MainStates
      BY <1>1 DEF MainStates
    <3>2. faults' \in 0 .. MaxFaults
      BY <1>1 DEF IndInv, TypeOK
    <3>3. QED
      BY <1>4, <1>5, <1>6, <1>11, <3>1, <3>2 DEF ClientType
  <2>5. QED
    BY <2>1, <2>2, <2>3, <2>4 DEF TypeOK, ConnsType, ServersType, HostsType, ClientType
<1>14. ConnsOK'
  <2>1. \A c \in DOMAIN conn' : conn'[c].size \in Nat /\ (conn'[c].request = "GET" => conn'[c].size > 0)
    <3>1. conn[CheckConn].size \in Nat /\ conn[CheckConn].request # "GET"
      BY <1>4 DEF IndInv, ConnsOK, CheckOK
    <3>2. QED
      BY <1>8, <1>9, <3>1, NewTypes
  <2>2. \A s \in Servers : srv'[s].pc # "write"
    BY <1>4
  <2>3. num_connections' \in Int /\ CheckConn \in DOMAIN conn' /\ DOMAIN conn' = {CheckConn} \cup ThreadIds'
    BY <1>5, <1>6, <1>9
  <2>4. QED
    BY <1>6, <2>1, <2>2, <2>3 DEF ConnsOK
<1>15. CheckOK'
  BY <1>6, <1>8, <1>9 DEF IndInv, CheckOK
<1>16. CreatedOK'
  <2>1. created' \in ThreadIds' /\ \A i \in ThreadIds' : thread'[i].pc = "new"
    BY <1>4, <1>6, <1>7, <1>11
  <2>2. QED
    BY <2>1 DEF CreatedOK
<1>17. /\ \A c, s : (Placed(c, s)' <=> Placed(c, s))
       /\ \A s : Up(s)' <=> Up(s)
       /\ PlacedOnce' <=> PlacedOnce
  BY <1>4, PlacedKept
<1>18. \A s \in Servers : \A c : Placed(c, s) => c = CheckConn
  <2>1. \A s \in Servers : /\ backlog[s] \in Seq(DOMAIN conn) /\ srv[s].conn \in DOMAIN conn
    BY SrvFacts DEF IndInv
  <2>2. \A s \in Servers : \A k \in 1 .. Len(backlog[s]) : backlog[s][k] \in DOMAIN conn
    BY <2>1, ElementOfSeq
  <2>3. QED
    BY <1>4, <2>1, <2>2 DEF Placed, Queued, Serves
<1>19. HomeOK'
  <2>1. ASSUME NEW s \in Servers, NEW c, Placed(c, s)' PROVE Home(c, s)'
    <3>1. c = CheckConn /\ Placed(c, s) /\ c \in DOMAIN conn
      BY <1>4, <1>17, <1>18, <2>1
    <3>2. QED
      BY <3>1 DEF IndInv, HomeOK, Home
  <2>2. QED
    BY <2>1 DEF HomeOK
<1>20. ThreadsOK'
  <2>1. ASSUME NEW i \in ids PROVE Agreed(i)'
    <3>1. /\ thread'[i].pc = "new" /\ thread'[i].remaining = TaskSize(i)' /\ conn'[i] = NewConn
          /\ TaskSize(i)' \in Nat
      BY <1>7, <1>9, <1>11, <1>12
    <3>2. \A s \in Servers : ~Writes(s, i)'
      BY <1>4 DEF Writes
    <3>3. QED
      BY <3>1, <3>2, NewTypes DEF Agreed
  <2>2. QED
    BY <1>6, <2>1 DEF ThreadsOK
<1>21. QuietOK'
  <2>1. SUFFICES ASSUME faults = 0 PROVE PlacedOnce' /\ PlacedOpen' /\ FreshOK' /\ SizeOK'
    BY <1>1 DEF QuietOK
  <2>2. PlacedOnce'
    BY <1>17, <2>1 DEF IndInv, QuietOK
  <2>3. \A s \in Servers : \A c : ~Placed(c, s)'
    BY <1>4, <1>17, <1>18, <2>1
  <2>4. PlacedOpen'
    BY <2>3 DEF PlacedOpen
  <2>5. FreshOK'
    BY <1>6, <1>7, <1>9, <1>11, NewTypes DEF FreshOK
  <2>6. SizeOK'
    BY <1>4, <1>6, <2>1 DEF SizeOK, NoDescriptors
  <2>7. QED
    BY <2>2, <2>4, <2>5, <2>6
<1>22. ServersSurvive'
  BY <1>1, <1>4, <1>17 DEF IndInv, ServersSurvive
<1>23. QED
  BY <1>13, <1>14, <1>15, <1>16, <1>19, <1>20, <1>21, <1>22 DEF IndInv

\* CHECK is the first connection of all.
LEMMA SendCheckInd ==
  ASSUME IndInv, SendCheck
  PROVE  IndInv'
<1> DEFINE q == [NewConn EXCEPT !.request = "CHECK"]
<1>1. /\ main = "check" /\ CanConnect(0) /\ main' = "size"
      /\ UNCHANGED <<hosted, free, srv, faults, num_connections, file_size, file_data, created, thread>>
  BY DEF SendCheck
<1>2. /\ conn[CheckConn] = NewConn /\ DOMAIN conn = {CheckConn} /\ 0 \in Servers
      /\ \A s \in Servers : srv[s].pc = "accept" /\ backlog[s] = << >>
      /\ conn \in [DOMAIN conn -> ConnSet]
  BY <1>1, FirstServer DEF IndInv, CheckOK, ConnsOK, TypeOK
<1>3. /\ conn' = [conn EXCEPT ![CheckConn].request = "CHECK"]
      /\ backlog' = [backlog EXCEPT ![0] = Append(backlog[0], CheckConn)]
  BY Zenon DEF SendCheck
<1>4. conn' = [conn EXCEPT ![CheckConn] = q]
  BY <1>2, <1>3
<1>5. /\ q \in ConnSet /\ q.request = "CHECK" /\ q.size = 0 /\ q.stream = << >>
      /\ q.client = TRUE /\ q.server = TRUE
  BY NewTypes DEF ConnSet
<1> HIDE DEF q
<1>6. /\ DOMAIN conn' = {CheckConn} /\ conn'[CheckConn] = q
      /\ conn' \in [DOMAIN conn' -> ConnSet]
  BY <1>2, <1>4, <1>5
<1>7. \A s \in Servers : \A x : ~Placed(x, s)
  BY <1>2 DEF Placed, Queued, Serves, Busy
<1>8. /\ backlog' \in [Servers -> Seq(DOMAIN conn)]
      /\ \A s \in Servers : Len(backlog'[s]) <= Backlog
      /\ \A s \in Servers : \A x : Placed(x, s)' => x = CheckConn /\ s = 0
      /\ PlacedOnce => PlacedOnce'
  BY <1>1, <1>2, <1>3, <1>7, Queueing
<1>9. ~Running /\ ~Running'
  BY <1>1 DEF Running
<1>10. TypeOK'
  <2>1. ConnsType'
    BY <1>6 DEF ConnsType
  <2>2. ServersType'
    BY <1>1, <1>2, <1>6, <1>8 DEF IndInv, TypeOK, ServersType
  <2>3. HostsType'
    BY <1>1 DEF IndInv, TypeOK, HostsType
  <2>4. ClientType'
    BY <1>1, <1>9 DEF IndInv, TypeOK, ClientType, MainStates
  <2>5. QED
    BY <2>1, <2>2, <2>3, <2>4 DEF TypeOK, ConnsType, ServersType, HostsType, ClientType
<1>11. ConnsOK'
  BY <1>1, <1>2, <1>5, <1>6, <1>9 DEF IndInv, ConnsOK
<1>12. CheckOK'
  BY <1>1, <1>5, <1>6 DEF CheckOK
<1>13. CreatedOK' /\ ThreadsOK'
  BY <1>1, <1>9 DEF CreatedOK, ThreadsOK
<1>14. HomeOK'
  BY <1>8 DEF HomeOK, Home
<1>15. QuietOK'
  <2>1. SUFFICES ASSUME faults = 0 PROVE PlacedOnce' /\ PlacedOpen' /\ FreshOK' /\ SizeOK'
    BY <1>1 DEF QuietOK
  <2>2. PlacedOnce'
    BY <1>8, <2>1 DEF IndInv, QuietOK
  <2>3. PlacedOpen'
    BY <1>1, <1>5, <1>6, <1>8 DEF PlacedOpen
  <2>4. FreshOK'
    BY <1>9 DEF FreshOK
  <2>5. SizeOK'
    <3>1. hosted[0] # NoFile => \A s \in Servers : free[s] = free[0]
      BY <1>1, <1>2, <2>1, NewTypes DEF IndInv, QuietOK, SizeOK
    <3>2. conn'[CheckConn].server
      BY <1>5, <1>6
    <3>3. QED
      BY <1>1, <1>9, <3>1, <3>2 DEF SizeOK
  <2>6. QED
    BY <2>2, <2>3, <2>4, <2>5
<1>16. ServersSurvive'
  BY <1>1 DEF IndInv, ServersSurvive, Up
<1>17. QED
  BY <1>10, <1>11, <1>12, <1>13, <1>14, <1>15, <1>16 DEF IndInv

\* main() starts the next thread.
LEMMA CreateThreadInd ==
  ASSUME IndInv, CreateThread
  PROVE  IndInv'
<1> DEFINE r == [thread[created] EXCEPT !.pc = "connect"]
<1>1. /\ main = "create" /\ created' = created + 1
      /\ main' = (IF created + 1 = num_connections THEN "join" ELSE "create")
      /\ UNCHANGED <<hosted, free, conn, backlog, srv, faults, num_connections, file_size, file_data>>
  BY DEF CreateThread, ftpServerVars
<1>2. thread' = [thread EXCEPT ![created] = r]
  BY Zenon DEF CreateThread
<1>3. /\ Running /\ created \in ThreadIds /\ DOMAIN thread = ThreadIds
      /\ \A i \in ThreadIds : i >= created => thread[i].pc = "new"
  BY <1>1 DEF IndInv, CreatedOK, TypeOK, Running
<1>4. thread[created].pc = "new" /\ thread[created] \in ThreadSet
  <2>1. created >= created
    BY <1>3 DEF ThreadIds
  <2>2. QED
    BY <1>3, <2>1, ThreadFacts DEF IndInv
<1>5. /\ r \in ThreadSet /\ r.pc = "connect" /\ r.remaining = thread[created].remaining
      /\ r.retries = thread[created].retries
  BY <1>4 DEF ThreadSet, ThreadStates
<1> HIDE DEF r
<1>6. /\ DOMAIN thread' = DOMAIN thread /\ thread'[created] = r
      /\ \A i \in DOMAIN thread \ {created} : thread'[i] = thread[i]
      /\ thread' \in [DOMAIN thread' -> ThreadSet]
  BY <1>2, <1>3, <1>5 DEF IndInv, TypeOK
<1>7. /\ Running' /\ ThreadIds' = ThreadIds /\ main' \notin {"check", "size"} /\ main' \in MainStates
      /\ main \notin {"check", "size"}
      /\ SamePlan
  BY <1>1 DEF Running, ThreadIds, SamePlan, MainStates
<1>8. /\ \A c, s : (Placed(c, s)' <=> Placed(c, s)) /\ (Writes(s, c)' <=> Writes(s, c))
      /\ \A s : Up(s)' <=> Up(s)
      /\ PlacedOnce' <=> PlacedOnce
  BY <1>1, PlacedKept
<1>9. TypeOK'
  <2>1. ConnsType'
    BY <1>1, <1>7 DEF IndInv, TypeOK, ConnsType
  <2>2. ServersType'
    BY <1>1 DEF IndInv, TypeOK, ServersType
  <2>3. HostsType'
    BY <1>1 DEF IndInv, TypeOK, HostsType
  <2>4. ClientType'
    BY <1>1, <1>3, <1>6, <1>7 DEF IndInv, TypeOK, ClientType
  <2>5. QED
    BY <2>1, <2>2, <2>3, <2>4 DEF TypeOK, ConnsType, ServersType, HostsType, ClientType
<1>10. ConnsOK'
  BY <1>1, <1>3, <1>7 DEF IndInv, ConnsOK
<1>11. CheckOK'
  BY <1>1, <1>7 DEF IndInv, CheckOK
<1>12. CreatedOK'
  <2>1. SUFFICES ASSUME main' = "create"
                 PROVE  created' \in ThreadIds /\ \A i \in ThreadIds : i >= created' => thread'[i].pc = "new"
    BY <1>7 DEF CreatedOK
  <2>2. created + 1 # num_connections
    BY <1>1, <2>1
  <2>3. num_connections \in Int /\ created \in Int
    BY <1>3 DEF IndInv, ConnsOK, ThreadIds
  <2>4. created + 1 \in ThreadIds
    BY <1>3, <2>2, <2>3 DEF ThreadIds
  <2>5. ASSUME NEW i \in ThreadIds, i >= created + 1 PROVE thread'[i].pc = "new"
    <3>1. i # created /\ i >= created
      BY <2>3, <2>5 DEF ThreadIds
    <3>2. QED
      BY <1>3, <1>6, <3>1
  <2>6. QED
    BY <1>1, <2>4, <2>5
<1>13. HomeOK'
  <2>1. \A c, s : Home(c, s)' = Home(c, s)
    BY DEF Home, TaskServer
  <2>2. QED
    BY <1>1, <1>8, <2>1 DEF IndInv, HomeOK
<1>14. ThreadsOK'
  <2>1. ASSUME NEW i \in ThreadIds PROVE Agreed(i)'
    <3>1. Agreed(i)
      BY <1>3 DEF IndInv, ThreadsOK
    <3>2. CASE i # created
      <4>1. SameButClosed(i) /\ thread'[i] = thread[i]
        BY <1>1, <1>3, <1>6, <3>2 DEF SameButClosed
      <4>2. QED
        BY <1>1, <1>7, <1>8, <3>1, <4>1, AgreedKept
    <3>3. CASE i = created
      <4>1. TaskSize(i)' = TaskSize(i)
        BY <1>7, PlanKept
      <4>2. thread'[i].pc = "connect" /\ thread'[i].remaining = thread[i].remaining
        BY <1>5, <1>6, <3>3
      <4>3. QED
        BY <1>1, <1>4, <1>8, <3>1, <3>3, <4>1, <4>2 DEF Agreed
    <3>4. QED
      BY <3>2, <3>3
  <2>2. QED
    BY <1>7, <2>1 DEF ThreadsOK
<1>15. QuietOK'
  <2>1. SUFFICES ASSUME faults = 0 PROVE PlacedOnce' /\ PlacedOpen' /\ FreshOK' /\ SizeOK'
    BY <1>1 DEF QuietOK
  <2>2. PlacedOnce /\ PlacedOpen /\ FreshOK /\ SizeOK
    BY <2>1 DEF IndInv, QuietOK
  <2>3. PlacedOpen'
    <3>1. ASSUME NEW s \in Servers, NEW c \in DOMAIN conn, Placed(c, s)
          PROVE  /\ conn[c].server /\ conn[c].client /\ c # CheckConn
                 /\ thread'[c].pc \in {"request", "recv"}
      <4>1. /\ conn[c].server /\ conn[c].client /\ c # CheckConn
            /\ thread[c].pc \in {"request", "recv"}
        BY <1>7, <2>2, <3>1 DEF PlacedOpen
      <4>2. c \in DOMAIN thread /\ c # created
        BY <1>3, <1>4, <4>1, ConnIsNumber
      <4>3. QED
        BY <1>6, <4>1, <4>2
    <3>2. QED
      BY <1>1, <1>7, <1>8, <3>1 DEF PlacedOpen
  <2>4. FreshOK'
    <3>1. SUFFICES ASSUME NEW i \in ThreadIds, thread'[i].pc \in {"new", "connect"}
                   PROVE  conn[i].server /\ (Up(TaskServer(i))' => thread'[i].retries = MaxRetries)
      BY <1>1, <1>7 DEF FreshOK, TaskServer
    <3>2. thread[i].pc \in {"new", "connect"} /\ thread'[i].retries = thread[i].retries
      BY <1>3, <1>4, <1>5, <1>6, <3>1
    <3>3. QED
      BY <1>1, <1>3, <2>2, <3>2 DEF FreshOK, Up
  <2>5. SizeOK'
    BY <1>1, <1>3, <1>7, <2>2 DEF SizeOK, NoDescriptors
  <2>6. QED
    BY <1>8, <2>2, <2>3, <2>4, <2>5
<1>16. ServersSurvive'
  BY <1>1 DEF IndInv, ServersSurvive, Up
<1>17. QED
  BY <1>9, <1>10, <1>11, <1>12, <1>13, <1>14, <1>15, <1>16 DEF IndInv

\* A connection breaks: nothing is promised of it any more.
LEMMA ResetInd ==
  ASSUME IndInv, NEW c \in DOMAIN conn, Reset(c)
  PROVE  IndInv'
<1>1. /\ IF c = CheckConn THEN main = "size" ELSE thread[c].accepted
      /\ conn[c].client /\ conn[c].server /\ Fault("reset")
      /\ UNCHANGED <<hosted, free, backlog, srv, ftpClientVars>>
  BY DEF Reset
<1>2. PICK k \in 0 .. Len(conn[c].stream), request \in {"none", conn[c].request} :
        conn' = [conn EXCEPT ![c].client = FALSE, ![c].server = FALSE,
                             ![c].stream = SubSeq(@, 1, k), ![c].request = request]
  BY Zenon DEF Reset
<1> DEFINE st  == SubSeq(conn[c].stream, 1, k)
           q   == [conn[c] EXCEPT !.client = FALSE, !.server = FALSE, !.stream = st,
                                  !.request = request]
<1>3. conn' = [conn EXCEPT ![c] = q]
  BY <1>2, Zenon
<1>4. /\ conn[c] \in ConnSet /\ conn[c].request \in {"none", "CHECK", "GET"}
      /\ conn[c].stream \in Seq(Int) /\ Len(conn[c].stream) \in Nat
      /\ conn \in [DOMAIN conn -> ConnSet] /\ CheckConn \in DOMAIN conn
  BY ConnFacts DEF IndInv, TypeOK, ConnsOK
<1>5. /\ st \in Seq(Int) /\ Len(st) = k
      /\ \A m \in 1 .. k : st[m] = conn[c].stream[m]
      /\ k = 0 => st = << >>
  <2> DEFINE old == conn[c].stream
  <2>1. old \in Seq(Int) /\ Len(old) \in Nat /\ k \in 0 .. Len(old)
    BY <1>4
  <2> HIDE DEF old
  <2>2. /\ SubSeq(old, 1, k) \in Seq(Int) /\ Len(SubSeq(old, 1, k)) = k
        /\ \A m \in 1 .. k : SubSeq(old, 1, k)[m] = old[m]
    BY <2>1, SubSeqProperties
  <2>3. QED
    BY <2>2, EmptySeq DEF old
<1> HIDE DEF st
<1>6. /\ q \in ConnSet /\ q.request = request /\ q.offset = conn[c].offset
      /\ q.size = conn[c].size /\ q.stream = st /\ q.client = FALSE /\ q.server = FALSE
  <2>1. conn[c] \in [request : {"none", "CHECK", "GET"}, offset : Int, size : Int,
                     stream : Seq(Int), client : BOOLEAN, server : BOOLEAN]
    BY <1>4 DEF ConnSet
  <2>2. request \in {"none", "CHECK", "GET"}
    BY <1>4
  <2>3. q \in [request : {"none", "CHECK", "GET"}, offset : Int, size : Int,
               stream : Seq(Int), client : BOOLEAN, server : BOOLEAN]
    BY <1>5, <2>1, <2>2
  <2>4. /\ q.request = request /\ q.offset = conn[c].offset
        /\ q.size = conn[c].size /\ q.stream = st /\ q.client = FALSE /\ q.server = FALSE
    BY <2>1
  <2>5. QED
    BY <2>3, <2>4 DEF ConnSet
<1> HIDE DEF q
<1>7. /\ DOMAIN conn' = DOMAIN conn /\ conn'[c] = q
      /\ \A x \in DOMAIN conn \ {c} : conn'[x] = conn[x]
      /\ conn' \in [DOMAIN conn' -> ConnSet]
  BY <1>3, <1>4, <1>6
<1>8. /\ faults' \in 0 .. MaxFaults /\ faults' # 0
      /\ main' = main /\ created' = created /\ thread' = thread /\ file_data' = file_data
      /\ SamePlan /\ Running' = Running /\ ThreadIds' = ThreadIds
  BY <1>1, SameClient, FtpServerAssumption DEF Fault, IndInv, TypeOK
<1>9. \A x, s : (Placed(x, s)' <=> Placed(x, s)) /\ (Writes(s, x)' <=> Writes(s, x))
                /\ Home(x, s)' = Home(x, s)
  BY <1>1, PlacedKept DEF Home, TaskServer
<1>10. TypeOK'
  <2>1. ConnsType'
    BY <1>7, <1>8 DEF IndInv, TypeOK, ConnsType
  <2>2. ServersType'
    BY <1>1, <1>7 DEF IndInv, TypeOK, ServersType
  <2>3. HostsType'
    BY <1>1 DEF IndInv, TypeOK, HostsType
  <2>4. ClientType'
    BY <1>8 DEF IndInv, TypeOK, ClientType, SamePlan
  <2>5. QED
    BY <2>1, <2>2, <2>3, <2>4 DEF TypeOK, ConnsType, ServersType, HostsType, ClientType
<1>11. ConnsOK'
  <2>1. \A x \in DOMAIN conn :
          conn'[x].size \in Nat /\ (conn'[x].request = "GET" => conn'[x].size > 0)
    <3>1. \A x \in DOMAIN conn : conn[x].size \in Nat /\ (conn[x].request = "GET" => conn[x].size > 0)
      BY DEF IndInv, ConnsOK
    <3>2. q.request = "GET" => conn[c].request = "GET"
      BY <1>6
    <3>3. QED
      BY <1>6, <1>7, <3>1, <3>2
  <2>2. UNCHANGED ftpClientVars /\ DOMAIN conn' = DOMAIN conn
    BY <1>1, <1>7
  <2>3. \A t \in Servers : srv'[t].pc = "write" => srv'[t].remaining > 0 /\ srv'[t].conn # CheckConn
    BY <1>1 DEF IndInv, ConnsOK
  <2>4. QED
    BY <2>1, <2>2, <2>3, ConnsKept
<1>12. CheckOK'
  <2>1. CASE c # CheckConn
    <3>1. conn'[CheckConn] = conn[CheckConn]
      BY <1>4, <1>7, <2>1
    <3>2. main # "check"
      BY <2>1 DEF IndInv, ConnsOK
    <3>3. QED
      BY <1>8, <3>1, <3>2 DEF IndInv, CheckOK
  <2>2. CASE c = CheckConn
    <3>1. main # "check" /\ conn[c].stream = << >> /\ conn[c].request # "GET"
      BY <1>1, <2>2 DEF IndInv, CheckOK
    <3>2. k = 0
      BY <1>2, <3>1
    <3>3. conn'[CheckConn].request # "GET" /\ conn'[CheckConn].stream = << >>
      BY <1>5, <1>6, <1>7, <2>2, <3>1, <3>2
    <3>4. QED
      BY <1>8, <3>1, <3>3 DEF CheckOK
  <2>3. QED
    BY <2>1, <2>2
<1>13. CreatedOK'
  BY <1>8 DEF IndInv, CreatedOK
<1>14. HomeOK'
  BY <1>7, <1>9 DEF IndInv, HomeOK
<1>15. ThreadsOK'
  <2>1. ASSUME Running, NEW i \in ThreadIds PROVE Agreed(i)'
    <3>1. Agreed(i) /\ i \in DOMAIN conn
      BY <2>1 DEF IndInv, ThreadsOK, ConnsOK
    <3>2. CASE i # c
      <4>1. SameButClosed(i) /\ thread'[i] = thread[i]
        BY <1>7, <1>8, <3>1, <3>2 DEF SameButClosed
      <4>2. QED
        BY <1>1, <1>8, <1>9, <3>1, <4>1, AgreedKept
    <3>3. CASE i = c
      <4>1. TaskSize(i)' = TaskSize(i)
        BY <1>8, PlanKept
      <4>2. conn'[i].server = FALSE
        BY <1>6, <1>7, <3>3
      <4>3. ASSUME thread[i].pc \in {"new", "connect", "request"}
            PROVE  conn'[i].request = "none" /\ conn'[i].stream = << >>
        <5>1. conn[i].request = "none" /\ conn[i].stream = << >>
          BY <3>1, <4>3 DEF Agreed
        <5>2. k = 0 /\ request = "none"
          BY <1>2, <3>3, <5>1
        <5>3. QED
          BY <1>5, <1>6, <1>7, <3>3, <5>2
      <4>4. QED
        BY <1>8, <1>9, <3>1, <4>1, <4>2, <4>3 DEF Agreed
    <3>4. QED
      BY <3>2, <3>3
  <2>2. QED
    BY <1>8, <2>1 DEF ThreadsOK
<1>16. QuietOK' /\ ServersSurvive'
  BY <1>8 DEF QuietOK, ServersSurvive
<1>17. QED
  BY <1>10, <1>11, <1>12, <1>13, <1>14, <1>15, <1>16 DEF IndInv

\* No variable of this module changes.
LEMMA StutterInd ==
  ASSUME IndInv, UNCHANGED vars
  PROVE  IndInv'
<1>1. /\ hosted' = hosted /\ free' = free /\ conn' = conn /\ backlog' = backlog /\ srv' = srv
      /\ faults' = faults /\ main' = main /\ num_connections' = num_connections
      /\ file_size' = file_size /\ file_data' = file_data /\ created' = created
      /\ thread' = thread
  BY DEF vars, ftpServerVars, ftpClientVars
<1>2. /\ ThreadIds' = ThreadIds /\ Running' = Running
      /\ \A c, s : /\ Placed(c, s)' <=> Placed(c, s)
                   /\ Writes(s, c)' <=> Writes(s, c)
                   /\ Home(c, s)' = Home(c, s)
      /\ \A s : Up(s)' <=> Up(s)
      /\ PlacedOnce' <=> PlacedOnce
      /\ SamePlan
  BY <1>1, PlacedKept DEF ThreadIds, Running, Home, TaskServer, SamePlan
<1>3. TypeOK'
  BY <1>1, <1>2 DEF IndInv, TypeOK
<1>4. ConnsOK' /\ CheckOK' /\ CreatedOK'
  BY <1>1, <1>2 DEF IndInv, ConnsOK, CheckOK, CreatedOK
<1>5. HomeOK'
  BY <1>1, <1>2 DEF IndInv, HomeOK
<1>6. ThreadsOK'
  <2>1. ASSUME Running, NEW i \in ThreadIds PROVE Agreed(i)'
    <3>1. Agreed(i) /\ SameButClosed(i) /\ thread'[i] = thread[i]
      BY <1>1, <2>1 DEF IndInv, ThreadsOK, SameButClosed
    <3>2. QED
      BY <1>1, <1>2, <3>1, AgreedKept
  <2>2. QED
    BY <1>2, <2>1 DEF ThreadsOK
<1>7. ServersSurvive'
  BY <1>1, <1>2 DEF IndInv, ServersSurvive
<1>8. QuietOK'
  <2>1. SUFFICES ASSUME faults = 0 PROVE PlacedOnce' /\ PlacedOpen' /\ FreshOK' /\ SizeOK'
    BY <1>1 DEF QuietOK
  <2>2. PlacedOnce /\ PlacedOpen /\ FreshOK /\ SizeOK
    BY <2>1 DEF IndInv, QuietOK
  <2>3. PlacedOpen'
    BY <1>1, <1>2, <2>2 DEF PlacedOpen
  <2>4. FreshOK'
    BY <1>1, <1>2, <2>2 DEF FreshOK, TaskServer
  <2>5. SizeOK'
    BY <1>1, <1>2, <2>2 DEF SizeOK, NoDescriptors
  <2>6. QED
    BY <1>2, <2>2, <2>3, <2>4, <2>5
<1>9. QED
  BY <1>3, <1>4, <1>5, <1>6, <1>7, <1>8 DEF IndInv

\* Every step of the system preserves the inductive invariant.
LEMMA NextInd == IndInv /\ [Next]_vars => IndInv'
<1> SUFFICES ASSUME IndInv, [Next]_vars PROVE IndInv'
  OBVIOUS
<1>1. CASE ClientMain
  BY <1>1, SendCheckInd, SendCheckFailsInd, GetSizeInd, GetSizeFailsInd, CreateThreadInd,
     CreateThreadFailsInd, WriteOutputInd
  DEF ClientMain, MainStep
<1>2. CASE ClientThreads
  BY <1>2, ThreadStepInd DEF ClientThreads
<1>3. CASE \E s \in Servers : ServerProcess(s)
  BY <1>3, ServerInd
<1>4. CASE \E c \in DOMAIN conn : Reset(c)
  BY <1>4, ResetInd
<1>5. CASE UNCHANGED vars
  BY <1>5, StutterInd
<1>6. QED
  BY <1>1, <1>2, <1>3, <1>4, <1>5 DEF Next

-----------------------------------------------------------------------------
\* So it holds in every reachable state.
LEMMA Invariance == Spec => []IndInv
BY InitInd, NextInd, PTL DEF Spec

(***************************************************************************)
(* The types are kept; no backlog is longer than listen() allows.          *)
(***************************************************************************)
THEOREM TypeCorrect == Spec => []TypeOK
<1>1. IndInv => TypeOK
  BY DEF IndInv
<1>2. QED
  BY Invariance, <1>1, PTL

(***************************************************************************)
(* What a thread misses is what has arrived and what the server still has  *)
(* to write, in order: the read loop of ftp/client.c and the write loop of *)
(* ftp/server.c agree, whatever else happens to other connections.         *)
(***************************************************************************)
THEOREM StreamsAgree == Spec => []StreamInStep
<1>1. ASSUME IndInv PROVE StreamInStep
  <2>1. SUFFICES ASSUME Running, NEW i \in ThreadIds, NEW s \in Servers,
                        thread[i].pc = "recv", Writes(s, i), conn[i].server
                 PROVE  /\ thread[i].remaining = Len(conn[i].stream) + srv[s].remaining
                        /\ srv[s].offset = OutputPos(i) + Len(conn[i].stream)
    BY DEF StreamInStep, Writes
  <2>2. Agreed(i) /\ i \in DOMAIN conn /\ i # CheckConn
    BY <1>1, <2>1, OwnFacts
  <2>3. PICK t \in Servers :
          /\ Writes(t, i)
          /\ thread[i].remaining = Len(conn[i].stream) + srv[t].remaining
          /\ srv[t].offset = OutputPos(i) + Len(conn[i].stream)
    BY <2>1, <2>2 DEF Agreed
  <2>4. Home(i, s) /\ Home(i, t)
    BY <1>1, <2>1, <2>2, <2>3 DEF IndInv, HomeOK, Placed, Serves, Busy, Writes
  <2>5. s = t
    BY <2>2, <2>4 DEF Home
  <2>6. QED
    BY <2>3, <2>5
<1>2. QED
  BY Invariance, <1>1, PTL

(***************************************************************************)
(* Without a broken connection no request makes a server with the file     *)
(* exit: every chunk is in the file, and the client closes nothing that a  *)
(* server still writes to (ftp/server.c:91-96 and 119).                    *)
(***************************************************************************)
THEOREM ServersStayUp == Spec => []ServersSurvive
<1>1. IndInv => ServersSurvive
  BY DEF IndInv
<1>2. QED
  BY Invariance, <1>1, PTL

(***************************************************************************)
(* Chunks of different threads have no byte in common.                     *)
(***************************************************************************)
LEMMA TasksDisjoint ==
  ASSUME IndInv, Running, NEW i \in ThreadIds, NEW k \in ThreadIds, i # k
  PROVE  TaskChunk(i) \cap TaskChunk(k) = {}
<1>1. file_size \in Nat \ {0} /\ num_connections \in 1 .. file_size
  BY DEF IndInv, TypeOK
<1>2. num_connections \in Int \ {0} /\ Connections(file_size, num_connections) = num_connections
  BY <1>1 DEF Connections
<1>3. ChunksDisjoint(file_size, Connections(file_size, num_connections))
  BY <1>1, <1>2, PlanDisjoint
<1>4. QED
  BY <1>2, <1>3 DEF ChunksDisjoint, ThreadIds, TaskChunk

\* What one recv() stores lies in the chunk of the thread.
LEMMA StoredInChunk ==
  ASSUME IndInv, NEW k \in ThreadIds, NEW n \in 1 .. Len(conn[k].stream), RecvBytes(k, n),
         NEW j \in Int, ~(j \in TaskChunk(k)), j \in DOMAIN file_data
  PROVE  file_data'[j] = file_data[j]
<1>1. Running /\ n <= BytesToRead(k) /\ file_data' = Stored(k, n)
  BY DEF RecvBytes
<1>2. /\ TaskOffset(k) \in Nat /\ TaskSize(k) \in Nat
      /\ thread[k].remaining \in Nat /\ thread[k].remaining <= TaskSize(k)
      /\ Len(conn[k].stream) \in Nat
  BY <1>1, OwnFacts DEF Agreed
<1>3. n \in Nat /\ n <= thread[k].remaining
  BY <1>1, <1>2, FtpServerAssumption DEF BytesToRead
<1>4. TaskChunk(k) = TaskOffset(k) .. TaskOffset(k) + TaskSize(k) - 1
  BY DEF TaskChunk, Chunk, TaskOffset, TaskSize
<1>5. ~(j >= TaskOffset(k) /\ j < TaskOffset(k) + TaskSize(k))
  BY <1>2, <1>4
<1>6. ~(j >= OutputPos(k) /\ j < OutputPos(k) + n)
  BY <1>2, <1>3, <1>5 DEF OutputPos
<1>7. QED
  BY <1>1, <1>6 DEF Stored

\* In one step a chunk is changed by its own thread only.
LEMMA StepIsolated ==
  ASSUME IndInv, [Next]_vars, Running, NEW i \in ThreadIds, thread'[i] = thread[i],
         NEW j \in TaskChunk(i)
  PROVE  file_data'[j] = file_data[j]
<1>1. /\ DOMAIN thread = ThreadIds /\ DOMAIN file_data = 0 .. file_size - 1
      /\ TaskOffset(i) \in Nat /\ TaskSize(i) \in Nat \ {0}
      /\ TaskOffset(i) + TaskSize(i) <= file_size /\ file_size \in Nat
  BY OwnFacts DEF IndInv, TypeOK
<1>2. j \in Int /\ j \in DOMAIN file_data
  <2>1. TaskChunk(i) = TaskOffset(i) .. TaskOffset(i) + TaskSize(i) - 1
    BY DEF TaskChunk, Chunk, TaskOffset, TaskSize
  <2>2. j \in TaskOffset(i) .. TaskOffset(i) + TaskSize(i) - 1
    BY <2>1
  <2>3. QED
    BY <1>1, <2>2
<1>3. ASSUME NEW k \in ThreadIds, NEW n \in 1 .. Len(conn[k].stream), RecvBytes(k, n)
      PROVE  file_data'[j] = file_data[j]
  <2>1. k # i
    <3>1. PICK status : thread' = [thread EXCEPT
             ![k] = [@ EXCEPT !.pc = IF thread[k].remaining - n > 0 THEN "recv" ELSE "exited",
                              !.remaining = thread[k].remaining - n, !.status = status]]
      BY <1>3, Zenon DEF RecvBytes
    <3>2. /\ k \in DOMAIN thread /\ thread[k] \in ThreadSet /\ thread[k].remaining \in Nat
          /\ n \in Nat \ {0}
      BY OwnFacts
    <3>3. thread'[k].remaining = thread[k].remaining - n
      BY <3>1, <3>2 DEF ThreadSet
    <3>4. thread'[k].remaining # thread[k].remaining
      BY <3>2, <3>3
    <3>5. QED
      BY <3>4
  <2>2. j \notin TaskChunk(k)
    BY <2>1, TasksDisjoint
  <2>3. QED
    BY <1>2, <1>3, <2>2, StoredInChunk
\* No other step writes to the buffer while the threads run.
<1>4. MainStep => UNCHANGED file_data
  BY DEF Running, MainStep, SendCheck, SendCheckFails, GetSize, GetSizeFails, ReadSize,
         CreateThread, CreateThreadFails, WriteOutput
<1>5. ASSUME NEW k \in ThreadIds, ThreadStep(k)
      PROVE  \/ \E n \in 1 .. Len(conn[k].stream) : RecvBytes(k, n)
             \/ UNCHANGED file_data
  BY <1>5 DEF ThreadStep, Connect, ConnectFails, SendGet, SendGetFails, RecvEnd
<1>6. CASE ClientThreads
  BY <1>1, <1>3, <1>5, <1>6 DEF ClientThreads
<1>7. CASE ~ClientThreads
  BY <1>4, <1>7 DEF Next, vars, ftpClientVars, ClientMain, ServerProcess, Reset
<1>8. QED
  BY <1>6, <1>7

(***************************************************************************)
(* The threads of ftp/client.c write to one buffer without a lock, and no  *)
(* step of one changes what another has stored, whatever breaks.           *)
(***************************************************************************)
THEOREM ChunksIsolated == Spec => ChunkIsolation
<1>1. IndInv /\ [Next]_vars =>
        [Running =>
           \A i \in ThreadIds :
             thread'[i] = thread[i] =>
               \A j \in TaskChunk(i) : file_data'[j] = file_data[j]]_vars
  BY StepIsolated
<1>2. QED
  BY InitInd, NextInd, <1>1, PTL DEF Spec, ChunkIsolation

-----------------------------------------------------------------------------
(***************************************************************************)
(* That Ftp implements ChunkedDownload.  The invariant above says how much *)
(* there is in a stream, not what; the one below says that it is the part  *)
(* of the file that the thread waits for, or an error message.  For that a *)
(* connection must be served once: with faults too, it has one place.      *)
(***************************************************************************)

\* A thread that has not connected has a connection that nobody knows.
Unplaced(i) ==
  /\ ~thread[i].accepted
  /\ conn[i].server
  /\ \A s \in Servers : ~Placed(i, s)

UnplacedOK ==
  Running => \A i \in ThreadIds : thread[i].pc \in {"new", "connect"} => Unplaced(i)

\* The server closes no connection that it has not finished with.
ServerEndOpen ==
  \A s \in Servers : \A c \in DOMAIN conn : Placed(c, s) /\ conn[c].client => conn[c].server

PlacesOK == PlacedOnce /\ UnplacedOK /\ ServerEndOpen

\* What thread i has stored is the start of its chunk, and what has arrived
\* comes next.
Genuine(i) ==
  /\ \A k \in 1 .. Len(conn[i].stream) : conn[i].stream[k] = OutputPos(i) + k - 1
  /\ \A j \in TaskChunk(i) : file_data[j] = IF j < OutputPos(i) THEN j ELSE Zero

\* All of it is an error message, after which the server has hung up.
Refused(i) ==
  /\ ~conn[i].server
  /\ \A k \in 1 .. Len(conn[i].stream) : conn[i].stream[k] = Junk
  /\ \A j \in TaskChunk(i) : file_data[j] = IF j < OutputPos(i) THEN Junk ELSE Zero

BytesOK ==
  Running =>
    \A i \in ThreadIds : thread[i].pc # "exited" => Genuine(i) \/ Refused(i)

\* Before the plan there is nothing to fill.
NoPlanYet == main \in {"check", "size"} => thread = << >> /\ file_data = << >>

RefInv == NoPlanYet /\ PlacesOK /\ BytesOK

\* It holds at the start.
LEMMA RefInit == Init => RefInv
<1> SUFFICES ASSUME Init PROVE RefInv
  OBVIOUS
<1>1. main = "check" /\ thread = << >> /\ file_data = << >>
  BY DEF Init, ClientInit
<1>2. \A s \in Servers : srv[s] = IdleSrv /\ backlog[s] = << >>
  BY DEF Init, ServerInit
<1>3. \A s \in Servers : \A c : ~Placed(c, s) /\ ~Busy(s)
  BY <1>2 DEF Placed, Queued, Serves, Busy, IdleSrv
<1>4. PlacesOK
  BY <1>1, <1>2, <1>3 DEF PlacesOK, PlacedOnce, UnplacedOK, ServerEndOpen, Running
<1>5. QED
  BY <1>1, <1>4 DEF RefInv, NoPlanYet, BytesOK, Running

\* A connection has one server.
LEMMA OneServer ==
  ASSUME IndInv, NEW c \in DOMAIN conn, NEW s \in Servers, NEW t \in Servers,
         Placed(c, s), Placed(c, t)
  PROVE  s = t
<1>1. Home(c, s) /\ Home(c, t)
  BY DEF IndInv, HomeOK
<1>2. QED
  BY <1>1 DEF Home

\* What server s may do to its own connection.
LEMMA ServedPlaces ==
  ASSUME IndInv, PlacesOK, NEW s \in Servers, Busy(s), UNCHANGED <<ftpClientVars, backlog>>,
         DOMAIN conn' = DOMAIN conn,
         \A t \in Servers \ {s} : srv'[t] = srv[t],
         srv'[s].pc = "accept" \/ (Busy(s)' /\ srv'[s].conn = srv[s].conn),
         \A c \in DOMAIN conn :
           /\ conn'[c].client = conn[c].client
           /\ conn'[c].server = conn[c].server \/ (c = srv[s].conn /\ srv'[s].pc = "accept")
  PROVE  PlacesOK'
<1>1. /\ main' = main /\ thread' = thread /\ Running' = Running /\ ThreadIds' = ThreadIds
  BY SameClient
<1>2. /\ \A t \in Servers : Busy(t)' => Busy(t) /\ srv'[t].conn = srv[t].conn
      /\ \A t \in Servers : \A c : /\ Queued(c, t)' <=> Queued(c, t)
                                   /\ Placed(c, t)' => Placed(c, t)
  BY DEF Busy, Placed, Queued, Serves
<1>3. PlacedOnce'
  BY <1>2 DEF PlacesOK, PlacedOnce, Queued
<1>4. ASSUME NEW c \in DOMAIN conn, NEW t \in Servers, Placed(c, t)'
      PROVE  conn'[c].server = conn[c].server
  <2>1. SUFFICES ASSUME c = srv[s].conn, srv'[s].pc = "accept" PROVE FALSE
    OBVIOUS
  <2>2. Placed(c, t) /\ Placed(c, s)
    BY <1>2, <1>4, <2>1 DEF Placed, Serves
  <2>3. t = s
    BY <2>2, OneServer
  <2>4. Queued(c, s)
    BY <1>2, <1>4, <2>1, <2>3 DEF Placed, Serves, Busy
  <2>5. QED
    BY <2>1, <2>4 DEF PlacesOK, PlacedOnce
<1>5. ServerEndOpen'
  BY <1>2, <1>4 DEF PlacesOK, ServerEndOpen
<1>6. UnplacedOK'
  <2>1. SUFFICES ASSUME Running, NEW i \in ThreadIds, thread[i].pc \in {"new", "connect"}
                 PROVE  Unplaced(i)'
    BY <1>1 DEF UnplacedOK
  <2>2. Unplaced(i) /\ i \in DOMAIN conn
    BY <2>1, OwnFacts DEF PlacesOK, UnplacedOK
  <2>3. i # srv[s].conn
    BY <2>2 DEF Unplaced, Placed, Serves
  <2>4. QED
    BY <1>1, <1>2, <2>2, <2>3 DEF Unplaced
<1>7. QED
  BY <1>3, <1>5, <1>6 DEF PlacesOK

\* The first connection of the backlog is now served.
LEMMA AcceptPlaces ==
  ASSUME IndInv, PlacesOK, NEW s \in Servers, Accept(s), UNCHANGED ftpClientVars
  PROVE  PlacesOK'
<1>1. main' = main /\ thread' = thread /\ Running' = Running /\ ThreadIds' = ThreadIds
  BY SameClient
<1>2. srv[s].pc = "accept" /\ backlog[s] # << >> /\ conn' = conn
  BY DEF Accept
<1>3. /\ backlog[s] \in Seq(DOMAIN conn) /\ Len(backlog[s]) \in Nat
  BY SrvFacts DEF IndInv
<1> DEFINE q == backlog[s]
           new == [IdleSrv EXCEPT !.pc = "recv", !.conn = Head(q)]
<1>4. srv' = [srv EXCEPT ![s] = new] /\ backlog' = [backlog EXCEPT ![s] = Tail(q)]
  BY Zenon DEF Accept
<1> HIDE DEF q
<1>5. q \in Seq(DOMAIN conn) /\ q # << >> /\ q = backlog[s]
  BY <1>2, <1>3 DEF q
<1>6. /\ Head(q) = q[1] /\ Len(Tail(q)) = Len(q) - 1 /\ 1 \in 1 .. Len(q) /\ Len(q) \in Nat
      /\ \A k \in 1 .. Len(q) - 1 : Tail(q)[k] = q[k + 1]
  BY <1>5
<1>7. new.pc = "recv" /\ new.conn = q[1]
  BY <1>6 DEF IdleSrv
<1> HIDE DEF new
<1>8. /\ srv'[s] = new /\ backlog'[s] = Tail(q)
      /\ \A t \in Servers \ {s} : srv'[t] = srv[t] /\ backlog'[t] = backlog[t]
  BY <1>4 DEF IndInv, TypeOK
<1>9. \A k \in 1 .. Len(backlog'[s]) : k + 1 \in 2 .. Len(q) /\ backlog'[s][k] = q[k + 1]
  BY <1>6, <1>8
<1>10. \A j, k \in 1 .. Len(q) : q[j] = q[k] => j = k
  BY <1>5 DEF PlacesOK, PlacedOnce
<1>11. \A c : Queued(c, s)' => Queued(c, s) /\ c # q[1]
  <2>1. SUFFICES ASSUME NEW k \in 1 .. Len(backlog'[s])
                 PROVE  Queued(backlog'[s][k], s) /\ backlog'[s][k] # q[1]
    BY DEF Queued
  <2>2. k + 1 \in 1 .. Len(q) /\ k + 1 # 1 /\ backlog'[s][k] = q[k + 1]
    BY <1>6, <1>9
  <2>3. QED
    BY <1>5, <1>6, <1>10, <2>2 DEF Queued
<1>12. \A t \in Servers : \A c : Placed(c, t)' => Placed(c, t)
  <2>1. ASSUME NEW t \in Servers, NEW c, Placed(c, t)', t # s PROVE Placed(c, t)
    BY <1>8, <2>1 DEF Placed, Queued, Serves, Busy
  <2>2. ASSUME NEW c, Placed(c, s)' PROVE Placed(c, s)
    <3>1. Serves(s, c)' => Queued(c, s)
      BY <1>5, <1>6, <1>7, <1>8 DEF Serves, Queued
    <3>2. QED
      BY <1>11, <2>2, <3>1 DEF Placed
  <2>3. QED
    BY <2>1, <2>2
<1>13. PlacedOnce'
  <2>1. ASSUME NEW t \in Servers, t # s
        PROVE  /\ \A j, k \in 1 .. Len(backlog'[t]) : backlog'[t][j] = backlog'[t][k] => j = k
               /\ Busy(t)' => ~Queued(srv[t].conn, t)'
    BY <1>8, <2>1 DEF PlacesOK, PlacedOnce, Busy, Queued
  <2>2. ASSUME NEW j \in 1 .. Len(backlog'[s]), NEW k \in 1 .. Len(backlog'[s]),
               backlog'[s][j] = backlog'[s][k]
        PROVE  j = k
    <3>1. /\ j + 1 \in 1 .. Len(q) /\ k + 1 \in 1 .. Len(q) /\ q[j + 1] = q[k + 1]
      BY <1>6, <1>9, <2>2
    <3>2. j + 1 = k + 1
      BY <1>10, <3>1
    <3>3. QED
      BY <3>2
  <2>3. ~Queued(srv[s].conn, s)'
    BY <1>7, <1>8, <1>11
  <2>4. \A t \in Servers :
          /\ \A j, k \in 1 .. Len(backlog'[t]) : backlog'[t][j] = backlog'[t][k] => j = k
          /\ Busy(t)' => ~Queued(srv[t].conn, t)'
    BY <2>1, <2>2, <2>3, ZenonT(30)
  <2>5. QED
    BY <2>4 DEF PlacedOnce, Queued
<1>14. ServerEndOpen'
  BY <1>2, <1>12 DEF PlacesOK, ServerEndOpen
<1>15. UnplacedOK'
  BY <1>1, <1>2, <1>12 DEF PlacesOK, UnplacedOK, Unplaced
<1>16. QED
  BY <1>13, <1>14, <1>15 DEF PlacesOK

\* A dead server has no connections.
LEMMA DiesPlaces ==
  ASSUME IndInv, PlacesOK, NEW s \in Servers, Busy(s), ServerDies(s), UNCHANGED ftpClientVars
  PROVE  PlacesOK'
<1>1. main' = main /\ thread' = thread /\ Running' = Running /\ ThreadIds' = ThreadIds
  BY SameClient
<1>2. /\ DOMAIN conn' = DOMAIN conn
      /\ \A x \in DOMAIN conn : /\ SameButClosed(x)
                                /\ ~Placed(x, s) => conn'[x] = conn[x]
  BY DiesConn
<1>3. /\ srv' = [srv EXCEPT ![s] = [IdleSrv EXCEPT !.pc = "down"]]
      /\ backlog' = [backlog EXCEPT ![s] = << >>]
  BY Zenon DEF ServerDies
<1>4. /\ srv'[s].pc = "down" /\ backlog'[s] = << >>
      /\ \A t \in Servers \ {s} : srv'[t] = srv[t] /\ backlog'[t] = backlog[t]
  BY <1>3, DeadSrv DEF IndInv, TypeOK
<1>5. /\ \A c : ~Placed(c, s)' /\ ~Queued(c, s)' /\ ~Busy(s)'
      /\ \A t \in Servers \ {s} : \A c : Placed(c, t)' <=> Placed(c, t)
  BY <1>4 DEF Placed, Queued, Serves, Busy
<1>6. PlacedOnce'
  <2>1. \A t \in Servers \ {s} :
          /\ \A j, k \in 1 .. Len(backlog'[t]) : backlog'[t][j] = backlog'[t][k] => j = k
          /\ Busy(t)' => ~Queued(srv[t].conn, t)'
    BY <1>4 DEF PlacesOK, PlacedOnce, Busy, Queued
  <2>2. \A j, k \in 1 .. Len(backlog'[s]) : backlog'[s][j] = backlog'[s][k] => j = k
    BY <1>4
  <2>3. QED
    BY <1>5, <2>1, <2>2 DEF PlacedOnce, Queued
<1>7. ASSUME NEW t \in Servers, NEW c \in DOMAIN conn, Placed(c, t)'
      PROVE  Placed(c, t) /\ conn'[c] = conn[c]
  BY <1>2, <1>5, <1>7, OneServer
<1>8. ServerEndOpen'
  BY <1>2, <1>7 DEF PlacesOK, ServerEndOpen
<1>9. UnplacedOK'
  <2>1. SUFFICES ASSUME Running, NEW i \in ThreadIds, thread[i].pc \in {"new", "connect"}
                 PROVE  Unplaced(i)'
    BY <1>1 DEF UnplacedOK
  <2>2. Unplaced(i) /\ i \in DOMAIN conn
    BY <2>1, OwnFacts DEF PlacesOK, UnplacedOK
  <2>3. QED
    BY <1>1, <1>2, <1>5, <2>2 DEF Unplaced
<1>10. QED
  BY <1>6, <1>8, <1>9 DEF PlacesOK

-----------------------------------------------------------------------------
\* Nothing new has arrived for thread i, and it has taken nothing.
LEMMA BytesKept ==
  ASSUME NEW i, SamePlan, thread'[i].remaining = thread[i].remaining,
         conn'[i].stream = conn[i].stream, conn'[i].server => conn[i].server,
         \A j \in TaskChunk(i) : file_data'[j] = file_data[j],
         Genuine(i) \/ Refused(i)
  PROVE  (Genuine(i) \/ Refused(i))'
<1>1. /\ TaskOffset(i)' = TaskOffset(i) /\ TaskSize(i)' = TaskSize(i)
      /\ TaskChunk(i)' = TaskChunk(i)
  BY PlanKept DEF SamePlan, TaskChunk
<1>2. OutputPos(i)' = OutputPos(i)
  BY <1>1 DEF OutputPos
<1>3. Genuine(i) => Genuine(i)'
  BY <1>1, <1>2 DEF Genuine
<1>4. Refused(i) => Refused(i)'
  BY <1>1, <1>2 DEF Refused
<1>5. QED
  BY <1>3, <1>4

\* A server sends something on at most one connection.
LEMMA ServerBytes ==
  ASSUME IndInv, RefInv, UNCHANGED ftpClientVars, DOMAIN conn' = DOMAIN conn,
         NEW c,
         \A x \in DOMAIN conn \ {c} :
           conn'[x].stream = conn[x].stream /\ (conn'[x].server => conn[x].server),
         Running /\ c \in ThreadIds /\ thread[c].pc # "exited" => (Genuine(c) \/ Refused(c))'
  PROVE  BytesOK' /\ NoPlanYet'
<1>1. /\ main' = main /\ thread' = thread /\ Running' = Running /\ ThreadIds' = ThreadIds
      /\ SamePlan /\ file_data' = file_data
  BY SameClient DEF ftpClientVars
<1>2. ASSUME Running, NEW i \in ThreadIds, thread[i].pc # "exited", i # c
      PROVE  (Genuine(i) \/ Refused(i))'
  <2>1. Genuine(i) \/ Refused(i)
    BY <1>2 DEF RefInv, BytesOK
  <2>2. i \in DOMAIN conn \ {c}
    BY <1>2, OwnFacts
  <2>3. QED
    BY <1>1, <2>1, <2>2, BytesKept
<1>3. BytesOK'
  BY <1>1, <1>2 DEF BytesOK
<1>4. QED
  BY <1>1, <1>3 DEF RefInv, NoPlanYet

\* A thread whose request server s answers waits for it, and has nothing yet.
LEMMA AtRequest ==
  ASSUME IndInv, RefInv, NEW s \in Servers, srv[s].pc = "recv", Running,
         NEW i \in ThreadIds, i = srv[s].conn, thread[i].pc # "exited",
         conn[i].client, conn[i].request # "none"
  PROVE  /\ conn[i].server /\ conn[i].request = "GET" /\ conn[i].stream = << >>
         /\ OutputPos(i) = TaskOffset(i) /\ Genuine(i)
<1>1. /\ i \in DOMAIN conn /\ Agreed(i) /\ TaskOffset(i) \in Nat /\ TaskSize(i) \in Nat
      /\ thread[i] \in ThreadSet
  BY OwnFacts
<1>2. Placed(i, s)
  BY DEF Placed, Serves, Busy
<1>3. conn[i].server
  BY <1>1, <1>2 DEF RefInv, PlacesOK, ServerEndOpen
<1>4. thread[i].pc = "recv"
  BY <1>1 DEF Agreed, ThreadSet, ThreadStates
<1>5. \A t \in Servers : ~Writes(t, i)
  <2>1. SUFFICES ASSUME NEW t \in Servers, Writes(t, i) PROVE FALSE
    OBVIOUS
  <2>2. Placed(i, t)
    BY <2>1 DEF Writes, Placed, Serves, Busy
  <2>3. t = s
    BY <1>1, <1>2, <2>2, OneServer
  <2>4. QED
    BY <2>1, <2>3 DEF Writes
<1>6. /\ conn[i].request = "GET" /\ conn[i].stream = << >> /\ thread[i].remaining = TaskSize(i)
  BY <1>1, <1>3, <1>4, <1>5 DEF Agreed
<1>7. OutputPos(i) = TaskOffset(i)
  BY <1>1, <1>6 DEF OutputPos
<1>8. Genuine(i)
  BY <1>3 DEF RefInv, BytesOK, Refused
<1>9. QED
  BY <1>3, <1>6, <1>7, <1>8

\* Nothing but an error message, or the size on the connection of CHECK.
LEMMA ReplyRef ==
  ASSUME IndInv, RefInv, NEW s \in Servers, NEW bytes \in Seq(Int), Reply(s, bytes),
         UNCHANGED ftpClientVars, srv[s].pc = "recv",
         bytes = << >> \/ conn[srv[s].conn].request # "none",
         conn[srv[s].conn].request = "GET" => \A k \in 1 .. Len(bytes) : bytes[k] = Junk
  PROVE  RefInv'
<1>0. PICK c : c = srv[s].conn
  OBVIOUS
<1>1. /\ DOMAIN conn' = DOMAIN conn
      /\ \A x \in DOMAIN conn \ {c} : conn'[x] = conn[x]
      /\ conn'[c].client = conn[c].client /\ conn'[c].server = FALSE
      /\ conn'[c].stream = IF conn[c].client THEN bytes ELSE conn[c].stream
  BY <1>0, ReplyConn
<1>2. /\ backlog' = backlog /\ srv'[s] = IdleSrv
      /\ \A t \in Servers \ {s} : srv'[t] = srv[t]
  BY DEF Reply, IndInv, TypeOK
<1>3. /\ main' = main /\ thread' = thread /\ Running' = Running /\ ThreadIds' = ThreadIds
      /\ SamePlan /\ file_data' = file_data
  BY SameClient DEF ftpClientVars
<1>4. PlacesOK'
  <2>1. Busy(s) /\ srv'[s].pc = "accept" /\ PlacesOK /\ UNCHANGED <<ftpClientVars, backlog>>
    BY <1>2 DEF Busy, IdleSrv, RefInv
  <2>2. \A x \in DOMAIN conn :
          /\ conn'[x].client = conn[x].client
          /\ conn'[x].server = conn[x].server \/ (x = srv[s].conn /\ srv'[s].pc = "accept")
    BY <1>0, <1>1, <2>1
  <2>3. QED
    BY <1>1, <1>2, <2>1, <2>2, ServedPlaces
<1>5. ASSUME Running, c \in ThreadIds, thread[c].pc # "exited"
      PROVE  (Genuine(c) \/ Refused(c))'
  <2>1. Genuine(c) \/ Refused(c)
    BY <1>5 DEF RefInv, BytesOK
  <2>2. CASE ~conn[c].client
    BY <1>1, <1>3, <2>1, <2>2, BytesKept
  <2>3. CASE conn[c].client /\ bytes = << >>
    <3>1. Placed(c, s) /\ c \in DOMAIN conn
      BY <1>0, <1>5, OwnFacts DEF Placed, Serves, Busy
    <3>2. Genuine(c)
      BY <2>1, <2>3, <3>1 DEF RefInv, PlacesOK, ServerEndOpen, Refused
    <3>3. OutputPos(c)' = OutputPos(c) /\ TaskChunk(c)' = TaskChunk(c)
      BY <1>3, PlanKept DEF OutputPos, TaskChunk, SamePlan
    <3>4. conn'[c].stream = << >>
      BY <1>1, <2>3
    <3>5. QED
      BY <1>3, <3>2, <3>3, <3>4 DEF Genuine
  <2>4. CASE conn[c].client /\ bytes # << >>
    <3>1. /\ conn[c].request = "GET" /\ OutputPos(c) = TaskOffset(c) /\ Genuine(c)
      BY <1>0, <1>5, <2>4, AtRequest
    <3>2. /\ OutputPos(c)' = OutputPos(c) /\ TaskChunk(c)' = TaskChunk(c)
      BY <1>3, PlanKept DEF OutputPos, TaskChunk, SamePlan
    <3>3. /\ \A k \in 1 .. Len(conn'[c].stream) : conn'[c].stream[k] = Junk
      BY <1>0, <1>1, <2>4, <3>1
    <3>4. /\ TaskChunk(c) = TaskOffset(c) .. TaskOffset(c) + TaskSize(c) - 1
          /\ TaskOffset(c) \in Nat /\ TaskSize(c) \in Nat
      BY <1>5, OwnFacts DEF TaskChunk, Chunk, TaskOffset, TaskSize
    <3>5. \A j \in TaskChunk(c) : ~(j < OutputPos(c))
      BY <3>1, <3>4
    <3>6. QED
      BY <1>1, <1>3, <3>1, <3>2, <3>3, <3>5 DEF Genuine, Refused
  <2>5. QED
    BY <2>2, <2>3, <2>4
<1>6. BytesOK' /\ NoPlanYet'
  <2>1. \A x \in DOMAIN conn \ {c} :
          conn'[x].stream = conn[x].stream /\ (conn'[x].server => conn[x].server)
    BY <1>1
  <2>2. QED
    BY <1>1, <1>5, <2>1, ServerBytes
<1>7. QED
  BY <1>4, <1>6 DEF RefInv

\* The servers' steps that send no byte of the file.
LEMMA RecvRef ==
  ASSUME IndInv, RefInv, NEW s \in Servers, UNCHANGED ftpClientVars,
         \/ RecvClosed(s) \/ RecvNoFile(s) \/ RecvNoDescriptor(s) \/ RecvCheck(s)
  PROVE  RefInv'
<1>1. << >> \in Seq(Int)
  OBVIOUS
<1>2. CASE RecvClosed(s)
  BY <1>1, <1>2, ReplyRef DEF RecvClosed
<1>3. CASE RecvNoDescriptor(s)
  <2>1. Reply(s, << >>) /\ srv[s].pc = "recv"
    BY <1>3 DEF RecvNoDescriptor, OpenFile
  <2>2. \A k \in 1 .. Len(<< >>) : << >>[k] = Junk
    OBVIOUS
  <2>3. QED
    BY <1>1, <2>1, <2>2, ReplyRef
<1>4. CASE RecvNoFile(s)
  <2> DEFINE bytes == IF conn[srv[s].conn].request = "CHECK" THEN <<Junk>>
                      ELSE [k \in 1 .. ErrorBytes |-> Junk]
  <2>1. Junk \in Int /\ ErrorBytes \in Nat
    BY FtpServerAssumption DEF Junk
  <2>2. [k \in 1 .. ErrorBytes |-> Junk] \in Seq(Int)
    BY <2>1, IsASeq
  <2>3. bytes \in Seq(Int)
    BY <2>1, <2>2
  <2>4. Len([k \in 1 .. ErrorBytes |-> Junk]) = ErrorBytes
    BY <2>1, <2>2
  <2>5. conn[srv[s].conn].request = "GET" => \A k \in 1 .. Len(bytes) : bytes[k] = Junk
    BY <2>4
  <2>6. Reply(s, bytes) /\ srv[s].pc = "recv" /\ conn[srv[s].conn].request # "none"
    BY <1>4 DEF RecvNoFile
  <2> HIDE DEF bytes
  <2>7. QED
    BY <2>3, <2>5, <2>6, ReplyRef
<1>5. CASE RecvCheck(s)
  <2>1. hosted[s] \in Int
    BY HostFacts DEF IndInv, NoFile
  <2>2. <<hosted[s]>> \in Seq(Int)
    BY <2>1
  <2>3. Reply(s, <<hosted[s]>>) /\ srv[s].pc = "recv" /\ conn[srv[s].conn].request = "CHECK"
    BY <1>5 DEF RecvCheck, OpenFile
  <2>4. QED
    BY <2>2, <2>3, ReplyRef
<1>6. QED
  BY <1>2, <1>3, <1>4, <1>5

\* What a write() of k bytes does to its connection c and its server s.
Takes(s, c, k) ==
  /\ k <= srv[s].remaining
  /\ DOMAIN conn' = DOMAIN conn /\ \A x \in DOMAIN conn \ {c} : conn'[x] = conn[x]
  /\ conn'[c].client = conn[c].client
  /\ conn'[c].server = (conn[c].server /\ k # srv[s].remaining)
  /\ conn[c].client =>
       conn'[c].stream = conn[c].stream \o [b \in 1 .. k |-> srv[s].offset + b - 1]
  /\ ~conn[c].client => conn'[c].stream = conn[c].stream
  /\ \A t \in Servers \ {s} : srv'[t] = srv[t]
  /\ k = srv[s].remaining => srv'[s] = IdleSrv
  /\ k # srv[s].remaining => srv'[s].pc = "write" /\ srv'[s].conn = c

\* A write() takes some of what is left to send.
LEMMA WriteConn ==
  ASSUME IndInv, NEW s \in Servers, WriteBytes(s), NEW c, c = srv[s].conn
  PROVE  \E k \in Nat \ {0} : Takes(s, c, k)
<1>1. PICK k \in 1 .. BytesToWrite(s) :
        /\ conn' = [conn EXCEPT
                      ![c].stream = IF conn[c].client
                                      THEN @ \o [b \in 1 .. k |-> srv[s].offset + b - 1]
                                      ELSE @,
                      ![c].server = @ /\ Written(s, k) # IdleSrv]
        /\ srv' = [srv EXCEPT ![s] = Written(s, k)]
  BY Zenon DEF WriteBytes
<1>2. srv[s].pc = "write"
  BY DEF WriteBytes
<1>3. /\ c \in DOMAIN conn
      /\ srv[s] \in [pc : SrvStates, conn : DOMAIN conn, offset : Int, remaining : Nat]
      /\ srv[s].offset \in Int /\ srv[s].remaining \in Nat
  BY SrvFacts DEF IndInv
<1>4. k \in Nat \ {0} /\ k <= srv[s].remaining
  BY <1>3, FtpServerAssumption DEF BytesToWrite
<1> DEFINE new  == [b \in 1 .. k |-> srv[s].offset + b - 1]
           next == Written(s, k)
           st   == IF conn[c].client THEN conn[c].stream \o new ELSE conn[c].stream
           open == conn[c].server /\ next # IdleSrv
           r    == [conn[c] EXCEPT !.stream = st, !.server = open]
<1>5. /\ k = srv[s].remaining => next = IdleSrv
      /\ k # srv[s].remaining => next.pc = "write" /\ next.conn = c /\ next # IdleSrv
  <2>1. k = srv[s].remaining => next = IdleSrv
    BY DEF Written, AfterBytes
  <2>2. ASSUME k # srv[s].remaining PROVE next.pc = "write" /\ next.conn = c
    <3>1. next = [srv[s] EXCEPT !.offset = @ + k, !.remaining = @ - k]
      BY <2>2, Zenon DEF Written, AfterBytes
    <3> HIDE DEF next
    <3>2. QED
      BY <1>2, <1>3, <3>1
  <2>3. QED
    BY <2>1, <2>2, NewTypes
<1>6. conn' = [conn EXCEPT ![c] = r] /\ srv' = [srv EXCEPT ![s] = next]
  BY <1>1, Zenon
<1> HIDE DEF new, next, st, open
<1>7. r.client = conn[c].client /\ r.server = open /\ r.stream = st
  BY <1>3, ConnFacts DEF IndInv, ConnSet
<1> HIDE DEF r
<1>8. /\ DOMAIN conn' = DOMAIN conn /\ \A x \in DOMAIN conn \ {c} : conn'[x] = conn[x]
      /\ conn'[c] = r
  BY <1>3, <1>6
<1>9. srv'[s] = next /\ \A t \in Servers \ {s} : srv'[t] = srv[t]
  BY <1>6 DEF IndInv, TypeOK
<1>10. open = (conn[c].server /\ k # srv[s].remaining)
  BY <1>5 DEF open
<1>11. /\ conn[c].client => st = conn[c].stream \o [b \in 1 .. k |-> srv[s].offset + b - 1]
       /\ ~conn[c].client => st = conn[c].stream
  BY DEF st, new
<1>12. QED
  BY <1>4, <1>5, <1>7, <1>8, <1>9, <1>10, <1>11 DEF Takes

\* The bytes that a server writes continue what it has written before.
LEMMA WriteBytesRef ==
  ASSUME IndInv, RefInv, NEW s \in Servers, WriteBytes(s), UNCHANGED ftpClientVars
  PROVE  RefInv'
<1>1. PICK c : c = srv[s].conn
  OBVIOUS
<1>2. PICK k \in Nat \ {0} : Takes(s, c, k)
  BY <1>1, WriteConn
<1>3. /\ k <= srv[s].remaining
      /\ DOMAIN conn' = DOMAIN conn /\ \A x \in DOMAIN conn \ {c} : conn'[x] = conn[x]
      /\ conn'[c].client = conn[c].client
      /\ conn'[c].server = (conn[c].server /\ k # srv[s].remaining)
      /\ conn[c].client =>
           conn'[c].stream = conn[c].stream \o [b \in 1 .. k |-> srv[s].offset + b - 1]
      /\ ~conn[c].client => conn'[c].stream = conn[c].stream
      /\ \A t \in Servers \ {s} : srv'[t] = srv[t]
      /\ k = srv[s].remaining => srv'[s] = IdleSrv
      /\ k # srv[s].remaining => srv'[s].pc = "write" /\ srv'[s].conn = c
  BY <1>2 DEF Takes
<1>4. /\ srv[s].pc = "write" /\ backlog' = backlog
      /\ main' = main /\ thread' = thread /\ Running' = Running /\ ThreadIds' = ThreadIds
      /\ SamePlan /\ file_data' = file_data
  BY SameClient DEF WriteBytes, ftpClientVars
<1>5. /\ c \in DOMAIN conn /\ conn[c].server \in BOOLEAN /\ srv[s].offset \in Int
  BY <1>1, SrvFacts, ConnFacts DEF IndInv
<1>6. PlacesOK'
  <2>1. Busy(s) /\ PlacesOK /\ UNCHANGED <<ftpClientVars, backlog>>
    BY <1>4 DEF Busy, RefInv
  <2>2. srv'[s].pc = "accept" \/ (Busy(s)' /\ srv'[s].conn = srv[s].conn)
    <3>1. k = srv[s].remaining => srv'[s] = IdleSrv
      BY <1>3
    <3>2. k # srv[s].remaining => srv'[s].pc = "write" /\ srv'[s].conn = srv[s].conn
      BY <1>1, <1>3
    <3>3. IdleSrv.pc = "accept"
      BY DEF IdleSrv
    <3>4. CASE k = srv[s].remaining
      BY <3>1, <3>3, <3>4
    <3>5. CASE k # srv[s].remaining
      BY <3>2, <3>5 DEF Busy
    <3>6. QED
      BY <3>4, <3>5
  <2>3. \A x \in DOMAIN conn :
          /\ conn'[x].client = conn[x].client
          /\ conn'[x].server = conn[x].server \/ (x = srv[s].conn /\ srv'[s].pc = "accept")
    <3>1. k = srv[s].remaining => srv'[s].pc = "accept"
      BY <1>3 DEF IdleSrv
    <3>2. conn'[c].server = conn[c].server \/ k = srv[s].remaining
      BY <1>3, <1>5
    <3>3. QED
      BY <1>1, <1>3, <3>1, <3>2
  <2>4. QED
    BY <1>3, <2>1, <2>2, <2>3, ServedPlaces
<1>7. ASSUME Running, c \in ThreadIds, thread[c].pc # "exited"
      PROVE  (Genuine(c) \/ Refused(c))'
  <2>1. Genuine(c) \/ Refused(c)
    BY <1>7 DEF RefInv, BytesOK
  <2>2. CASE ~conn[c].client
    BY <1>3, <1>4, <2>1, <2>2, BytesKept
  <2>3. CASE conn[c].client
    <3>1. /\ Agreed(c) /\ thread[c] \in ThreadSet /\ conn[c].stream \in Seq(Int)
          /\ Len(conn[c].stream) \in Nat
          /\ TaskOffset(c) \in Nat /\ TaskSize(c) \in Nat /\ thread[c].remaining \in Nat
      BY <1>7, OwnFacts
    <3>2. Writes(s, c) /\ Placed(c, s)
      BY <1>1, <1>4 DEF Writes, Placed, Serves, Busy
    <3>3. conn[c].server
      BY <1>5, <2>3, <3>2 DEF RefInv, PlacesOK, ServerEndOpen
    <3>4. thread[c].pc = "recv"
      BY <1>7, <3>1, <3>2 DEF Agreed, ThreadSet, ThreadStates
    <3>5. srv[s].offset = OutputPos(c) + Len(conn[c].stream)
      <4>1. PICK t \in Servers : /\ Writes(t, c)
                                 /\ srv[t].offset = OutputPos(c) + Len(conn[c].stream)
        BY <3>1, <3>2, <3>3, <3>4 DEF Agreed
      <4>2. Placed(c, t)
        BY <4>1 DEF Writes, Placed, Serves, Busy
      <4>3. s = t
        BY <1>5, <3>2, <4>2, OneServer
      <4>4. QED
        BY <4>1, <4>3
    <3>6. Genuine(c)
      BY <2>1, <3>3 DEF Refused
    <3>7. OutputPos(c)' = OutputPos(c) /\ TaskChunk(c)' = TaskChunk(c) /\ OutputPos(c) \in Int
      BY <1>4, <3>1, PlanKept DEF OutputPos, TaskChunk, SamePlan
    <3> DEFINE old == conn[c].stream
               new == [b \in 1 .. k |-> srv[s].offset + b - 1]
    <3>8. /\ old \in Seq(Int) /\ new \in Seq(Int) /\ Len(new) = k /\ k \in Nat /\ Len(old) \in Nat
      BY <1>5, <3>1
    <3>9. \A b \in 1 .. k : new[b] = srv[s].offset + b - 1
      OBVIOUS
    <3> HIDE DEF old, new
    <3>10. /\ Len(old \o new) = Len(old) + k
           /\ \A m \in 1 .. Len(old) + k :
                (old \o new)[m] = IF m <= Len(old) THEN old[m] ELSE new[m - Len(old)]
      BY <3>8, ConcatProperties
    <3>11. conn'[c].stream = old \o new
      BY <1>3, <2>3 DEF old, new
    <3>12. ASSUME NEW m \in 1 .. Len(conn'[c].stream)
           PROVE  conn'[c].stream[m] = OutputPos(c) + m - 1
      <4>1. m \in 1 .. Len(old) + k /\ m \in Int
        BY <3>10, <3>11, <3>12
      <4>2. CASE m <= Len(old)
        <5>1. m \in 1 .. Len(old) /\ conn'[c].stream[m] = old[m]
          BY <3>8, <3>10, <3>11, <4>1, <4>2
        <5>2. QED
          BY <3>6, <5>1 DEF Genuine, old
      <4>3. CASE ~(m <= Len(old))
        <5>1. m - Len(old) \in 1 .. k /\ conn'[c].stream[m] = new[m - Len(old)]
          BY <3>8, <3>10, <3>11, <4>1, <4>3
        <5>2. new[m - Len(old)] = srv[s].offset + (m - Len(old)) - 1
          BY <3>9, <5>1
        <5>3. srv[s].offset = OutputPos(c) + Len(old)
          BY <3>5 DEF old
        <5>4. QED
          BY <3>7, <3>8, <4>1, <5>1, <5>2, <5>3
      <4>4. QED
        BY <4>2, <4>3
    <3>13. Genuine(c)'
      BY <1>4, <3>6, <3>7, <3>12 DEF Genuine
    <3>14. QED
      BY <3>13
  <2>4. QED
    BY <2>2, <2>3
<1>8. BytesOK' /\ NoPlanYet'
  <2>1. \A x \in DOMAIN conn \ {c} :
          conn'[x].stream = conn[x].stream /\ (conn'[x].server => conn[x].server)
    BY <1>3
  <2>2. QED
    BY <1>3, <1>7, <2>1, ServerBytes
<1>9. QED
  BY <1>6, <1>8 DEF RefInv

\* A server takes a connection, or exits.
LEMMA ServerRef ==
  ASSUME IndInv, RefInv, NEW s \in Servers, ServerProcess(s)
  PROVE  RefInv'
<1>1. UNCHANGED ftpClientVars /\ ServerStep(s)
  BY DEF ServerProcess
<1>2. PICK c : c \notin DOMAIN conn
  <2>1. -2 \notin DOMAIN conn
    BY ConnIsNumber DEF ThreadIds, CheckConn
  <2>2. QED
    BY <2>1
<1>3. c \notin ThreadIds \/ ~Running
  BY <1>2, OwnFacts
<1>4. CASE Accept(s)
  <2>1. conn' = conn
    BY <1>4 DEF Accept
  <2>2. BytesOK' /\ NoPlanYet'
    BY <1>1, <1>3, <2>1, ServerBytes
  <2>3. PlacesOK'
    BY <1>1, <1>4, AcceptPlaces DEF RefInv
  <2>4. QED
    BY <2>2, <2>3 DEF RefInv
<1>5. CASE RecvGet(s)
  <2>1. conn' = conn /\ backlog' = backlog /\ srv[s].pc = "recv"
    BY <1>5 DEF RecvGet, OpenFile
  <2>2. srv' = [srv EXCEPT ![s].pc = "write", ![s].offset = conn[srv[s].conn].offset,
                           ![s].remaining = conn[srv[s].conn].size]
    BY <1>5, Zenon DEF RecvGet
  <2>3. /\ srv'[s].pc = "write" /\ srv'[s].conn = srv[s].conn
        /\ \A t \in Servers \ {s} : srv'[t] = srv[t]
    BY <2>2 DEF IndInv, TypeOK
  <2>4. PlacesOK'
    <3>1. Busy(s) /\ Busy(s)' /\ PlacesOK /\ UNCHANGED <<ftpClientVars, backlog>>
      BY <1>1, <2>1, <2>3 DEF Busy, RefInv
    <3>2. QED
      BY <2>1, <2>3, <3>1, ServedPlaces
  <2>5. BytesOK' /\ NoPlanYet'
    BY <1>1, <1>3, <2>1, ServerBytes
  <2>6. QED
    BY <2>4, <2>5 DEF RefInv
<1>6. CASE RecvOutOfRange(s) \/ WriteBroken(s)
  <2>1. ServerDies(s) /\ Busy(s)
    BY <1>6 DEF RecvOutOfRange, WriteBroken, OpenFile, Busy
  <2>2. PlacesOK'
    BY <1>1, <2>1, DiesPlaces DEF RefInv
  <2>3. /\ DOMAIN conn' = DOMAIN conn
        /\ \A x \in DOMAIN conn :
             conn'[x].stream = conn[x].stream /\ (conn'[x].server => conn[x].server)
    BY <2>1, DiesConn DEF SameButClosed
  <2>4. BytesOK' /\ NoPlanYet'
    BY <1>1, <1>3, <2>3, ServerBytes
  <2>5. QED
    BY <2>2, <2>4 DEF RefInv
<1>7. QED
  BY <1>1, <1>4, <1>5, <1>6, RecvRef, WriteBytesRef DEF ServerStep

-----------------------------------------------------------------------------
\* A step of thread i concerns its own record and its own connection.
OwnStep(i) ==
  /\ Running /\ UNCHANGED <<mainVars, srv>>
  /\ DOMAIN thread' = DOMAIN thread /\ DOMAIN conn' = DOMAIN conn
  /\ \A j \in DOMAIN thread \ {i} : thread'[j] = thread[j]
  /\ \A c \in DOMAIN conn \ {i} : conn'[c] = conn[c]
  /\ thread[i].pc # "exited" /\ thread'[i].pc # "new"
  /\ thread'[i].pc = "connect" =>
       thread[i].pc = "connect" /\ thread'[i].accepted = thread[i].accepted
  /\ conn'[i].server = conn[i].server

\* It has read nothing.
ReadsNothing(i) ==
  /\ file_data' = file_data
  /\ thread'[i].remaining = thread[i].remaining
  /\ conn'[i].stream = conn[i].stream

\* What the steps of a thread have in common, recv() left aside.
LEMMA QuietStep ==
  ASSUME IndInv, NEW i \in ThreadIds,
         Connect(i) \/ ConnectFails(i) \/ SendGet(i) \/ SendGetFails(i) \/ RecvEnd(i)
  PROVE  /\ OwnStep(i) /\ ReadsNothing(i)
         /\ Connect(i) \/ (UNCHANGED backlog /\ (conn'[i].client => conn[i].client))
<1>1. Running
  BY DEF Connect, ConnectFails, SendGet, SendGetFails, RecvEnd
<1>2. /\ i \in DOMAIN thread /\ i \in DOMAIN conn /\ thread[i] \in ThreadSet /\ conn[i] \in ConnSet
      /\ thread \in [DOMAIN thread -> ThreadSet] /\ conn \in [DOMAIN conn -> ConnSet]
  BY <1>1, OwnFacts DEF IndInv, TypeOK
<1>3. CASE Connect(i)
  <2> DEFINE pc == IF thread[i].retries = 0 THEN "exited" ELSE "request"
  <2>1. /\ conn' = [conn EXCEPT ![i].client = ~(thread[i].retries = 0)]
        /\ thread' = [thread EXCEPT ![i].pc = pc, ![i].accepted = TRUE]
        /\ UNCHANGED <<mainVars, srv, file_data>> /\ thread[i].pc = "connect"
    BY <1>3, Zenon DEF Connect
  <2>2. pc # "new" /\ pc # "connect"
    OBVIOUS
  <2> HIDE DEF pc
  <2>3. QED
    BY <1>1, <1>2, <1>3, <2>1, <2>2 DEF OwnStep, ReadsNothing, ThreadSet, ConnSet
<1>4. CASE ConnectFails(i)
  <2> DEFINE r == IF thread[i].retries > 0 THEN [thread[i] EXCEPT !.retries = @ - 1]
                  ELSE [thread[i] EXCEPT !.pc = "exited", !.status = 0]
  <2>1. /\ thread' = [thread EXCEPT ![i] = r] /\ conn' = conn /\ backlog' = backlog
        /\ UNCHANGED <<mainVars, srv, file_data>> /\ thread[i].pc = "connect"
    BY <1>4, Zenon DEF ConnectFails, ExitWith, ftpServerVars
  <2>2. /\ r.remaining = thread[i].remaining /\ r.accepted = thread[i].accepted
        /\ r.pc \in {"connect", "exited"}
    BY <1>2, <2>1 DEF ThreadSet
  <2> HIDE DEF r
  <2>3. QED
    BY <1>1, <1>2, <2>1, <2>2 DEF OwnStep, ReadsNothing
<1>5. CASE SendGet(i)
  <2> DEFINE q == [conn[i] EXCEPT !.request = "GET", !.offset = TaskOffset(i), !.size = TaskSize(i)]
  <2>1. /\ conn' = IF conn[i].server THEN [conn EXCEPT ![i] = q] ELSE conn
        /\ thread' = [thread EXCEPT ![i].pc = "recv"] /\ backlog' = backlog
        /\ UNCHANGED <<mainVars, srv, file_data>> /\ thread[i].pc = "request"
    BY <1>5, Zenon DEF SendGet
  <2>2. q.stream = conn[i].stream /\ q.server = conn[i].server /\ q.client = conn[i].client
    BY <1>2 DEF ConnSet
  <2> HIDE DEF q
  <2>3. /\ DOMAIN conn' = DOMAIN conn /\ \A c \in DOMAIN conn \ {i} : conn'[c] = conn[c]
        /\ conn'[i].stream = conn[i].stream /\ conn'[i].server = conn[i].server
        /\ conn'[i].client = conn[i].client
    BY <1>2, <2>1, <2>2
  <2>4. QED
    BY <1>1, <1>2, <2>1, <2>3 DEF OwnStep, ReadsNothing, ThreadSet
<1>6. CASE SendGetFails(i) \/ RecvEnd(i)
  <2>1. PICK status : thread' = [thread EXCEPT ![i].pc = "exited", ![i].status = status]
    BY <1>6, Zenon DEF SendGetFails, RecvEnd, ExitWith
  <2>2. /\ conn' = [conn EXCEPT ![i].client = FALSE] /\ backlog' = backlog
        /\ UNCHANGED <<mainVars, srv, file_data>> /\ thread[i].pc \in {"request", "recv"}
    BY <1>6, Zenon DEF SendGetFails, RecvEnd
  <2>3. QED
    BY <1>1, <1>2, <2>1, <2>2 DEF OwnStep, ReadsNothing, ThreadSet, ConnSet
<1>7. QED
  BY <1>3, <1>4, <1>5, <1>6

\* A recv() of k bytes: what it stores, and what is left.
LEMMA ReadStep ==
  ASSUME IndInv, NEW i \in ThreadIds, NEW k \in 1 .. Len(conn[i].stream), RecvBytes(i, k)
  PROVE  /\ OwnStep(i) /\ UNCHANGED backlog /\ (conn'[i].client => conn[i].client)
         /\ k \in Nat \ {0} /\ k <= thread[i].remaining
         /\ file_data' = Stored(i, k)
         /\ thread'[i].remaining = thread[i].remaining - k
         /\ thread'[i].pc = IF thread[i].remaining - k > 0 THEN "recv" ELSE "exited"
         /\ Len(conn'[i].stream) = Len(conn[i].stream) - k
         /\ \A m \in 1 .. Len(conn'[i].stream) : conn'[i].stream[m] = conn[i].stream[k + m]
<1> DEFINE rest == thread[i].remaining - k
           pc   == IF rest > 0 THEN "recv" ELSE "exited"
           st   == conn[i].stream
           left == SubSeq(st, k + 1, Len(st))
           more == conn[i].client /\ rest > 0
<1>1. /\ Running /\ thread[i].pc = "recv" /\ k <= BytesToRead(i) /\ backlog' = backlog
      /\ UNCHANGED <<mainVars, srv>> /\ file_data' = Stored(i, k)
  BY DEF RecvBytes
<1>2. conn' = [conn EXCEPT ![i] = [conn[i] EXCEPT !.stream = left, !.client = more]]
  BY Zenon DEF RecvBytes
<1>3. PICK status : thread' = [thread EXCEPT
                       ![i] = [thread[i] EXCEPT !.pc = pc, !.remaining = rest, !.status = status]]
  BY Zenon DEF RecvBytes
<1>4. /\ i \in DOMAIN thread /\ i \in DOMAIN conn /\ thread[i] \in ThreadSet /\ conn[i] \in ConnSet
      /\ thread[i].remaining \in Nat /\ st \in Seq(Int) /\ Len(st) \in Nat
      /\ conn[i].client \in BOOLEAN
      /\ thread \in [DOMAIN thread -> ThreadSet] /\ conn \in [DOMAIN conn -> ConnSet]
  BY <1>1, OwnFacts DEF IndInv, TypeOK
<1>5. k \in Nat \ {0} /\ k <= thread[i].remaining /\ k <= Len(st)
  BY <1>1, <1>4, FtpServerAssumption DEF BytesToRead
<1>6. pc # "new" /\ pc # "connect"
  OBVIOUS
<1> HIDE DEF rest, pc, st, left, more
<1>7. Len(left) = Len(st) - k /\ \A m \in 1 .. Len(left) : left[m] = st[k + m]
  <2>1. k + 1 \in 1 .. Len(st) + 1
    BY <1>4, <1>5
  <2>2. /\ Len(SubSeq(st, k + 1, Len(st))) = Len(st) - k
        /\ \A m \in 1 .. Len(st) - k : SubSeq(st, k + 1, Len(st))[m] = st[k + m]
    <3>1. /\ k + 1 \in Nat /\ Len(st) \in Nat /\ Len(st) - (k + 1) + 1 = Len(st) - k
          /\ \A m \in 1 .. Len(st) - k : (k + 1) + m - 1 = k + m
      BY <1>4, <1>5
    <3>2. k + 1 \in Int /\ Len(st) \in Int /\ \A m \in k + 1 .. Len(st) : st[m] \in Int
      <4>1. ASSUME NEW m \in k + 1 .. Len(st) PROVE m \in 1 .. Len(st)
        BY <1>4, <1>5
      <4>2. \A m \in 1 .. Len(st) : st[m] \in Int
        BY <1>4
      <4>3. QED
        BY <3>1, <4>1, <4>2
    <3>3. /\ Len(SubSeq(st, k + 1, Len(st))) =
                IF k + 1 <= Len(st) THEN Len(st) - (k + 1) + 1 ELSE 0
          /\ \A m \in 1 .. Len(st) - (k + 1) + 1 : SubSeq(st, k + 1, Len(st))[m] = st[(k + 1) + m - 1]
      BY <3>2, SubSeqProperties, SMTT(30)
    <3>4. \A m \in 1 .. Len(st) - (k + 1) + 1 : SubSeq(st, k + 1, Len(st))[m] = st[k + m]
      <4>1. \A m \in 1 .. Len(st) - (k + 1) + 1 : (k + 1) + m - 1 = k + m
        BY <3>1
      <4>2. QED
        BY <3>3, <4>1
    <3>5. Len(SubSeq(st, k + 1, Len(st))) = Len(st) - k
      BY <1>4, <1>5, <3>1, <3>3
    <3>6. QED
      BY <3>1, <3>4, <3>5
  <2>3. QED
    BY <2>2 DEF left
<1> DEFINE r == [thread[i] EXCEPT !.pc = pc, !.remaining = rest, !.status = status]
           q == [conn[i] EXCEPT !.stream = left, !.client = more]
<1>8. /\ r.pc = pc /\ r.remaining = rest /\ q.stream = left /\ q.client = more
      /\ q.server = conn[i].server
  BY <1>4 DEF ThreadSet, ConnSet
<1>9. thread' = [thread EXCEPT ![i] = r] /\ conn' = [conn EXCEPT ![i] = q]
  BY <1>2, <1>3
<1> HIDE DEF r, q
<1>10. /\ DOMAIN thread' = DOMAIN thread /\ DOMAIN conn' = DOMAIN conn
       /\ \A j \in DOMAIN thread \ {i} : thread'[j] = thread[j]
       /\ \A c \in DOMAIN conn \ {i} : conn'[c] = conn[c]
       /\ thread'[i] = r /\ conn'[i] = q
  BY <1>4, <1>9
<1>11. OwnStep(i)
  BY <1>1, <1>6, <1>8, <1>10 DEF OwnStep
<1>12. conn'[i].client => conn[i].client
  BY <1>8, <1>10 DEF more
<1>13. QED
  BY <1>1, <1>5, <1>7, <1>8, <1>10, <1>11, <1>12 DEF rest, pc, st

\* The other threads do not notice.
LEMMA OwnBytes ==
  ASSUME IndInv, RefInv, [Next]_vars, NEW i \in ThreadIds, OwnStep(i),
         thread'[i].pc # "exited" => (Genuine(i) \/ Refused(i))'
  PROVE  BytesOK' /\ NoPlanYet'
<1>1. /\ Running /\ Running' /\ SamePlan /\ ThreadIds' = ThreadIds /\ main' = main
      /\ DOMAIN thread = ThreadIds
  BY DEF OwnStep, mainVars, SamePlan, Running, ThreadIds, IndInv, TypeOK
<1>2. ASSUME NEW j \in ThreadIds, j # i, thread'[j].pc # "exited"
      PROVE  (Genuine(j) \/ Refused(j))'
  <2>1. thread'[j] = thread[j] /\ conn'[j] = conn[j]
    BY <1>1, <1>2, OwnFacts DEF OwnStep
  <2>2. Genuine(j) \/ Refused(j)
    BY <1>1, <1>2, <2>1 DEF RefInv, BytesOK
  <2>3. \A b \in TaskChunk(j) : file_data'[b] = file_data[b]
    BY <1>1, <2>1, StepIsolated
  <2>4. QED
    BY <1>1, <2>1, <2>2, <2>3, BytesKept
<1>3. BytesOK'
  BY <1>1, <1>2 DEF BytesOK
<1>4. NoPlanYet'
  BY <1>1 DEF NoPlanYet, Running
<1>5. QED
  BY <1>3, <1>4

\* Nor does it change where its connection is.
LEMMA OwnPlaces ==
  ASSUME IndInv, PlacesOK, NEW i \in ThreadIds, OwnStep(i), UNCHANGED backlog,
         conn'[i].client => conn[i].client
  PROVE  PlacesOK'
<1>1. /\ Running /\ Running' /\ ThreadIds' = ThreadIds /\ DOMAIN thread = ThreadIds
      /\ DOMAIN conn' = DOMAIN conn
  BY DEF OwnStep, mainVars, Running, ThreadIds, IndInv, TypeOK
<1>2. /\ \A c, s : Placed(c, s)' <=> Placed(c, s)
      /\ PlacedOnce'
  BY PlacedKept DEF OwnStep, PlacesOK
<1>3. ServerEndOpen'
  BY <1>1, <1>2 DEF PlacesOK, ServerEndOpen, OwnStep
<1>4. ASSUME NEW j \in ThreadIds, thread'[j].pc \in {"new", "connect"} PROVE Unplaced(j)'
  <2>1. /\ thread[j].pc \in {"new", "connect"} /\ thread'[j].accepted = thread[j].accepted
        /\ conn'[j].server = conn[j].server
    BY <1>1, <1>4, OwnFacts DEF OwnStep
  <2>2. Unplaced(j)
    BY <1>1, <2>1 DEF PlacesOK, UnplacedOK
  <2>3. QED
    BY <1>2, <2>1, <2>2 DEF Unplaced
<1>5. UnplacedOK'
  BY <1>1, <1>4 DEF UnplacedOK
<1>6. QED
  BY <1>2, <1>3, <1>5 DEF PlacesOK

\* A thread connects once.
LEMMA ConnectPlaces ==
  ASSUME IndInv, PlacesOK, NEW i \in ThreadIds, Connect(i)
  PROVE  PlacesOK'
<1>1. /\ OwnStep(i) /\ thread[i].pc = "connect" /\ CanConnect(TaskServer(i)) /\ Running
      /\ backlog' = [backlog EXCEPT ![TaskServer(i)] = Append(backlog[TaskServer(i)], i)]
      /\ thread'[i].pc # "connect" /\ srv' = srv
  <2>1. thread' = [thread EXCEPT ![i].pc = IF thread[i].retries = 0 THEN "exited" ELSE "request",
                                 ![i].accepted = TRUE]
    BY Zenon DEF Connect
  <2>2. Running /\ thread[i].pc = "connect"
    BY DEF Connect
  <2>3. thread'[i].pc # "connect"
    BY <2>1, <2>2, OwnFacts DEF IndInv, TypeOK, ThreadSet
  <2>4. QED
    BY <2>2, <2>3, QuietStep DEF Connect
<1>2. /\ TaskServer(i) \in Servers /\ i \in DOMAIN conn /\ DOMAIN thread = ThreadIds
  BY <1>1, OwnFacts DEF IndInv, TypeOK
<1>3. Unplaced(i)
  BY <1>1 DEF PlacesOK, UnplacedOK
<1>4. /\ \A s \in Servers : \A x : Placed(x, s)' => Placed(x, s) \/ (x = i /\ s = TaskServer(i))
      /\ PlacedOnce'
  BY <1>1, <1>2, <1>3, Queueing DEF PlacesOK, Unplaced
<1>5. /\ Running' /\ ThreadIds' = ThreadIds /\ DOMAIN conn' = DOMAIN conn
  BY <1>1 DEF OwnStep, mainVars, Running, ThreadIds
<1>6. conn'[i].server
  BY <1>1, <1>3 DEF Unplaced, OwnStep
<1>7. ServerEndOpen'
  BY <1>1, <1>4, <1>5, <1>6 DEF PlacesOK, ServerEndOpen, OwnStep
<1>8. ASSUME NEW j \in ThreadIds, thread'[j].pc \in {"new", "connect"} PROVE Unplaced(j)'
  <2>1. j # i
    BY <1>1, <1>8 DEF OwnStep
  <2>2. thread'[j] = thread[j] /\ conn'[j] = conn[j]
    BY <1>1, <1>2, <2>1, OwnFacts DEF OwnStep
  <2>3. Unplaced(j)
    BY <1>1, <1>8, <2>2 DEF PlacesOK, UnplacedOK
  <2>4. QED
    BY <1>4, <2>1, <2>2, <2>3 DEF Unplaced
<1>9. UnplacedOK'
  BY <1>5, <1>8 DEF UnplacedOK
<1>10. QED
  BY <1>4, <1>7, <1>9 DEF PlacesOK

\* A byte that is stored now has arrived.
LEMMA InStream ==
  ASSUME NEW k \in Nat, NEW len \in Nat, NEW pos \in Nat, NEW j \in Nat,
         k <= len, j >= pos, j < pos + k
  PROVE  j - pos + 1 \in 1 .. len
OBVIOUS

\* What recv() stores comes from the file, in its place, or from an error
\* message.
LEMMA ReadBytes ==
  ASSUME IndInv, RefInv, NEW i \in ThreadIds, NEW k \in 1 .. Len(conn[i].stream), RecvBytes(i, k)
  PROVE  /\ OutputPos(i)' = OutputPos(i) + k
         /\ Genuine(i) => Genuine(i)' 
         /\ Refused(i) => Refused(i)'
         /\ Genuine(i) \/ Refused(i)
<1>1. /\ OwnStep(i) /\ k \in Nat \ {0} /\ k <= thread[i].remaining
      /\ file_data' = Stored(i, k) /\ thread'[i].remaining = thread[i].remaining - k
      /\ Len(conn'[i].stream) = Len(conn[i].stream) - k
      /\ \A m \in 1 .. Len(conn'[i].stream) : conn'[i].stream[m] = conn[i].stream[k + m]
  BY ReadStep
<1>2. /\ Running /\ SamePlan
  BY <1>1 DEF OwnStep, mainVars, SamePlan
<1>3. /\ TaskOffset(i) \in Nat /\ TaskSize(i) \in Nat /\ thread[i].remaining \in Nat
      /\ TaskOffset(i) + TaskSize(i) <= file_size /\ file_size \in Nat
      /\ Len(conn[i].stream) \in Nat /\ DOMAIN file_data = 0 .. file_size - 1
      /\ thread[i].remaining <= TaskSize(i)
  BY <1>2, OwnFacts DEF IndInv, TypeOK, Agreed
<1>4. /\ TaskOffset(i)' = TaskOffset(i) /\ TaskSize(i)' = TaskSize(i)
      /\ TaskChunk(i)' = TaskChunk(i)
      /\ TaskChunk(i) = TaskOffset(i) .. TaskOffset(i) + TaskSize(i) - 1
  BY <1>2, PlanKept DEF SamePlan, TaskChunk, Chunk, TaskOffset, TaskSize
<1>5. OutputPos(i)' = OutputPos(i) + k /\ OutputPos(i) \in Nat /\ TaskOffset(i) <= OutputPos(i)
  <2>1. /\ OutputPos(i) = TaskOffset(i) + TaskSize(i) - thread[i].remaining
        /\ OutputPos(i)' = TaskOffset(i) + TaskSize(i) - (thread[i].remaining - k)
    BY <1>1, <1>4 DEF OutputPos
  <2> DEFINE rem == thread[i].remaining
  <2>2. /\ TaskOffset(i) \in Nat /\ TaskSize(i) \in Nat /\ rem \in Nat /\ k \in Nat
        /\ rem <= TaskSize(i)
    BY <1>1, <1>3
  <2> HIDE DEF rem
  <2>3. /\ TaskOffset(i) + TaskSize(i) - (rem - k) = TaskOffset(i) + TaskSize(i) - rem + k
        /\ TaskOffset(i) + TaskSize(i) - rem \in Nat
        /\ TaskOffset(i) <= TaskOffset(i) + TaskSize(i) - rem
    BY <2>2
  <2>4. QED
    BY <2>1, <2>3, Zenon DEF rem
<1>6. ASSUME NEW j \in TaskChunk(i)
      PROVE  /\ j \in Int
             /\ file_data'[j] = IF j >= OutputPos(i) /\ j < OutputPos(i) + k
                                  THEN conn[i].stream[j - OutputPos(i) + 1] ELSE file_data[j]
  <2>1. j \in DOMAIN file_data /\ j \in Int
    BY <1>3, <1>4, <1>6
  <2>2. QED
    BY <1>1, <2>1 DEF Stored
<1>7. \A j \in TaskChunk(i) :
        j >= OutputPos(i) /\ j < OutputPos(i) + k => j - OutputPos(i) + 1 \in 1 .. Len(conn[i].stream)
  <2>1. k <= Len(conn[i].stream) /\ \A j \in TaskChunk(i) : j \in Nat
    BY <1>3, <1>4
  <2>2. QED
    BY <1>1, <1>3, <1>5, <2>1, InStream
<1>8. \A m \in 1 .. Len(conn'[i].stream) : k + m \in 1 .. Len(conn[i].stream) /\ m \in Int
  BY <1>1, <1>3
<1>9. ASSUME Genuine(i) PROVE Genuine(i)'
  <2>1. \A m \in 1 .. Len(conn'[i].stream) : conn'[i].stream[m] = OutputPos(i) + k + m - 1
    BY <1>1, <1>5, <1>8, <1>9 DEF Genuine
  <2>2. ASSUME NEW j \in TaskChunk(i)
        PROVE  file_data'[j] = IF j < OutputPos(i) + k THEN j ELSE Zero
    <3>1. /\ file_data[j] = IF j < OutputPos(i) THEN j ELSE Zero
          /\ \A m \in 1 .. Len(conn[i].stream) : conn[i].stream[m] = OutputPos(i) + m - 1
      BY <1>9 DEF Genuine
    <3>2. CASE j >= OutputPos(i) /\ j < OutputPos(i) + k
      <4>1. j - OutputPos(i) + 1 \in 1 .. Len(conn[i].stream)
        BY <1>7, <3>2
      <4>2. conn[i].stream[j - OutputPos(i) + 1] = OutputPos(i) + (j - OutputPos(i) + 1) - 1
        BY <3>1, <4>1
      <4>3. QED
        BY <1>5, <1>6, <3>2, <4>2
    <3>3. CASE ~(j >= OutputPos(i) /\ j < OutputPos(i) + k)
      <4>1. file_data'[j] = file_data[j] /\ (j < OutputPos(i) + k <=> j < OutputPos(i))
        BY <1>1, <1>5, <1>6, <3>3
      <4>2. QED
        BY <3>1, <4>1
    <3>4. QED
      BY <3>2, <3>3
  <2>3. QED
    BY <1>4, <1>5, <2>1, <2>2 DEF Genuine
<1>10. ASSUME Refused(i) PROVE Refused(i)'
  <2>1. ~conn'[i].server
    BY <1>1, <1>10 DEF OwnStep, Refused
  <2>2. \A m \in 1 .. Len(conn'[i].stream) : conn'[i].stream[m] = Junk
    BY <1>1, <1>8, <1>10 DEF Refused
  <2>3. ASSUME NEW j \in TaskChunk(i)
        PROVE  file_data'[j] = IF j < OutputPos(i) + k THEN Junk ELSE Zero
    <3>1. /\ file_data[j] = IF j < OutputPos(i) THEN Junk ELSE Zero
          /\ \A m \in 1 .. Len(conn[i].stream) : conn[i].stream[m] = Junk
      BY <1>10 DEF Refused
    <3>2. CASE j >= OutputPos(i) /\ j < OutputPos(i) + k
      <4>1. j - OutputPos(i) + 1 \in 1 .. Len(conn[i].stream)
        BY <1>7, <3>2
      <4>2. conn[i].stream[j - OutputPos(i) + 1] = Junk
        BY <3>1, <4>1
      <4>3. QED
        BY <1>5, <1>6, <3>2, <4>2
    <3>3. CASE ~(j >= OutputPos(i) /\ j < OutputPos(i) + k)
      <4>1. file_data'[j] = file_data[j] /\ (j < OutputPos(i) + k <=> j < OutputPos(i))
        BY <1>1, <1>5, <1>6, <3>3
      <4>2. QED
        BY <3>1, <4>1
    <3>4. QED
      BY <3>2, <3>3
  <2>4. QED
    BY <1>4, <1>5, <2>1, <2>2, <2>3 DEF Refused
<1>11. Genuine(i) \/ Refused(i)
  BY <1>1 DEF RefInv, BytesOK, OwnStep
<1>12. QED
  BY <1>5, <1>9, <1>10, <1>11

\* A thread keeps to its connection and its chunk.
LEMMA ThreadRef ==
  ASSUME IndInv, RefInv, [Next]_vars, NEW i \in ThreadIds, ThreadStep(i)
  PROVE  RefInv'
<1>1. ASSUME NEW k \in 1 .. Len(conn[i].stream), RecvBytes(i, k) PROVE RefInv'
  <2>1. OwnStep(i) /\ UNCHANGED backlog /\ (conn'[i].client => conn[i].client)
    BY <1>1, ReadStep
  <2>2. (Genuine(i) \/ Refused(i))'
    BY <1>1, ReadBytes
  <2>3. QED
    BY <2>1, <2>2, OwnBytes, OwnPlaces DEF RefInv
<1>2. ASSUME Connect(i) \/ ConnectFails(i) \/ SendGet(i) \/ SendGetFails(i) \/ RecvEnd(i)
      PROVE  RefInv'
  <2>1. /\ OwnStep(i) /\ ReadsNothing(i)
        /\ Connect(i) \/ (UNCHANGED backlog /\ (conn'[i].client => conn[i].client))
    BY <1>2, QuietStep
  <2>2. Genuine(i) \/ Refused(i)
    BY <2>1 DEF RefInv, BytesOK, OwnStep
  <2>3. SamePlan
    BY <2>1 DEF OwnStep, mainVars, SamePlan
  <2>4. (Genuine(i) \/ Refused(i))'
    BY <2>1, <2>2, <2>3, BytesKept DEF OwnStep, ReadsNothing
  <2>5. PlacesOK'
    BY <2>1, ConnectPlaces, OwnPlaces DEF RefInv
  <2>6. QED
    BY <2>1, <2>4, <2>5, OwnBytes DEF RefInv
<1>3. QED
  BY <1>1, <1>2 DEF ThreadStep

-----------------------------------------------------------------------------
\* The state in which the threads start.
LEMMA NewPlan ==
  ASSUME IndInv, GetSize
  PROVE  /\ main = "size" /\ main' = "create" /\ UNCHANGED <<backlog, srv>>
         /\ file_size' \in Nat \ {0} /\ num_connections' \in 1 .. file_size'
         /\ file_data' = [j \in 0 .. file_size' - 1 |-> Zero]
         /\ DOMAIN conn = {CheckConn} /\ DOMAIN conn' = {CheckConn} \cup ThreadIds'
         /\ conn'[CheckConn].client = FALSE
         /\ CheckConn \notin ThreadIds'
         /\ DOMAIN thread' = ThreadIds'
         /\ \A i \in ThreadIds' : /\ conn'[i] = NewConn
                                  /\ thread'[i].pc = "new" /\ ~thread'[i].accepted
                                  /\ thread'[i].remaining = TaskSize(i)'
<1> DEFINE n == num_connections'
<1>1. /\ ReadSize /\ file_size' # 0 /\ ~DividesByZero(file_size', num_connections)
      /\ main' = "create" /\ n = Connections(file_size', num_connections)
      /\ file_data' = [j \in 0 .. file_size' - 1 |-> Zero]
  BY DEF GetSize
<1>2. /\ thread' = [i \in 0 .. n - 1 |->
                      [pc |-> "new", retries |-> MaxRetries,
                       remaining |-> Size(file_size', n, i), status |-> 0, accepted |-> FALSE]]
      /\ conn' = [c \in {CheckConn} \cup (0 .. n - 1) |->
                    IF c = CheckConn THEN [conn[c] EXCEPT !.client = FALSE] ELSE NewConn]
  BY Zenon DEF GetSize
<1>3. /\ main = "size" /\ DOMAIN conn = {CheckConn} /\ UNCHANGED <<backlog, srv>>
      /\ file_size' \in Nat /\ conn[CheckConn] \in ConnSet
  BY <1>1, SizeRead
<1>4. /\ file_size' \in Nat \ {0} /\ n \in 1 .. file_size'
  <2>1. num_connections \in Int
    BY DEF IndInv, ConnsOK
  <2>2. num_connections # 0
    <3>1. num_connections = 0 => Connections(file_size', num_connections) = 0
      BY <1>1, <1>3 DEF Connections
    <3>2. QED
      BY <1>1, <3>1 DEF DividesByZero
  <2>3. QED
    BY <1>1, <1>3, <2>1, <2>2, ConnectionsRange
<1>5. ThreadIds' = 0 .. n - 1 /\ CheckConn \notin 0 .. n - 1
  BY <1>4 DEF ThreadIds, CheckConn
<1>6. [conn[CheckConn] EXCEPT !.client = FALSE].client = FALSE
  BY <1>3 DEF ConnSet
<1>7. /\ DOMAIN conn' = {CheckConn} \cup ThreadIds' /\ conn'[CheckConn].client = FALSE
      /\ \A i \in ThreadIds' : conn'[i] = NewConn
  BY <1>2, <1>5, <1>6
<1>8. /\ DOMAIN thread' = ThreadIds'
      /\ \A i \in ThreadIds' : /\ thread'[i].pc = "new" /\ ~thread'[i].accepted
                               /\ thread'[i].remaining = TaskSize(i)'
  BY <1>2, <1>5 DEF TaskSize
<1>9. QED
  BY <1>1, <1>3, <1>4, <1>5, <1>7, <1>8

\* All chunks are empty and no thread is connected.
LEMMA GetSizeRef ==
  ASSUME IndInv, RefInv, GetSize
  PROVE  RefInv'
<1>1. /\ main = "size" /\ main' = "create" /\ UNCHANGED <<backlog, srv>>
      /\ file_size' \in Nat \ {0} /\ num_connections' \in 1 .. file_size'
      /\ file_data' = [j \in 0 .. file_size' - 1 |-> Zero]
      /\ DOMAIN conn = {CheckConn} /\ DOMAIN conn' = {CheckConn} \cup ThreadIds'
      /\ conn'[CheckConn].client = FALSE
      /\ CheckConn \notin ThreadIds'
      /\ DOMAIN thread' = ThreadIds'
      /\ \A i \in ThreadIds' : /\ conn'[i] = NewConn
                               /\ thread'[i].pc = "new" /\ ~thread'[i].accepted
                               /\ thread'[i].remaining = TaskSize(i)'
  BY NewPlan
<1>2. /\ \A c, s : Placed(c, s)' <=> Placed(c, s)
      /\ PlacedOnce'
  BY <1>1, PlacedKept DEF RefInv, PlacesOK
<1>3. ASSUME NEW s \in Servers, NEW c, Placed(c, s) PROVE c = CheckConn
  <2>1. srv[s].conn \in DOMAIN conn /\ backlog[s] \in Seq(DOMAIN conn)
    BY SrvFacts DEF IndInv
  <2>2. \A k \in 1 .. Len(backlog[s]) : backlog[s][k] \in DOMAIN conn
    BY <2>1
  <2>3. QED
    BY <1>1, <1>3, <2>1, <2>2 DEF Placed, Queued, Serves
<1>4. ServerEndOpen'
  BY <1>1, <1>2, <1>3 DEF ServerEndOpen
<1>5. UnplacedOK'
  <2>1. NewConn.server
    BY DEF NewConn
  <2>2. QED
    BY <1>1, <1>2, <1>3, <2>1 DEF UnplacedOK, Unplaced
<1>6. ASSUME NEW i \in ThreadIds' PROVE Genuine(i)'
  <2>1. /\ TaskOffset(i)' \in Nat /\ TaskSize(i)' \in Nat /\ TaskOffset(i)' + TaskSize(i)' <= file_size'
    BY <1>1, ChunkInFile DEF TaskOffset, TaskSize, ThreadIds
  <2>2. OutputPos(i)' = TaskOffset(i)'
    <3>1. OutputPos(i)' = TaskOffset(i)' + TaskSize(i)' - TaskSize(i)'
      BY <1>1 DEF OutputPos
    <3>2. QED
      BY <2>1, <3>1
  <2>3. TaskChunk(i)' = TaskOffset(i)' .. TaskOffset(i)' + TaskSize(i)' - 1
    BY DEF TaskChunk, Chunk, TaskOffset, TaskSize
  <2>4. \A j \in TaskChunk(i)' : file_data'[j] = Zero /\ ~(j < TaskOffset(i)')
    BY <1>1, <2>1, <2>3
  <2>5. conn'[i].stream = << >>
    BY <1>1 DEF NewConn
  <2>6. QED
    BY <2>2, <2>4, <2>5 DEF Genuine
<1>7. BytesOK' /\ NoPlanYet'
  BY <1>1, <1>6 DEF BytesOK, NoPlanYet
<1>8. QED
  BY <1>2, <1>4, <1>5, <1>7 DEF RefInv, PlacesOK

\* main() asks for the size on the first connection there is.
LEMMA SendCheckRef ==
  ASSUME IndInv, RefInv, SendCheck
  PROVE  RefInv'
<1>1. /\ main = "check" /\ CanConnect(0) /\ main' = "size" /\ srv' = srv
      /\ thread' = thread /\ file_data' = file_data
  BY DEF SendCheck
<1>2. /\ conn[CheckConn] = NewConn /\ DOMAIN conn = {CheckConn} /\ 0 \in Servers
      /\ \A s \in Servers : srv[s].pc = "accept" /\ backlog[s] = << >>
      /\ conn \in [DOMAIN conn -> ConnSet]
  BY <1>1, FirstServer DEF IndInv, CheckOK, ConnsOK, TypeOK
<1>3. /\ conn' = [conn EXCEPT ![CheckConn].request = "CHECK"]
      /\ backlog' = [backlog EXCEPT ![0] = Append(backlog[0], CheckConn)]
  BY Zenon DEF SendCheck
<1>4. \A s \in Servers : \A x : ~Placed(x, s)
  BY <1>2 DEF Placed, Queued, Serves, Busy
<1>5. PlacedOnce'
  BY <1>1, <1>2, <1>3, <1>4, Queueing DEF RefInv, PlacesOK
<1>6. DOMAIN conn' = {CheckConn} /\ conn'[CheckConn].server
  BY <1>2, <1>3 DEF NewConn
<1>7. QED
  BY <1>1, <1>5, <1>6
  DEF RefInv, NoPlanYet, PlacesOK, ServerEndOpen, UnplacedOK, BytesOK, Running

\* The client is not running, before or after: the servers have what they had.
LEMMA StoppedRef ==
  ASSUME IndInv, RefInv, UNCHANGED <<srv, backlog>>, main' \notin {"check", "size"}, ~Running',
         DOMAIN conn' = DOMAIN conn,
         \A c \in DOMAIN conn :
           conn'[c].client => conn[c].client /\ conn'[c].server = conn[c].server
  PROVE  RefInv'
<1>1. /\ \A c, s : Placed(c, s)' <=> Placed(c, s)
      /\ PlacedOnce'
  BY PlacedKept DEF RefInv, PlacesOK
<1>2. ServerEndOpen'
  BY <1>1 DEF RefInv, PlacesOK, ServerEndOpen
<1>3. QED
  BY <1>1, <1>2 DEF RefInv, NoPlanYet, PlacesOK, UnplacedOK, BytesOK

\* One more thread starts.
LEMMA CreateThreadRef ==
  ASSUME IndInv, RefInv, CreateThread
  PROVE  RefInv'
<1>1. /\ main = "create" /\ main' \in {"create", "join"} /\ UNCHANGED <<srv, backlog, conn, file_data>>
      /\ Running /\ Running' /\ SamePlan /\ ThreadIds' = ThreadIds
      /\ thread' = [thread EXCEPT ![created].pc = "connect"]
  BY DEF CreateThread, Running, SamePlan, ThreadIds, ftpServerVars
<1>2. created \in ThreadIds /\ thread[created].pc = "new" /\ DOMAIN thread = ThreadIds
  BY <1>1 DEF IndInv, CreatedOK, TypeOK, ThreadIds
<1>3. \A i \in ThreadIds : /\ thread'[i].remaining = thread[i].remaining
                           /\ thread'[i].accepted = thread[i].accepted
                           /\ thread'[i].pc = thread[i].pc \/
                                (thread[i].pc = "new" /\ thread'[i].pc = "connect")
  BY <1>1, <1>2 DEF IndInv, TypeOK, ThreadSet
<1>4. /\ \A c, s : Placed(c, s)' <=> Placed(c, s)
      /\ PlacedOnce'
  BY <1>1, PlacedKept DEF RefInv, PlacesOK
<1>5. ServerEndOpen'
  BY <1>1, <1>4 DEF RefInv, PlacesOK, ServerEndOpen
<1>6. UnplacedOK'
  BY <1>1, <1>3, <1>4 DEF RefInv, PlacesOK, UnplacedOK, Unplaced
<1>7. BytesOK'
  <2>1. SUFFICES ASSUME NEW i \in ThreadIds, thread'[i].pc # "exited"
                 PROVE  (Genuine(i) \/ Refused(i))'
    BY <1>1 DEF BytesOK
  <2>2. Genuine(i) \/ Refused(i)
    BY <1>1, <1>3, <2>1 DEF RefInv, BytesOK
  <2>3. QED
    BY <1>1, <1>3, <2>2, BytesKept
<1>8. QED
  BY <1>1, <1>4, <1>5, <1>6, <1>7 DEF RefInv, PlacesOK, NoPlanYet

\* main(), on its way to the end or to a failure.
LEMMA MainRef ==
  ASSUME IndInv, RefInv, MainStep
  PROVE  RefInv'
<1>1. CASE SendCheckFails
  BY <1>1, StoppedRef DEF SendCheckFails, ftpServerVars, Running
<1>2. CASE GetSizeFails
  <2>1. ReadSize /\ main' \in {"failed", "sigfpe"}
    BY <1>2 DEF GetSizeFails
  <2>2. conn' = [conn EXCEPT ![CheckConn].client = FALSE]
    BY <1>2, Zenon DEF GetSizeFails
  <2>3. /\ UNCHANGED <<srv, backlog>> /\ conn[CheckConn] \in ConnSet /\ DOMAIN conn = {CheckConn}
        /\ conn \in [DOMAIN conn -> ConnSet]
    BY <2>1, SizeRead DEF IndInv, TypeOK
  <2>4. DOMAIN conn' = DOMAIN conn /\ conn'[CheckConn].client = FALSE
    BY <2>2, <2>3 DEF ConnSet
  <2>5. QED
    BY <2>1, <2>3, <2>4, StoppedRef DEF Running
<1>3. CASE CreateThreadFails
  <2>1. /\ main' = "failed" /\ UNCHANGED <<srv, backlog>>
    BY <1>3 DEF CreateThreadFails
  <2>2. conn' = [c \in DOMAIN conn |-> [conn[c] EXCEPT !.client = FALSE]]
    BY <1>3, Zenon DEF CreateThreadFails
  <2>3. DOMAIN conn' = DOMAIN conn /\ \A c \in DOMAIN conn : conn'[c].client = FALSE
    BY <2>2 DEF IndInv, TypeOK, ConnSet
  <2>4. QED
    BY <2>1, <2>3, StoppedRef DEF Running
<1>4. CASE WriteOutput
  BY <1>4, StoppedRef DEF WriteOutput, ftpServerVars, Running
<1>5. QED
  BY <1>1, <1>2, <1>3, <1>4, SendCheckRef, GetSizeRef, CreateThreadRef DEF MainStep

\* The start of what was on its way still arrives.
LEMMA ResetRef ==
  ASSUME IndInv, RefInv, NEW c \in DOMAIN conn, Reset(c)
  PROVE  RefInv'
<1>1. /\ IF c = CheckConn THEN main = "size" ELSE thread[c].accepted
      /\ UNCHANGED <<backlog, srv, ftpClientVars>>
  BY DEF Reset
<1>2. PICK k \in 0 .. Len(conn[c].stream), request \in {"none", conn[c].request} :
        conn' = [conn EXCEPT ![c].client = FALSE, ![c].server = FALSE,
                             ![c].stream = SubSeq(@, 1, k), ![c].request = request]
  BY Zenon DEF Reset
<1> DEFINE old == conn[c].stream
           st  == SubSeq(conn[c].stream, 1, k)
           q   == [conn[c] EXCEPT !.client = FALSE, !.server = FALSE, !.stream = st,
                                  !.request = request]
<1>3. conn' = [conn EXCEPT ![c] = q]
  BY <1>2, Zenon
<1>4. /\ conn[c] \in ConnSet /\ old \in Seq(Int) /\ Len(old) \in Nat
      /\ conn \in [DOMAIN conn -> ConnSet]
  BY ConnFacts DEF IndInv, TypeOK
<1>5. Len(st) = k /\ k \in Nat /\ k <= Len(old) /\ \A m \in 1 .. k : st[m] = old[m]
  <2>1. k \in 0 .. Len(old) /\ st = SubSeq(old, 1, k)
    OBVIOUS
  <2> HIDE DEF old, st
  <2>2. QED
    BY <1>4, <2>1, SubSeqProperties
<1> HIDE DEF st
<1>6. q.client = FALSE /\ q.server = FALSE /\ q.stream = st
  BY <1>4 DEF ConnSet
<1> HIDE DEF q
<1>7. /\ DOMAIN conn' = DOMAIN conn /\ conn'[c] = q
      /\ \A x \in DOMAIN conn \ {c} : conn'[x] = conn[x]
  BY <1>3, <1>4
<1>8. /\ main' = main /\ thread' = thread /\ Running' = Running /\ ThreadIds' = ThreadIds
      /\ SamePlan /\ file_data' = file_data
  BY <1>1, SameClient DEF ftpClientVars
<1>9. PlacesOK'
  <2>1. /\ \A x, s : Placed(x, s)' <=> Placed(x, s)
        /\ PlacedOnce'
    BY <1>1, PlacedKept DEF RefInv, PlacesOK
  <2>2. ServerEndOpen'
    BY <1>6, <1>7, <2>1 DEF RefInv, PlacesOK, ServerEndOpen
  <2>3. ASSUME Running, NEW i \in ThreadIds, thread[i].pc \in {"new", "connect"}
        PROVE  Unplaced(i)'
    <3>1. Unplaced(i) /\ i \in DOMAIN conn /\ i # CheckConn
      BY <2>3, OwnFacts DEF RefInv, PlacesOK, UnplacedOK
    <3>2. i # c
      BY <1>1, <3>1 DEF Unplaced
    <3>3. QED
      BY <1>7, <1>8, <2>1, <3>1, <3>2 DEF Unplaced
  <2>4. UnplacedOK'
    BY <1>8, <2>3 DEF UnplacedOK
  <2>5. QED
    BY <2>1, <2>2, <2>4 DEF PlacesOK
<1>10. ASSUME Running, c \in ThreadIds, thread[c].pc # "exited"
       PROVE  (Genuine(c) \/ Refused(c))'
  <2>1. Genuine(c) \/ Refused(c)
    BY <1>10 DEF RefInv, BytesOK
  <2>2. OutputPos(c)' = OutputPos(c) /\ TaskChunk(c)' = TaskChunk(c)
    BY <1>8, PlanKept DEF OutputPos, TaskChunk, SamePlan
  <2>3. \A m \in 1 .. Len(conn'[c].stream) :
          m \in 1 .. Len(conn[c].stream) /\ conn'[c].stream[m] = conn[c].stream[m]
    BY <1>4, <1>5, <1>6, <1>7
  <2>4. ~conn'[c].server
    BY <1>6, <1>7
  <2>5. QED
    BY <1>8, <2>1, <2>2, <2>3, <2>4 DEF Genuine, Refused
<1>11. BytesOK' /\ NoPlanYet'
  <2>1. \A x \in DOMAIN conn \ {c} :
          conn'[x].stream = conn[x].stream /\ (conn'[x].server => conn[x].server)
    BY <1>7
  <2>2. QED
    BY <1>1, <1>7, <1>10, <2>1, ServerBytes
<1>12. QED
  BY <1>9, <1>11 DEF RefInv

\* Every step preserves it.
LEMMA RefNext == IndInv /\ RefInv /\ [Next]_vars => RefInv'
<1> SUFFICES ASSUME IndInv, RefInv, [Next]_vars PROVE RefInv'
  OBVIOUS
<1>1. CASE ClientMain
  BY <1>1, MainRef DEF ClientMain
<1>2. CASE ClientThreads
  <2>1. PICK i \in DOMAIN thread : ThreadStep(i)
    BY <1>2 DEF ClientThreads
  <2>2. Running
    BY <2>1 DEF ThreadStep, Connect, ConnectFails, SendGet, SendGetFails, RecvBytes, RecvEnd
  <2>3. i \in ThreadIds
    BY <2>1, <2>2 DEF IndInv, TypeOK
  <2>4. QED
    BY <2>1, <2>3, ThreadRef
<1>3. CASE \E s \in Servers : ServerProcess(s)
  BY <1>3, ServerRef
<1>4. CASE \E c \in DOMAIN conn : Reset(c)
  BY <1>4, ResetRef
<1>5. CASE UNCHANGED vars
  <2>1. /\ UNCHANGED <<srv, backlog, conn, main, thread, file_data, num_connections, file_size>>
    BY <1>5 DEF vars, ftpServerVars, ftpClientVars
  <2>2. QED
    BY <2>1
    DEF RefInv, NoPlanYet, PlacesOK, PlacedOnce, UnplacedOK, ServerEndOpen, BytesOK, Unplaced,
        Placed, Queued, Serves, Busy, Genuine, Refused, OutputPos, TaskChunk, TaskOffset,
        TaskSize, ThreadIds, Running
<1>6. QED
  BY <1>1, <1>2, <1>3, <1>4, <1>5 DEF Next

\* So the two invariants hold in every reachable state.
LEMMA RefInvariance == Spec => [](IndInv /\ RefInv)
BY InitInd, NextInd, RefInit, RefNext, PTL DEF Spec

-----------------------------------------------------------------------------
(***************************************************************************)
(* The state of ChunkedDownload that a state of Ftp stands for.            *)
(***************************************************************************)
DTotal  == IF Planned THEN file_size ELSE 0
DChunk  == [i \in DOMAIN thread |->
              [lo |-> TaskOffset(i), hi |-> TaskOffset(i) + TaskSize(i)]]
DFilled == [i \in DOMAIN thread |-> IF GotError(i) THEN TaskOffset(i) ELSE OutputPos(i)]
DOpen   == {i \in DOMAIN thread : thread[i].pc # "exited" /\ ~GotError(i)}
DData   == [j \in DOMAIN file_data |-> IF file_data[j] = Junk THEN Zero ELSE file_data[j]]

\* A step that leaves it alone.
LEMMA ToStutter ==
  ASSUME UNCHANGED <<DownloadPhase, DTotal, DChunk, DFilled, DOpen, DData>>
  PROVE  [Download!DNext]_(Download!dvars)
BY DEF DTotal, DChunk, DFilled, DOpen, DData, Download!dvars

\* A chunk is given up.
LEMMA ToGiveUp ==
  ASSUME DownloadPhase = "fetching", NEW i \in DOpen, DOpen' = DOpen \ {i},
         UNCHANGED <<DownloadPhase, DTotal, DChunk, DFilled, DData>>
  PROVE  [Download!DNext]_(Download!dvars)
<1>1. Download!GiveUp(i)
  BY DEF DTotal, DChunk, DFilled, DOpen, DData, Download!GiveUp
<1>2. Download!DNext
  BY <1>1 DEF DOpen, Download!DNext
<1>3. QED
  BY <1>2

\* Bytes arrive.
LEMMA ToFill ==
  ASSUME DownloadPhase = "fetching", NEW i \in DOpen, NEW p \in DFilled[i] + 1 .. DChunk[i].hi,
         DFilled' = [DFilled EXCEPT ![i] = p],
         DData' = [j \in DOMAIN DData |-> IF DFilled[i] <= j /\ j < p THEN j ELSE DData[j]],
         DOpen' = IF p = DChunk[i].hi THEN DOpen \ {i} ELSE DOpen,
         UNCHANGED <<DownloadPhase, DTotal, DChunk>>
  PROVE  [Download!DNext]_(Download!dvars)
<1>1. Download!Fill(i, p)
  BY Zenon DEF DTotal, DChunk, DFilled, DOpen, DData, Download!Fill
<1>2. Download!DNext
  BY <1>1, Zenon DEF DChunk, DFilled, DOpen, Download!DNext
<1>3. QED
  BY <1>2

\* The file is written, or the client stops.
LEMMA ToEnd ==
  ASSUME \/ DownloadPhase = "fetching" /\ DOpen = {} /\ DownloadPhase' = "written"
         \/ DownloadPhase \in {"sizing", "fetching"} /\ DownloadPhase' = "aborted",
         UNCHANGED <<DTotal, DChunk, DFilled, DOpen, DData>>
  PROVE  [Download!DNext]_(Download!dvars)
<1>1. Download!Write \/ Download!Abort
  BY Zenon DEF DTotal, DChunk, DFilled, DOpen, DData, Download!Write, Download!Abort
<1>2. QED
  BY <1>1 DEF Download!DNext

\* The plan is made.
LEMMA ToPlan ==
  ASSUME DownloadPhase = "sizing", DownloadPhase' = "fetching", DTotal' \in Nat \ {0},
         DChunk' \in [DOMAIN DChunk' -> [lo : Nat, hi : Nat]],
         Download!Partition(DChunk', DTotal'),
         DFilled' = [i \in DOMAIN DChunk' |-> DChunk'[i].lo],
         DOpen' = DOMAIN DChunk',
         DData' = [j \in 0 .. DTotal' - 1 |-> Zero]
  PROVE  [Download!DNext]_(Download!dvars)
<1>1. Download!Plan
  BY Zenon DEF DTotal, DChunk, DFilled, DOpen, DData, Download!Plan
<1>2. QED
  BY <1>1 DEF Download!DNext

\* Nothing is planned yet.
LEMMA DownloadInit == Init => Download!DInit
<1> SUFFICES ASSUME Init PROVE Download!DInit
  OBVIOUS
<1>1. main = "check" /\ thread = << >> /\ file_data = << >>
  BY DEF Init, ClientInit
<1>2. ~Planned /\ DownloadPhase = "sizing"
  BY <1>1 DEF Planned, DownloadPhase
<1>3. DOMAIN thread = {} /\ DOMAIN file_data = {}
  BY <1>1
<1>4. DChunk = << >> /\ DFilled = << >> /\ DOpen = {} /\ DData = << >>
  BY <1>3 DEF DChunk, DFilled, DOpen, DData
<1>5. QED
  BY <1>2, <1>4, Zenon DEF DChunk, DFilled, DOpen, DData, Download!DInit

-----------------------------------------------------------------------------
\* Servers and network do not appear in it.
LEMMA SameDownload ==
  ASSUME UNCHANGED ftpClientVars
  PROVE  [Download!DNext]_(Download!dvars)
<1>1. UNCHANGED <<main, thread, file_data, file_size, num_connections>>
  BY DEF ftpClientVars
<1>2. Planned' = Planned /\ DownloadPhase' = DownloadPhase
  BY <1>1 DEF Planned, DownloadPhase
<1>3. \A i : /\ TaskOffset(i)' = TaskOffset(i) /\ TaskSize(i)' = TaskSize(i)
             /\ TaskChunk(i)' = TaskChunk(i)
  BY <1>1 DEF TaskOffset, TaskSize, TaskChunk
<1>4. \A i : OutputPos(i)' = OutputPos(i) /\ GotError(i)' = GotError(i)
  BY <1>1, <1>2, <1>3 DEF OutputPos, GotError
<1>5. QED
  BY <1>1, <1>2, <1>3, <1>4, ToStutter DEF DTotal, DChunk, DFilled, DOpen, DData

\* Plan and buffer stay as they are, and no thread reads.
LEMMA SameShape ==
  ASSUME SamePlan, Planned, Planned', DOMAIN thread' = DOMAIN thread, file_data' = file_data,
         \A i \in DOMAIN thread : thread'[i].remaining = thread[i].remaining
  PROVE  /\ UNCHANGED <<DTotal, DChunk, DFilled, DData>>
         /\ \A i : GotError(i)' <=> GotError(i)
<1>1. \A i : /\ TaskOffset(i)' = TaskOffset(i) /\ TaskSize(i)' = TaskSize(i)
             /\ TaskChunk(i)' = TaskChunk(i)
  BY PlanKept DEF SamePlan, TaskChunk
<1>2. \A i : GotError(i)' <=> GotError(i)
  BY <1>1 DEF GotError
<1>3. \A i \in DOMAIN thread : OutputPos(i)' = OutputPos(i)
  BY <1>1 DEF OutputPos
<1>4. QED
  BY <1>1, <1>2, <1>3 DEF DTotal, DChunk, DFilled, DData, SamePlan

\* A thread goes on, or exits without the rest of its chunk.
LEMMA QuietDownload ==
  ASSUME IndInv, NEW i \in ThreadIds, OwnStep(i), ReadsNothing(i)
  PROVE  [Download!DNext]_(Download!dvars)
<1>1. /\ Running /\ main' = main /\ SamePlan /\ DOMAIN thread = ThreadIds
      /\ DOMAIN thread' = DOMAIN thread
      /\ \A j \in DOMAIN thread : thread'[j].remaining = thread[j].remaining
      /\ file_data' = file_data
  BY DEF OwnStep, ReadsNothing, mainVars, SamePlan, IndInv, TypeOK
<1>2. /\ Planned /\ Planned' /\ DownloadPhase = "fetching" /\ DownloadPhase' = "fetching"
  BY <1>1 DEF Running, Planned, DownloadPhase
<1>3. /\ UNCHANGED <<DTotal, DChunk, DFilled, DData>>
      /\ \A j : GotError(j)' <=> GotError(j)
  BY <1>1, <1>2, SameShape
<1>4. DOpen' = IF thread'[i].pc = "exited" THEN DOpen \ {i} ELSE DOpen
  BY <1>1, <1>3 DEF DOpen, OwnStep
<1>5. CASE thread'[i].pc = "exited" /\ i \in DOpen
  BY <1>2, <1>3, <1>4, <1>5, ToGiveUp
<1>6. CASE ~(thread'[i].pc = "exited" /\ i \in DOpen)
  <2>1. DOpen' = DOpen
    BY <1>4, <1>6
  <2>2. QED
    BY <1>2, <1>3, <2>1, ToStutter
<1>7. QED
  BY <1>5, <1>6

\* recv() fills the chunk, or it meets an error message.
LEMMA ReadDownload ==
  ASSUME IndInv, RefInv, [Next]_vars, NEW i \in ThreadIds,
         NEW k \in 1 .. Len(conn[i].stream), RecvBytes(i, k)
  PROVE  [Download!DNext]_(Download!dvars)
<1>1. /\ OwnStep(i) /\ k \in Nat \ {0} /\ k <= thread[i].remaining
      /\ file_data' = Stored(i, k) /\ thread'[i].remaining = thread[i].remaining - k
      /\ thread'[i].pc = IF thread[i].remaining - k > 0 THEN "recv" ELSE "exited"
  BY ReadStep
<1>2. /\ Running /\ main' = main /\ SamePlan /\ DOMAIN thread = ThreadIds
      /\ DOMAIN thread' = DOMAIN thread
      /\ \A j \in DOMAIN thread \ {i} : thread'[j] = thread[j]
      /\ thread[i].pc # "exited"
  BY <1>1 DEF OwnStep, mainVars, SamePlan, IndInv, TypeOK
<1>3. /\ Planned /\ Planned' /\ DownloadPhase = "fetching" /\ DownloadPhase' = "fetching"
  BY <1>2 DEF Running, Planned, DownloadPhase
<1>4. /\ TaskOffset(i) \in Nat /\ TaskSize(i) \in Nat \ {0} /\ thread[i].remaining \in Nat
      /\ TaskOffset(i) + TaskSize(i) <= file_size /\ file_size \in Nat
      /\ DOMAIN file_data = 0 .. file_size - 1 /\ Len(conn[i].stream) \in Nat
      /\ thread[i].remaining <= TaskSize(i)
  BY <1>2, OwnFacts DEF IndInv, TypeOK, Agreed
<1>5. /\ \A j : /\ TaskOffset(j)' = TaskOffset(j) /\ TaskSize(j)' = TaskSize(j)
                /\ TaskChunk(j)' = TaskChunk(j)
      /\ TaskChunk(i) = TaskOffset(i) .. TaskOffset(i) + TaskSize(i) - 1
  BY <1>2, PlanKept DEF SamePlan, TaskChunk, Chunk, TaskOffset, TaskSize
<1>6. /\ OutputPos(i)' = OutputPos(i) + k
      /\ Genuine(i) => Genuine(i)'
      /\ Refused(i) => Refused(i)'
      /\ Genuine(i) \/ Refused(i)
  BY ReadBytes
<1>7. /\ OutputPos(i) \in Nat /\ TaskOffset(i) <= OutputPos(i)
      /\ OutputPos(i) + k <= TaskOffset(i) + TaskSize(i)
      /\ OutputPos(i) + k = TaskOffset(i) + TaskSize(i) <=> ~(thread[i].remaining - k > 0)
      /\ OutputPos(i) < TaskOffset(i) + TaskSize(i)
  <2> DEFINE rem == thread[i].remaining
  <2>1. OutputPos(i) = TaskOffset(i) + TaskSize(i) - rem
    BY DEF OutputPos
  <2>2. /\ TaskOffset(i) \in Nat /\ TaskSize(i) \in Nat /\ rem \in Nat /\ k \in Nat \ {0}
        /\ rem <= TaskSize(i) /\ k <= rem
    BY <1>1, <1>4
  <2> HIDE DEF rem
  <2>3. /\ OutputPos(i) \in Nat /\ TaskOffset(i) <= OutputPos(i)
        /\ OutputPos(i) + k <= TaskOffset(i) + TaskSize(i)
        /\ OutputPos(i) + k = TaskOffset(i) + TaskSize(i) <=> ~(rem - k > 0)
        /\ OutputPos(i) < TaskOffset(i) + TaskSize(i)
    BY <2>1, <2>2
  <2>4. QED
    BY <2>3 DEF rem
<1>8. DTotal' = DTotal /\ DChunk' = DChunk
  BY <1>2, <1>3, <1>5 DEF DTotal, DChunk, SamePlan
<1>9. ASSUME NEW j \in DOMAIN thread, j # i
      PROVE  (GotError(j)' <=> GotError(j)) /\ OutputPos(j)' = OutputPos(j)
  <2>1. \A b \in TaskChunk(j) : file_data'[b] = file_data[b]
    BY <1>2, <1>9, StepIsolated
  <2>2. GotError(j)' <=> GotError(j)
    BY <1>3, <1>5, <2>1 DEF GotError
  <2>3. QED
    BY <1>2, <1>5, <1>9, <2>2 DEF OutputPos
<1>10. /\ Zero # Junk /\ \A b \in Nat : b # Junk
  BY DEF Zero, Junk
<1>11. CASE Genuine(i)
  <2> DEFINE p == OutputPos(i) + k
  <2>1. ~GotError(i) /\ ~GotError(i)'
    <3>1. \A b \in TaskChunk(i) : b \in Nat
      BY <1>4, <1>5
    <3>2. \A b \in TaskChunk(i) : file_data[b] # Junk
      BY <1>10, <1>11, <3>1 DEF Genuine
    <3>3. \A b \in TaskChunk(i) : file_data'[b] # Junk
      BY <1>5, <1>6, <1>10, <1>11, <3>1 DEF Genuine
    <3>4. QED
      BY <1>5, <3>2, <3>3 DEF GotError
  <2>2. /\ i \in DOpen /\ DFilled[i] = OutputPos(i)
        /\ DChunk[i].hi = TaskOffset(i) + TaskSize(i)
    BY <1>2, <2>1 DEF DOpen, DFilled, DChunk
  <2>3. p \in DFilled[i] + 1 .. DChunk[i].hi
    BY <1>1, <1>4, <1>7, <2>2
  <2>4. DFilled' = [DFilled EXCEPT ![i] = p]
    <3>1. \A j \in DOMAIN thread :
            (IF GotError(j) THEN TaskOffset(j) ELSE OutputPos(j))' =
              IF j = i THEN p ELSE IF GotError(j) THEN TaskOffset(j) ELSE OutputPos(j)
      BY <1>5, <1>6, <1>9, <2>1
    <3>2. QED
      BY <1>2, <3>1 DEF DFilled
  <2>5. DOpen' = IF p = DChunk[i].hi THEN DOpen \ {i} ELSE DOpen
    <3>1. \A j \in DOMAIN thread : j # i => (j \in DOpen' <=> j \in DOpen)
      BY <1>2, <1>9 DEF DOpen
    <3>2. i \in DOpen' <=> thread[i].remaining - k > 0
      BY <1>1, <1>2, <2>1 DEF DOpen
    <3>3. p = DChunk[i].hi <=> ~(thread[i].remaining - k > 0)
      BY <1>7, <2>2
    <3>4. DOpen' \subseteq DOMAIN thread /\ DOpen \subseteq DOMAIN thread
      BY <1>2 DEF DOpen
    <3>5. CASE p = DChunk[i].hi
      <4>1. i \notin DOpen'
        BY <3>2, <3>3, <3>5
      <4>2. DOpen' = DOpen \ {i}
        BY <3>1, <3>4, <4>1
      <4>3. QED
        BY <3>5, <4>2
    <3>6. CASE p # DChunk[i].hi
      <4>1. i \in DOpen'
        BY <3>2, <3>3, <3>6
      <4>2. i \in DOpen /\ \A j : j \in DOpen' <=> j \in DOpen
        BY <2>2, <3>1, <3>4, <4>1, Zenon
      <4>3. DOpen' = DOpen
        BY <3>4, <4>2
      <4>4. QED
        BY <3>6, <4>3
    <3>7. QED
      BY <3>5, <3>6
  <2>6. DData' = [j \in DOMAIN DData |-> IF DFilled[i] <= j /\ j < p THEN j ELSE DData[j]]
    <3>1. DOMAIN file_data' = DOMAIN file_data /\ DOMAIN DData = DOMAIN file_data
      BY <1>1 DEF Stored, DData
    <3>2. ASSUME NEW j \in DOMAIN file_data
          PROVE  (IF file_data'[j] = Junk THEN Zero ELSE file_data'[j]) =
                   IF OutputPos(i) <= j /\ j < p THEN j ELSE DData[j]
      <4>1. /\ j \in Nat
            /\ file_data'[j] = IF j >= OutputPos(i) /\ j < p
                                 THEN conn[i].stream[j - OutputPos(i) + 1] ELSE file_data[j]
        BY <1>1, <1>4, <3>2 DEF Stored
      <4>2. CASE j >= OutputPos(i) /\ j < p
        <5>1. j - OutputPos(i) + 1 \in 1 .. Len(conn[i].stream)
          <6>1. k <= Len(conn[i].stream)
            BY <1>4
          <6>2. QED
            BY <1>1, <1>4, <1>7, <4>1, <4>2, <6>1, InStream
        <5>2. conn[i].stream[j - OutputPos(i) + 1] = OutputPos(i) + (j - OutputPos(i) + 1) - 1
          BY <1>11, <5>1 DEF Genuine
        <5>3. file_data'[j] = j
          BY <1>7, <4>1, <4>2, <5>2
        <5>4. QED
          BY <1>7, <1>10, <4>1, <4>2, <5>3
      <4>3. CASE ~(j >= OutputPos(i) /\ j < p)
        <5>1. file_data'[j] = file_data[j] /\ ~(OutputPos(i) <= j /\ j < p)
          BY <1>7, <4>1, <4>3
        <5>2. QED
          BY <3>2, <5>1 DEF DData
      <4>4. QED
        BY <4>2, <4>3
    <3>3. QED
      BY <2>2, <3>1, <3>2 DEF DData
  <2> HIDE DEF p
  <2>7. QED
    BY <1>3, <1>8, <2>2, <2>3, <2>4, <2>5, <2>6, ToFill
<1>12. CASE Refused(i)
  <2>1. GotError(i)'
    <3>1. OutputPos(i) \in TaskChunk(i) /\ OutputPos(i) < OutputPos(i) + k
      BY <1>1, <1>4, <1>5, <1>7
    <3>2. file_data'[OutputPos(i)] = Junk
      <4>1. \A j \in TaskChunk(i) : j < OutputPos(i) + k => file_data'[j] = Junk
        BY <1>5, <1>6, <1>12 DEF Refused
      <4>2. QED
        BY <3>1, <4>1
    <3>3. QED
      BY <1>3, <1>5, <3>1, <3>2 DEF GotError
  <2>2. (IF GotError(i) THEN TaskOffset(i) ELSE OutputPos(i)) = TaskOffset(i)
    <3>1. ASSUME ~GotError(i) PROVE OutputPos(i) = TaskOffset(i)
      <4>1. TaskOffset(i) \in TaskChunk(i)
        BY <1>4, <1>5
      <4>2. file_data[TaskOffset(i)] # Junk
        BY <1>3, <3>1, <4>1 DEF GotError
      <4>3. ~(TaskOffset(i) < OutputPos(i))
        BY <1>12, <4>1, <4>2 DEF Refused
      <4>4. QED
        BY <1>4, <1>7, <4>3
    <3>2. QED
      BY <3>1
  <2>3. DFilled' = DFilled
    <3>1. \A j \in DOMAIN thread :
            (IF GotError(j) THEN TaskOffset(j) ELSE OutputPos(j))' =
              IF GotError(j) THEN TaskOffset(j) ELSE OutputPos(j)
      BY <1>5, <1>9, <2>1, <2>2
    <3>2. QED
      BY <1>2, <3>1 DEF DFilled
  <2>4. DOpen' = DOpen \ {i}
    BY <1>2, <1>9, <2>1 DEF DOpen
  <2>5. DData' = DData
    <3>1. DOMAIN file_data' = DOMAIN file_data
      BY <1>1 DEF Stored
    <3>2. ASSUME NEW j \in DOMAIN file_data
          PROVE  (IF file_data'[j] = Junk THEN Zero ELSE file_data'[j]) =
                   IF file_data[j] = Junk THEN Zero ELSE file_data[j]
      <4>1. /\ j \in Nat
            /\ file_data'[j] = IF j >= OutputPos(i) /\ j < OutputPos(i) + k
                                 THEN conn[i].stream[j - OutputPos(i) + 1] ELSE file_data[j]
        BY <1>1, <1>4, <3>2 DEF Stored
      <4>2. CASE j >= OutputPos(i) /\ j < OutputPos(i) + k
        <5>1. /\ j - OutputPos(i) + 1 \in 1 .. Len(conn[i].stream)
              /\ j \in TaskChunk(i) /\ ~(j < OutputPos(i))
          <6>1. k <= Len(conn[i].stream)
            BY <1>4
          <6>2. j - OutputPos(i) + 1 \in 1 .. Len(conn[i].stream)
            BY <1>1, <1>4, <1>7, <4>1, <4>2, <6>1, InStream
          <6>3. j \in TaskChunk(i) /\ ~(j < OutputPos(i))
            BY <1>1, <1>4, <1>5, <1>7, <4>1, <4>2
          <6>4. QED
            BY <6>2, <6>3
        <5>2. conn[i].stream[j - OutputPos(i) + 1] = Junk /\ file_data[j] = Zero
          BY <1>12, <5>1 DEF Refused
        <5>3. QED
          BY <4>1, <4>2, <5>2
      <4>3. CASE ~(j >= OutputPos(i) /\ j < OutputPos(i) + k)
        BY <4>1, <4>3
      <4>4. QED
        BY <4>2, <4>3
    <3>3. QED
      BY <3>1, <3>2 DEF DData
  <2>6. CASE i \in DOpen
    BY <1>3, <1>8, <2>3, <2>4, <2>5, <2>6, ToGiveUp
  <2>7. CASE i \notin DOpen
    <3>1. DOpen' = DOpen
      BY <2>4, <2>7
    <3>2. QED
      BY <1>3, <1>8, <2>3, <2>5, <3>1, ToStutter
  <2>8. QED
    BY <2>6, <2>7
<1>13. QED
  BY <1>6, <1>11, <1>12

\* The plan of ChunkPlan is a partition.
LEMMA PlanPartition ==
  ASSUME NEW total \in Nat \ {0}, NEW n \in 1 .. total,
         NEW c, c = [i \in 0 .. n - 1 |-> [lo |-> Offset(total, n, i),
                                           hi |-> Offset(total, n, i) + Size(total, n, i)]]
  PROVE  /\ c \in [0 .. n - 1 -> [lo : Nat, hi : Nat]]
         /\ Download!Partition(c, total)
<1>1. ASSUME NEW i \in 0 .. n - 1
      PROVE  /\ c[i] \in [lo : Nat, hi : Nat] /\ c[i].lo < c[i].hi /\ c[i].hi <= total
             /\ c[i].lo \in Nat /\ c[i].hi \in Nat
             /\ Chunk(total, n, i) = c[i].lo .. c[i].hi - 1
  <2>1. /\ Offset(total, n, i) \in Nat /\ Size(total, n, i) \in Nat \ {0}
        /\ Offset(total, n, i) + Size(total, n, i) <= total
    BY ChunkInFile
  <2>2. c[i] = [lo |-> Offset(total, n, i), hi |-> Offset(total, n, i) + Size(total, n, i)]
    OBVIOUS
  <2>3. QED
    BY <2>1, <2>2 DEF Chunk
<1>2. DOMAIN c = 0 .. n - 1 /\ c \in [0 .. n - 1 -> [lo : Nat, hi : Nat]]
  BY <1>1
<1>3. n \in Int \ {0} /\ Connections(total, n) = n
  BY DEF Connections
<1>4. ChunksDisjoint(total, n) /\ ChunksCover(total, n)
  BY <1>3, PlanDisjoint, PlanCovers
<1>5. ASSUME NEW b \in 0 .. total - 1
      PROVE  \E i \in 0 .. n - 1 : \A k \in 0 .. n - 1 : (c[k].lo <= b /\ b < c[k].hi) <=> k = i
  <2>1. PICK i \in 0 .. n - 1 : b \in Chunk(total, n, i)
    BY <1>4 DEF ChunksCover
  <2>2. \A k \in 0 .. n - 1 : (c[k].lo <= b /\ b < c[k].hi) <=> b \in Chunk(total, n, k)
    BY <1>1
  <2>3. \A k \in 0 .. n - 1 : b \in Chunk(total, n, k) <=> k = i
    BY <1>4, <2>1 DEF ChunksDisjoint
  <2>4. QED
    BY <2>2, <2>3
<1>6. \A i \in DOMAIN c : 0 <= c[i].lo /\ c[i].lo < c[i].hi /\ c[i].hi <= total
  BY <1>1, <1>2
<1>7. QED
  BY <1>2, <1>5, <1>6, Zenon DEF Download!Partition

\* The size is known: every chunk is open and empty.
LEMMA PlanDownload ==
  ASSUME IndInv, GetSize
  PROVE  [Download!DNext]_(Download!dvars)
<1> DEFINE n == num_connections'
           c == [i \in 0 .. n - 1 |-> [lo |-> Offset(file_size', n, i),
                                       hi |-> Offset(file_size', n, i) + Size(file_size', n, i)]]
<1>1. /\ main = "size" /\ main' = "create"
      /\ file_size' \in Nat \ {0} /\ n \in 1 .. file_size'
      /\ file_data' = [j \in 0 .. file_size' - 1 |-> Zero]
      /\ DOMAIN thread' = ThreadIds'
      /\ \A i \in ThreadIds' : /\ thread'[i].pc = "new" /\ thread'[i].remaining = TaskSize(i)'
  BY NewPlan
<1>2. DownloadPhase = "sizing" /\ DownloadPhase' = "fetching" /\ Planned'
  BY <1>1 DEF DownloadPhase, Planned
<1>3. ThreadIds' = 0 .. n - 1
  BY DEF ThreadIds
<1>4. DChunk' = c
  BY <1>1, <1>3 DEF DChunk, TaskOffset, TaskSize
<1>5. c \in [0 .. n - 1 -> [lo : Nat, hi : Nat]] /\ Download!Partition(c, file_size')
  <2> HIDE DEF n
  <2>1. PICK total, m : total = file_size' /\ m = n
    OBVIOUS
  <2>2. QED
    BY <1>1, <2>1, PlanPartition
<1>6. \A i \in 0 .. n - 1 :
        /\ TaskOffset(i)' = c[i].lo /\ TaskOffset(i)' \in Nat /\ TaskSize(i)' \in Nat
        /\ TaskOffset(i)' + TaskSize(i)' <= file_size'
  BY <1>1, ChunkInFile DEF TaskOffset, TaskSize
<1> HIDE DEF c
<1>7. ASSUME NEW i \in 0 .. n - 1 PROVE ~GotError(i)' /\ OutputPos(i)' = c[i].lo
  <2>1. TaskChunk(i)' = TaskOffset(i)' .. TaskOffset(i)' + TaskSize(i)' - 1
    BY DEF TaskChunk, Chunk, TaskOffset, TaskSize
  <2>2. \A j \in TaskChunk(i)' : file_data'[j] = Zero
    BY <1>1, <1>6, <2>1
  <2>3. ~GotError(i)'
    BY <2>2 DEF GotError, Zero, Junk
  <2>4. OutputPos(i)' = TaskOffset(i)' + TaskSize(i)' - TaskSize(i)'
    BY <1>1, <1>3 DEF OutputPos
  <2>5. QED
    BY <1>6, <2>3, <2>4
<1>8. DFilled' = [i \in DOMAIN DChunk' |-> DChunk'[i].lo]
  BY <1>1, <1>3, <1>4, <1>5, <1>7 DEF DFilled
<1>9. DOpen' = DOMAIN DChunk'
  BY <1>1, <1>3, <1>4, <1>5, <1>7 DEF DOpen
<1>10. DTotal' = file_size'
  BY <1>2 DEF DTotal
<1>11. DData' = [j \in 0 .. DTotal' - 1 |-> Zero]
  BY <1>1, <1>10 DEF DData, Zero, Junk
<1>12. QED
  BY <1>1, <1>2, <1>4, <1>5, <1>8, <1>9, <1>10, <1>11, ToPlan

\* main() starts its threads, ends, or stops on the way.
LEMMA MainDownload ==
  ASSUME IndInv, RefInv, MainStep
  PROVE  [Download!DNext]_(Download!dvars)
<1>1. CASE SendCheck
  <2>1. /\ main = "check" /\ main' = "size" /\ UNCHANGED <<file_data, thread>>
    BY <1>1 DEF SendCheck
  <2>2. thread = << >> /\ DOMAIN thread = {}
    BY <2>1 DEF RefInv, NoPlanYet
  <2>3. ~Planned /\ ~Planned' /\ DownloadPhase' = DownloadPhase
    BY <2>1, <2>2 DEF Planned, DownloadPhase
  <2>4. QED
    BY <2>1, <2>2, <2>3, ToStutter DEF DTotal, DChunk, DFilled, DOpen, DData
<1>2. CASE SendCheckFails \/ GetSizeFails
  <2>1. /\ main \in {"check", "size"} /\ main' \in {"failed", "sigfpe", "sigpipe"}
        /\ UNCHANGED <<file_data, thread>>
    BY <1>2 DEF SendCheckFails, GetSizeFails, ReadSize
  <2>2. thread = << >> /\ DOMAIN thread = {}
    BY <2>1 DEF RefInv, NoPlanYet
  <2>3. ~Planned /\ ~Planned' /\ DownloadPhase = "sizing" /\ DownloadPhase' = "aborted"
    BY <2>1, <2>2 DEF Planned, DownloadPhase
  <2>4. QED
    BY <2>1, <2>2, <2>3, ToEnd DEF DTotal, DChunk, DFilled, DOpen, DData
<1>3. CASE CreateThread
  <2>1. /\ main = "create" /\ main' \in {"create", "join"} /\ file_data' = file_data
        /\ Running /\ SamePlan
        /\ thread' = [thread EXCEPT ![created].pc = "connect"]
    BY <1>3 DEF CreateThread, Running, SamePlan
  <2>2. created \in ThreadIds /\ thread[created].pc = "new" /\ DOMAIN thread = ThreadIds
    BY <2>1 DEF IndInv, CreatedOK, TypeOK, ThreadIds
  <2>3. /\ DOMAIN thread' = DOMAIN thread
        /\ \A i \in DOMAIN thread : /\ thread'[i].remaining = thread[i].remaining
                                    /\ thread'[i].pc = "exited" <=> thread[i].pc = "exited"
    BY <2>1, <2>2 DEF IndInv, TypeOK, ThreadSet
  <2>4. Planned /\ Planned' /\ DownloadPhase' = DownloadPhase
    BY <2>1 DEF Planned, DownloadPhase
  <2>5. /\ UNCHANGED <<DTotal, DChunk, DFilled, DData>>
        /\ \A i : GotError(i)' <=> GotError(i)
    BY <2>1, <2>3, <2>4, SameShape
  <2>6. DOpen' = DOpen
    BY <2>3, <2>5 DEF DOpen
  <2>7. QED
    BY <2>4, <2>5, <2>6, ToStutter
<1>4. CASE CreateThreadFails \/ WriteOutput
  <2>1. /\ Running /\ SamePlan /\ UNCHANGED <<thread, file_data>>
        /\ \/ main' = "failed"
           \/ main' = "done" /\ \A i \in ThreadIds : thread[i].pc = "exited"
    BY <1>4 DEF CreateThreadFails, WriteOutput, Running, SamePlan
  <2>2. DOMAIN thread = ThreadIds /\ 0 \in ThreadIds
    BY <2>1 DEF IndInv, TypeOK, ThreadIds
  <2>3. thread # << >>
    BY <2>2
  <2>4. Planned /\ Planned' /\ DownloadPhase = "fetching"
    BY <2>1, <2>3 DEF Planned, DownloadPhase, Running
  <2>5. /\ UNCHANGED <<DTotal, DChunk, DFilled, DData>>
        /\ \A i : GotError(i)' <=> GotError(i)
    BY <2>1, <2>4, SameShape
  <2>6. DOpen' = DOpen
    BY <2>1, <2>5 DEF DOpen
  <2>7. CASE main' = "failed"
    <3>1. DownloadPhase' = "aborted"
      BY <2>7 DEF DownloadPhase
    <3>2. QED
      BY <2>4, <2>5, <2>6, <3>1, ToEnd
  <2>8. CASE main' = "done" /\ \A i \in ThreadIds : thread[i].pc = "exited"
    <3>1. DownloadPhase' = "written" /\ DOpen = {}
      BY <2>2, <2>8 DEF DownloadPhase, DOpen
    <3>2. QED
      BY <2>4, <2>5, <2>6, <3>1, ToEnd
  <2>9. QED
    BY <2>1, <2>7, <2>8
<1>5. QED
  BY <1>1, <1>2, <1>3, <1>4, PlanDownload DEF MainStep

\* Every step is one of the download, or none.
LEMMA StepDownload ==
  ASSUME IndInv, RefInv, [Next]_vars
  PROVE  [Download!DNext]_(Download!dvars)
<1>1. CASE ClientMain
  BY <1>1, MainDownload DEF ClientMain
<1>2. CASE ClientThreads
  <2>1. PICK i \in DOMAIN thread : ThreadStep(i)
    BY <1>2 DEF ClientThreads
  <2>2. Running
    BY <2>1 DEF ThreadStep, Connect, ConnectFails, SendGet, SendGetFails, RecvBytes, RecvEnd
  <2>3. i \in ThreadIds
    BY <2>1, <2>2 DEF IndInv, TypeOK
  <2>4. QED
    BY <2>1, <2>3, QuietStep, QuietDownload, ReadDownload DEF ThreadStep
<1>3. CASE (\E s \in Servers : ServerProcess(s)) \/ (\E c \in DOMAIN conn : Reset(c))
  BY <1>3, SameDownload DEF ServerProcess, Reset
<1>4. CASE UNCHANGED vars
  BY <1>4, SameDownload DEF vars
<1>5. QED
  BY <1>1, <1>2, <1>3, <1>4 DEF Next

(***************************************************************************)
(* The FTP download is a ChunkedDownload: for every plan, every reply of   *)
(* the servers and every fault each chunk is filled from its start with    *)
(* bytes of the file, or given up, and output.dat is written when every    *)
(* thread has ended (ftp/client.c:20-95 and 194-205).                      *)
(***************************************************************************)
THEOREM FtpDownloads == Spec => RefinesDownload
<1>1. IndInv /\ RefInv /\ [Next]_vars => [Download!DNext]_(Download!dvars)
  BY StepDownload
<1>2. QED
  BY DownloadInit, RefInvariance, <1>1, PTL DEF Spec, RefinesDownload, Download!DSpec

-----------------------------------------------------------------------------
\* ChunkedDownload with what has been proved about it.
Right == INSTANCE ChunkedDownloadProofs WITH
  phase <- DownloadPhase, total <- DTotal, chunk <- DChunk, filled <- DFilled,
  open <- DOpen, data <- DData

\* It is the same ChunkedDownload.
LEMMA SameStep == [Download!DNext]_(Download!dvars) => [Right!DNext]_(Right!dvars)
<1>1. Download!Plan => Right!Plan
  BY Zenon
  DEF Download!Plan, Right!Plan, Download!Partition, Right!Partition, DTotal, DChunk, DFilled,
      DOpen, DData
<1>2. ASSUME NEW i \in DOpen PROVE Download!GiveUp(i) => Right!GiveUp(i)
  BY Zenon DEF Download!GiveUp, Right!GiveUp, DTotal, DChunk, DFilled, DOpen, DData
<1>3. ASSUME NEW i \in DOpen, NEW p PROVE Download!Fill(i, p) => Right!Fill(i, p)
  BY Zenon DEF Download!Fill, Right!Fill, DTotal, DChunk, DFilled, DOpen, DData
<1>4. Download!Write => Right!Write
  BY Zenon DEF Download!Write, Right!Write, DTotal, DChunk, DFilled, DOpen, DData
<1>5. Download!Abort => Right!Abort
  BY Zenon DEF Download!Abort, Right!Abort, DTotal, DChunk, DFilled, DOpen, DData
<1>6. UNCHANGED Download!dvars => UNCHANGED Right!dvars
  BY Zenon DEF Download!dvars, Right!dvars, DTotal, DChunk, DFilled, DOpen, DData
<1>7. Download!DNext => Right!DNext
  BY <1>1, <1>2, <1>3, <1>4, <1>5, Zenon DEF Download!DNext, Right!DNext, DFilled, DOpen, DChunk
<1>8. QED
  BY <1>6, <1>7

(***************************************************************************)
(* What output.dat holds when threads have failed: in each chunk the right *)
(* bytes up to where its thread got and zeros after them; a chunk for      *)
(* which an error message was taken has that text and zeros, none of the   *)
(* file (ftp/client.c:194-205 reports threads that failed and writes the   *)
(* buffer all the same).                                                   *)
(***************************************************************************)
THEOREM OutputRight == Spec => []Download!RightUpToFilled
<1>1. Init => Right!DInit
  <2>1. Download!DInit => Right!DInit
    BY DEF Download!DInit, Right!DInit, DTotal, DChunk, DFilled, DOpen, DData
  <2>2. QED
    BY <2>1, DownloadInit
<1>2. IndInv /\ RefInv /\ [Next]_vars => [Right!DNext]_(Right!dvars)
  BY StepDownload, SameStep
<1>3. Right!DSpec => []Right!RightUpToFilled
  BY Right!DownloadRight
<1>4. Right!RightUpToFilled => Download!RightUpToFilled
  BY DEF Download!RightUpToFilled, Right!RightUpToFilled, DTotal, DChunk, DFilled, DOpen, DData
<1>5. QED
  BY RefInvariance, <1>1, <1>2, <1>3, <1>4, PTL DEF Spec, Right!DSpec
=============================================================================

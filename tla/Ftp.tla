---------------------------------- MODULE Ftp ----------------------------------
(***************************************************************************)
(* The client and the servers of ftp/ over TCP.                            *)
(***************************************************************************)
EXTENDS FtpClient, FiniteSets

vars == <<ftpServerVars, faults, ftpClientVars>>

Init == ServerInit /\ ClientInit

\* The network drops connection c: both ends see an error, and what had not
\* arrived is lost: the end of the stream, or the request.
Reset(c) ==
  /\ IF c = CheckConn THEN main = "size" ELSE thread[c].accepted
  /\ conn[c].client /\ conn[c].server
  /\ Fault("reset")
  /\ \E k \in 0 .. Len(conn[c].stream), request \in {"none", conn[c].request} :
       conn' = [conn EXCEPT ![c].client = FALSE, ![c].server = FALSE,
                            ![c].stream = SubSeq(@, 1, k), ![c].request = request]
  /\ UNCHANGED <<hosted, free, backlog, srv, ftpClientVars>>

ClientMain == MainStep

ClientThreads == \E i \in DOMAIN thread : ThreadStep(i)

ServerProcess(s) == ServerStep(s) /\ UNCHANGED ftpClientVars

Next ==
  \/ ClientMain
  \/ ClientThreads
  \/ \E s \in Servers : ServerProcess(s)
  \/ \E c \in DOMAIN conn : Reset(c)

\* The processes run, and a blocked call returns when it can.
Fairness ==
  /\ WF_vars(ClientMain)
  /\ WF_vars(ClientThreads)
  /\ \A s \in Servers : WF_vars(ServerProcess(s))

Spec == Init /\ [][Next]_vars

FairSpec == Spec /\ Fairness

-----------------------------------------------------------------------------
(***************************************************************************)
(* The variables keep their types; a backlog is never longer than allowed. *)
(***************************************************************************)
TypeOK ==
  /\ conn \in [DOMAIN conn -> ConnSet]
  /\ DOMAIN conn \subseteq {CheckConn} \cup ThreadIds
  /\ backlog \in [Servers -> Seq(DOMAIN conn)]
  /\ \A s \in Servers : Len(backlog[s]) <= Backlog
  /\ srv \in [Servers -> [pc : SrvStates, conn : DOMAIN conn,
                          offset : Int, remaining : Nat]]
  /\ \E u \in Setups : /\ hosted = u.hosted
                       /\ free \in [Servers -> 0 .. u.free]
  /\ faults \in 0 .. MaxFaults
  /\ main \in MainStates
  /\ file_size \in Nat
  /\ thread \in [DOMAIN thread -> ThreadSet]
  /\ Running => /\ num_connections \in 1 .. file_size
                /\ DOMAIN thread = ThreadIds
                /\ DOMAIN file_data = 0 .. file_size - 1

(***************************************************************************)
(* output.dat is the file that the first server has.                       *)
(***************************************************************************)
Complete ==
  /\ main = "done"
  /\ file_size = hosted[0]
  /\ \A j \in 0 .. file_size - 1 : file_data[j] = j

\* What is asked of server s: a chunk of every thread that goes to it, and
\* CHECK of the first one.
RequestsTo(s, connections) ==
  {i \in 0 .. connections - 1 : ServerOf(i, NumServers) = s} \cup
    (IF s = 0 THEN {CheckConn} ELSE {})

\* Every server has the file, and one more descriptor than it gets requests.
Prepared ==
  /\ hosted[0] \in Nat \ {0}
  /\ \A s \in Servers :
       /\ hosted[s] = hosted[0]
       /\ free[s] > Cardinality(RequestsTo(s, num_connections))

(***************************************************************************)
(* Without faults the client ends with a complete output.dat               *)
(* (ftp/README.md:24 "check that `example_file.txt` is identical to        *)
(* `output.dat`"), although the server takes one connection at a time, and *)
(* although every request costs it a descriptor (ftp/server.c:53).         *)
(***************************************************************************)
Delivered ==
  Prepared /\ num_connections > 0 /\ [](faults = 0) => <>Complete

(***************************************************************************)
(* Once it knows the size the client ends, although each server serves the *)
(* connections one after the other and may die in between.                 *)
(***************************************************************************)
ClientEnds == Running ~> (main \in {"done", "failed"})

(***************************************************************************)
(* What server and client have left to transfer agrees: the bytes a thread *)
(* misses are those in the stream and those the server still has to write, *)
(* in order, with none skipped and none twice.                             *)
(***************************************************************************)
StreamInStep ==
  Running =>
    \A i \in ThreadIds : \A s \in Servers :
      thread[i].pc = "recv" /\ srv[s].pc = "write" /\ srv[s].conn = i /\ conn[i].server =>
        /\ thread[i].remaining = Len(conn[i].stream) + srv[s].remaining
        /\ srv[s].offset = OutputPos(i) + Len(conn[i].stream)

(***************************************************************************)
(* No step of another thread touches the bytes of chunk i.                 *)
(***************************************************************************)
ChunkIsolation ==
  [][Running =>
       \A i \in ThreadIds :
         thread'[i] = thread[i] =>
           \A j \in TaskChunk(i) : file_data'[j] = file_data[j]]_vars

(***************************************************************************)
(* A server that has the file survives every request of the client, as     *)
(* long as no connection breaks (ftp/server.c:91-96 exits the process).    *)
(***************************************************************************)
ServersSurvive ==
  faults = 0 /\ hosted[0] # NoFile =>
    \A s \in Servers : hosted[s] = hosted[0] => Up(s)

-----------------------------------------------------------------------------
Planned == main \in {"create", "join", "done"} \/ (main = "failed" /\ thread # << >>)

DownloadPhase ==
  CASE main \in {"check", "size"}               -> "sizing"
    [] main \in {"create", "join"}              -> "fetching"
    [] main = "done"                            -> "written"
    [] main \in {"failed", "sigfpe", "sigpipe"} -> "aborted"

\* The thread took an error message for the first bytes of its chunk: as far as
\* the file is concerned it has given up.
GotError(i) == Planned /\ \E j \in TaskChunk(i) : file_data[j] = Junk

Download == INSTANCE ChunkedDownload WITH
  phase  <- DownloadPhase,
  total  <- IF Planned THEN file_size ELSE 0,
  chunk  <- [i \in DOMAIN thread |->
               [lo |-> TaskOffset(i), hi |-> TaskOffset(i) + TaskSize(i)]],
  filled <- [i \in DOMAIN thread |-> IF GotError(i) THEN TaskOffset(i) ELSE OutputPos(i)],
  open   <- {i \in DOMAIN thread : thread[i].pc # "exited" /\ ~GotError(i)},
  data   <- [j \in DOMAIN file_data |-> IF file_data[j] = Junk THEN Zero ELSE file_data[j]]

(***************************************************************************)
(* The FTP download is a ChunkedDownload, whatever connections fail and    *)
(* whatever file the servers have: a chunk holds bytes of the file from    *)
(* its start on, or it holds the text of an error message.                 *)
(***************************************************************************)
RefinesDownload == Download!DSpec
=============================================================================

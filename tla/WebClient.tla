------------------------------- MODULE WebClient -------------------------------
(***************************************************************************)
(* The three programs that fetch a page: https/client.c ("https") and its  *)
(* ancestors under archive/web-downloader, secure-web-downloader           *)
(* ("secure") and simple-web-downloader ("simple").  The first one reads   *)
(* whole buffers until the server closes the connection; the other two     *)
(* read byte by byte, up to the end of the header and then as many bytes   *)
(* as its Content-Length says.                                             *)
(*                                                                         *)
(* A byte of the response is represented by its position.  The header ends *)
(* with the four bytes \r\n\r\n; then come the body and, since the old     *)
(* programs send the zero behind their request along, perhaps what the     *)
(* server says to that.  The uninitialised temp[] of the old programs is   *)
(* taken to hold none of the strings that they look for.                   *)
(***************************************************************************)
EXTENDS Integers, Sequences

CONSTANTS
  Runs,        \* how a program may be called, see RunSet
  Responses,   \* what the server may answer, see ResponseSet
  Buffer,      \* BUFFER_SIZE
  MaxFaults    \* BOUND: failed calls and broken connections

Programs == {"https", "secure", "simple"}
NoPort   == -1

\* The parts of the URL, and whether -h is given; NoPort if there is none.
RunSet ==
  [program : Programs, scheme : {"none", "http", "https"}, slash : BOOLEAN,
   port : Int, head : BOOLEAN]

\* header: its length without the end; length: it has a Content-Length; body:
\* the length of the body; zeros: which bytes of it are zero; extra: how much
\* follows the body.
ResponseSet ==
  [header : Nat \ {0}, length : BOOLEAN, body : Nat, zeros : SUBSET Nat, extra : Nat]

ASSUME WebClientAssumption ==
  /\ Runs \subseteq RunSet
  /\ Responses \subseteq ResponseSet
  /\ Buffer \in Nat \ {0}
  /\ MaxFaults \in Nat

VARIABLES
  run, response,   \* chosen at the start
  pc,              \* where the program is
  status,          \* 0, or 1 for any other exit status; Running; None if killed
  arrived,         \* how many bytes of the response have arrived
  server,          \* its end of the connection: open, closed, reset
  pos,             \* how many bytes the program has read
  n,               \* how many bytes of the body it has counted
  out,             \* output.dat, NoOutput if it was not created
  screen,          \* what it has printed
  released,        \* validate_certificate has released the TLS context
  faults

vars == <<run, response, pc, status, arrived, server, pos, n, out, screen, released,
          faults>>

Running  == -1
None     == -2
NoOutput == <<0>>

Init ==
  /\ run \in Runs
  /\ response \in Responses
  /\ run.program = "https" => response.extra = 0
  /\ pc = "parse"
  /\ status = Running
  /\ arrived = 0
  /\ server = "open"
  /\ pos = 0
  /\ n = 0
  /\ out = NoOutput
  /\ screen = << >>
  /\ released = FALSE
  /\ faults = 0

chosen  == <<run, response>>
network == <<arrived, server>>
results == <<out, screen, released>>

Old == run.program # "https"

Fault ==
  /\ faults < MaxFaults
  /\ faults' = faults + 1

-----------------------------------------------------------------------------
(***************************************************************************)
(* The response.                                                           *)
(***************************************************************************)

EndOfHeader == response.header + 4
BodyLength  == IF run.head THEN 0 ELSE response.body
EndOfBody   == EndOfHeader + BodyLength
WireLength  == EndOfBody + response.extra

\* The server answers once it has the request, and a well-behaved one closes
\* the connection if it was asked to ("Connection: close").
Arrive ==
  /\ pc \in {"open", "loop", "header", "length", "file", "body"}
  /\ server = "open"
  /\ arrived < WireLength
  /\ arrived' = arrived + 1
  /\ UNCHANGED <<chosen, pc, status, server, pos, n, results, faults>>

Close ==
  /\ server = "open"
  /\ arrived = WireLength
  /\ server' = "closed"
  /\ UNCHANGED <<chosen, pc, status, arrived, pos, n, results, faults>>

\* The connection breaks: what the program has not read may be lost.
Reset ==
  /\ pc \in {"handshake", "request", "open", "loop", "header", "file", "body"}
  /\ server # "reset"
  /\ Fault
  /\ server' = "reset"
  /\ arrived' \in pos .. arrived
  /\ UNCHANGED <<chosen, pc, status, pos, n, results>>

\* A read returns 0 or an error.
AtEnd == pos = arrived /\ server # "open"

-----------------------------------------------------------------------------
(***************************************************************************)
(* Up to the request.                                                      *)
(***************************************************************************)

Goto(step) == pc' = step /\ UNCHANGED status

Exit(code) == pc' = "exited" /\ status' = code

Killed == pc' = "killed" /\ status' = None

\* Scheme and port; the old programs ignore the scheme for the port.
UsesTls == IF Old THEN run.scheme = "https" ELSE run.scheme # "http"

Port ==
  CASE run.port # NoPort -> run.port
    [] run.port = NoPort /\ (Old \/ ~UsesTls) -> 80
    [] OTHER -> 443

UrlAccepted ==
  \/ Old
  \/ /\ run.slash
     /\ Port > 0
     /\ ~(Port = 443 /\ ~UsesTls)
     /\ ~(Port = 80 /\ UsesTls)

ParseUrl ==
  /\ pc = "parse"
  /\ IF UrlAccepted THEN Goto("connect") ELSE Exit(1)
  /\ UNCHANGED <<chosen, network, pos, n, results, faults>>

\* secure-web-downloader takes the "http:" of a URL for the name of the host.
HostFound == ~(run.program = "secure" /\ run.scheme = "http")

Connect ==
  /\ pc = "connect"
  /\ HostFound
  /\ Goto(IF UsesTls THEN "handshake" ELSE "request")
  /\ UNCHANGED <<chosen, network, pos, n, results, faults>>

\* The name is not found, or socket() or connect() fails.
ConnectFails ==
  /\ pc = "connect"
  /\ IF HostFound THEN Fault ELSE UNCHANGED faults
  /\ Exit(1)
  /\ UNCHANGED <<chosen, network, pos, n, results>>

\* SSL_connect; only a server that speaks TLS on this port answers.
Handshake ==
  /\ pc = "handshake"
  /\ server = "open"
  /\ Port # 80
  /\ Goto(IF Old THEN "request" ELSE "validate")
  /\ UNCHANGED <<chosen, network, pos, n, results, faults>>

\* fetch_via_https returns EXIT_FAILURE, which main() does not take for a
\* failure: it compares with -1.
HandshakeFails ==
  /\ pc = "handshake"
  /\ Port = 80 \/ server # "open"
  /\ Exit(IF Old THEN 1 ELSE 0)
  /\ UNCHANGED <<chosen, network, pos, n, results, faults>>

\* create_ssl_context, or SSL_CTX_new and SSL_new of the old program, fails.
ContextFails ==
  /\ pc = "handshake"
  /\ Fault
  /\ Exit(1)
  /\ UNCHANGED <<chosen, network, pos, n, results>>

\* validate_certificate.  When the certificate is not valid it releases the
\* context, which the caller goes on to use, and returns EXIT_FAILURE, which
\* the caller does not take for a failure: it compares with -1.  Otherwise it
\* ends without a value, and what is in the register may be a -1.
Validate ==
  /\ pc = "validate"
  /\ \/ Goto("request") /\ released' \in BOOLEAN
     \/ Exit(0) /\ UNCHANGED released
  /\ UNCHANGED <<chosen, network, pos, n, out, screen, faults>>

\* The old programs do not test whether the request could be written, and read
\* the response before they open a file.
SendRequest ==
  /\ pc = "request"
  /\ server = "open"
  /\ Goto(IF Old THEN "header" ELSE "open")
  /\ UNCHANGED <<chosen, network, pos, n, results, faults>>

\* The write raises SIGPIPE or, the first time, goes nowhere.
SendRequestFails ==
  /\ pc = "request"
  /\ server # "open"
  /\ \/ Killed
     \/ IF Old THEN Goto("header") ELSE Exit(0)
  /\ UNCHANGED <<chosen, network, pos, n, results, faults>>

-----------------------------------------------------------------------------
(***************************************************************************)
(* https: fetch_via_https and fetch_via_http.                              *)
(***************************************************************************)

OpenOutput ==
  /\ pc = "open"
  /\ \/ Goto("loop") /\ out' = (IF run.head THEN NoOutput ELSE << >>) /\ UNCHANGED faults
     \/ ~run.head /\ Fault /\ Exit(0) /\ UNCHANGED out
  /\ UNCHANGED <<chosen, network, pos, n, screen, released>>

\* The positions of k bytes from the next one on.
NextBytes(k) == [i \in 1 .. k |-> pos + i]

\* The buffer is written as a whole, whatever part of it was read.
WholeBuffer(k) == [i \in 1 .. Buffer |-> IF i <= k THEN pos + i ELSE 0]

\* fwrite of the bytes received.
Written(k) == NextBytes(k)

\* The end of the header is looked for in this buffer only, and not at its
\* beginning.
HeaderEndsIn(k) == pos + 1 < EndOfHeader - 3 /\ EndOfHeader <= pos + k

\* The function ends without a value, so any exit status may follow.  A context
\* that was released before is used after its memory was freed.
Return ==
  \/ \E code \in {0, 1} : Exit(code)
  \/ released /\ Killed

ReadBuffer(k) ==
  /\ pc = "loop"
  /\ k <= Buffer
  /\ pos + k <= arrived
  /\ pos' = pos + k
  /\ IF run.head
       THEN /\ screen' = screen \o NextBytes(IF HeaderEndsIn(k) THEN EndOfHeader - pos ELSE k)
            /\ IF HeaderEndsIn(k) THEN Return ELSE Goto("loop")
            /\ UNCHANGED out
       ELSE /\ out' = out \o Written(k)
            /\ Goto("loop")
            /\ UNCHANGED screen
  /\ UNCHANGED <<chosen, network, n, released, faults>>

ReadEnds ==
  /\ pc = "loop"
  /\ AtEnd
  /\ Return
  /\ UNCHANGED <<chosen, network, pos, n, results, faults>>

-----------------------------------------------------------------------------
(***************************************************************************)
(* secure and simple: main().                                              *)
(***************************************************************************)

\* The end of the header is not seen before a byte of the body is there.
HeaderCompleteLate == pos + 1 > EndOfHeader

\* strstr finds the end of the header in what was read, the byte read included.
HeaderComplete == pos + 1 = EndOfHeader

\* A byte of the header, which -h prints and strstr looks at with all before.
ReadHeader ==
  /\ pc = "header"
  /\ pos < arrived
  /\ pos' = pos + 1
  /\ screen' = IF run.head THEN Append(screen, pos + 1) ELSE screen
  /\ IF ~HeaderComplete THEN Goto("header")
     ELSE IF run.head THEN Exit(0)
     ELSE Goto("length")
  /\ UNCHANGED <<chosen, network, n, out, released, faults>>

HeaderCut ==
  /\ pc = "header"
  /\ AtEnd
  /\ IF run.head THEN Exit(0) ELSE Goto("length")
  /\ UNCHANGED <<chosen, network, pos, n, results, faults>>

\* Whether Content-Length is in what has arrived of the header.
LengthFound ==
  IF pos = EndOfHeader THEN {response.length} ELSE {FALSE, response.length /\ pos > 0}

\* Without it the simple program goes on with a null pointer.
FindLength ==
  /\ pc = "length"
  /\ \E found \in LengthFound :
       \/ found /\ Goto("file")
       \/ ~found /\ run.program = "secure" /\ Exit(1)
       \/ ~found /\ run.program = "simple" /\ Killed
  /\ UNCHANGED <<chosen, network, pos, n, results, faults>>

\* The result of fopen is not tested.
CreateOutput ==
  /\ pc = "file"
  /\ \/ Goto("body") /\ out' = << >> /\ UNCHANGED faults
     \/ Fault /\ Killed /\ UNCHANGED out
  /\ UNCHANGED <<chosen, network, pos, n, screen, released>>

\* The test lets one byte more pass, or one byte less.
LengthReachedLate  == n > response.body
LengthReachedEarly == n + 1 >= response.body

\* n < length fails.  Content-Length is that of the body.
LengthReached == n >= response.body

\* A zero byte is printed as an empty string.
Printed(byte) == IF byte - EndOfHeader \in response.zeros THEN << >> ELSE <<byte>>

\* The byte is read before n is compared, so one byte too many is read.
ReadBody ==
  /\ pc = "body"
  /\ pos < arrived
  /\ pos' = pos + 1
  /\ IF LengthReached
       THEN Exit(0) /\ UNCHANGED <<out, n>>
       ELSE Goto("body") /\ out' = out \o Printed(pos + 1) /\ n' = n + 1
  /\ UNCHANGED <<chosen, network, screen, released, faults>>

BodyEnds ==
  /\ pc = "body"
  /\ AtEnd
  /\ Exit(0)
  /\ UNCHANGED <<chosen, network, pos, n, results, faults>>

-----------------------------------------------------------------------------
ProgramStep ==
  \/ ParseUrl
  \/ Connect
  \/ ConnectFails
  \/ Handshake
  \/ HandshakeFails
  \/ ContextFails
  \/ Validate
  \/ SendRequest
  \/ SendRequestFails
  \/ OpenOutput
  \/ \E k \in 1 .. Buffer : ReadBuffer(k)
  \/ ReadEnds
  \/ ReadHeader
  \/ HeaderCut
  \/ FindLength
  \/ CreateOutput
  \/ ReadBody
  \/ BodyEnds

Next == ProgramStep \/ Arrive \/ Close \/ Reset

\* The program runs, and the response arrives.  The server closes the
\* connection when it was asked to, which only the new program does.
Fairness ==
  /\ WF_vars(ProgramStep)
  /\ WF_vars(Arrive)
  /\ WF_vars(Close /\ ~Old)

Spec == Init /\ [][Next]_vars

FairSpec == Spec /\ Fairness

-----------------------------------------------------------------------------
Ended == pc \in {"exited", "killed"}

\* The state has its type.  The program has read no more than has arrived, and
\* counts no more bytes of the body than Content-Length says (myweb.c and
\* simple-web-downloader/src/client.c), whatever the server sends behind it.
TypeOK ==
  /\ run \in Runs
  /\ response \in Responses
  /\ pc \in {"parse", "connect", "handshake", "validate", "request", "open", "loop",
             "header", "length", "file", "body", "exited", "killed"}
  /\ status \in {Running, None, 0, 1}
  /\ status = Running <=> ~Ended
  /\ server \in {"open", "closed", "reset"}
  /\ pos \in 0 .. arrived
  /\ arrived \in 0 .. WireLength
  /\ n \in 0 .. response.body
  /\ released \in BOOLEAN
  /\ faults \in 0 .. MaxFaults

\* The bytes of S, each one once and in order.
Lists(bytes, S) ==
  /\ {bytes[i] : i \in 1 .. Len(bytes)} = S
  /\ \A i, j \in 1 .. Len(bytes) : i < j => bytes[i] < bytes[j]

\* What output.dat should hold: the whole response, or the body as text.
Page ==
  IF Old THEN {byte \in EndOfHeader + 1 .. EndOfBody : byte - EndOfHeader \notin response.zeros}
         ELSE 1 .. WireLength

\* What -h should print.
Header == 1 .. EndOfHeader

\* The bytes are the first ones of S.
ListsBeginning(bytes, S) ==
  \E last \in 0 .. WireLength : Lists(bytes, {byte \in S : byte <= last})

\* Whatever the sizes of the reads are and wherever the connection breaks,
\* what was written to output.dat and what was printed is a beginning of the
\* right result: no byte twice, none of an earlier read, none that follows the
\* body (https/client.c:198-212 and 242-257, myweb.c:226-238).
OutputIsPrefix ==
  /\ out = NoOutput \/ ListsBeginning(out, Page)
  /\ ListsBeginning(screen, Header)

\* A program that got to the response and met no failure leaves the whole of it
\* in output.dat, or no file and the whole header on the screen if called with
\* -h: even if the end of the header is split between two reads and so missed
\* (https/client.c:202).  The context that was released twice may kill the
\* program at its end (https/client.c:141 and 217); output.dat is as complete
\* then, but of the screen nothing is claimed, for what was printed may still be
\* in a buffer.  The old programs' whole output is that without the zero bytes,
\* which they drop (myweb.c:229), and is claimed with a Content-Length only.
CompleteAtEnd ==
  Ended /\ faults = 0 /\ pos > 0 =>
    IF run.head
      THEN out = NoOutput /\ (pc = "exited" => Lists(screen, Header))
      ELSE response.length \/ ~Old => Lists(out, Page)

\* Every program ends, but the GET of the old ones: they want one byte more than
\* Content-Length says before they look at it, so they need the server to send
\* one or to close the connection, which they do not ask for (myweb.c:227 and
\* 233).
Ends ==
  (Old /\ ~run.head /\ response.extra = 0 => <>(server # "open")) => <>Ended
=============================================================================

---------------------------- MODULE WebClientProofs ----------------------------
(***************************************************************************)
(* Safety of the three web clients, for every response, every size of the  *)
(* buffer and any number of faults.                                        *)
(***************************************************************************)
EXTENDS WebClient, SequenceTheorems, TLAPS

Preparing == {"parse", "connect", "handshake", "validate", "request", "open"}
Reading   == {"loop", "header", "length", "file", "body"}

\* A response that is not cut short has arrived when the server closes.
WireOK ==
  /\ run.program = "https" => response.extra = 0
  /\ faults = 0 => server # "reset"
  /\ server = "closed" => arrived = WireLength

\* Nothing is read before the request; only the new program has the state loop,
\* only the old ones have the others.
PhaseOK ==
  /\ pc \in Preparing => pos = 0 /\ n = 0 /\ out = NoOutput
  /\ pc \in {"header", "length", "file"} => n = 0 /\ out = NoOutput
  /\ pc \in {"validate", "open", "loop"} => ~Old
  /\ pc \in {"header", "length", "file", "body"} => Old

\* The bytes of the body are counted from the end of the header, unless the
\* header was cut short, and then no byte follows.
CountOK ==
  /\ pc = "header" => pos < EndOfHeader
  /\ pc \in {"length", "file", "body"} =>
       /\ ~run.head
       /\ \/ pos = EndOfHeader + n
          \/ n = 0 /\ pos < EndOfHeader /\ pos = arrived /\ server # "open"

\* What has been printed.
ScreenOK ==
  /\ screen \in Seq(Nat)
  /\ IF run.head THEN out = NoOutput /\ Lists(screen, 1 .. pos) /\ pos <= EndOfHeader
                 ELSE screen = << >>

\* What has been written.
OutOK ==
  /\ out \in Seq(Nat)
  /\ ~run.head /\ ~Old =>
       (out = NoOutput /\ pc # "loop") \/ Lists(out, 1 .. pos)
  /\ ~run.head /\ Old =>
       (out = NoOutput /\ pc # "body") \/ Lists(out, {b \in Page : b <= EndOfHeader + n})

IndInv ==
  /\ TypeOK
  /\ WireOK
  /\ PhaseOK
  /\ CountOK
  /\ ScreenOK
  /\ OutOK
  /\ CompleteAtEnd
-----------------------------------------------------------------------------
\* The lengths are numbers, and the response is as long as its parts.
LEMMA Sizes ==
  ASSUME run \in Runs, response \in Responses
  PROVE  /\ run.program \in Programs /\ run.head \in BOOLEAN
         /\ response.body \in Nat /\ response.extra \in Nat /\ response.length \in BOOLEAN
         /\ EndOfHeader \in Nat /\ EndOfHeader > 0
         /\ EndOfBody = EndOfHeader + (IF run.head THEN 0 ELSE response.body)
         /\ WireLength = EndOfBody + response.extra
         /\ EndOfBody \in Nat /\ WireLength \in Nat
<1>1. run \in RunSet /\ response \in ResponseSet
  BY WebClientAssumption
<1>2. /\ response.header \in Nat /\ response.body \in Nat /\ response.extra \in Nat
      /\ response.length \in BOOLEAN
      /\ run.program \in Programs /\ run.head \in BOOLEAN
  BY <1>1 DEF RunSet, ResponseSet
<1>3. QED
  BY <1>2 DEF EndOfHeader, EndOfBody, BodyLength, WireLength

\* What the step leaves alone of the choice made at the start.
LEMMA SameResponse ==
  ASSUME UNCHANGED chosen
  PROVE  /\ run' = run /\ response' = response
         /\ EndOfHeader' = EndOfHeader /\ EndOfBody' = EndOfBody
         /\ WireLength' = WireLength /\ Page' = Page /\ Header' = Header
         /\ Old' = Old
BY DEF chosen, EndOfHeader, EndOfBody, BodyLength, WireLength, Page, Header, Old

\* Nothing lists no byte.
LEMMA ListsNothing == Lists(<< >>, {})
BY DEF Lists

\* Bytes that follow the ones listed so far are listed behind them.
LEMMA ListsConcat ==
  ASSUME NEW p \in Seq(Nat), NEW q \in Seq(Nat), NEW S, NEW T,
         Lists(p, S), Lists(q, T), \A x \in S, y \in T : x < y
  PROVE  p \o q \in Seq(Nat) /\ Lists(p \o q, S \cup T)
<1> DEFINE r == p \o q
<1>1. /\ r \in Seq(Nat) /\ Len(r) = Len(p) + Len(q)
      /\ \A i \in 1 .. Len(p) : r[i] = p[i]
      /\ \A i \in 1 .. Len(q) : r[i + Len(p)] = q[i]
  <2>1. /\ r \in Seq(Nat) /\ Len(r) = Len(p) + Len(q)
        /\ \A i \in 1 .. Len(p) + Len(q) :
             r[i] = IF i <= Len(p) THEN p[i] ELSE q[i - Len(p)]
    BY ConcatProperties, Zenon
  <2>2. Len(p) \in Nat /\ Len(q) \in Nat
    OBVIOUS
  <2> HIDE DEF r
  <2>3. ASSUME NEW i \in 1 .. Len(p) PROVE r[i] = p[i]
    <3>1. i \in 1 .. Len(p) + Len(q) /\ i <= Len(p)
      BY <2>2
    <3>2. QED
      BY <2>1, <3>1
  <2>4. ASSUME NEW i \in 1 .. Len(q) PROVE r[i + Len(p)] = q[i]
    <3>1. /\ i + Len(p) \in 1 .. Len(p) + Len(q)
          /\ ~(i + Len(p) <= Len(p)) /\ (i + Len(p)) - Len(p) = i
      BY <2>2
    <3>2. r[i + Len(p)] = IF i + Len(p) <= Len(p) THEN p[i + Len(p)] ELSE q[(i + Len(p)) - Len(p)]
      BY <2>1, <3>1, Zenon
    <3>3. QED
      BY <3>1, <3>2, Zenon
  <2>5. QED
    BY <2>1, <2>3, <2>4, Zenon
<1> HIDE DEF r
<1>2. Len(p) \in Nat /\ Len(q) \in Nat
  OBVIOUS
<1>3. \A i \in 1 .. Len(r) : i \in 1 .. Len(p) \/ (i - Len(p) \in 1 .. Len(q) /\ i > Len(p))
  BY <1>1, <1>2
<1>4. /\ \A i \in 1 .. Len(p) : i \in 1 .. Len(r)
      /\ \A i \in 1 .. Len(q) : i + Len(p) \in 1 .. Len(r)
  BY <1>1, <1>2
<1>5. \A i \in 1 .. Len(r) : i > Len(p) => r[i] = q[i - Len(p)]
  BY <1>1, <1>2, <1>3, SMTT(30)
<1>6. {r[i] : i \in 1 .. Len(r)} = S \cup T
  <2>1. ASSUME NEW i \in 1 .. Len(r) PROVE r[i] \in S \cup T
    BY <1>1, <1>3, <1>5 DEF Lists
  <2>2. ASSUME NEW x \in S PROVE \E i \in 1 .. Len(r) : r[i] = x
    BY <1>1, <1>4 DEF Lists
  <2>3. ASSUME NEW x \in T PROVE \E i \in 1 .. Len(r) : r[i] = x
    BY <1>1, <1>4 DEF Lists
  <2>4. QED
    BY <2>1, <2>2, <2>3
<1>7. ASSUME NEW i \in 1 .. Len(r), NEW j \in 1 .. Len(r), i < j
      PROVE  r[i] < r[j]
  <2>1. CASE j <= Len(p)
    <3>1. i \in 1 .. Len(p) /\ j \in 1 .. Len(p)
      BY <1>2, <1>7, <2>1
    <3>2. QED
      BY <1>1, <1>7, <3>1 DEF Lists
  <2>2. CASE i > Len(p)
    <3>1. i - Len(p) \in 1 .. Len(q) /\ j - Len(p) \in 1 .. Len(q) /\ i - Len(p) < j - Len(p)
          /\ j > Len(p)
      BY <1>1, <1>2, <1>7, <2>2
    <3>2. q[i - Len(p)] < q[j - Len(p)]
      BY <3>1 DEF Lists
    <3>3. QED
      BY <1>5, <2>2, <3>1, <3>2
  <2>3. CASE i <= Len(p) /\ j > Len(p)
    <3>1. i \in 1 .. Len(p) /\ j - Len(p) \in 1 .. Len(q)
      BY <1>1, <1>2, <2>3
    <3>2. p[i] \in S /\ q[j - Len(p)] \in T
      BY <3>1 DEF Lists
    <3>3. r[i] = p[i] /\ r[j] = q[j - Len(p)]
      BY <1>1, <1>5, <2>3, <3>1
    <3>4. QED
      BY <3>2, <3>3
  <2>4. QED
    BY <1>2, <1>7, <2>1, <2>2, <2>3
<1>8. QED
  BY <1>1, <1>6, <1>7 DEF Lists, r

\* A buffer holds the next bytes.
LEMMA NextBytesList ==
  ASSUME pos \in Nat, NEW k \in Nat
  PROVE  NextBytes(k) \in Seq(Nat) /\ Lists(NextBytes(k), pos + 1 .. pos + k)
<1>1. NextBytes(k) \in Seq(Nat) /\ Len(NextBytes(k)) = k
      /\ \A i \in 1 .. k : NextBytes(k)[i] = pos + i
  BY DEF NextBytes
<1>2. {NextBytes(k)[i] : i \in 1 .. k} = pos + 1 .. pos + k
  <2>1. \A x \in pos + 1 .. pos + k : x - pos \in 1 .. k /\ pos + (x - pos) = x
    OBVIOUS
  <2>2. \A i \in 1 .. k : pos + i \in pos + 1 .. pos + k
    OBVIOUS
  <2>3. QED
    BY <1>1, <2>1, <2>2
<1>3. QED
  BY <1>1, <1>2 DEF Lists

\* The bytes read so far, and the next ones.
LEMMA ReadOn ==
  ASSUME pos \in Nat, NEW k \in Nat, NEW p \in Seq(Nat), Lists(p, 1 .. pos)
  PROVE  p \o NextBytes(k) \in Seq(Nat) /\ Lists(p \o NextBytes(k), 1 .. pos + k)
<1>1. NextBytes(k) \in Seq(Nat) /\ Lists(NextBytes(k), pos + 1 .. pos + k)
  BY NextBytesList
<1>2. \A x \in 1 .. pos, y \in pos + 1 .. pos + k : x < y
  OBVIOUS
<1>3. /\ p \o NextBytes(k) \in Seq(Nat)
      /\ Lists(p \o NextBytes(k), (1 .. pos) \cup (pos + 1 .. pos + k))
  BY <1>1, <1>2, ListsConcat
<1>4. (1 .. pos) \cup (pos + 1 .. pos + k) = 1 .. pos + k
  OBVIOUS
<1>5. QED
  BY <1>3, <1>4
-----------------------------------------------------------------------------
\* What TypeOK says, as plain facts about numbers.
LEMMA StateFacts ==
  ASSUME TypeOK
  PROVE  /\ pos \in Nat /\ arrived \in Nat /\ n \in Nat /\ faults \in Nat
         /\ pos <= arrived /\ arrived <= WireLength /\ n <= response.body
         /\ EndOfHeader \in Nat /\ EndOfHeader > 0
         /\ EndOfBody \in Nat /\ WireLength \in Nat
         /\ response.body \in Nat /\ response.extra \in Nat
         /\ EndOfBody = EndOfHeader + (IF run.head THEN 0 ELSE response.body)
         /\ WireLength = EndOfBody + response.extra
         /\ faults <= MaxFaults /\ MaxFaults \in Nat
<1>1. run \in Runs /\ response \in Responses
  BY DEF TypeOK
<1>2. /\ EndOfHeader \in Nat /\ EndOfHeader > 0 /\ EndOfBody \in Nat /\ WireLength \in Nat
      /\ response.body \in Nat /\ response.extra \in Nat
      /\ EndOfBody = EndOfHeader + (IF run.head THEN 0 ELSE response.body)
      /\ WireLength = EndOfBody + response.extra
  BY <1>1, Sizes
<1>3. /\ pos \in 0 .. arrived /\ arrived \in 0 .. WireLength /\ n \in 0 .. response.body
      /\ faults \in 0 .. MaxFaults
  BY DEF TypeOK
<1>4. QED
  BY <1>2, <1>3, WebClientAssumption

\* Nothing is read and nothing is written at the start.
LEMMA InitInd == Init => IndInv
<1> SUFFICES ASSUME Init PROVE IndInv
  OBVIOUS
<1>1. run \in Runs /\ response \in Responses
  BY DEF Init
<1>2. EndOfHeader \in Nat /\ EndOfHeader > 0 /\ WireLength \in Nat /\ response.body \in Nat
  BY <1>1, Sizes
<1>3. TypeOK
  <2>1. /\ pos \in 0 .. arrived /\ arrived \in 0 .. WireLength /\ n \in 0 .. response.body
        /\ faults \in 0 .. MaxFaults
    BY <1>2, WebClientAssumption DEF Init
  <2>2. /\ pc \in {"parse", "connect", "handshake", "validate", "request", "open", "loop",
                   "header", "length", "file", "body", "exited", "killed"}
        /\ status \in {Running, None, 0, 1} /\ (status = Running <=> ~Ended)
        /\ server \in {"open", "closed", "reset"} /\ released \in BOOLEAN
    BY DEF Init, Ended
  <2>3. QED
    BY <1>1, <2>1, <2>2 DEF TypeOK
<1>4. WireOK /\ PhaseOK /\ CountOK
  BY <1>2 DEF Init, WireOK, PhaseOK, CountOK, Preparing
<1>5. 1 .. pos = {}
  BY DEF Init
<1>6. ScreenOK
  BY <1>2, <1>5, ListsNothing DEF Init, ScreenOK
<1>7. OutOK
  BY DEF Init, OutOK, NoOutput
<1>8. CompleteAtEnd
  BY DEF Init, CompleteAtEnd, Ended
<1>9. QED
  BY <1>3, <1>4, <1>6, <1>7, <1>8 DEF IndInv

\* A step of the program before it reads.
PreparingStep ==
  /\ UNCHANGED <<chosen, network, pos, n, out, screen>>
  /\ released' \in BOOLEAN
  /\ faults' \in faults .. MaxFaults
  /\ \/ pc' \in {"connect", "handshake", "request"} /\ status' = status
     \/ pc' \in {"validate", "open"} /\ ~Old /\ status' = status
     \/ pc' = "header" /\ Old /\ status' = status
     \/ pc' = "exited" /\ status' \in {0, 1}
     \/ pc' = "killed" /\ status' = None

\* A step before the first byte of the response is read.
LEMMA PreparingInd ==
  ASSUME IndInv, pc \in Preparing, PreparingStep
  PROVE  IndInv'
<1>1. /\ run' = run /\ response' = response
      /\ EndOfHeader' = EndOfHeader /\ EndOfBody' = EndOfBody
      /\ WireLength' = WireLength /\ Page' = Page /\ Header' = Header /\ Old' = Old
  BY SameResponse DEF PreparingStep
<1>2. /\ arrived' = arrived /\ server' = server /\ pos' = pos /\ n' = n
      /\ out' = out /\ screen' = screen
  BY DEF PreparingStep, network
<1>3. /\ pos \in Nat /\ faults \in Nat /\ EndOfHeader \in Nat /\ EndOfHeader > 0
      /\ MaxFaults \in Nat
  BY StateFacts DEF IndInv
<1>4. pos = 0 /\ n = 0 /\ out = NoOutput
  BY DEF IndInv, PhaseOK
<1>5. TypeOK'
  <2>1. faults' \in 0 .. MaxFaults
    BY <1>3 DEF PreparingStep
  <2>2. status = Running
    BY DEF IndInv, TypeOK, Preparing, Ended
  <2>3. /\ pc' \in {"connect", "handshake", "request", "validate", "open", "header",
                    "exited", "killed"}
        /\ status' \in {Running, None, 0, 1}
        /\ status' = Running <=> pc' \notin {"exited", "killed"}
    BY <2>2 DEF PreparingStep, Running, None
  <2>4. released' \in BOOLEAN
    BY DEF PreparingStep
  <2>5. QED
    BY <1>1, <1>2, <2>1, <2>3, <2>4 DEF IndInv, TypeOK, Ended
<1>6. WireOK'
  <2>1. faults' = 0 => faults = 0
    BY <1>3 DEF PreparingStep
  <2>2. QED
    BY <1>1, <1>2, <2>1 DEF IndInv, WireOK
<1>7. PhaseOK' /\ CountOK'
  <2>1. pc' \notin {"loop", "length", "file", "body"}
    BY DEF PreparingStep
  <2>2. pc' \in {"validate", "open"} => ~Old
    BY DEF PreparingStep
  <2>3. pc' = "header" => Old
    BY DEF PreparingStep
  <2>4. QED
    BY <1>1, <1>2, <1>3, <1>4, <2>1, <2>2, <2>3 DEF PhaseOK, CountOK
<1>8. ScreenOK'
  BY <1>1, <1>2 DEF IndInv, ScreenOK
<1>9. OutOK'
  <2>1. pc' \notin {"loop", "body"}
    BY DEF PreparingStep
  <2>2. QED
    BY <1>1, <1>2, <1>4, <2>1 DEF IndInv, OutOK
<1>10. CompleteAtEnd'
  BY <1>2, <1>3, <1>4 DEF CompleteAtEnd
<1>11. QED
  BY <1>5, <1>6, <1>7, <1>8, <1>9, <1>10 DEF IndInv

\* Those steps, one by one: URL, connection, handshake, certificate, request.
LEMMA PrepareInd ==
  ASSUME IndInv,
         \/ ParseUrl \/ Connect \/ ConnectFails \/ Handshake \/ HandshakeFails
         \/ ContextFails \/ Validate \/ SendRequest \/ SendRequestFails
  PROVE  IndInv'
<1>1. /\ faults \in Nat /\ faults <= MaxFaults /\ MaxFaults \in Nat
      /\ released \in BOOLEAN
  BY StateFacts DEF IndInv, TypeOK
<1>2. pc = "validate" => ~Old
  BY DEF IndInv, PhaseOK
<1>3. Fault => faults' \in faults .. MaxFaults
  BY <1>1 DEF Fault
<1>4. faults' = faults => faults' \in faults .. MaxFaults
  BY <1>1
<1>5. pc \in Preparing /\ PreparingStep
  <2>1. CASE ParseUrl
    BY <1>1, <1>4, <2>1 DEF ParseUrl, PreparingStep, Preparing, Goto, Exit, results
  <2>2. CASE Connect
    BY <1>1, <1>4, <2>2 DEF Connect, PreparingStep, Preparing, Goto, Exit, results
  <2>3. CASE ConnectFails
    BY <1>1, <1>3, <1>4, <2>3 DEF ConnectFails, PreparingStep, Preparing, Goto, Exit, results
  <2>4. CASE Handshake
    BY <1>1, <1>4, <2>4 DEF Handshake, PreparingStep, Preparing, Goto, Exit, results
  <2>5. CASE HandshakeFails
    BY <1>1, <1>4, <2>5 DEF HandshakeFails, PreparingStep, Preparing, Goto, Exit, results
  <2>6. CASE ContextFails
    BY <1>1, <1>3, <2>6 DEF ContextFails, PreparingStep, Preparing, Goto, Exit, results
  <2>7. CASE Validate
    BY <1>1, <1>2, <1>4, <2>7 DEF Validate, PreparingStep, Preparing, Goto, Exit, results
  <2>8. CASE SendRequest
    BY <1>1, <1>4, <2>8 DEF SendRequest, PreparingStep, Preparing, Goto, Exit, results
  <2>9. CASE SendRequestFails
    BY <1>1, <1>4, <2>9 DEF SendRequestFails, PreparingStep, Preparing, Goto, Exit, Killed, results
  <2>10. QED
    BY <2>1, <2>2, <2>3, <2>4, <2>5, <2>6, <2>7, <2>8, <2>9
<1>6. QED
  BY <1>5, PreparingInd
-----------------------------------------------------------------------------
\* A step of the network: the program has read and written nothing.
NetworkStep ==
  /\ UNCHANGED <<chosen, pc, status, pos, n, out, screen, released>>
  /\ faults' \in faults .. MaxFaults
  /\ server' \in {"open", "closed", "reset"}
  /\ arrived' \in pos .. WireLength
  /\ server' = "reset" => faults' # 0
  /\ server' = "closed" => arrived' = WireLength
  /\ server # "open" => server' # "open" /\ arrived' <= arrived

\* A step of the other end, which lets bytes arrive or breaks the connection.
LEMMA NetworkStepInd ==
  ASSUME IndInv, NetworkStep
  PROVE  IndInv'
<1>1. /\ run' = run /\ response' = response
      /\ EndOfHeader' = EndOfHeader /\ EndOfBody' = EndOfBody
      /\ WireLength' = WireLength /\ Page' = Page /\ Header' = Header /\ Old' = Old
  BY SameResponse DEF NetworkStep
<1>2. /\ pc' = pc /\ status' = status /\ pos' = pos /\ n' = n /\ out' = out
      /\ screen' = screen /\ released' = released
  BY DEF NetworkStep
<1>3. /\ pos \in Nat /\ arrived \in Nat /\ faults \in Nat /\ MaxFaults \in Nat
      /\ WireLength \in Nat /\ pos <= arrived
  BY StateFacts DEF IndInv
<1>4. TypeOK'
  <2>1. /\ pos' \in 0 .. arrived' /\ arrived' \in 0 .. WireLength' /\ faults' \in 0 .. MaxFaults
    BY <1>1, <1>2, <1>3 DEF NetworkStep
  <2>2. n' \in 0 .. response.body'
    BY <1>1, <1>2 DEF IndInv, TypeOK
  <2>3. server' \in {"open", "closed", "reset"}
    BY DEF NetworkStep
  <2>4. Ended' = Ended
    BY <1>2 DEF Ended
  <2>5. QED
    BY <1>1, <1>2, <2>1, <2>2, <2>3, <2>4 DEF IndInv, TypeOK
<1>5. WireOK'
  BY <1>1 DEF IndInv, WireOK, NetworkStep
<1>6. PhaseOK'
  BY <1>1, <1>2 DEF IndInv, PhaseOK
<1>7. CountOK'
  <2>1. pos = arrived /\ server # "open" => pos = arrived' /\ server' # "open"
    BY <1>3 DEF NetworkStep
  <2>2. QED
    BY <1>1, <1>2, <2>1 DEF IndInv, CountOK
<1>8. ScreenOK' /\ OutOK'
  BY <1>1, <1>2 DEF IndInv, ScreenOK, OutOK
<1>9. CompleteAtEnd'
  <2>1. faults' = 0 => faults = 0
    BY <1>3 DEF NetworkStep
  <2>2. QED
    BY <1>1, <1>2, <2>1 DEF IndInv, CompleteAtEnd, Ended
<1>10. QED
  BY <1>4, <1>5, <1>6, <1>7, <1>8, <1>9 DEF IndInv

\* Those steps, one by one.
LEMMA NetworkInd ==
  ASSUME IndInv, Arrive \/ Close \/ Reset
  PROVE  IndInv'
<1>1. /\ pos \in Nat /\ arrived \in Nat /\ faults \in Nat /\ MaxFaults \in Nat
      /\ WireLength \in Nat /\ pos <= arrived /\ arrived <= WireLength /\ faults <= MaxFaults
      /\ server \in {"open", "closed", "reset"}
  BY StateFacts DEF IndInv, TypeOK
<1>2. Arrive => NetworkStep
  BY <1>1 DEF Arrive, NetworkStep, results
<1>3. Close => NetworkStep
  BY <1>1 DEF Close, NetworkStep, results
<1>4. ASSUME Reset PROVE NetworkStep
  <2>1. arrived' \in pos .. arrived /\ server' = "reset" /\ faults' = faults + 1
        /\ faults < MaxFaults
    BY <1>4 DEF Reset, Fault
  <2>2. UNCHANGED <<chosen, pc, status, pos, n, out, screen, released>>
    BY <1>4 DEF Reset, results
  <2>3. QED
    BY <1>1, <2>1, <2>2 DEF NetworkStep
<1>5. NetworkStep
  BY <1>2, <1>3, <1>4
<1>6. QED
  BY <1>5, NetworkStepInd
-----------------------------------------------------------------------------
\* A step of the program that leaves the network alone.
ReadingStep ==
  /\ UNCHANGED <<chosen, network, released>>
  /\ faults' \in faults .. MaxFaults
  /\ \/ pc' \in Reading /\ status' = status
     \/ pc' = "exited" /\ status' \in {0, 1}
     \/ pc' = "killed" /\ status' = None

\* What it leaves alone, and that the state keeps its type.
LEMMA ReadingSame ==
  ASSUME IndInv, ReadingStep
  PROVE  /\ run' = run /\ response' = response
         /\ EndOfHeader' = EndOfHeader /\ EndOfBody' = EndOfBody
         /\ WireLength' = WireLength /\ Page' = Page /\ Header' = Header /\ Old' = Old
         /\ arrived' = arrived /\ server' = server
         /\ (faults' = 0 => faults = 0)
         /\ WireOK'
<1>1. /\ run' = run /\ response' = response
      /\ EndOfHeader' = EndOfHeader /\ EndOfBody' = EndOfBody
      /\ WireLength' = WireLength /\ Page' = Page /\ Header' = Header /\ Old' = Old
  BY SameResponse DEF ReadingStep
<1>2. arrived' = arrived /\ server' = server
  BY DEF ReadingStep, network
<1>3. faults' = 0 => faults = 0
  <2>1. faults \in Nat /\ MaxFaults \in Nat
    BY StateFacts DEF IndInv
  <2>2. QED
    BY <2>1 DEF ReadingStep
<1>4. WireOK'
  BY <1>1, <1>2, <1>3 DEF IndInv, WireOK
<1>5. QED
  BY <1>1, <1>2, <1>3, <1>4

\* A step that reads on keeps the types of the state.
LEMMA ReadingType ==
  ASSUME IndInv, ReadingStep, ~Ended, pos' \in 0 .. arrived, n' \in 0 .. response.body
  PROVE  TypeOK'
<1>1. /\ run' = run /\ response' = response /\ WireLength' = WireLength
      /\ arrived' = arrived /\ server' = server
  BY ReadingSame
<1>2. faults' \in 0 .. MaxFaults /\ released' \in BOOLEAN
  <2>1. faults \in Nat /\ MaxFaults \in Nat /\ released \in BOOLEAN
    BY StateFacts DEF IndInv, TypeOK
  <2>2. QED
    BY <2>1 DEF ReadingStep
<1>3. status = Running
  BY DEF IndInv, TypeOK
<1>4. /\ pc' \in Reading \cup {"exited", "killed"}
      /\ status' \in {Running, None, 0, 1}
      /\ status' = Running <=> pc' \notin {"exited", "killed"}
  BY <1>3 DEF ReadingStep, Running, None, Reading
<1>5. QED
  BY <1>1, <1>2, <1>4 DEF IndInv, TypeOK, Ended, Reading

\* https/client.c opens output.dat before it reads.
LEMMA OpenOutputInd ==
  ASSUME IndInv, OpenOutput
  PROVE  IndInv'
<1>1. /\ faults \in Nat /\ MaxFaults \in Nat /\ faults <= MaxFaults /\ arrived \in Nat
      /\ response.body \in Nat /\ EndOfHeader \in Nat /\ EndOfHeader > 0
  BY StateFacts DEF IndInv
<1>2. pos = 0 /\ n = 0 /\ out = NoOutput /\ ~Old
  BY DEF IndInv, PhaseOK, OpenOutput, Preparing
<1>3. pos' = pos /\ n' = n /\ screen' = screen
  BY DEF OpenOutput
<1>4. /\ \/ pc' = "loop" /\ out' = (IF run.head THEN NoOutput ELSE << >>)
         \/ pc' = "exited" /\ out' = NoOutput
      /\ ReadingStep
  BY <1>1, <1>2 DEF OpenOutput, ReadingStep, Goto, Exit, Fault, Reading
<1>5. /\ run' = run /\ response' = response /\ EndOfHeader' = EndOfHeader
      /\ Page' = Page /\ Header' = Header /\ Old' = Old /\ WireOK'
  BY <1>4, ReadingSame
<1>6. TypeOK'
  <2>1. pos' \in 0 .. arrived /\ n' \in 0 .. response.body /\ ~Ended
    BY <1>1, <1>2, <1>3 DEF OpenOutput, Ended
  <2>2. QED
    BY <1>4, <2>1, ReadingType
<1>7. PhaseOK' /\ CountOK'
  BY <1>2, <1>4, <1>5 DEF PhaseOK, CountOK, Preparing
<1>8. ScreenOK'
  BY <1>2, <1>3, <1>4, <1>5 DEF IndInv, ScreenOK
<1>9. OutOK'
  <2>1. 1 .. pos' = {}
    BY <1>2, <1>3
  <2>2. << >> \in Seq(Nat) /\ NoOutput \in Seq(Nat)
    BY DEF NoOutput
  <2>3. QED
    BY <1>2, <1>4, <1>5, <2>1, <2>2, ListsNothing DEF OutOK
<1>10. CompleteAtEnd'
  BY <1>2, <1>3 DEF CompleteAtEnd
<1>11. QED
  BY <1>5, <1>6, <1>7, <1>8, <1>9, <1>10 DEF IndInv

\* The buffer goes to the file, or to the screen up to the end of the header.
LEMMA ReadBufferInd ==
  ASSUME IndInv, NEW k \in 1 .. Buffer, ReadBuffer(k)
  PROVE  IndInv'
<1>1. /\ faults \in Nat /\ MaxFaults \in Nat /\ faults <= MaxFaults
      /\ pos \in Nat /\ arrived \in Nat /\ n \in Nat /\ n <= response.body
      /\ response.body \in Nat /\ EndOfHeader \in Nat /\ EndOfHeader > 0
      /\ WireLength \in Nat /\ arrived <= WireLength /\ Buffer \in Nat
      /\ EndOfBody = EndOfHeader + (IF run.head THEN 0 ELSE response.body)
      /\ WireLength = EndOfBody + response.extra
  BY StateFacts, WebClientAssumption DEF IndInv
<1>2. pc = "loop" /\ ~Old /\ response.extra = 0 /\ pos + k <= arrived
  BY DEF ReadBuffer, IndInv, PhaseOK, WireOK, Old
<1>3. pos' = pos + k /\ n' = n
  BY DEF ReadBuffer
<1>4. ReadingStep
  BY <1>1 DEF ReadBuffer, ReadingStep, Goto, Return, Exit, Killed, Reading
<1>5. /\ run' = run /\ response' = response /\ EndOfHeader' = EndOfHeader
      /\ Page' = Page /\ Header' = Header /\ Old' = Old /\ WireOK' /\ WireLength' = WireLength
  BY <1>4, ReadingSame
<1>6. TypeOK'
  <2>1. pos' \in 0 .. arrived /\ n' \in 0 .. response.body /\ ~Ended
    BY <1>1, <1>2, <1>3 DEF Ended
  <2>2. QED
    BY <1>4, <2>1, ReadingType
<1>7. pc' \in {"loop", "exited", "killed"}
  BY DEF ReadBuffer, Goto, Return, Exit, Killed
<1>8. PhaseOK' /\ CountOK'
  BY <1>2, <1>5, <1>7 DEF PhaseOK, CountOK, Preparing
<1>9. CASE run.head
  <2>1. out = NoOutput /\ Lists(screen, 1 .. pos) /\ screen \in Seq(Nat)
    BY <1>9 DEF IndInv, ScreenOK
  <2>2. WireLength = EndOfHeader
    BY <1>1, <1>2, <1>9
  <2>3. HeaderEndsIn(k) => EndOfHeader - pos = k
    BY <1>1, <1>2, <2>2 DEF HeaderEndsIn
  <2>4. screen' = screen \o NextBytes(k) /\ out' = out
    BY <1>9, <2>3 DEF ReadBuffer
  <2>5. screen' \in Seq(Nat) /\ Lists(screen', 1 .. pos')
    BY <1>1, <1>3, <2>1, <2>4, ReadOn
  <2>6. ScreenOK'
    BY <1>1, <1>2, <1>3, <1>5, <1>9, <2>1, <2>2, <2>4, <2>5 DEF ScreenOK
  <2>7. OutOK'
    BY <1>5, <1>9, <2>4 DEF IndInv, OutOK
  <2>8. CompleteAtEnd'
    <3>1. Ended' => HeaderEndsIn(k)
      BY <1>9 DEF ReadBuffer, Ended, Goto
    <3>2. HeaderEndsIn(k) => pos' = EndOfHeader
      BY <1>1, <1>3, <2>3
    <3>3. QED
      BY <1>5, <1>9, <2>1, <2>4, <2>5, <3>1, <3>2 DEF CompleteAtEnd, Header
  <2>9. QED
    BY <1>5, <1>6, <1>8, <2>6, <2>7, <2>8 DEF IndInv
<1>10. CASE ~run.head
  <2>1. out \in Seq(Nat) /\ Lists(out, 1 .. pos) /\ screen = << >> /\ screen \in Seq(Nat)
    BY <1>2, <1>10 DEF IndInv, ScreenOK, OutOK
  <2>2. out' = out \o NextBytes(k) /\ screen' = screen /\ pc' = "loop"
    BY <1>10 DEF ReadBuffer, Written, Goto
  <2>3. out' \in Seq(Nat) /\ Lists(out', 1 .. pos')
    BY <1>1, <1>3, <2>1, <2>2, ReadOn
  <2>4. ScreenOK'
    BY <1>5, <1>10, <2>1, <2>2 DEF ScreenOK
  <2>5. OutOK'
    BY <1>2, <1>5, <1>10, <2>3 DEF OutOK
  <2>6. CompleteAtEnd'
    BY <2>2 DEF CompleteAtEnd, Ended
  <2>7. QED
    BY <1>5, <1>6, <1>8, <2>4, <2>5, <2>6 DEF IndInv
<1>11. QED
  BY <1>9, <1>10

\* The server has closed the connection behind the last byte, or it is broken.
LEMMA ReadEndsInd ==
  ASSUME IndInv, ReadEnds
  PROVE  IndInv'
<1>1. /\ faults \in Nat /\ MaxFaults \in Nat /\ faults <= MaxFaults
      /\ pos \in Nat /\ arrived \in Nat /\ n \in Nat /\ n <= response.body
      /\ response.body \in Nat /\ pos <= arrived /\ EndOfHeader \in Nat
      /\ EndOfBody = EndOfHeader + (IF run.head THEN 0 ELSE response.body)
      /\ WireLength = EndOfBody + response.extra
  BY StateFacts DEF IndInv
<1>2. pc = "loop" /\ ~Old /\ response.extra = 0 /\ pos = arrived /\ server # "open"
  BY DEF ReadEnds, AtEnd, IndInv, PhaseOK, WireOK, Old
<1>3. pos' = pos /\ n' = n /\ out' = out /\ screen' = screen /\ pc' \in {"exited", "killed"}
  BY DEF ReadEnds, results, Return, Exit, Killed
<1>4. ReadingStep
  BY <1>1 DEF ReadEnds, results, ReadingStep, Return, Exit, Killed
<1>5. /\ run' = run /\ response' = response /\ EndOfHeader' = EndOfHeader
      /\ Page' = Page /\ Header' = Header /\ Old' = Old /\ WireOK'
      /\ (faults' = 0 => faults = 0)
  BY <1>4, ReadingSame
<1>6. TypeOK'
  <2>1. pos' \in 0 .. arrived /\ n' \in 0 .. response.body /\ ~Ended
    BY <1>1, <1>2, <1>3 DEF Ended
  <2>2. QED
    BY <1>4, <2>1, ReadingType
<1>7. PhaseOK' /\ CountOK'
  BY <1>3 DEF PhaseOK, CountOK, Preparing
<1>8. ScreenOK' /\ OutOK'
  BY <1>2, <1>3, <1>5 DEF IndInv, ScreenOK, OutOK
<1>9. CompleteAtEnd'
  <2>1. faults = 0 => pos = WireLength
    <3>1. server \in {"open", "closed", "reset"}
      BY DEF IndInv, TypeOK
    <3>2. QED
      BY <1>2, <3>1 DEF IndInv, WireOK
  <2>2. CASE run.head
    <3>1. out = NoOutput /\ Lists(screen, 1 .. pos)
      BY <2>2 DEF IndInv, ScreenOK
    <3>2. WireLength = EndOfHeader
      BY <1>1, <1>2, <2>2
    <3>3. faults = 0 => Lists(screen, Header)
      BY <2>1, <3>1, <3>2 DEF Header
    <3>4. QED
      BY <1>3, <1>5, <2>2, <3>1, <3>3 DEF CompleteAtEnd
  <2>3. CASE ~run.head
    <3>1. Lists(out, 1 .. pos)
      BY <1>2, <2>3 DEF IndInv, OutOK
    <3>2. faults = 0 => Lists(out, Page)
      BY <1>2, <2>1, <3>1 DEF Page
    <3>3. QED
      BY <1>3, <1>5, <2>3, <3>2 DEF CompleteAtEnd
  <2>4. QED
    BY <2>2, <2>3
<1>10. QED
  BY <1>5, <1>6, <1>7, <1>8, <1>9 DEF IndInv
-----------------------------------------------------------------------------
\* One byte more.
LEMMA ListsOne ==
  ASSUME NEW p \in Seq(Nat), NEW S, Lists(p, S), NEW x \in Nat, \A y \in S : y < x
  PROVE  p \o <<x>> \in Seq(Nat) /\ Lists(p \o <<x>>, S \cup {x})
<1>1. <<x>> \in Seq(Nat) /\ Lists(<<x>>, {x})
  BY DEF Lists
<1>2. QED
  BY <1>1, ListsConcat

\* The old programs read the header byte by byte.
LEMMA ReadHeaderInd ==
  ASSUME IndInv, ReadHeader
  PROVE  IndInv'
<1>1. /\ faults \in Nat /\ MaxFaults \in Nat /\ faults <= MaxFaults
      /\ pos \in Nat /\ arrived \in Nat /\ n \in Nat /\ n <= response.body
      /\ response.body \in Nat /\ EndOfHeader \in Nat
  BY StateFacts DEF IndInv
<1>2. pc = "header" /\ Old /\ n = 0 /\ out = NoOutput /\ pos < arrived /\ pos < EndOfHeader
  BY DEF ReadHeader, IndInv, PhaseOK, CountOK
<1>3. pos' = pos + 1 /\ n' = n /\ out' = out
  BY DEF ReadHeader
<1>4. ReadingStep
  BY <1>1 DEF ReadHeader, ReadingStep, Goto, Exit, Reading
<1>5. /\ run' = run /\ response' = response /\ EndOfHeader' = EndOfHeader
      /\ Page' = Page /\ Header' = Header /\ Old' = Old /\ WireOK'
  BY <1>4, ReadingSame
<1>6. TypeOK'
  <2>1. pos' \in 0 .. arrived /\ n' \in 0 .. response.body /\ ~Ended
    BY <1>1, <1>2, <1>3 DEF Ended
  <2>2. QED
    BY <1>4, <2>1, ReadingType
<1>7. /\ pc' \in {"header", "exited", "length"}
      /\ pc' = "header" => pos' < EndOfHeader
      /\ pc' = "length" => pos' = EndOfHeader /\ ~run.head
      /\ pc' = "exited" => pos' = EndOfHeader /\ run.head
  BY <1>1, <1>2, <1>3 DEF ReadHeader, HeaderComplete, Goto, Exit
<1>8. PhaseOK' /\ CountOK'
  BY <1>1, <1>2, <1>3, <1>5, <1>7 DEF PhaseOK, CountOK, Preparing
<1>9. ScreenOK'
  <2>1. CASE run.head
    <3>1. screen \in Seq(Nat) /\ Lists(screen, 1 .. pos)
      BY <2>1 DEF IndInv, ScreenOK
    <3>2. screen' = screen \o <<pos + 1>>
      BY <2>1, <3>1 DEF ReadHeader
    <3>3. screen' \in Seq(Nat) /\ Lists(screen', (1 .. pos) \cup {pos + 1})
      BY <1>1, <3>1, <3>2, ListsOne
    <3>4. (1 .. pos) \cup {pos + 1} = 1 .. pos'
      BY <1>1, <1>3
    <3>5. pos' <= EndOfHeader
      BY <1>1, <1>2, <1>3
    <3>6. QED
      BY <1>2, <1>3, <1>5, <2>1, <3>3, <3>4, <3>5 DEF ScreenOK
  <2>2. CASE ~run.head
    BY <1>5, <2>2 DEF ReadHeader, IndInv, ScreenOK
  <2>3. QED
    BY <2>1, <2>2
<1>10. OutOK'
  BY <1>2, <1>3, <1>5, <1>7 DEF IndInv, OutOK
<1>11. CompleteAtEnd'
  <2>1. SUFFICES ASSUME Ended' PROVE CompleteAtEnd'
    BY DEF CompleteAtEnd
  <2>2. pos' = EndOfHeader /\ run.head
    BY <1>7, <2>1 DEF Ended
  <2>3. out' = NoOutput /\ Lists(screen', Header')
    BY <1>5, <1>9, <2>2 DEF ScreenOK, Header
  <2>4. QED
    BY <1>5, <2>2, <2>3 DEF CompleteAtEnd
<1>12. QED
  BY <1>5, <1>6, <1>8, <1>9, <1>10, <1>11 DEF IndInv

\* A connection that ended without a fault has delivered the whole response.
LEMMA WholeResponse ==
  ASSUME IndInv, AtEnd, faults = 0
  PROVE  pos = WireLength
<1>1. server \in {"open", "closed", "reset"}
  BY DEF IndInv, TypeOK
<1>2. QED
  BY <1>1 DEF IndInv, WireOK, AtEnd

\* A connection that ends in the header ends the program.
LEMMA HeaderCutInd ==
  ASSUME IndInv, HeaderCut
  PROVE  IndInv'
<1>1. /\ faults \in Nat /\ MaxFaults \in Nat /\ faults <= MaxFaults
      /\ pos \in Nat /\ arrived \in Nat /\ n \in Nat /\ n <= response.body
      /\ response.body \in Nat /\ response.extra \in Nat /\ EndOfHeader \in Nat /\ pos <= arrived
      /\ EndOfBody = EndOfHeader + (IF run.head THEN 0 ELSE response.body)
      /\ WireLength = EndOfBody + response.extra
  BY StateFacts DEF IndInv
<1>2. /\ pc = "header" /\ Old /\ n = 0 /\ out = NoOutput
      /\ pos = arrived /\ server # "open" /\ pos < EndOfHeader /\ AtEnd
  BY DEF HeaderCut, AtEnd, IndInv, PhaseOK, CountOK
<1>3. pos' = pos /\ n' = n /\ out' = out /\ screen' = screen
  BY DEF HeaderCut, results
<1>4. /\ ReadingStep
      /\ pc' = "exited" \/ (pc' = "length" /\ ~run.head)
  BY <1>1 DEF HeaderCut, results, ReadingStep, Goto, Exit, Reading
<1>5. /\ run' = run /\ response' = response /\ EndOfHeader' = EndOfHeader
      /\ Page' = Page /\ Header' = Header /\ Old' = Old /\ WireOK'
      /\ arrived' = arrived /\ server' = server
      /\ (faults' = 0 => faults = 0)
  BY <1>4, ReadingSame
<1>6. TypeOK'
  <2>1. pos' \in 0 .. arrived /\ n' \in 0 .. response.body /\ ~Ended
    BY <1>1, <1>2, <1>3 DEF Ended
  <2>2. QED
    BY <1>4, <2>1, ReadingType
<1>7. PhaseOK' /\ CountOK'
  BY <1>1, <1>2, <1>3, <1>4, <1>5 DEF PhaseOK, CountOK, Preparing
<1>8. ScreenOK'
  BY <1>3, <1>5 DEF IndInv, ScreenOK
<1>9. OutOK'
  BY <1>2, <1>3, <1>4, <1>5 DEF IndInv, OutOK
<1>10. faults # 0
  <2>1. WireLength >= EndOfHeader
    BY <1>1
  <2>2. QED
    BY <1>1, <1>2, <2>1, WholeResponse
<1>11. CompleteAtEnd'
  BY <1>5, <1>10 DEF CompleteAtEnd
<1>12. QED
  BY <1>5, <1>6, <1>7, <1>8, <1>9, <1>11 DEF IndInv

\* A length is missing if the header has none, or if the header was cut short.
LEMMA FindLengthInd ==
  ASSUME IndInv, FindLength
  PROVE  IndInv'
<1>1. /\ faults \in Nat /\ MaxFaults \in Nat /\ faults <= MaxFaults
      /\ pos \in Nat /\ arrived \in Nat /\ n \in Nat /\ n <= response.body
      /\ response.body \in Nat /\ response.extra \in Nat /\ EndOfHeader \in Nat /\ pos <= arrived
      /\ EndOfBody = EndOfHeader + (IF run.head THEN 0 ELSE response.body)
      /\ WireLength = EndOfBody + response.extra
  BY StateFacts DEF IndInv
<1>2. /\ pc = "length" /\ Old /\ n = 0 /\ out = NoOutput /\ ~run.head
      /\ \/ pos = EndOfHeader
         \/ pos < EndOfHeader /\ AtEnd
  BY <1>1 DEF FindLength, AtEnd, IndInv, PhaseOK, CountOK
<1>3. pos' = pos /\ n' = n /\ out' = out /\ screen' = screen
  BY DEF FindLength, results
<1>4. /\ ReadingStep /\ pc' \in {"file", "exited", "killed"}
      /\ pc' # "file" => \E found \in LengthFound : ~found
  BY <1>1 DEF FindLength, results, ReadingStep, Goto, Exit, Killed, Reading
<1>5. /\ run' = run /\ response' = response /\ EndOfHeader' = EndOfHeader
      /\ Page' = Page /\ Header' = Header /\ Old' = Old /\ WireOK'
      /\ arrived' = arrived /\ server' = server
      /\ (faults' = 0 => faults = 0)
  BY <1>4, ReadingSame
<1>6. TypeOK'
  <2>1. pos' \in 0 .. arrived /\ n' \in 0 .. response.body /\ ~Ended
    BY <1>1, <1>2, <1>3 DEF Ended
  <2>2. QED
    BY <1>4, <2>1, ReadingType
<1>7. PhaseOK' /\ CountOK'
  BY <1>1, <1>2, <1>3, <1>4, <1>5 DEF PhaseOK, CountOK, Preparing, AtEnd
<1>8. ScreenOK'
  BY <1>3, <1>5 DEF IndInv, ScreenOK
<1>9. OutOK'
  BY <1>2, <1>3, <1>4, <1>5 DEF IndInv, OutOK
<1>10. CompleteAtEnd'
  <2>1. SUFFICES ASSUME Ended', faults = 0 PROVE ~response.length
    BY <1>2, <1>5 DEF CompleteAtEnd
  <2>2. pos = EndOfHeader
    <3>1. WireLength >= EndOfHeader
      BY <1>1
    <3>2. QED
      BY <1>1, <1>2, <2>1, <3>1, WholeResponse
  <2>3. QED
    BY <1>4, <2>1, <2>2 DEF Ended, LengthFound
<1>11. QED
  BY <1>5, <1>6, <1>7, <1>8, <1>9, <1>10 DEF IndInv

\* The old programs create output.dat behind the header.
LEMMA CreateOutputInd ==
  ASSUME IndInv, CreateOutput
  PROVE  IndInv'
<1>1. /\ faults \in Nat /\ MaxFaults \in Nat /\ faults <= MaxFaults
      /\ pos \in Nat /\ arrived \in Nat /\ n \in Nat /\ n <= response.body
      /\ response.body \in Nat /\ EndOfHeader \in Nat /\ pos <= arrived
  BY StateFacts DEF IndInv
<1>2. /\ pc = "file" /\ Old /\ n = 0 /\ out = NoOutput /\ ~run.head
      /\ \/ pos = EndOfHeader
         \/ pos < EndOfHeader /\ pos = arrived /\ server # "open"
  BY <1>1 DEF CreateOutput, IndInv, PhaseOK, CountOK
<1>3. pos' = pos /\ n' = n /\ screen' = screen
  BY DEF CreateOutput
<1>4. /\ ReadingStep
      /\ \/ pc' = "body" /\ out' = << >>
         \/ pc' = "killed" /\ out' = NoOutput /\ faults' # 0
  BY <1>1, <1>2 DEF CreateOutput, ReadingStep, Goto, Killed, Fault, Reading
<1>5. /\ run' = run /\ response' = response /\ EndOfHeader' = EndOfHeader
      /\ Page' = Page /\ Header' = Header /\ Old' = Old /\ WireOK'
      /\ arrived' = arrived /\ server' = server
  BY <1>4, ReadingSame
<1>6. TypeOK'
  <2>1. pos' \in 0 .. arrived /\ n' \in 0 .. response.body /\ ~Ended
    BY <1>1, <1>2, <1>3 DEF Ended
  <2>2. QED
    BY <1>4, <2>1, ReadingType
<1>7. PhaseOK' /\ CountOK'
  BY <1>1, <1>2, <1>3, <1>4, <1>5 DEF PhaseOK, CountOK, Preparing
<1>8. ScreenOK'
  BY <1>2, <1>3, <1>5 DEF IndInv, ScreenOK
<1>9. OutOK'
  <2>1. \A b \in Page : b > EndOfHeader
    BY <1>1, <1>2 DEF Page
  <2>2. {b \in Page : b <= EndOfHeader + n} = {}
    BY <1>1, <1>2, <2>1 DEF Page, EndOfHeader
  <2>3. Lists(<< >>, {b \in Page' : b <= EndOfHeader' + n'})
    BY <1>3, <1>5, <2>2, ListsNothing
  <2>4. << >> \in Seq(Nat) /\ NoOutput \in Seq(Nat)
    BY DEF NoOutput
  <2>5. QED
    BY <1>2, <1>4, <1>5, <2>3, <2>4 DEF OutOK
<1>10. CompleteAtEnd'
  BY <1>4 DEF CompleteAtEnd, Ended
<1>11. QED
  BY <1>5, <1>6, <1>7, <1>8, <1>9, <1>10 DEF IndInv

\* Once as many bytes as Content-Length says are counted, all of the body is
\* there.
LEMMA WholeBody ==
  ASSUME TypeOK, Old, ~run.head, n = response.body,
         Lists(out, {b \in Page : b <= EndOfHeader + n})
  PROVE  Lists(out, Page)
<1>1. /\ EndOfHeader \in Nat /\ response.body \in Nat /\ EndOfBody = EndOfHeader + response.body
  BY StateFacts
<1>2. \A b \in Page : b <= EndOfHeader + n
  BY <1>1 DEF Page
<1>3. {b \in Page : b <= EndOfHeader + n} = Page
  BY <1>2
<1>4. QED
  BY <1>3

\* The byte is counted and printed, or it is the one too many.
LEMMA ReadBodyInd ==
  ASSUME IndInv, ReadBody
  PROVE  IndInv'
<1>1. /\ faults \in Nat /\ MaxFaults \in Nat /\ faults <= MaxFaults
      /\ pos \in Nat /\ arrived \in Nat /\ n \in Nat /\ n <= response.body
      /\ response.body \in Nat /\ EndOfHeader \in Nat /\ pos <= arrived
      /\ EndOfBody = EndOfHeader + (IF run.head THEN 0 ELSE response.body)
  BY StateFacts DEF IndInv
<1>2. /\ pc = "body" /\ Old /\ ~run.head /\ pos < arrived /\ pos = EndOfHeader + n
      /\ out \in Seq(Nat) /\ Lists(out, {b \in Page : b <= EndOfHeader + n})
  BY <1>1 DEF ReadBody, IndInv, PhaseOK, CountOK, OutOK
<1>3. pos' = pos + 1 /\ screen' = screen
  BY DEF ReadBody
<1>4. ReadingStep
  BY <1>1 DEF ReadBody, ReadingStep, Goto, Exit, Reading
<1>5. /\ run' = run /\ response' = response /\ EndOfHeader' = EndOfHeader
      /\ Page' = Page /\ Header' = Header /\ Old' = Old /\ WireOK'
      /\ arrived' = arrived /\ server' = server
  BY <1>4, ReadingSame
<1>6. ScreenOK'
  BY <1>2, <1>3, <1>5 DEF IndInv, ScreenOK
<1>7. CASE n >= response.body
  <2>1. n = response.body /\ pc' = "exited" /\ out' = out /\ n' = n
    BY <1>1, <1>7 DEF ReadBody, LengthReached, Exit
  <2>2. TypeOK'
    <3>1. ~Ended
      BY <1>2 DEF Ended
    <3>2. pos' \in 0 .. arrived
      BY <1>1, <1>2, <1>3
    <3>3. n' \in 0 .. response.body
      BY <1>1, <2>1
    <3>4. QED
      BY <1>4, <3>1, <3>2, <3>3, ReadingType
  <2>3. PhaseOK' /\ CountOK'
    BY <2>1 DEF PhaseOK, CountOK, Preparing
  <2>4. OutOK'
    BY <1>2, <1>5, <2>1 DEF OutOK
  <2>5. Lists(out, Page)
    BY <1>2, <2>1, WholeBody DEF IndInv
  <2>6. CompleteAtEnd'
    BY <1>2, <1>5, <2>1, <2>5 DEF CompleteAtEnd
  <2>7. QED
    BY <1>5, <1>6, <2>2, <2>3, <2>4, <2>6 DEF IndInv
<1>8. CASE ~(n >= response.body)
  <2>1. pc' = "body" /\ out' = out \o Printed(pos + 1) /\ n' = n + 1
    BY <1>8 DEF ReadBody, LengthReached, Goto
  <2>2. TypeOK'
    <3>1. pos' \in 0 .. arrived /\ n' \in 0 .. response.body /\ ~Ended
      BY <1>1, <1>2, <1>3, <1>8, <2>1 DEF Ended
    <3>2. QED
      BY <1>4, <3>1, ReadingType
  <2>3. PhaseOK' /\ CountOK'
    BY <1>1, <1>2, <1>3, <1>5, <2>1 DEF PhaseOK, CountOK, Preparing
  <2> DEFINE S == {b \in Page : b <= EndOfHeader + n}
             T == {b \in Page : b <= EndOfHeader + (n + 1)}
  <2>4. Page \subseteq Int
    BY <1>2 DEF Page
  <2>5. (pos + 1 \in Page) <=> ((pos + 1) - EndOfHeader \notin response.zeros)
    <3>1. pos + 1 \in EndOfHeader + 1 .. EndOfBody
      BY <1>1, <1>2, <1>8
    <3>2. QED
      BY <1>2, <3>1 DEF Page
  <2>6. \A b \in Int : b <= EndOfHeader + (n + 1) <=> b <= EndOfHeader + n \/ b = pos + 1
    BY <1>1, <1>2
  <2>7. out' \in Seq(Nat) /\ Lists(out', T)
    <3>1. CASE pos + 1 \in Page
      <4>1. Printed(pos + 1) = <<pos + 1>>
        BY <2>5, <3>1 DEF Printed
      <4>2. \A y \in S : y < pos + 1
        BY <1>1, <1>2, <2>4
      <4>3. S \cup {pos + 1} = T
        BY <2>4, <2>6, <3>1
      <4>4. pos + 1 \in Nat /\ Lists(out, S)
        BY <1>1, <1>2
      <4> HIDE DEF S, T
      <4>5. QED
        BY <1>2, <2>1, <4>1, <4>2, <4>3, <4>4, ListsOne
    <3>2. CASE pos + 1 \notin Page
      <4>1. Printed(pos + 1) = << >>
        BY <2>5, <3>2 DEF Printed
      <4>2. out' = out
        BY <1>2, <2>1, <4>1
      <4>3. S = T
        BY <2>4, <2>6, <3>2
      <4>4. Lists(out, S)
        BY <1>2
      <4> HIDE DEF S, T
      <4>5. QED
        BY <1>2, <4>2, <4>3, <4>4
    <3>3. QED
      BY <3>1, <3>2
  <2>8. OutOK'
    BY <1>2, <1>5, <2>1, <2>7 DEF OutOK
  <2>9. CompleteAtEnd'
    BY <2>1 DEF CompleteAtEnd, Ended
  <2>10. QED
    BY <1>5, <1>6, <2>2, <2>3, <2>8, <2>9 DEF IndInv
<1>9. QED
  BY <1>7, <1>8

\* The body is over, or the connection is.
LEMMA BodyEndsInd ==
  ASSUME IndInv, BodyEnds
  PROVE  IndInv'
<1>1. /\ faults \in Nat /\ MaxFaults \in Nat /\ faults <= MaxFaults
      /\ pos \in Nat /\ arrived \in Nat /\ n \in Nat /\ n <= response.body
      /\ response.body \in Nat /\ response.extra \in Nat /\ EndOfHeader \in Nat /\ pos <= arrived
      /\ EndOfBody = EndOfHeader + (IF run.head THEN 0 ELSE response.body)
      /\ WireLength = EndOfBody + response.extra
  BY StateFacts DEF IndInv
<1>2. /\ pc = "body" /\ Old /\ ~run.head /\ AtEnd
      /\ pos = EndOfHeader + n \/ pos < EndOfHeader
      /\ Lists(out, {b \in Page : b <= EndOfHeader + n})
  BY DEF BodyEnds, IndInv, PhaseOK, CountOK, OutOK
<1>3. pos' = pos /\ n' = n /\ out' = out /\ screen' = screen /\ pc' = "exited"
  BY DEF BodyEnds, results, Exit
<1>4. ReadingStep
  BY <1>1 DEF BodyEnds, results, ReadingStep, Exit
<1>5. /\ run' = run /\ response' = response /\ EndOfHeader' = EndOfHeader
      /\ Page' = Page /\ Header' = Header /\ Old' = Old /\ WireOK'
      /\ (faults' = 0 => faults = 0)
  BY <1>4, ReadingSame
<1>6. TypeOK'
  <2>1. pos' \in 0 .. arrived /\ n' \in 0 .. response.body /\ ~Ended
    BY <1>1, <1>2, <1>3 DEF Ended
  <2>2. QED
    BY <1>4, <2>1, ReadingType
<1>7. PhaseOK' /\ CountOK'
  BY <1>3 DEF PhaseOK, CountOK, Preparing
<1>8. ScreenOK'
  BY <1>3, <1>5 DEF IndInv, ScreenOK
<1>9. OutOK'
  BY <1>2, <1>3, <1>5 DEF IndInv, OutOK
<1>10. CompleteAtEnd'
  <2>1. SUFFICES ASSUME faults = 0 PROVE Lists(out, Page)
    BY <1>2, <1>3, <1>5 DEF CompleteAtEnd
  <2>2. n = response.body
    <3>1. pos = WireLength
      BY <1>2, <2>1, WholeResponse
    <3>2. QED
      BY <1>1, <1>2, <3>1
  <2>3. QED
    BY <1>2, <2>2, WholeBody DEF IndInv
<1>11. QED
  BY <1>5, <1>6, <1>7, <1>8, <1>9, <1>10 DEF IndInv

-----------------------------------------------------------------------------
\* A step that changes nothing.
LEMMA StutterInd ==
  ASSUME IndInv, UNCHANGED vars
  PROVE  IndInv'
<1>1. /\ run' = run /\ response' = response
      /\ EndOfHeader' = EndOfHeader /\ EndOfBody' = EndOfBody
      /\ WireLength' = WireLength /\ Page' = Page /\ Header' = Header /\ Old' = Old
  BY SameResponse DEF vars, chosen
<1>2. /\ pc' = pc /\ status' = status /\ arrived' = arrived /\ server' = server
      /\ pos' = pos /\ n' = n /\ out' = out /\ screen' = screen
      /\ released' = released /\ faults' = faults
  BY DEF vars
<1>3. TypeOK' /\ WireOK' /\ PhaseOK' /\ CountOK'
  BY <1>1, <1>2 DEF IndInv, TypeOK, Ended, WireOK, PhaseOK, CountOK
<1>4. ScreenOK' /\ OutOK' /\ CompleteAtEnd'
  BY <1>1, <1>2 DEF IndInv, ScreenOK, OutOK, CompleteAtEnd, Ended
<1>5. QED
  BY <1>3, <1>4 DEF IndInv

\* Every step preserves the inductive invariant.
LEMMA NextInd == IndInv /\ [Next]_vars => IndInv'
<1> SUFFICES ASSUME IndInv, [Next]_vars PROVE IndInv'
  OBVIOUS
<1>1. CASE \/ ParseUrl \/ Connect \/ ConnectFails \/ Handshake \/ HandshakeFails
           \/ ContextFails \/ Validate \/ SendRequest \/ SendRequestFails
  BY <1>1, PrepareInd
<1>2. CASE OpenOutput
  BY <1>2, OpenOutputInd
<1>3. CASE \E k \in 1 .. Buffer : ReadBuffer(k)
  BY <1>3, ReadBufferInd
<1>4. CASE ReadEnds
  BY <1>4, ReadEndsInd
<1>5. CASE ReadHeader
  BY <1>5, ReadHeaderInd
<1>6. CASE HeaderCut
  BY <1>6, HeaderCutInd
<1>7. CASE FindLength
  BY <1>7, FindLengthInd
<1>8. CASE CreateOutput
  BY <1>8, CreateOutputInd
<1>9. CASE ReadBody
  BY <1>9, ReadBodyInd
<1>10. CASE BodyEnds
  BY <1>10, BodyEndsInd
<1>11. CASE Arrive \/ Close \/ Reset
  BY <1>11, NetworkInd
<1>12. CASE UNCHANGED vars
  BY <1>12, StutterInd
<1>13. QED
  BY <1>1, <1>2, <1>3, <1>4, <1>5, <1>6, <1>7, <1>8, <1>9, <1>10, <1>11, <1>12
  DEF Next, ProgramStep

\* In every state of every behaviour.
LEMMA Invariance == Spec => []IndInv
BY InitInd, NextInd, PTL DEF Spec

(***************************************************************************)
(* The program never reads more than arrived, and never counts more bytes  *)
(* of the body than Content-Length says, whatever the server sends.        *)
(***************************************************************************)
THEOREM TypeCorrect == Spec => []TypeOK
<1>1. IndInv => TypeOK
  BY DEF IndInv
<1>2. QED
  BY <1>1, Invariance, PTL

(***************************************************************************)
(* What is in output.dat and on the screen is a beginning of the right     *)
(* result, for every response, every size of the buffer, every split into  *)
(* reads and every place where the connection breaks.                      *)
(***************************************************************************)
THEOREM OutputCorrect == Spec => []OutputIsPrefix
<1>1. ASSUME IndInv PROVE OutputIsPrefix
  <2>1. /\ pos \in Nat /\ arrived \in Nat /\ n \in Nat /\ n <= response.body
        /\ pos <= arrived /\ arrived <= WireLength /\ WireLength \in Nat
        /\ response.body \in Nat /\ response.extra \in Nat /\ EndOfHeader \in Nat
        /\ EndOfBody = EndOfHeader + (IF run.head THEN 0 ELSE response.body)
        /\ WireLength = EndOfBody + response.extra
    BY <1>1, StateFacts DEF IndInv
  <2>2. ListsBeginning(screen, Header)
    <3>1. CASE run.head
      <4>1. Lists(screen, 1 .. pos) /\ pos <= EndOfHeader
        BY <1>1, <3>1 DEF IndInv, ScreenOK
      <4>2. {byte \in Header : byte <= pos} = 1 .. pos
        BY <2>1, <4>1 DEF Header
      <4>3. pos \in 0 .. WireLength
        BY <2>1
      <4>4. QED
        BY <4>1, <4>2, <4>3 DEF ListsBeginning
    <3>2. CASE ~run.head
      <4>1. Lists(screen, {})
        BY <1>1, <3>2, ListsNothing DEF IndInv, ScreenOK
      <4>2. {byte \in Header : byte <= 0} = {}
        BY <2>1 DEF Header
      <4>3. 0 \in 0 .. WireLength
        BY <2>1
      <4>4. QED
        BY <4>1, <4>2, <4>3 DEF ListsBeginning
    <3>3. QED
      BY <3>1, <3>2
  <2>3. out = NoOutput \/ ListsBeginning(out, Page)
    <3>1. CASE run.head
      BY <1>1, <3>1 DEF IndInv, ScreenOK
    <3>2. CASE ~run.head /\ ~Old
      <4>1. {byte \in Page : byte <= pos} = 1 .. pos
        BY <2>1, <3>2 DEF Page
      <4>2. pos \in 0 .. WireLength
        BY <2>1
      <4>3. out = NoOutput \/ Lists(out, 1 .. pos)
        BY <1>1, <3>2 DEF IndInv, OutOK
      <4>4. QED
        BY <4>1, <4>2, <4>3 DEF ListsBeginning
    <3>3. CASE ~run.head /\ Old
      <4>1. EndOfHeader + n \in 0 .. WireLength
        BY <2>1, <3>3
      <4>2. out = NoOutput \/ Lists(out, {b \in Page : b <= EndOfHeader + n})
        BY <1>1, <3>3 DEF IndInv, OutOK
      <4>3. QED
        BY <4>1, <4>2 DEF ListsBeginning
    <3>4. QED
      BY <3>1, <3>2, <3>3
  <2>4. QED
    BY <2>2, <2>3 DEF OutputIsPrefix
<1>2. QED
  BY <1>1, Invariance, PTL

(***************************************************************************)
(* A program that meets no failure leaves the whole result when it ends.   *)
(***************************************************************************)
THEOREM ResultComplete == Spec => []CompleteAtEnd
<1>1. IndInv => CompleteAtEnd
  BY DEF IndInv
<1>2. QED
  BY <1>1, Invariance, PTL
=============================================================================

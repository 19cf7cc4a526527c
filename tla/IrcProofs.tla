------------------------------- MODULE IrcProofs -------------------------------
(***************************************************************************)
(* Safety of the IRC server's two arrays, for any number of clients, with  *)
(* any ids, any commands and any contents of the uninitialised index.      *)
(***************************************************************************)
EXTENDS Irc, FiniteSets, FiniteSetTheorems, SequenceTheorems, WellFoundedInduction, TLAPS

Fds         == -1 .. NumClients
Plain       == Ids \cup {NoId}

\* An id that a command has run into.
Joined(l)   == l[1] \o l[2]
Names       == Plain \cup {Joined(l) : l \in Plain \X (Commands \cup {"id", "port"})}

HandlerRec  == [pc : HandlerStates, fd : Fds, open : BOOLEAN, id : Names, arg : Names]
ClientRec   == [id : Names, fd : Fds, port : Int]
MessageRec  == [cmd : Commands \cup {"id", "port"}, id : Plain, port : Nat]
AnswerRec   == [kind : {"taken", "CONNECT"}, id : Names, port : Int]

\* TypeOK, with what the arrays and the streams hold.
StateOK ==
  /\ TypeOK
  /\ inbox \in [Clients -> Seq(MessageRec)]
  /\ outbox \in [Clients -> Seq(AnswerRec)]
  /\ handler \in [Clients -> HandlerRec]
  /\ clients \in [Slots -> ClientRec]
  /\ waiting_clients \in [Slots -> Names]
  /\ typed \in Nat

\* The clients that have tried to register, or whose handlers were killed.
Seen == {c \in Clients : handler[c].pc \notin {"none", "accept", "register"}}

\* The array has room for every client: each one takes a slot at most once.
CountBounded == client_count <= Cardinality(Seen)

\* While a handler holds the mutex for /wait, its client stays off the list.
PortClaim == \A c \in Clients : handler[c].pc = "port" => ~Waits(handler[c].id)

IndInv ==
  /\ StateOK
  /\ CountBounded
  /\ PortClaim
  /\ UniqueIds
  /\ WaitsOnce
-----------------------------------------------------------------------------
(***************************************************************************)
(* What the operators of the model return.                                 *)
(***************************************************************************)

\* A search from index 0 on finds the first entry, if there is one.
LEMMA LeastNumber ==
  ASSUME NEW T, T \subseteq Nat, T # {}
  PROVE  \E x \in T : \A y \in T : x <= y
<1>1. IsWellFoundedOn(OpToRel(<, Nat), Nat)
  BY NatLessThanWellFounded, Zenon
<1>2. PICK x \in T : \A y \in T : ~(<<y, x>> \in OpToRel(<, Nat))
  BY <1>1, WFMin, Zenon
<1>3. \A y \in T : ~(y < x)
  BY <1>2 DEF OpToRel
<1>4. QED
  BY <1>3

\* The loop over waiting_clients[] stops at an entry with the id.
LEMMA FirstWaitingIs ==
  ASSUME waiting_count \in Int, NEW id, Waits(id)
  PROVE  /\ FirstWaiting(id) \in 0 .. waiting_count - 1
         /\ waiting_clients[FirstWaiting(id)] = id
<1> DEFINE T == {k \in 0 .. waiting_count - 1 : waiting_clients[k] = id}
<1>1. T \subseteq Nat /\ T # {}
  BY DEF Waits
<1>2. PICK x \in T : \A y \in T : x <= y
  BY <1>1, LeastNumber
<1>3. x \in 0 .. waiting_count - 1 /\ waiting_clients[x] = id
      /\ \A m \in 0 .. x - 1 : waiting_clients[m] # id
  <2>1. \A m \in 0 .. x - 1 : m \notin T
    BY <1>1, <1>2
  <2>2. QED
    BY <2>1
<1>4. QED
  BY <1>3 DEF FirstWaiting

\* accept() finds a descriptor: there are more of them than handlers.
LEMMA FreeDescriptor ==
  ASSUME handler \in [Clients -> HandlerRec]
  PROVE  \E fd \in 0 .. NumClients :
           fd \notin OpenFds /\ \A f \in 0 .. fd - 1 : f \in OpenFds
<1> DEFINE D == {d \in Clients : handler[d].open}
           h == [d \in D |-> handler[d].fd]
           T == {fd \in 0 .. NumClients : fd \notin OpenFds}
<1>1. NumClients \in Nat /\ NumClients >= 1
  BY IrcServerAssumption
<1>2. IsFiniteSet(Clients) /\ Cardinality(Clients) = NumClients
  BY <1>1, FS_Interval DEF Clients
<1>3. IsFiniteSet(D) /\ Cardinality(D) <= NumClients /\ Cardinality(D) \in Nat
  BY <1>1, <1>2, FS_Subset, FS_CardinalityType
<1>4. h \in Surjection(D, OpenFds)
  BY DEF Surjection, OpenFds
<1>5. IsFiniteSet(OpenFds) /\ Cardinality(OpenFds) <= Cardinality(D)
  BY <1>3, <1>4, FS_Surjection
<1>6. IsFiniteSet(0 .. NumClients) /\ Cardinality(0 .. NumClients) = NumClients + 1
  BY <1>1, FS_Interval
<1>7. T # {}
  <2>1. SUFFICES ASSUME 0 .. NumClients \subseteq OpenFds PROVE FALSE
    OBVIOUS
  <2>2. Cardinality(0 .. NumClients) <= Cardinality(OpenFds)
    BY <1>5, <2>1, FS_Subset
  <2>3. Cardinality(OpenFds) \in Nat
    BY <1>5, FS_CardinalityType
  <2>4. QED
    BY <1>1, <1>3, <1>5, <1>6, <2>2, <2>3
<1>8. T \subseteq Nat
  BY <1>1
<1>9. PICK x \in T : \A y \in T : x <= y
  BY <1>7, <1>8, LeastNumber
<1>10. \A f \in 0 .. x - 1 : f \in OpenFds
  BY <1>1, <1>9
<1>11. QED
  BY <1>9, <1>10

\* A port is a positive number.
LEMMA NewPortType ==
  ASSUME NEW c \in Clients, typed \in Nat
  PROVE  NewPort(c) \in Nat
<1>1. NumClients * typed \in Nat /\ c \in Nat
  BY IrcServerAssumption DEF Clients
<1>2. QED
  BY <1>1 DEF NewPort

\* What a client sends is queued.
LEMMA SendsType ==
  ASSUME inbox \in [Clients -> Seq(MessageRec)], NEW c \in Clients,
         NEW m \in MessageRec, Sends(c, m)
  PROVE  inbox' \in [Clients -> Seq(MessageRec)]
<1>1. inbox[c] \in Seq(MessageRec)
  OBVIOUS
<1>2. Append(inbox[c], m) \in Seq(MessageRec)
  BY <1>1, AppendProperties
<1>3. inbox' = inbox \/ inbox' = [inbox EXCEPT ![c] = Append(@, m)]
  BY DEF Sends
<1>4. QED
  BY <1>2, <1>3

\* What the server reads is taken off the queue.
LEMMA RestType ==
  ASSUME inbox \in [Clients -> Seq(MessageRec)], NEW c \in Clients, NEW k \in Nat
  PROVE  Rest(c, k) \in [Clients -> Seq(MessageRec)]
<1> DEFINE s == inbox[c]
<1>1. s \in Seq(MessageRec)
  OBVIOUS
<1>2. SubSeq(s, k + 1, Len(s)) \in Seq(MessageRec)
  <2> HIDE DEF s
  <2>1. QED
    BY <1>1
<1>3. QED
  BY <1>2 DEF Rest

\* What the server answers is queued.
LEMMA TellType ==
  ASSUME outbox \in [Clients -> Seq(AnswerRec)], NEW c \in Clients,
         NEW m \in AnswerRec, Tell(c, m)
  PROVE  outbox' \in [Clients -> Seq(AnswerRec)]
<1>1. outbox[c] \in Seq(AnswerRec)
  OBVIOUS
<1>2. Append(outbox[c], m) \in Seq(AnswerRec)
  BY <1>1, AppendProperties
<1>3. QED
  BY <1>2 DEF Tell

\* The reader of a client takes one message.
LEMMA ReadsType ==
  ASSUME outbox \in [Clients -> Seq(AnswerRec)], NEW c \in Clients,
         NEW kind, ReadsFromServer(c, kind)
  PROVE  outbox' \in [Clients -> Seq(AnswerRec)]
<1>1. outbox[c] \in Seq(AnswerRec) /\ outbox[c] # << >>
  BY DEF ReadsFromServer
<1>2. Tail(outbox[c]) \in Seq(AnswerRec)
  BY <1>1, HeadTailProperties
<1>3. QED
  BY <1>2 DEF ReadsFromServer

\* What a handler reads first is a message.
LEMMA FirstMessage ==
  ASSUME inbox \in [Clients -> Seq(MessageRec)], NEW c \in Clients, inbox[c] # << >>
  PROVE  inbox[c][1] \in MessageRec
<1>1. inbox[c] \in Seq(MessageRec) /\ Len(inbox[c]) >= 1
  BY EmptySeq
<1>2. QED
  BY <1>1, ElementOfSeq

\* An id, or an id that a command has run into.
LEMMA ReceivedIdType ==
  ASSUME inbox \in [Clients -> Seq(MessageRec)], NEW c \in Clients, NEW k \in Nat,
         Received(c, k), k <= 2
  PROVE  ReceivedId(c, k) \in Names
<1>1. inbox[c] \in Seq(MessageRec) /\ k \in 1 .. Len(inbox[c]) /\ (k = 1 \/ k = 2)
  BY DEF Received
<1>2. inbox[c][1] \in MessageRec
  BY <1>1, ElementOfSeq
<1>3. CASE k = 1
  BY <1>2, <1>3 DEF ReceivedId, MessageRec, Names
<1>4. CASE k = 2
  <2>1. inbox[c][2] \in MessageRec
    BY <1>1, <1>4, ElementOfSeq
  <2>2. /\ inbox[c][1].id \in Plain
        /\ inbox[c][2].cmd \in Commands \cup {"id", "port"}
    BY <1>2, <2>1 DEF MessageRec
  <2> DEFINE l == <<inbox[c][1].id, inbox[c][2].cmd>>
  <2>3. ReceivedId(c, k) = Joined(l)
    <3>1. k # 1 /\ l[1] = inbox[c][1].id /\ l[2] = inbox[c][2].cmd
      BY <1>4
    <3> HIDE DEF l
    <3>2. QED
      BY <3>1, Zenon DEF ReceivedId, Joined
  <2>4. l \in Plain \X (Commands \cup {"id", "port"})
    BY <2>2
  <2> HIDE DEF l
  <2>5. QED
    BY <2>3, <2>4, Zenon DEF Names
<1>5. QED
  BY <1>1, <1>3, <1>4

\* A handler goes on with another step.
LEMMA GotoIs ==
  ASSUME handler \in [Clients -> HandlerRec], NEW c \in Clients,
         NEW pc \in HandlerStates, Goto(c, pc)
  PROVE  /\ handler' \in [Clients -> HandlerRec]
         /\ handler'[c].pc = pc /\ handler'[c].id = handler[c].id
         /\ \A d \in Clients \ {c} : handler'[d] = handler[d]
<1> DEFINE new == [handler[c] EXCEPT !.pc = pc]
<1>1. new \in HandlerRec /\ new.pc = pc /\ new.id = handler[c].id
  BY DEF HandlerRec
<1>2. handler' = [handler EXCEPT ![c] = new]
  BY DEF Goto
<1> HIDE DEF new
<1>3. QED
  BY <1>1, <1>2

-----------------------------------------------------------------------------
\* Nobody is connected and both arrays are empty.
LEMMA InitInd == Init => IndInv
<1> SUFFICES ASSUME Init PROVE IndInv
  OBVIOUS
<1> USE DEF Init, ServerInit, ClientInit
<1>1. NumClients \in Nat /\ NumClients >= 1 /\ Free \notin Clients
  BY IrcServerAssumption DEF Free, Clients
<1>2. NoHandler \in HandlerRec /\ NoHandler.pc = "none"
  BY <1>1 DEF NoHandler, HandlerRec, HandlerStates, Fds, Names, Plain
<1>3. /\ inbox \in [Clients -> Seq(MessageRec)]
      /\ outbox \in [Clients -> Seq(AnswerRec)]
  OBVIOUS
<1>4. /\ handler \in [Clients -> HandlerRec]
      /\ \A c \in Clients : handler[c].pc = "none"
  BY <1>2
<1>5. /\ clients \in [Slots -> ClientRec]
      /\ waiting_clients \in [Slots -> Names]
  BY <1>1 DEF ClientRec, Fds, Names, Plain
<1>6. client_count = 0 /\ waiting_count = 0 /\ client_mutex = Free /\ typed = 0
  OBVIOUS
<1>7. TypeOK
  BY <1>1, <1>4, <1>5, <1>6 DEF TypeOK, HandlerStates
<1>8. CountBounded
  <2>1. Seen = {}
    BY <1>4 DEF Seen
  <2>2. QED
    BY <1>6, <2>1, FS_EmptySet DEF CountBounded
<1>9. PortClaim /\ UniqueIds /\ WaitsOnce
  BY <1>4, <1>6 DEF PortClaim, UniqueIds, WaitsOnce
<1>10. QED
  BY <1>3, <1>4, <1>5, <1>6, <1>7, <1>8, <1>9 DEF IndInv, StateOK

\* What the clients do by themselves leaves the server's arrays alone.
LEMMA ClientKeeps ==
  ASSUME IndInv, UNCHANGED <<handler, client_mutex, lists>>,
         hungup' \subseteq Clients,
         inbox' \in [Clients -> Seq(MessageRec)], outbox' \in [Clients -> Seq(AnswerRec)],
         mode' \in [Clients -> {"off", "INFO", "WAIT", "CHAT"}],
         listening' \in [Clients -> SUBSET Nat], listener' \in [Clients -> SUBSET Nat],
         typed' \in Nat, caller' \subseteq Clients
  PROVE  IndInv'
BY DEF IndInv, StateOK, TypeOK, CountBounded, Seen, PortClaim, Waits, UniqueIds,
       WaitsOnce, lists

\* A command that a user types.
LEMMA TypingKeeps ==
  ASSUME IndInv, NEW c \in Clients,
         \/ TypeList(c) \/ TypeWait(c) \/ SendPort(c) \/ SendNoPort(c) \/ Interrupt(c)
         \/ \E id \in Ids : TypeConnect(c, id)
  PROVE  IndInv'
<1> USE DEF IndInv, StateOK, TypeOK
<1>1. UNCHANGED <<handler, client_mutex, lists, outbox, hungup, caller>>
  BY DEF TypeList, TypeWait, SendPort, SendNoPort, Interrupt, TypeConnect, serverOnly
<1>2. NewPort(c) \in Nat
  BY NewPortType
<1>3. inbox' \in [Clients -> Seq(MessageRec)]
  <2> DEFINE Cmds == Commands \cup {"id", "port"}
  <2>1. \A cmd \in Cmds, id \in Plain, port \in Nat : Message(cmd, id, port) \in MessageRec
    BY DEF Message, MessageRec
  <2>2. \/ inbox' = inbox
        \/ \E cmd \in Cmds, id \in Plain, port \in Nat : Sends(c, Message(cmd, id, port))
    BY <1>2
    DEF TypeList, TypeWait, SendPort, SendNoPort, Interrupt, TypeConnect, Commands, Plain
  <2>3. QED
    BY <2>1, <2>2, SendsType
<1>4. /\ typed' \in Nat
      /\ mode' \in [Clients -> {"off", "INFO", "WAIT", "CHAT"}]
  <2>1. typed' = typed \/ typed' = typed + 1
    BY DEF TypeList, TypeWait, SendPort, SendNoPort, Interrupt, TypeConnect, Types
  <2>2. mode' = mode \/ \E m \in {"INFO", "WAIT"} : mode' = [mode EXCEPT ![c] = m]
    BY DEF TypeList, TypeWait, SendPort, SendNoPort, Interrupt, TypeConnect
  <2>3. typed' \in Nat
    BY <2>1
  <2>4. mode' \in [Clients -> {"off", "INFO", "WAIT", "CHAT"}]
    BY <2>2
  <2>5. QED
    BY <2>3, <2>4
<1>5. /\ listening' \in [Clients -> SUBSET Nat]
      /\ listener' \in [Clients -> SUBSET Nat]
  <2>1. CASE Interrupt(c)
    <3>1. PICK left \in {{}, listening[c]} : listening' = [listening EXCEPT ![c] = left]
      BY <2>1 DEF Interrupt
    <3>2. \/ listener' = listener
          \/ listener' = [listener EXCEPT ![c] = {p \in listener[c] : \E q \in listener[c] : q > p}]
      BY <2>1 DEF Interrupt
    <3>3. QED
      BY <3>1, <3>2
  <2>2. CASE SendPort(c)
    <3> DEFINE more(ports) == ports \cup {NewPort(c)}
    <3>1. \/ UNCHANGED <<listening, listener>>
          \/ /\ listening' = [listening EXCEPT ![c] = more(listening[c])]
             /\ listener' = [listener EXCEPT ![c] = more(listener[c])]
      BY <2>2 DEF SendPort
    <3>2. /\ more(listening[c]) \in SUBSET Nat
          /\ more(listener[c]) \in SUBSET Nat
      BY <1>2
    <3> HIDE DEF more
    <3>3. QED
      BY <3>1, <3>2, ZenonT(30)
  <2>3. QED
    BY <2>1, <2>2 DEF TypeList, TypeWait, SendNoPort, TypeConnect
<1>6. QED
  BY <1>1, <1>3, <1>4, <1>5, ClientKeeps

\* A client calls a peer, ends a conversation or leaves.
LEMMA LeavingKeeps ==
  ASSUME IndInv, NEW c \in Clients,
         HandleConnect(c) \/ EndChat(c) \/ Quit(c) \/ ServerGone(c) \/ ExitTaken(c)
  PROVE  IndInv'
<1> USE DEF IndInv, StateOK, TypeOK
<1>1. UNCHANGED <<handler, client_mutex, lists, inbox, typed>>
  BY DEF HandleConnect, EndChat, Quit, ServerGone, ExitTaken, HangUp, serverOnly
<1>2. outbox' \in [Clients -> Seq(AnswerRec)]
  BY ReadsType DEF HandleConnect, EndChat, Quit, ServerGone, ExitTaken, serverOnly
<1>3. hungup' \subseteq Clients /\ caller' \subseteq Clients
  BY DEF HandleConnect, EndChat, Quit, ServerGone, ExitTaken, HangUp
<1>4. /\ mode' \in [Clients -> {"off", "INFO", "WAIT", "CHAT"}]
      /\ listening' \in [Clients -> SUBSET Nat]
      /\ listener' \in [Clients -> SUBSET Nat]
  <2>1. CASE HandleConnect(c)
    <3> DEFINE p == Head(outbox[c]).port
               d == PortOwner(p)
    <3>1. listener' = listener /\ listening' = [listening EXCEPT ![d] = @ \ {p}]
      BY <2>1 DEF HandleConnect, WaitForConnection
    <3>2. \E v \in {"CHAT", mode[c]} : \E w \in {"CHAT", [mode EXCEPT ![c] = v][d]} :
            mode' = [[mode EXCEPT ![c] = v] EXCEPT ![d] = w]
      BY <2>1, ZenonT(30) DEF HandleConnect
    <3> HIDE DEF d, p
    <3>3. mode' \in [Clients -> {"off", "INFO", "WAIT", "CHAT"}]
      BY <3>2
    <3>4. listening' \in [Clients -> SUBSET Nat]
      BY <3>1
    <3>5. QED
      BY <3>1, <3>3, <3>4
  <2>2. CASE EndChat(c) \/ HangUp(c)
    BY <2>2 DEF EndChat, HangUp
  <2>3. QED
    BY <2>1, <2>2 DEF Quit, ServerGone, ExitTaken
<1>5. QED
  BY <1>1, <1>2, <1>3, <1>4, ClientKeeps

-----------------------------------------------------------------------------
(***************************************************************************)
(* The steps of a handler.                                                 *)
(***************************************************************************)

\* The set of clients that have tried to register only grows.
LEMMA SeenGrows ==
  ASSUME \A c \in Clients : handler[c].pc \notin {"none", "accept", "register"} =>
           handler'[c].pc \notin {"none", "accept", "register"}
  PROVE  /\ Cardinality(Seen) <= Cardinality(Seen') /\ Cardinality(Seen') <= NumClients
         /\ Cardinality(Seen) \in Nat /\ Cardinality(Seen') \in Nat
         /\ IsFiniteSet(Seen) /\ IsFiniteSet(Seen')
<1>1. Seen \subseteq Seen' /\ Seen' \subseteq Clients
  BY DEF Seen
<1>2. IsFiniteSet(Clients) /\ Cardinality(Clients) = NumClients
  BY IrcServerAssumption, FS_Interval DEF Clients
<1>3. IsFiniteSet(Seen') /\ Cardinality(Seen') <= NumClients
  BY <1>1, <1>2, FS_Subset
<1>4. IsFiniteSet(Seen) /\ Cardinality(Seen) <= Cardinality(Seen')
  BY <1>1, <1>3, FS_Subset
<1>5. QED
  BY <1>3, <1>4, FS_CardinalityType

\* A step outside the critical section of /wait that leaves the arrays alone.
LEMMA QuietStepKeeps ==
  ASSUME IndInv, NEW c \in Clients,
         handler' \in [Clients -> HandlerRec],
         \A d \in Clients \ {c} : handler'[d] = handler[d],
         handler[c].pc # "port", handler'[c].pc # "port",
         handler[c].pc \notin {"none", "accept", "register"} =>
           handler'[c].pc \notin {"none", "accept", "register"},
         UNCHANGED <<client_mutex, lists, hungup>>, UNCHANGED ircClientVars \/
           (mode' \in [Clients -> {"off", "INFO", "WAIT", "CHAT"}]
            /\ UNCHANGED <<listening, listener, typed, caller>>),
         inbox' \in [Clients -> Seq(MessageRec)], outbox' \in [Clients -> Seq(AnswerRec)]
  PROVE  IndInv'
<1> USE DEF IndInv, lists, ircClientVars
<1>1. \A d \in Clients : handler'[d].pc \in HandlerStates
  BY DEF HandlerRec
<1>2. StateOK'
  BY <1>1 DEF StateOK, TypeOK
<1>3. CountBounded'
  <2>1. Cardinality(Seen) <= Cardinality(Seen')
        /\ Cardinality(Seen) \in Nat /\ Cardinality(Seen') \in Nat
    BY SeenGrows
  <2>2. client_count' = client_count /\ client_count \in Int
    BY DEF StateOK, TypeOK
  <2>3. QED
    BY <2>1, <2>2 DEF CountBounded
<1>4. PortClaim' /\ UniqueIds' /\ WaitsOnce'
  BY ZenonT(30) DEF PortClaim, Waits, UniqueIds, WaitsOnce
<1>5. QED
  BY <1>2, <1>3, <1>4

\* A client connects.
LEMMA StartKeeps ==
  ASSUME IndInv, NEW c \in Clients, NEW id \in Ids, Start(c, id)
  PROVE  IndInv'
<1>1. handler \in [Clients -> HandlerRec]
  BY DEF IndInv, StateOK
<1>2. Goto(c, "accept") /\ "accept" \in HandlerStates
  BY DEF Start, Goto, HandlerStates
<1>3. /\ handler' \in [Clients -> HandlerRec]
      /\ handler'[c].pc = "accept"
      /\ \A d \in Clients \ {c} : handler'[d] = handler[d]
  BY <1>1, <1>2, GotoIs
<1>4. Message("id", id, 0) \in MessageRec
  BY DEF Message, MessageRec, Plain
<1>5. inbox' \in [Clients -> Seq(MessageRec)]
  BY <1>4, SendsType DEF Start, IndInv, StateOK
<1>6. mode' \in [Clients -> {"off", "INFO", "WAIT", "CHAT"}]
  BY DEF Start, IndInv, StateOK, TypeOK
<1>7. /\ UNCHANGED <<client_mutex, lists, hungup, listening, listener, typed, caller, outbox>>
      /\ handler[c].pc = "none"
  BY DEF Start, serverOnly
<1>8. outbox' \in [Clients -> Seq(AnswerRec)]
  BY <1>7 DEF IndInv, StateOK
<1>9. QED
  BY <1>3, <1>5, <1>6, <1>7, <1>8, QuietStepKeeps

\* accept() and the commands that change no array.
LEMMA QuietHandlerKeeps ==
  ASSUME IndInv, NEW c \in Clients, UNCHANGED ircClientVars,
         \/ AcceptClient(c) \/ Disconnect(c) \/ ListPeek(c) \/ ListAll(c) \/ WaitRefused(c)
         \/ \E k \in 1 .. MaxCoalesced : RecvCommand(c, k) \/ RecvBadPrompt(c, k)
  PROVE  IndInv'
<1>1. /\ handler \in [Clients -> HandlerRec] /\ handler[c] \in HandlerRec
      /\ inbox \in [Clients -> Seq(MessageRec)]
      /\ outbox \in [Clients -> Seq(AnswerRec)]
  BY DEF IndInv, StateOK
<1>2. /\ UNCHANGED <<client_mutex, lists, hungup, outbox>>
      /\ handler[c].pc \in {"accept", "recv", "peek", "list", "wait"}
  BY DEF AcceptClient, Disconnect, ListPeek, ListAll, WaitRefused, RecvCommand, RecvBadPrompt
<1>3. inbox' \in [Clients -> Seq(MessageRec)]
  <2>1. inbox' = inbox \/ \E k \in Nat : inbox' = Rest(c, k)
    BY IrcServerAssumption
    DEF AcceptClient, Disconnect, ListPeek, ListAll, WaitRefused, RecvCommand, RecvBadPrompt
  <2>2. QED
    BY <1>1, <2>1, RestType
<1>4. \E h \in HandlerRec :
        /\ handler' = [handler EXCEPT ![c] = h]
        /\ h.pc # "port"
        /\ handler[c].pc # "accept" => h.pc \notin {"none", "accept", "register"}
  <2>1. CASE AcceptClient(c)
    <3>1. PICK fd \in 0 .. NumClients :
            handler' = [handler EXCEPT ![c].pc = "register", ![c].open = TRUE, ![c].fd = fd]
      BY <1>1, <2>1, FreeDescriptor DEF AcceptClient
    <3> DEFINE h == [handler[c] EXCEPT !.pc = "register", !.open = TRUE, !.fd = fd]
    <3>2. handler' = [handler EXCEPT ![c] = h]
      BY <3>1
    <3>3. h \in HandlerRec /\ h.pc = "register"
      <4>1. fd \in Fds
        BY IrcServerAssumption DEF Fds
      <4>2. QED
        BY <1>1, <4>1 DEF HandlerRec, HandlerStates
    <3>4. handler[c].pc = "accept"
      BY <2>1, Zenon DEF AcceptClient
    <3>5. QED
      BY <3>2, <3>3, <3>4
  <2>2. CASE Disconnect(c)
    <3> DEFINE h == [handler[c] EXCEPT !.pc = "remove", !.open = FALSE]
    <3>1. handler' = [handler EXCEPT ![c] = h]
      BY <2>2 DEF Disconnect
    <3>2. h \in HandlerRec /\ h.pc = "remove"
      BY <1>1 DEF HandlerRec, HandlerStates
    <3>3. QED
      BY <3>1, <3>2
  <2>3. CASE ListPeek(c) \/ ListAll(c) \/ WaitRefused(c)
    <3>1. PICK pc \in {"recv", "list"} : handler' = [handler EXCEPT ![c].pc = pc]
      BY <2>3 DEF ListPeek, ListAll, WaitRefused, Goto
    <3> DEFINE h == [handler[c] EXCEPT !.pc = pc]
    <3>2. handler' = [handler EXCEPT ![c] = h]
      BY <3>1
    <3>3. h \in HandlerRec /\ h.pc = pc
      BY <1>1 DEF HandlerRec, HandlerStates
    <3>4. QED
      BY <3>2, <3>3
  <2>4. ASSUME NEW k \in 1 .. MaxCoalesced, RecvCommand(c, k)
        PROVE  \E h \in HandlerRec :
                 /\ handler' = [handler EXCEPT ![c] = h]
                 /\ h.pc # "port"
                 /\ handler[c].pc # "accept" => h.pc \notin {"none", "accept", "register"}
    <3> DEFINE m   == inbox[c][1]
               arg == IF k = 1 THEN m.id ELSE NoId
               h   == [handler[c] EXCEPT !.pc = FirstStep(m.cmd), !.arg = arg]
    <3>1. inbox[c] # << >>
      <4>1. Received(c, k)
        BY <2>4, Zenon DEF RecvCommand
      <4>2. QED
        BY <1>1, <4>1 DEF Received
    <3>2. m \in MessageRec
      BY <1>1, <3>1, FirstMessage
    <3>3. m.cmd \in Commands /\ handler' = [handler EXCEPT ![c] = h]
      BY <2>4 DEF RecvCommand
    <3>4. FirstStep(m.cmd) \in {"peek", "wait", "connect", "stop_wait"}
      BY <3>3 DEF FirstStep, Commands
    <3>5. arg \in Names
      BY <3>2 DEF MessageRec, Names, Plain
    <3> HIDE DEF arg, m
    <3>6. h \in HandlerRec /\ h.pc = FirstStep(m.cmd)
      BY <1>1, <3>4, <3>5 DEF HandlerRec, HandlerStates
    <3>7. QED
      BY <3>3, <3>4, <3>6
  <2>5. ASSUME NEW k \in 1 .. MaxCoalesced, RecvBadPrompt(c, k)
        PROVE  handler' = [handler EXCEPT ![c] = handler[c]] /\ handler[c].pc = "recv"
    BY <1>1, <2>5 DEF RecvBadPrompt
  <2>6. QED
    BY <1>1, <2>1, <2>2, <2>3, <2>4, <2>5
<1>5. PICK h \in HandlerRec :
        /\ handler' = [handler EXCEPT ![c] = h]
        /\ h.pc # "port"
        /\ handler[c].pc # "accept" => h.pc \notin {"none", "accept", "register"}
  BY <1>4
<1>6. /\ handler' \in [Clients -> HandlerRec]
      /\ handler'[c] = h
      /\ \A d \in Clients \ {c} : handler'[d] = handler[d]
  BY <1>1, <1>5
<1>7. outbox' \in [Clients -> Seq(AnswerRec)]
  BY <1>1, <1>2
<1>8. QED
  BY <1>2, <1>3, <1>5, <1>6, <1>7, QuietStepKeeps

\* No handler is between the two messages of /wait when the mutex is free.
LEMMA FreeMeansNoPort ==
  ASSUME StateOK, client_mutex = Free
  PROVE  \A d \in Clients : handler[d].pc # "port"
<1>1. Free \notin Clients
  BY IrcServerAssumption DEF Free, Clients
<1>2. QED
  BY <1>1 DEF StateOK, TypeOK

\* A client that registers finds a free slot, and takes an id that nobody has.
LEMMA RegisterKeeps ==
  ASSUME IndInv, NEW c \in Clients, UNCHANGED ircClientVars,
         NEW k \in 1 .. MaxCoalesced, Register(c, k)
  PROVE  IndInv'
<1> DEFINE id == ReceivedId(c, k)
           taken == [handler[c] EXCEPT !.pc = "gone", !.open = FALSE]
           new == [handler[c] EXCEPT !.pc = "recv", !.id = id]
           entry == [id |-> id, fd |-> handler[c].fd, port |-> NoPort]
<1>1. /\ handler \in [Clients -> HandlerRec] /\ handler[c] \in HandlerRec
      /\ inbox \in [Clients -> Seq(MessageRec)]
      /\ outbox \in [Clients -> Seq(AnswerRec)]
      /\ clients \in [Slots -> ClientRec]
      /\ client_count \in 0 .. NumClients
  BY DEF IndInv, StateOK, TypeOK
<1>2. /\ handler[c].pc = "register" /\ Received(c, k) /\ k <= 2 /\ client_mutex = Free
      /\ inbox' = Rest(c, k)
      /\ UNCHANGED <<hungup, client_mutex, waiting_clients, waiting_count>>
  BY DEF Register
<1>3. id \in Names /\ k \in Nat
  <2>1. k \in Nat
    BY IrcServerAssumption
  <2>2. QED
    BY <1>1, <1>2, <2>1, ReceivedIdType
<1>4. inbox' \in [Clients -> Seq(MessageRec)]
  BY <1>1, <1>2, <1>3, RestType
<1>5. CASE IdTaken(id)
  <2>1. /\ handler' = [handler EXCEPT ![c] = taken]
        /\ Tell(c, Say("taken", id, NoPort))
        /\ UNCHANGED lists
    BY <1>5 DEF Register, lists
  <2>2. taken \in HandlerRec /\ taken.pc = "gone"
    BY <1>1 DEF HandlerRec, HandlerStates
  <2> HIDE DEF taken
  <2>3. /\ handler' \in [Clients -> HandlerRec] /\ handler'[c].pc = "gone"
        /\ \A d \in Clients \ {c} : handler'[d] = handler[d]
    BY <1>1, <2>1, <2>2
  <2>4. outbox' \in [Clients -> Seq(AnswerRec)]
    <3> HIDE DEF id
    <3>1. Say("taken", id, NoPort) \in AnswerRec
      BY <1>3 DEF Say, NoPort, AnswerRec
    <3>2. QED
      BY <1>1, <2>1, <3>1, TellType
  <2>5. QED
    BY <1>2, <1>4, <2>1, <2>3, <2>4, QuietStepKeeps
<1>6. CASE ~IdTaken(id)
  <2>1. /\ handler' = [handler EXCEPT ![c] = new]
        /\ clients' = [clients EXCEPT ![client_count] = entry]
        /\ client_count' = client_count + 1
        /\ UNCHANGED outbox
    BY <1>6 DEF Register
  <2> HIDE DEF id
  <2>2. new \in HandlerRec /\ new.pc = "recv"
    BY <1>1, <1>3 DEF HandlerRec, HandlerStates
  <2>3. entry \in ClientRec /\ entry.id = id
    BY <1>1, <1>3 DEF ClientRec, HandlerRec, NoPort
  <2> HIDE DEF new, entry
  <2>4. /\ handler' \in [Clients -> HandlerRec] /\ handler'[c].pc = "recv"
        /\ \A d \in Clients \ {c} : handler'[d] = handler[d]
    BY <1>1, <2>1, <2>2
  <2>5. client_count' <= Cardinality(Seen') /\ Cardinality(Seen') <= NumClients
        /\ Cardinality(Seen') \in Nat
    <3>1. /\ IsFiniteSet(Seen) /\ Cardinality(Seen) \in Nat /\ Cardinality(Seen') \in Nat
          /\ Cardinality(Seen') <= NumClients
      BY <1>2, <2>4, SeenGrows
    <3>2. Seen' = Seen \cup {c} /\ c \notin Seen
      BY <1>2, <2>4 DEF Seen
    <3>3. Cardinality(Seen') = Cardinality(Seen) + 1
      BY <3>1, <3>2, FS_AddElement
    <3>4. client_count <= Cardinality(Seen)
      BY DEF IndInv, CountBounded
    <3>5. QED
      BY <1>1, <2>1, <3>1, <3>3, <3>4
  <2>6. client_count \in Slots /\ client_count' \in 0 .. NumClients
    BY <1>1, <2>1, <2>5, IrcServerAssumption DEF Slots
  <2>7. clients' \in [Slots -> ClientRec]
        /\ clients'[client_count].id = id
        /\ \A j \in Slots \ {client_count} : clients'[j] = clients[j]
    BY <1>1, <2>1, <2>3, <2>6
  <2>8. StateOK'
    <3>1. \A d \in Clients : handler'[d].pc \in HandlerStates
      BY <2>4 DEF HandlerRec
    <3>2. QED
      BY <1>2, <1>4, <2>1, <2>4, <2>6, <2>7, <3>1 DEF IndInv, StateOK, TypeOK, ircClientVars
  <2>9. CountBounded'
    BY <2>5 DEF CountBounded
  <2>10. PortClaim' /\ WaitsOnce'
    BY <1>2, <2>4 DEF IndInv, PortClaim, Waits, WaitsOnce
  <2>11. UniqueIds'
    <3>1. \A j \in 0 .. client_count - 1 : j \in Slots /\ j # client_count /\ clients[j].id # id
      BY <1>1, <1>6, IrcServerAssumption DEF IdTaken, Slots
    <3>2. \A j \in 0 .. client_count' - 1 : j = client_count \/ j \in 0 .. client_count - 1
      BY <1>1, <2>1
    <3>3. QED
      BY <2>7, <3>1, <3>2 DEF IndInv, UniqueIds
  <2>12. QED
    BY <2>8, <2>9, <2>10, <2>11 DEF IndInv
<1>7. QED
  BY <1>5, <1>6

\* The last entry moves into the place of the one that goes.
LEMMA RemoveClientKeeps ==
  ASSUME IndInv, NEW c \in Clients, UNCHANGED ircClientVars, RemoveClient(c)
  PROVE  IndInv'
<1> DEFINE mine == {k \in 0 .. client_count - 1 : clients[k].fd = handler[c].fd}
<1>1. /\ handler \in [Clients -> HandlerRec]
      /\ clients \in [Slots -> ClientRec]
      /\ client_count \in 0 .. NumClients
  BY DEF IndInv, StateOK, TypeOK
<1>2. /\ handler[c].pc = "remove" /\ client_mutex = Free /\ Goto(c, "gone")
      /\ UNCHANGED <<inbox, hungup, client_mutex, waiting_clients, waiting_count, outbox>>
  BY DEF RemoveClient
<1>3. /\ handler' \in [Clients -> HandlerRec] /\ handler'[c].pc = "gone"
      /\ \A d \in Clients \ {c} : handler'[d] = handler[d]
  BY <1>1, <1>2, GotoIs DEF HandlerStates
<1>4. CASE mine = {}
  <2>1. UNCHANGED lists
    BY <1>2, <1>4 DEF RemoveClient, lists
  <2>2. inbox' \in [Clients -> Seq(MessageRec)] /\ outbox' \in [Clients -> Seq(AnswerRec)]
    BY <1>2 DEF IndInv, StateOK
  <2>3. QED
    BY <1>2, <1>3, <2>1, <2>2, QuietStepKeeps
<1>5. CASE mine # {}
  <2>1. PICK k \in mine : clients' = [clients EXCEPT ![k] = clients[client_count - 1]]
    BY <1>5 DEF RemoveClient
  <2>2. client_count' = client_count - 1
    BY <1>5 DEF RemoveClient
  <2>3. k \in 0 .. client_count - 1 /\ k \in Slots /\ client_count - 1 \in Slots
        /\ client_count' \in 0 .. NumClients
    BY <1>1, <2>1, <2>2, IrcServerAssumption DEF Slots
  <2> HIDE DEF mine
  <2>4. /\ clients' \in [Slots -> ClientRec]
        /\ clients'[k] = clients[client_count - 1]
        /\ \A j \in Slots \ {k} : clients'[j] = clients[j]
    BY <1>1, <2>1, <2>3
  <2>5. StateOK'
    <3>1. \A d \in Clients : handler'[d].pc \in HandlerStates
      BY <1>3 DEF HandlerRec
    <3>2. QED
      BY <1>2, <1>3, <2>3, <2>4, <3>1 DEF IndInv, StateOK, TypeOK, ircClientVars
  <2>6. CountBounded'
    <3>1. Cardinality(Seen) <= Cardinality(Seen')
          /\ Cardinality(Seen) \in Nat /\ Cardinality(Seen') \in Nat
      BY <1>2, <1>3, SeenGrows
    <3>2. QED
      BY <1>1, <2>2, <3>1 DEF IndInv, CountBounded
  <2>7. PortClaim' /\ WaitsOnce'
    BY <1>2, <1>3 DEF IndInv, PortClaim, Waits, WaitsOnce
  <2>8. UniqueIds'
    <3> SUFFICES ASSUME NEW i \in 0 .. client_count' - 1, NEW j \in 0 .. client_count' - 1,
                        clients'[i].id = clients'[j].id
                 PROVE  i = j
      BY DEF UniqueIds
    <3> DEFINE from(m) == IF m = k THEN client_count - 1 ELSE m
    <3>1. /\ from(i) \in 0 .. client_count - 1 /\ from(j) \in 0 .. client_count - 1
          /\ i \in Slots /\ j \in Slots
      BY <1>1, <2>2, IrcServerAssumption DEF Slots
    <3>2. clients'[i] = clients[from(i)] /\ clients'[j] = clients[from(j)]
      BY <2>4, <3>1
    <3>3. from(i) = from(j)
      BY <3>1, <3>2 DEF IndInv, UniqueIds
    <3>4. i # client_count - 1 /\ j # client_count - 1
      BY <1>1, <2>2
    <3>5. QED
      BY <3>3, <3>4
  <2>9. QED
    BY <2>5, <2>6, <2>7, <2>8 DEF IndInv
<1>6. QED
  BY <1>4, <1>5

\* A step that leaves clients[] alone and takes nobody off the list of those seen.
LEMMA CountKept ==
  ASSUME IndInv, NEW c \in Clients, client_count' = client_count,
         handler[c].pc \notin {"none", "accept", "register"},
         handler'[c].pc \notin {"none", "accept", "register"},
         \A d \in Clients \ {c} : handler'[d] = handler[d]
  PROVE  CountBounded'
<1>1. Cardinality(Seen) <= Cardinality(Seen')
      /\ Cardinality(Seen) \in Nat /\ Cardinality(Seen') \in Nat
  BY SeenGrows
<1>2. client_count \in Int
  BY DEF IndInv, StateOK, TypeOK
<1>3. QED
  BY <1>1, <1>2 DEF IndInv, CountBounded

\* /wait takes the mutex and keeps it.
LEMMA WaitLockKeeps ==
  ASSUME IndInv, NEW c \in Clients, UNCHANGED ircClientVars, WaitLock(c)
  PROVE  IndInv'
<1>1. handler \in [Clients -> HandlerRec]
  BY DEF IndInv, StateOK
<1>2. /\ handler[c].pc = "wait" /\ client_mutex = Free /\ client_mutex' = c
      /\ ~Waits(handler[c].id) /\ Goto(c, "port")
      /\ UNCHANGED <<inbox, hungup, lists, outbox>>
  BY DEF WaitLock
<1>3. /\ handler' \in [Clients -> HandlerRec]
      /\ handler'[c].pc = "port" /\ handler'[c].id = handler[c].id
      /\ \A d \in Clients \ {c} : handler'[d] = handler[d]
  BY <1>1, <1>2, GotoIs DEF HandlerStates
<1>4. \A d \in Clients : handler[d].pc # "port"
  BY <1>2, FreeMeansNoPort DEF IndInv
<1>5. StateOK'
  <2>1. \A d \in Clients : handler'[d].pc \in HandlerStates
    BY <1>3 DEF HandlerRec
  <2>2. \A d \in Clients : handler'[d].pc = "port" <=> client_mutex' = d
    BY <1>2, <1>3, <1>4
  <2>3. QED
    BY <1>2, <1>3, <2>1, <2>2 DEF IndInv, StateOK, TypeOK, lists, ircClientVars
<1>6. CountBounded'
  BY <1>2, <1>3, CountKept DEF lists
<1>7. PortClaim'
  BY <1>2, <1>3, <1>4 DEF PortClaim, Waits, lists
<1>8. UniqueIds' /\ WaitsOnce'
  BY <1>2 DEF IndInv, UniqueIds, WaitsOnce, lists
<1>9. QED
  BY <1>5, <1>6, <1>7, <1>8 DEF IndInv

\* The port has come: the client joins the list, on which it is not yet.
LEMMA RecvPortKeeps ==
  ASSUME IndInv, NEW c \in Clients, UNCHANGED ircClientVars,
         NEW k \in 1 .. MaxCoalesced, RecvPort(c, k)
  PROVE  IndInv'
<1> DEFINE w == waiting_count
           entry == [clients[w] EXCEPT !.port = inbox[c][1].port]
<1>1. /\ handler \in [Clients -> HandlerRec]
      /\ inbox \in [Clients -> Seq(MessageRec)]
      /\ clients \in [Slots -> ClientRec]
      /\ waiting_clients \in [Slots -> Names]
      /\ client_count \in 0 .. NumClients
  BY DEF IndInv, StateOK, TypeOK
<1>2. /\ handler[c].pc = "port" /\ Received(c, k) /\ w \in Slots
      /\ waiting_clients' = [waiting_clients EXCEPT ![w] = handler[c].id]
      /\ clients' = [clients EXCEPT ![w] = entry]
      /\ waiting_count' = w + 1
      /\ client_mutex' = Free
      /\ inbox' = Rest(c, k)
      /\ Goto(c, "recv")
      /\ UNCHANGED <<hungup, client_count, outbox>>
  BY DEF RecvPort
<1>3. /\ handler' \in [Clients -> HandlerRec]
      /\ handler'[c].pc = "recv"
      /\ \A d \in Clients \ {c} : handler'[d] = handler[d]
  BY <1>1, <1>2, GotoIs DEF HandlerStates
<1>4. inbox[c][1] \in MessageRec
  <2>1. inbox[c] \in Seq(MessageRec)
    BY <1>1
  <2>2. inbox[c] # << >>
    BY <1>2, <2>1 DEF Received
  <2>3. QED
    BY <1>1, <2>2, FirstMessage
<1>5. entry \in ClientRec /\ entry.id = clients[w].id
  <2> DEFINE port == inbox[c][1].port
  <2>1. clients[w] \in ClientRec /\ port \in Int
    BY <1>1, <1>2, <1>4 DEF MessageRec
  <2> HIDE DEF port
  <2>2. /\ [clients[w] EXCEPT !.port = port] \in ClientRec
        /\ [clients[w] EXCEPT !.port = port].id = clients[w].id
    BY <2>1 DEF ClientRec
  <2>3. QED
    BY <2>2 DEF port
<1>6. inbox' \in [Clients -> Seq(MessageRec)]
  <2>1. k \in Nat
    BY IrcServerAssumption
  <2>2. QED
    BY <1>1, <1>2, <2>1, RestType
<1>7. handler[c].id \in Names /\ ~Waits(handler[c].id)
  BY <1>1, <1>2 DEF HandlerRec, IndInv, PortClaim
<1> HIDE DEF entry
<1>8. /\ clients' \in [Slots -> ClientRec]
      /\ \A j \in Slots : clients'[j].id = clients[j].id
      /\ waiting_clients' \in [Slots -> Names]
      /\ waiting_clients'[w] = handler[c].id
      /\ \A j \in Slots \ {w} : waiting_clients'[j] = waiting_clients[j]
      /\ waiting_count' \in Int /\ waiting_count' <= NumClients
  BY <1>1, <1>2, <1>5, <1>7, IrcServerAssumption DEF Slots
<1>9. \A d \in Clients : handler'[d].pc # "port"
  <2>1. \A d \in Clients \ {c} : handler[d].pc # "port"
    BY <1>2 DEF IndInv, StateOK, TypeOK
  <2>2. QED
    BY <1>3, <2>1
<1>10. StateOK'
  <2>1. \A d \in Clients : handler'[d].pc \in HandlerStates
    BY <1>3 DEF HandlerRec
  <2>2. Free \notin Clients
    BY IrcServerAssumption DEF Free, Clients
  <2>3. QED
    BY <1>2, <1>3, <1>6, <1>8, <1>9, <2>1, <2>2
    DEF IndInv, StateOK, TypeOK, ircClientVars
<1>11. CountBounded'
  BY <1>2, <1>3, CountKept
<1>12. PortClaim'
  BY <1>9 DEF PortClaim
<1>13. UniqueIds'
  <2>1. \A j \in 0 .. client_count - 1 : j \in Slots
    BY <1>1, IrcServerAssumption DEF Slots
  <2>2. QED
    BY <1>2, <1>8, <2>1 DEF IndInv, UniqueIds
<1>14. WaitsOnce'
  <2>1. \A j \in 0 .. w - 1 : j \in Slots /\ j # w /\ waiting_clients[j] # handler[c].id
    BY <1>2, <1>7, IrcServerAssumption DEF Slots, Waits
  <2>2. \A j \in 0 .. waiting_count' - 1 : j = w \/ j \in 0 .. w - 1
    BY <1>2 DEF Slots
  <2>3. QED
    BY <1>8, <2>1, <2>2 DEF IndInv, WaitsOnce
<1>15. QED
  BY <1>10, <1>11, <1>12, <1>13, <1>14 DEF IndInv

\* No port has come: the mutex is given back.
LEMMA RecvNoPortKeeps ==
  ASSUME IndInv, NEW c \in Clients, UNCHANGED ircClientVars,
         NEW k \in 1 .. MaxCoalesced, RecvNoPort(c, k)
  PROVE  IndInv'
<1>1. /\ handler \in [Clients -> HandlerRec]
      /\ inbox \in [Clients -> Seq(MessageRec)]
  BY DEF IndInv, StateOK
<1>2. /\ handler[c].pc = "port" /\ client_mutex' = Free /\ Goto(c, "recv")
      /\ inbox' = inbox \/ inbox' = Rest(c, k)
      /\ UNCHANGED <<hungup, lists, outbox>>
  BY DEF RecvNoPort
<1>3. /\ handler' \in [Clients -> HandlerRec]
      /\ handler'[c].pc = "recv"
      /\ \A d \in Clients \ {c} : handler'[d] = handler[d]
  BY <1>1, <1>2, GotoIs DEF HandlerStates
<1>4. inbox' \in [Clients -> Seq(MessageRec)]
  <2>1. k \in Nat
    BY IrcServerAssumption
  <2>2. QED
    BY <1>1, <1>2, <2>1, RestType
<1>5. \A d \in Clients : handler'[d].pc # "port"
  <2>1. \A d \in Clients \ {c} : handler[d].pc # "port"
    BY <1>2 DEF IndInv, StateOK, TypeOK
  <2>2. QED
    BY <1>3, <2>1
<1>6. StateOK'
  <2>1. \A d \in Clients : handler'[d].pc \in HandlerStates
    BY <1>3 DEF HandlerRec
  <2>2. Free \notin Clients
    BY IrcServerAssumption DEF Free, Clients
  <2>3. QED
    BY <1>2, <1>3, <1>4, <1>5, <2>1, <2>2
    DEF IndInv, StateOK, TypeOK, lists, ircClientVars
<1>7. CountBounded'
  BY <1>2, <1>3, CountKept DEF lists
<1>8. PortClaim' /\ UniqueIds' /\ WaitsOnce'
  BY <1>2, <1>5 DEF IndInv, PortClaim, UniqueIds, WaitsOnce, lists
<1>9. QED
  BY <1>6, <1>7, <1>8 DEF IndInv

\* Whatever entry is taken out, the others stay different from one another.
LEMMA WithoutKeeps ==
  ASSUME waiting_clients \in [Slots -> Names], waiting_count \in Int,
         waiting_count <= NumClients, WaitsOnce, NEW k \in Nat,
         waiting_clients' = Without(k), waiting_count' = waiting_count - 1
  PROVE  waiting_clients' \in [Slots -> Names] /\ WaitsOnce'
<1> DEFINE from(i) == IF i \in k .. waiting_count - 2 THEN i + 1 ELSE i
<1>1. NumClients \in Nat
  BY IrcServerAssumption
<1>2. \A i \in Slots : from(i) \in Slots /\ waiting_clients'[i] = waiting_clients[from(i)]
  BY <1>1 DEF Without, Slots
<1>3. waiting_clients' \in [Slots -> Names]
  BY <1>2 DEF Without
<1>4. ASSUME NEW i \in 0 .. waiting_count' - 1, NEW j \in 0 .. waiting_count' - 1,
             waiting_clients'[i] = waiting_clients'[j]
      PROVE  i = j
  <2>1. /\ i \in Slots /\ j \in Slots
        /\ from(i) \in 0 .. waiting_count - 1 /\ from(j) \in 0 .. waiting_count - 1
    BY <1>1 DEF Slots
  <2>2. from(i) = from(j)
    BY <1>2, <1>4, <2>1 DEF WaitsOnce
  <2>3. QED
    BY <2>2
<1>5. QED
  BY <1>3, <1>4 DEF WaitsOnce

\* A client is taken off the list, by /connect or by /stop_wait.
LEMMA UnlistKeeps ==
  ASSUME IndInv, NEW c \in Clients, UNCHANGED ircClientVars,
         ConnectTo(c) \/ StopWait(c)
  PROVE  IndInv'
<1>1. /\ handler \in [Clients -> HandlerRec]
      /\ clients \in [Slots -> ClientRec]
      /\ outbox \in [Clients -> Seq(AnswerRec)]
      /\ waiting_clients \in [Slots -> Names]
      /\ waiting_count \in Int /\ waiting_count <= NumClients
      /\ NumClients \in Nat
  BY IrcServerAssumption DEF IndInv, StateOK, TypeOK
<1>2. /\ handler[c].pc \in {"connect", "stop_wait"} /\ client_mutex = Free
      /\ Goto(c, "recv")
      /\ UNCHANGED <<inbox, hungup, client_mutex, clients, client_count>>
  BY DEF ConnectTo, StopWait
<1>3. /\ handler' \in [Clients -> HandlerRec]
      /\ handler'[c].pc = "recv"
      /\ \A d \in Clients \ {c} : handler'[d] = handler[d]
  BY <1>1, <1>2, GotoIs DEF HandlerStates
<1>4. \A d \in Clients : handler'[d].pc # "port"
  <2>1. \A d \in Clients : handler[d].pc # "port"
    BY <1>2, FreeMeansNoPort DEF IndInv
  <2>2. QED
    BY <1>3, <2>1
<1>5. \/ UNCHANGED <<waiting_clients, waiting_count>>
      \/ /\ waiting_count' = waiting_count - 1
         /\ \E k \in Nat : waiting_clients' = Without(k)
  <2>1. \A id : Waits(id) => FirstWaiting(id) \in Nat
    BY <1>1, FirstWaitingIs
  <2>2. CASE ConnectTo(c)
    BY <2>1, <2>2 DEF ConnectTo
  <2>3. CASE StopWait(c)
    <3>1. UninitIndexes \subseteq Nat
      BY IrcServerAssumption
    <3>2. QED
      BY <2>1, <2>3, <3>1 DEF StopWait
  <2>4. QED
    BY <2>2, <2>3
<1>6. /\ waiting_clients' \in [Slots -> Names]
      /\ waiting_count' \in Int /\ waiting_count' <= NumClients
      /\ WaitsOnce'
  <2>1. CASE UNCHANGED <<waiting_clients, waiting_count>>
    BY <1>1, <2>1 DEF IndInv, WaitsOnce
  <2>2. ASSUME waiting_count' = waiting_count - 1, NEW k \in Nat, waiting_clients' = Without(k)
        PROVE  waiting_clients' \in [Slots -> Names] /\ WaitsOnce'
    BY <1>1, <2>2, WithoutKeeps DEF IndInv
  <2>3. QED
    BY <1>1, <1>5, <2>1, <2>2
<1>7. outbox' \in [Clients -> Seq(AnswerRec)]
  <2>1. CASE outbox' = outbox
    BY <1>1, <2>1
  <2>2. ASSUME ConnectTo(c), Waits(handler[c].arg)
        PROVE  outbox' \in [Clients -> Seq(AnswerRec)]
    <3> DEFINE k == FirstWaiting(handler[c].arg)
               m == Say("CONNECT", handler[c].arg, clients[k].port)
    <3>1. Tell(c, m)
      BY <2>2 DEF ConnectTo
    <3>2. k \in 0 .. waiting_count - 1
      BY <1>1, <2>2, FirstWaitingIs
    <3> HIDE DEF k
    <3>3. k \in Slots
      BY <1>1, <3>2 DEF Slots
    <3>4. clients[k].port \in Int /\ handler[c].arg \in Names
      BY <1>1, <3>3 DEF ClientRec, HandlerRec
    <3>5. m \in AnswerRec
      BY <3>4 DEF Say, AnswerRec
    <3>6. QED
      BY <1>1, <3>1, <3>5, TellType
  <2>3. QED
    BY <2>1, <2>2 DEF ConnectTo, StopWait
<1>8. StateOK'
  <2>1. \A d \in Clients : handler'[d].pc \in HandlerStates
    BY <1>3 DEF HandlerRec
  <2>2. Free \notin Clients
    BY IrcServerAssumption DEF Free, Clients
  <2>3. QED
    BY <1>2, <1>3, <1>4, <1>6, <1>7, <2>1, <2>2
    DEF IndInv, StateOK, TypeOK, ircClientVars
<1>9. CountBounded'
  BY <1>2, <1>3, CountKept
<1>10. PortClaim' /\ UniqueIds'
  BY <1>2, <1>4 DEF IndInv, PortClaim, UniqueIds
<1>11. QED
  BY <1>6, <1>8, <1>9, <1>10 DEF IndInv

\* The end of the server ends every handler and frees the mutex.
LEMMA KilledBySendKeeps ==
  ASSUME IndInv, NEW c \in Clients, UNCHANGED ircClientVars, KilledBySend(c)
  PROVE  IndInv'
<1> DEFINE after(d) == IF handler[d].pc = "none" THEN handler[d]
                       ELSE [handler[d] EXCEPT !.pc = "killed", !.open = FALSE]
<1>1. /\ handler \in [Clients -> HandlerRec]
      /\ client_count \in Int
  BY DEF IndInv, StateOK, TypeOK
<1>2. /\ handler' = [d \in Clients |-> after(d)]
      /\ client_mutex' = Free
      /\ inbox' = [d \in Clients |-> << >>]
      /\ UNCHANGED <<hungup, lists, outbox>>
  BY DEF KilledBySend
<1>3. ASSUME NEW d \in Clients
      PROVE  /\ after(d) \in HandlerRec
             /\ handler[d].pc = "none" => after(d).pc = "none"
             /\ handler[d].pc # "none" => after(d).pc = "killed"
  <2>1. handler[d] \in HandlerRec
    BY <1>1
  <2>2. QED
    BY <2>1 DEF HandlerRec, HandlerStates
<1> HIDE DEF after
<1>4. /\ handler' \in [Clients -> HandlerRec]
      /\ \A d \in Clients : /\ handler[d].pc = "none" => handler'[d].pc = "none"
                            /\ handler[d].pc # "none" => handler'[d].pc = "killed"
  BY <1>2, <1>3
<1>5. \A d \in Clients : handler'[d].pc # "port"
  BY <1>4
<1>6. inbox' \in [Clients -> Seq(MessageRec)]
  BY <1>2
<1>7. StateOK'
  <2>1. \A d \in Clients : handler'[d].pc \in HandlerStates
    BY <1>4 DEF HandlerRec
  <2>2. Free \notin Clients
    BY IrcServerAssumption DEF Free, Clients
  <2>3. QED
    BY <1>2, <1>4, <1>5, <1>6, <2>1, <2>2
    DEF IndInv, StateOK, TypeOK, lists, ircClientVars
<1>8. CountBounded'
  <2>1. Cardinality(Seen) <= Cardinality(Seen')
        /\ Cardinality(Seen) \in Nat /\ Cardinality(Seen') \in Nat
    BY <1>4, SeenGrows
  <2>2. QED
    BY <1>1, <1>2, <2>1 DEF IndInv, CountBounded, lists
<1>9. PortClaim' /\ UniqueIds' /\ WaitsOnce'
  BY <1>2, <1>5 DEF IndInv, PortClaim, UniqueIds, WaitsOnce, lists
<1>10. QED
  BY <1>7, <1>8, <1>9 DEF IndInv

-----------------------------------------------------------------------------
\* Every step of the server and of its clients keeps the arrays consistent.
LEMMA NextInd == IndInv /\ [Next]_vars => IndInv'
<1> SUFFICES ASSUME IndInv, [Next]_vars PROVE IndInv'
  OBVIOUS
<1>1. ASSUME NEW c \in Clients, UserStep(c) PROVE IndInv'
  BY <1>1, StartKeeps, TypingKeeps, LeavingKeeps DEF UserStep
<1>2. ASSUME NEW c \in Clients, ProgramStep(c) PROVE IndInv'
  BY <1>2, TypingKeeps, LeavingKeeps DEF ProgramStep
<1>3. ASSUME NEW c \in Clients, ServerThread(c) PROVE IndInv'
  BY <1>3, QuietHandlerKeeps, RegisterKeeps, RemoveClientKeeps, WaitLockKeeps,
     RecvPortKeeps, RecvNoPortKeeps, UnlistKeeps, KilledBySendKeeps
  DEF ServerThread, HandlerStep
<1>4. CASE UNCHANGED vars
  BY <1>4
  DEF vars, ircServerVars, ircClientVars, IndInv, StateOK, TypeOK, CountBounded, Seen,
      PortClaim, Waits, UniqueIds, WaitsOnce
<1>5. QED
  BY <1>1, <1>2, <1>3, <1>4 DEF Next

(***************************************************************************)
(* The variables keep their types: clients[] never overflows, and the      *)
(* mutex is held between steps by a handler that waits for a port and by   *)
(* no other (irc/server.c:57-62, 114-142).                                 *)
(***************************************************************************)
THEOREM TypeCorrect == Spec => []TypeOK
<1>1. IndInv => TypeOK
  BY DEF IndInv, StateOK
<1>2. QED
  BY <1>1, InitInd, NextInd, PTL DEF Spec

(***************************************************************************)
(* No two registered clients have the same id, however many handlers       *)
(* register and remove at once (irc/server.c:45-62, 78-86).                *)
(***************************************************************************)
THEOREM IdsStayUnique == Spec => []UniqueIds
<1>1. IndInv => UniqueIds
  BY DEF IndInv
<1>2. QED
  BY <1>1, InitInd, NextInd, PTL DEF Spec

(***************************************************************************)
(* No id waits twice, whatever index a /stop_wait takes out                *)
(* (irc/server.c:113-121, 184-199).                                        *)
(***************************************************************************)
THEOREM WaitingStaysUnique == Spec => []WaitsOnce
<1>1. IndInv => WaitsOnce
  BY DEF IndInv
<1>2. QED
  BY <1>1, InitInd, NextInd, PTL DEF Spec
=============================================================================

------------------------------- MODULE IrcServer -------------------------------
(***************************************************************************)
(* The IRC server (irc/server.c): one handler thread per client, and two   *)
(* arrays that the handlers share under client_mutex: the clients, and the *)
(* ids of the clients that wait for a peer.                                *)
(*                                                                         *)
(* A step is a critical section, or a recv.  The one critical section that *)
(* is not a single step is that of /wait, which holds client_mutex across  *)
(* a recv.  A recv returns one or, the stream having no boundaries,        *)
(* several of the client's messages run together; the handler understands  *)
(* the first one and drops the rest.                                       *)
(***************************************************************************)
EXTENDS Integers, Sequences

CONSTANTS
  NumClients,    \* the sessions of a behaviour; below MAX_CLIENTS = MAX_WAITING
  Ids,           \* the ids that clients may register with
  MaxCoalesced,  \* BOUND: how many messages one recv may return
  UninitIndexes  \* what the uninitialised target_index of /stop_wait may hold

Clients == 1 .. NumClients

ASSUME IrcServerAssumption ==
  /\ NumClients \in Nat \ {0}
  /\ MaxCoalesced \in Nat \ {0}
  /\ UninitIndexes \subseteq Nat

NoId == ""

ASSUME IdsAssumption == NoId \notin Ids

VARIABLES
  inbox,          \* inbox[c]: what client c has sent and the server not read
  hungup,         \* the clients that have closed their socket
  handler,        \* handler[c]: the handler thread of client c
  client_mutex,   \* its holder
  clients,        \* the array; entries from client_count on are leftovers
  client_count,
  waiting_clients,  \* the array of ids
  waiting_count,
  outbox          \* outbox[c]: what the server has sent and client c not read

ircServerVars == <<inbox, hungup, handler, client_mutex, clients, client_count,
                   waiting_clients, waiting_count, outbox>>

Free  == 0     \* no client holds the mutex
NoPort == -1

Slots == 0 .. NumClients - 1

\* What a client sends, with an id or a port.  Of the answers only those that
\* the client acts on are modelled, not those that it prints.
Message(cmd, id, port) == [cmd |-> cmd, id |-> id, port |-> port]
Say(kind, id, port) == [kind |-> kind, id |-> id, port |-> port]

HandlerStates ==
  {"none", "accept", "register", "recv", "peek", "list", "wait", "port",
   "connect", "stop_wait", "remove", "gone", "killed"}

\* fd: client_socket, open or not; id: client_id; arg: the operand of /connect.
NoHandler == [pc |-> "none", fd |-> -1, open |-> FALSE, id |-> NoId, arg |-> NoId]

ServerInit ==
  /\ inbox = [c \in Clients |-> << >>]
  /\ hungup = {}
  /\ handler = [c \in Clients |-> NoHandler]
  /\ client_mutex = Free
  /\ clients = [k \in Slots |-> [id |-> NoId, fd |-> -1, port |-> 0]]
  /\ client_count = 0
  /\ waiting_clients = [k \in Slots |-> NoId]
  /\ waiting_count = 0
  /\ outbox = [c \in Clients |-> << >>]

\* Handler c goes on with step pc.
Goto(c, pc) == handler' = [handler EXCEPT ![c].pc = pc]

Tell(c, message) == outbox' = [outbox EXCEPT ![c] = Append(@, message)]

lists == <<clients, client_count, waiting_clients, waiting_count>>

\* What one recv returns: k messages run together.
Received(c, k) == k \in 1 .. MaxCoalesced /\ k <= Len(inbox[c])

Rest(c, k) == [inbox EXCEPT ![c] = SubSeq(@, k + 1, Len(@))]

\* recv returns 0 or an error: client c has closed its socket and all is read.
AtEnd(c) == inbox[c] = << >> /\ c \in hungup

\* A signal has ended the process, with all its handlers.
ServerKilled == \E c \in Clients : handler[c].pc = "killed"

-----------------------------------------------------------------------------
(***************************************************************************)
(* Connecting, registering and leaving.                                    *)
(***************************************************************************)

OpenFds == {handler[c].fd : c \in {d \in Clients : handler[d].open}}

\* accept() returns the lowest descriptor that is not open.
AcceptClient(c) ==
  /\ handler[c].pc = "accept"
  /\ handler' = [handler EXCEPT ![c].pc = "register", ![c].open = TRUE,
                   ![c].fd = CHOOSE fd \in 0 .. NumClients :
                               fd \notin OpenFds /\ \A f \in 0 .. fd - 1 : f \in OpenFds]
  /\ UNCHANGED <<inbox, hungup, client_mutex, lists, outbox>>

\* The search stops one entry early.
IdTakenButLast(id) == \E k \in 0 .. client_count - 2 : clients[k].id = id

IdTaken(id) == \E k \in 0 .. client_count - 1 : clients[k].id = id

\* The client's first message is its id, which it sends on connecting; a command
\* that follows it at once becomes part of the id.
\* BOUND: one such command, although there is room for more in client_id.
ReceivedId(c, k) ==
  IF k = 1 THEN inbox[c][1].id ELSE inbox[c][1].id \o inbox[c][2].cmd

Register(c, k) ==
  LET id == ReceivedId(c, k)
  IN  /\ handler[c].pc = "register"
      /\ Received(c, k) /\ k <= 2
      /\ client_mutex = Free
      /\ IF IdTaken(id)
           THEN /\ handler' = [handler EXCEPT ![c].pc = "gone", ![c].open = FALSE]
                /\ Tell(c, Say("taken", id, NoPort))
                /\ UNCHANGED <<clients, client_count>>
           ELSE /\ clients' = [clients EXCEPT ![client_count] =
                                 [id |-> id, fd |-> handler[c].fd, port |-> NoPort]]
                /\ client_count' = client_count + 1
                /\ handler' = [handler EXCEPT ![c].pc = "recv", ![c].id = id]
                /\ UNCHANGED outbox
      /\ inbox' = Rest(c, k)
      /\ UNCHANGED <<hungup, client_mutex, waiting_clients, waiting_count>>

\* recv returns 0 or an error: the socket is closed at once, the list comes later.
Disconnect(c) ==
  /\ handler[c].pc = "recv"
  /\ AtEnd(c)
  /\ handler' = [handler EXCEPT ![c].pc = "remove", ![c].open = FALSE]
  /\ UNCHANGED <<inbox, hungup, client_mutex, lists, outbox>>

\* The first entry with this descriptor gives way to the last entry.
RemoveClient(c) ==
  LET mine == {k \in 0 .. client_count - 1 : clients[k].fd = handler[c].fd}
  IN  /\ handler[c].pc = "remove"
      /\ client_mutex = Free
      /\ IF mine = {}
           THEN UNCHANGED <<clients, client_count>>
           ELSE /\ \E k \in mine :
                     /\ \A m \in mine : k <= m
                     /\ clients' = [clients EXCEPT ![k] = clients[client_count - 1]]
                /\ client_count' = client_count - 1
      /\ Goto(c, "gone")
      /\ UNCHANGED <<inbox, hungup, client_mutex, waiting_clients, waiting_count, outbox>>

-----------------------------------------------------------------------------
(***************************************************************************)
(* Commands.                                                               *)
(***************************************************************************)

Commands == {"/list", "/wait", "/connect", "/stop_wait"}

\* Where the handler of a command starts.
FirstStep(cmd) ==
  CASE cmd = "/list" -> "peek"
    [] cmd = "/wait" -> "wait"
    [] cmd = "/connect" -> "connect"
    [] cmd = "/stop_wait" -> "stop_wait"

\* The operand of /connect runs into a message that follows it, and then names
\* nobody.
RecvCommand(c, k) ==
  /\ handler[c].pc = "recv"
  /\ Received(c, k)
  /\ LET m == inbox[c][1]
     IN  /\ m.cmd \in Commands
         /\ handler' = [handler EXCEPT
                          ![c].pc = FirstStep(m.cmd),
                          ![c].arg = IF k = 1 THEN m.id ELSE NoId]
  /\ inbox' = Rest(c, k)
  /\ UNCHANGED <<hungup, client_mutex, lists, outbox>>

\* Anything else, such as a port number that comes too late.
RecvBadPrompt(c, k) ==
  /\ handler[c].pc = "recv"
  /\ Received(c, k)
  /\ inbox[c][1].cmd \notin Commands
  /\ inbox' = Rest(c, k)
  /\ UNCHANGED <<hungup, handler, client_mutex, lists, outbox>>

\* /list first reads waiting_count without the mutex.
ListPeek(c) ==
  /\ handler[c].pc = "peek"
  /\ Goto(c, IF waiting_count = 0 THEN "recv" ELSE "list")
  /\ UNCHANGED <<inbox, hungup, client_mutex, lists, outbox>>

ListAll(c) ==
  /\ handler[c].pc = "list"
  /\ client_mutex = Free
  /\ Goto(c, "recv")
  /\ UNCHANGED <<inbox, hungup, client_mutex, lists, outbox>>

\* The search forgets the last entry.
WaitsButLast(id) == \E k \in 0 .. waiting_count - 2 : waiting_clients[k] = id

Waits(id) == \E k \in 0 .. waiting_count - 1 : waiting_clients[k] = id

WaitRefused(c) ==
  /\ handler[c].pc = "wait"
  /\ client_mutex = Free
  /\ Waits(handler[c].id)
  /\ Goto(c, "recv")
  /\ UNCHANGED <<inbox, hungup, client_mutex, lists, outbox>>

\* The handler keeps the mutex while it waits for the port number.
WaitLock(c) ==
  /\ handler[c].pc = "wait"
  /\ client_mutex = Free
  /\ ~Waits(handler[c].id)
  /\ client_mutex' = c
  /\ Goto(c, "port")
  /\ UNCHANGED <<inbox, hungup, lists, outbox>>

\* The port goes to the entry of clients[] that has the index of the new
\* entry of waiting_clients[], which is that of some other client as a rule.
\* BOUND: with waiting_count outside the array the model stops here.
RecvPort(c, k) ==
  /\ handler[c].pc = "port"
  /\ Received(c, k)
  /\ inbox[c][1].cmd = "port" /\ inbox[c][1].port > 0
  /\ waiting_count \in Slots
  /\ waiting_clients' = [waiting_clients EXCEPT ![waiting_count] = handler[c].id]
  /\ clients' = [clients EXCEPT ![waiting_count].port = inbox[c][1].port]
  /\ waiting_count' = waiting_count + 1
  /\ client_mutex' = Free
  /\ inbox' = Rest(c, k)
  /\ Goto(c, "recv")
  /\ UNCHANGED <<hungup, client_count, outbox>>

\* The mutex is not given back after an invalid port.
RecvNoPortLocked(c, k) ==
  /\ handler[c].pc = "port"
  /\ Received(c, k) /\ inbox[c][1].port = 0
  /\ inbox' = Rest(c, k)
  /\ Goto(c, "recv")
  /\ UNCHANGED <<hungup, client_mutex, lists, outbox>>

\* A 0, another message than a number, or the end of the stream.
RecvNoPort(c, k) ==
  /\ handler[c].pc = "port"
  /\ \/ Received(c, k) /\ inbox[c][1].port = 0 /\ inbox' = Rest(c, k)
     \/ k = 1 /\ AtEnd(c) /\ UNCHANGED inbox
  /\ client_mutex' = Free
  /\ Goto(c, "recv")
  /\ UNCHANGED <<hungup, lists, outbox>>

\* waiting_clients[] without its entry k.
Without(k) ==
  [i \in Slots |-> IF i \in k .. waiting_count - 2 THEN waiting_clients[i + 1]
                   ELSE waiting_clients[i]]

FirstWaiting(id) ==
  CHOOSE k \in 0 .. waiting_count - 1 :
    /\ waiting_clients[k] = id
    /\ \A m \in 0 .. k - 1 : waiting_clients[m] # id

\* The port is looked up in clients[] under the index in waiting_clients[].
ConnectTo(c) ==
  LET target == handler[c].arg
      k == FirstWaiting(target)
  IN  /\ handler[c].pc = "connect"
      /\ client_mutex = Free
      /\ IF Waits(target)
           THEN /\ Tell(c, Say("CONNECT", target, clients[k].port))
                /\ waiting_clients' = Without(k)
                /\ waiting_count' = waiting_count - 1
           ELSE UNCHANGED <<waiting_clients, waiting_count, outbox>>
      /\ Goto(c, "recv")
      /\ UNCHANGED <<inbox, hungup, client_mutex, clients, client_count>>

\* For a client that is not in the list, any more, target_index is whatever
\* the stack holds, and waiting_count goes down all the same.
StopWait(c) ==
  /\ handler[c].pc = "stop_wait"
  /\ client_mutex = Free
  /\ \E k \in IF Waits(handler[c].id) THEN {FirstWaiting(handler[c].id)} ELSE UninitIndexes :
       waiting_clients' = Without(k)
  /\ waiting_count' = waiting_count - 1
  /\ Goto(c, "recv")
  /\ UNCHANGED <<inbox, hungup, client_mutex, clients, client_count, outbox>>

-----------------------------------------------------------------------------
\* The handler gets to one of its send()s; those before its first recv() of a
\* command are not among them.
Replies(c) ==
  \/ handler[c].pc = "recv" /\ inbox[c] # << >> /\ inbox[c][1].cmd \notin Commands
  \/ handler[c].pc = "peek" /\ waiting_count = 0
  \/ handler[c].pc \in {"list", "connect", "stop_wait"} /\ client_mutex = Free
  \/ handler[c].pc = "wait" /\ client_mutex = Free /\ Waits(handler[c].id)
  \/ handler[c].pc = "port" /\ (inbox[c] # << >> \/ c \in hungup)

\* A client that closes its socket before it has read everything, or that is sent
\* something afterwards, resets the connection.  What it had sent before is still
\* read, and the next send() to it raises a SIGPIPE, which nobody handles: the
\* whole server ends.
KilledBySend(c) ==
  /\ c \in hungup
  /\ Replies(c)
  /\ handler' = [d \in Clients |->
                   IF handler[d].pc = "none" THEN handler[d]
                   ELSE [handler[d] EXCEPT !.pc = "killed", !.open = FALSE]]
  /\ client_mutex' = Free
  /\ inbox' = [d \in Clients |-> << >>]
  /\ UNCHANGED <<hungup, lists, outbox>>

HandlerStep(c) ==
  \/ AcceptClient(c)
  \/ Disconnect(c)
  \/ RemoveClient(c)
  \/ \E k \in 1 .. MaxCoalesced :
       \/ Register(c, k)
       \/ RecvCommand(c, k)
       \/ RecvBadPrompt(c, k)
       \/ RecvPort(c, k)
       \/ RecvNoPort(c, k)
  \/ ListPeek(c)
  \/ ListAll(c)
  \/ WaitRefused(c)
  \/ WaitLock(c)
  \/ ConnectTo(c)
  \/ StopWait(c)
  \/ KilledBySend(c)
=============================================================================

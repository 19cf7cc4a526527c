----------------------------------- MODULE Irc -----------------------------------
(***************************************************************************)
(* The IRC server with its clients.                                        *)
(***************************************************************************)
EXTENDS IrcClient

vars == <<ircServerVars, ircClientVars>>

Init == ServerInit /\ ClientInit

\* What a user may do or not.
UserStep(c) ==
  \/ \E id \in Ids : Start(c, id) \/ TypeConnect(c, id)
  \/ TypeList(c)
  \/ TypeWait(c)
  \/ Interrupt(c)
  \/ EndChat(c)
  \/ Quit(c)

\* What the client does by itself.
ProgramStep(c) ==
  \/ SendPort(c)
  \/ SendNoPort(c)
  \/ HandleConnect(c)
  \/ ExitTaken(c)
  \/ ServerGone(c)

ServerThread(c) == HandlerStep(c) /\ UNCHANGED ircClientVars

Next == \E c \in Clients : UserStep(c) \/ ProgramStep(c) \/ ServerThread(c)

\* The programs run; the users do what they like.
Fairness == \A c \in Clients : WF_vars(ProgramStep(c)) /\ WF_vars(ServerThread(c))

Spec == Init /\ [][Next]_vars

FairSpec == Spec /\ Fairness

-----------------------------------------------------------------------------
Registered == {clients[k].id : k \in 0 .. client_count - 1}

(***************************************************************************)
(* The variables keep their types.  The mutex is held between steps by a   *)
(* handler that waits for a port, and by no other (irc/server.c:114-142).  *)
(***************************************************************************)
TypeOK ==
  /\ hungup \subseteq Clients
  /\ \A c \in Clients : handler[c].pc \in HandlerStates
  /\ client_mutex \in Clients \cup {Free}
  /\ \A c \in Clients : handler[c].pc = "port" <=> client_mutex = c
  /\ DOMAIN clients = Slots /\ DOMAIN waiting_clients = Slots
  /\ client_count \in 0 .. NumClients
  /\ waiting_count \in Int /\ waiting_count <= NumClients
  /\ mode \in [Clients -> {"off", "INFO", "WAIT", "CHAT"}]
  /\ listening \in [Clients -> SUBSET Nat]
  /\ listener \in [Clients -> SUBSET Nat]
  /\ caller \subseteq Clients

(***************************************************************************)
(* No two registered clients have the same id, although several handlers   *)
(* register at the same time (irc/server.c:45-62).                         *)
(***************************************************************************)
UniqueIds ==
  \A j, k \in 0 .. client_count - 1 : clients[j].id = clients[k].id => j = k

(***************************************************************************)
(* No id waits twice (irc/server.c:113-121), even after removals with an   *)
(* index that was never set, and when a client comes back whose entry was  *)
(* left in the list as it went (irc/server.c:78-89).                       *)
(***************************************************************************)
WaitsOnce ==
  \A j, k \in 0 .. waiting_count - 1 : waiting_clients[j] = waiting_clients[k] => j = k

(***************************************************************************)
(* Once every handler that is leaving has removed its client               *)
(* (irc/server.c:78 "Remove client from client list"), the registry holds  *)
(* the clients that are served and no other.                               *)
(***************************************************************************)
Served == {c \in Clients : handler[c].pc \notin {"none", "accept", "register", "remove", "gone"}}

RegistryInStep ==
  (\A c \in Clients : handler[c].pc \notin {"remove", "killed"}) =>
    Registered = {handler[c].id : c \in Served}

(***************************************************************************)
(* The port in a CONNECT reply is one that the requested client announced  *)
(* (irc/README.md:65-66 "/connect student1", "Connected to student1.").    *)
(***************************************************************************)
ConnectLeadsToTarget ==
  \A c \in Clients : \A k \in DOMAIN outbox[c] :
    LET m == outbox[c][k]
    IN  m.kind = "CONNECT" => m.port > 0 /\ handler[PortOwner(m.port)].id = m.id

(***************************************************************************)
(* A handler that has read a command finishes it, and one whose client has *)
(* left removes it: nobody keeps the mutex for ever (irc/server.c:114-142).*)
(* What ends a handler before is only the end of the whole server, which a *)
(* reply to a client that has left may bring about (irc/server.c:97, 109,  *)
(* 135, 137, 140, 158, 175, 204, 211).  (The commands are bounded, so that *)
(* every handler finishes what it has read if and only if there is always  *)
(* a moment again in which all have.)                                      *)
(***************************************************************************)
CommandsFinish ==
  []<>(\/ \A c \in Clients :
            handler[c].pc \in {"none", "accept", "register", "recv", "gone"}
       \/ ServerKilled /\ hungup # {})
=============================================================================

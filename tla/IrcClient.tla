------------------------------- MODULE IrcClient -------------------------------
(***************************************************************************)
(* The IRC clients (irc/client.c), as far as the server sees them: what    *)
(* they send to it and when, and how two of them meet.  The user at the    *)
(* keyboard may type any command and press Ctrl+C at any time.             *)
(*                                                                         *)
(* The conversation of two peers is left out: ending it is one step.       *)
(***************************************************************************)
EXTENDS IrcServer

CONSTANT MaxCommands   \* BOUND: commands and Ctrl+C of all users together

ASSUME IrcClientAssumption == MaxCommands \in Nat

VARIABLES
  mode,      \* mode[c]: INFO, WAIT or CHAT, "off" before and after the session
  listening, \* listening[c]: the ports on which c still accepts one connection
  listener,  \* listener[c]: the ports whose listening socket c has not closed; it
             \* stays open after the one accept, and the kernel queues callers
  announce,  \* announce[c]: "yes" between the send of /wait and that of the
             \* port, "cut" if Ctrl+C came in between
  typed,     \* the commands so far
  caller     \* the clients whose reader thread is in handle_connect

ircClientVars == <<mode, listening, listener, announce, typed, caller>>

ClientInit ==
  /\ mode = [c \in Clients |-> "off"]
  /\ listening = [c \in Clients |-> {}]
  /\ listener = [c \in Clients |-> {}]
  /\ announce = [c \in Clients |-> "no"]
  /\ typed = 0
  /\ caller = {}

\* The kernel gives every listener a new port.
NewPort(c) == c + NumClients * typed
PortOwner(p) == ((p - 1) % NumClients) + 1   \* anyone for NoPort, who has no such port

\* What is sent to a server that is gone is lost.
Sends(c, message) ==
  inbox' = IF ServerKilled THEN inbox ELSE [inbox EXCEPT ![c] = Append(@, message)]

\* What the clients leave alone of the server.
serverOnly == <<client_mutex, lists, outbox>>

\* A user types one more command, or presses Ctrl+C.
Types ==
  /\ typed < MaxCommands
  /\ typed' = typed + 1

-----------------------------------------------------------------------------
\* The id is the program's argument; two sessions may well have the same.
Start(c, id) ==
  /\ mode[c] = "off"
  /\ handler[c].pc = "none"
  /\ ~ServerKilled
  /\ mode' = [mode EXCEPT ![c] = "INFO"]
  /\ Sends(c, Message("id", id, 0))
  /\ handler' = [handler EXCEPT ![c].pc = "accept"]
  /\ UNCHANGED <<hungup, listening, listener, announce, typed, caller, serverOnly>>

\* The main thread is at the prompt; it does not wait for the greeting.
AtPrompt(c, modes) == mode[c] \in modes /\ announce[c] = "no"

\* Any line that is not /quit, /wait or /connect, here /list.
TypeList(c) ==
  /\ AtPrompt(c, {"INFO", "WAIT"})
  /\ Types
  /\ Sends(c, Message("/list", NoId, 0))
  /\ UNCHANGED <<hungup, handler, mode, listening, listener, announce, caller, serverOnly>>

\* "/wait" goes out first, the port of the new listener in a send of its own.
TypeWait(c) ==
  /\ AtPrompt(c, {"INFO"})
  /\ Types
  /\ Sends(c, Message("/wait", NoId, 0))
  /\ mode' = [mode EXCEPT ![c] = "WAIT"]
  /\ announce' = [announce EXCEPT ![c] = "yes"]
  /\ UNCHANGED <<hungup, handler, listening, listener, caller, serverOnly>>

\* Ctrl+C may have closed the listener before its port goes out, or come before
\* there was one to close.
SendPort(c) ==
  /\ announce[c] # "no"
  /\ Sends(c, Message("port", NoId, NewPort(c)))
  /\ \/ /\ listening' = [listening EXCEPT ![c] = @ \cup {NewPort(c)}]
        /\ listener' = [listener EXCEPT ![c] = @ \cup {NewPort(c)}]
     \/ announce[c] = "cut" /\ UNCHANGED <<listening, listener>>
  /\ announce' = [announce EXCEPT ![c] = "no"]
  /\ UNCHANGED <<hungup, handler, mode, typed, caller, serverOnly>>

\* Ctrl+C has closed the listener in between: bind or listen fails and nothing
\* is sent, or getsockname does and a 0 is.
SendNoPort(c) ==
  /\ announce[c] = "cut"
  /\ Sends(c, Message("port", NoId, 0)) \/ UNCHANGED inbox
  /\ announce' = [announce EXCEPT ![c] = "no"]
  /\ UNCHANGED <<hungup, handler, mode, listening, listener, typed, caller, serverOnly>>

\* In WAIT mode /connect is refused on the spot.
TypeConnect(c, id) ==
  /\ AtPrompt(c, {"INFO"})
  /\ Types
  /\ Sends(c, Message("/connect", id, 0))
  /\ UNCHANGED <<hungup, handler, mode, listening, listener, announce, caller, serverOnly>>

\* Ctrl+C in WAIT mode, even before the port is sent.  The accept() that is
\* under way in the waiting thread ends only if that thread gets the signal;
\* otherwise it takes one more connection, close() or not.  What is closed is the
\* newest listener, before the new one exists perhaps nothing.
Interrupt(c) ==
  /\ mode[c] = "WAIT"
  /\ Types
  /\ Sends(c, Message("/stop_wait", NoId, 0))
  /\ mode' = [mode EXCEPT ![c] = "INFO"]
  /\ \E left \in {{}, listening[c]} : listening' = [listening EXCEPT ![c] = left]
  /\ \/ listener' = [listener EXCEPT ![c] = {p \in @ : \E q \in @ : q > p}]
     \/ announce[c] = "yes" /\ UNCHANGED listener
  /\ announce' = [announce EXCEPT ![c] = IF @ = "yes" THEN "cut" ELSE @]
  /\ UNCHANGED <<hungup, handler, caller, serverOnly>>

\* The thread that reads from the server takes its next message.
ReadsFromServer(c, kind) ==
  /\ outbox[c] # << >>
  /\ Head(outbox[c]).kind = kind
  /\ outbox' = [outbox EXCEPT ![c] = Tail(@)]

\* The waiting thread of client d takes one connection and listens no more.
WaitForConnection(d, p) == listening' = [listening EXCEPT ![d] = @ \ {p}]

\* CONNECT leads to the client that listens on the port in it, if one does,
\* although that client may take no more connections.  The reader thread stays
\* with the peer until the conversation is over.
HandleConnect(c) ==
  LET p == Head(outbox[c]).port
      d == PortOwner(p)
      connected == p \in listening[d] \cup listener[d]
  IN  /\ mode[c] # "off"
      /\ c \notin caller
      /\ ReadsFromServer(c, "CONNECT")
      /\ mode' = [mode EXCEPT ![c] = IF connected THEN "CHAT" ELSE @,
                              ![d] = IF p \in listening[d] THEN "CHAT" ELSE @]
      /\ caller' = IF connected THEN caller \cup {c} ELSE caller
      /\ WaitForConnection(d, p)
      /\ UNCHANGED <<inbox, hungup, handler, listener, announce, typed, client_mutex, lists>>

EndChat(c) ==
  /\ mode[c] = "CHAT"
  /\ mode' = [mode EXCEPT ![c] = "INFO"]
  /\ caller' = caller \ {c}
  /\ UNCHANGED <<inbox, hungup, handler, listening, listener, announce, typed, serverOnly>>

\* The client is gone from the server's point of view.
HangUp(c) ==
  /\ mode' = [mode EXCEPT ![c] = "off"]
  /\ listening' = [listening EXCEPT ![c] = {}]
  /\ listener' = [listener EXCEPT ![c] = {}]
  /\ caller' = caller \ {c}
  /\ hungup' = hungup \cup {c}
  /\ UNCHANGED <<inbox, handler, announce, typed, client_mutex, lists>>

\* /quit, in any mode, or the SIGPIPE of a send() to a server that is gone.
Quit(c) ==
  /\ AtPrompt(c, {"INFO", "WAIT", "CHAT"}) \/ (ServerKilled /\ mode[c] # "off")
  /\ HangUp(c)
  /\ UNCHANGED outbox

\* The end of the server ends the client, as soon as its reader thread is back from
\* a conversation and has read what the server has sent.
ServerGone(c) ==
  /\ ServerKilled
  /\ mode[c] # "off"
  /\ c \notin caller /\ outbox[c] = << >>
  /\ HangUp(c)
  /\ UNCHANGED outbox

\* "Client ID is already taken.": the client exits.
ExitTaken(c) ==
  /\ mode[c] # "off"
  /\ ReadsFromServer(c, "taken")
  /\ HangUp(c)
=============================================================================

-------------------------------- MODULE IrcPeer --------------------------------
(***************************************************************************)
(* The conversation of two IRC clients (irc/client.c).  In each client     *)
(* three kinds of thread read and write the one struct peer_info without a *)
(* lock: main(), with the handler of Ctrl+C on top of it; the reader of    *)
(* the server's messages, which calls a peer (handle_connect); and, for    *)
(* every /wait, a thread that answers a call (wait_for_connection).  The   *)
(* thread that makes or answers a call starts receive_peer_messages and    *)
(* joins it, so the two count as one thread here.                          *)
(*                                                                         *)
(* A step makes one access to what the threads share: it reads or writes   *)
(* one member of peer_info, or makes one system call with the descriptor   *)
(* that it finds there.                                                    *)
(*                                                                         *)
(* The server answers /connect with a port that was announced to it at     *)
(* some time, by either client, with -1, or with an error message.         *)
(* Irc.tla models it.                                                      *)
(***************************************************************************)
EXTENDS Integers, Sequences

CONSTANTS
  MaxPort,       \* BOUND: every /wait opens a new port, up to this one
  MaxTyped,      \* BOUND: lines typed and Ctrl+C, of both users
  MaxCalls       \* BOUND: calls that succeed

ASSUME IrcPeerAssumption ==
  MaxPort \in Nat /\ MaxPort > 2 /\ MaxTyped \in Nat /\ MaxCalls \in Nat

Peers == {1, 2}

\* Thread c is the reader of client c; a higher number is that of a waiting
\* thread, and of the port that client c opens for it.
Threads == 1 .. MaxPort
Owner(t) == 2 - (t % 2)
Ports == Threads \ Peers
PortsOf(c) == {p \in Ports : Owner(p) = c}

None == 0

\* The k-th call has two ends: k is the caller's, -k the other one.
Ends(n) == (-n .. n) \ {None}
Mate(e) == -e

VARIABLES
  mode,       \* peer_info.mode; "off" once the client has exited
  socket,     \* peer_info.socket: an end of a call, None for -1
  main,       \* where main() is
  signal,     \* where the handler of Ctrl+C is, which interrupts main()
  listener,   \* client_info.listener_socket: a port, or None
  opened,     \* the ports whose listening socket is open
  thread,     \* thread[t]: where it is, and on which end or port
  calls,      \* the calls so far
  conn,       \* conn[e]: the end e of a call
  asked,      \* asked[c]: /connect sent and not answered yet
  typed,      \* the lines typed and Ctrl+C so far
  crossed,    \* history: the clients whose peer_info was written while it
              \* belonged to another conversation
  hidden,     \* history: the ends where a LEAVE was read behind another message
  heard       \* history: the ends where recv() has returned a LEAVE, or that
              \* the peer is gone

peer_info == <<mode, socket>>
control   == <<main, signal>>
listening == <<listener, opened>>
network   == <<calls, conn>>
input     == <<asked, typed>>
history   == <<crossed, hidden, heard>>

vars == <<peer_info, control, listening, thread, network, input, history>>

At(pc) == [pc |-> pc, on |-> None]
Unborn == At("none")

Init ==
  /\ mode = [c \in Peers |-> "INFO"]
  /\ socket = [c \in Peers |-> None]
  /\ main = [c \in Peers |-> "prompt"]
  /\ signal = [c \in Peers |-> "none"]
  /\ listener = [c \in Peers |-> None]
  /\ opened = {}
  /\ thread = [t \in Threads |-> At(IF t \in Peers THEN "server" ELSE "none")]
  /\ calls = 0
  /\ conn = [e \in Ends(0) |-> None]
  /\ asked = [c \in Peers |-> 0]
  /\ typed = 0
  /\ crossed = {}
  /\ hidden = {}
  /\ heard = {}

-----------------------------------------------------------------------------
(***************************************************************************)
(* TCP.                                                                    *)
(***************************************************************************)

\* A thread in accept() keeps a listener alive that has been closed meanwhile,
\* and a thread in recv() an end.
Listens(p) ==
  p \in opened \/ \E t \in Threads : thread[t] = [pc |-> "accept", on |-> p]

Reads(t, e) == thread[t].pc \in {"id", "recv"} /\ thread[t].on = e

\* Nothing will read end e any more.
Gone(e) ==
  /\ \/ ~conn[e].open
     \/ conn[e].backlog # None /\ ~Listens(conn[e].backlog)
  /\ \A t \in Threads : ~Reads(t, e)

\* A system call with the descriptor e does not fail with EBADF.
Usable(e) == e # None /\ conn[e].open

\* The ends after a word has been sent from end e, if that is one.
Sent(e, word) ==
  IF Usable(e) /\ ~Gone(Mate(e))
    THEN [conn EXCEPT ![Mate(e)].stream = Append(@, word)]
    ELSE conn

Closed(e, ends) == IF e = None THEN ends ELSE [ends EXCEPT ![e].open = FALSE]

\* The process ends: the kernel closes whatever it has open.
Exit(c, ends) ==
  /\ mode' = [mode EXCEPT ![c] = "off"]
  /\ socket' = [socket EXCEPT ![c] = None]
  /\ main' = [main EXCEPT ![c] = "off"]
  /\ signal' = [signal EXCEPT ![c] = "none"]
  /\ listener' = [listener EXCEPT ![c] = None]
  /\ opened' = opened \ PortsOf(c)
  /\ thread' = [t \in Threads |->
                  IF Owner(t) = c /\ thread[t] # Unborn THEN At("done") ELSE thread[t]]
  /\ conn' = [e \in DOMAIN conn |->
                IF conn[e].owner = c THEN [ends[e] EXCEPT !.open = FALSE] ELSE ends[e]]
  /\ asked' = [asked EXCEPT ![c] = 0]
  /\ UNCHANGED <<calls, typed, history>>

\* A write to peer_info of client c, which is in use or is not.
Cross(c, inUse) ==
  /\ crossed' = IF inUse THEN crossed \cup {c} ELSE crossed
  /\ UNCHANGED <<hidden, heard>>

-----------------------------------------------------------------------------
(***************************************************************************)
(* main().  It tests the mode for a line, and what it does then may find   *)
(* another mode and another socket.                                        *)
(***************************************************************************)

MainGoes(c, from, to) ==
  /\ main[c] = from /\ signal[c] = "none"
  /\ main' = [main EXCEPT ![c] = to]
  /\ UNCHANGED signal

Count == typed < MaxTyped /\ typed' = typed + 1

\* The user types a line, which in this mode leads to that place.
Types(c, in, place) ==
  /\ mode[c] = in
  /\ MainGoes(c, "prompt", place)
  /\ Count
  /\ UNCHANGED <<peer_info, listening, thread, network, history>>

Asks(c) == asked' = [asked EXCEPT ![c] = @ + 1]

\* A line that is not a command.  (Without a conversation the server gets it, and
\* answers with an error message, which changes nothing here.)
TypeText(c) == Types(c, "CHAT", "send") /\ UNCHANGED asked

\* /quit in CHAT mode.
TypeQuit(c) == Types(c, "CHAT", "bye") /\ UNCHANGED asked

\* The mode is tested a second time for /connect and /wait.  Only main() itself
\* sets WAIT, so that after INFO the second test cannot find it.
TypeConnect(c) ==
  \/ Types(c, "INFO", "prompt") /\ Asks(c)
  \/ Types(c, "WAIT", "connect") /\ UNCHANGED asked

TypeWait(c) ==
  /\ \E p \in PortsOf(c) : thread[p] = Unborn
  /\ Types(c, "INFO", "wait") \/ Types(c, "WAIT", "test")
  /\ UNCHANGED asked

\* The text goes to whatever peer_info.socket is by now.
SendText(c) ==
  /\ MainGoes(c, "send", "prompt")
  /\ conn' = Sent(socket[c], "text")
  /\ UNCHANGED <<peer_info, listening, thread, calls, input, history>>

\* LEAVE does, too.
SayBye(c) ==
  /\ main[c] = "bye" /\ signal[c] = "none"
  /\ Exit(c, Sent(socket[c], "LEAVE"))

\* /connect goes to the server unless the client waits.
AskServer(c) ==
  /\ MainGoes(c, "connect", "prompt")
  /\ IF mode[c] = "WAIT" THEN UNCHANGED asked ELSE Asks(c)
  /\ UNCHANGED <<peer_info, listening, thread, network, typed, history>>

\* /wait is refused if the client waits already ...
TestWait(c) ==
  /\ MainGoes(c, "test", IF mode[c] = "WAIT" THEN "prompt" ELSE "wait")
  /\ UNCHANGED <<peer_info, listening, thread, network, input, history>>

\* ... or else sets the mode, whatever it has become ...
SetWait(c) ==
  /\ MainGoes(c, "wait", "listen")
  /\ mode' = [mode EXCEPT ![c] = "WAIT"]
  /\ Cross(c, mode[c] = "CHAT")
  /\ UNCHANGED <<socket, listening, thread, network, input>>

\* ... and opens a listener, announces its port and starts a thread.  (A Ctrl+C
\* during this closes the listener, as one right after it does.)
StartWaiting(c) ==
  LET free == {p \in PortsOf(c) : thread[p] = Unborn}
  IN  /\ MainGoes(c, "listen", "prompt")
      /\ \E p \in free :
           /\ \A q \in free : p <= q
           /\ listener' = [listener EXCEPT ![c] = p]
           /\ opened' = opened \cup {p}
           /\ thread' = [thread EXCEPT ![p] = At("born")]
      /\ UNCHANGED <<peer_info, network, input, history>>

-----------------------------------------------------------------------------
(***************************************************************************)
(* The handler of Ctrl+C.  The kernel runs it on the main thread, wherever *)
(* that is.                                                                *)
(***************************************************************************)

HandlerGoes(c, from, to) ==
  /\ signal[c] = from
  /\ signal' = [signal EXCEPT ![c] = to]
  /\ UNCHANGED main

\* It tests the mode.
Interrupt(c) ==
  /\ \/ mode[c] = "CHAT" /\ HandlerGoes(c, "none", "leave")
     \/ mode[c] = "WAIT" /\ HandlerGoes(c, "none", "close")
  /\ Count
  /\ UNCHANGED <<peer_info, listening, thread, network, asked, history>>

\* Ctrl+C ends the conversation at once.
SendLeaveAndClose(c) ==
  /\ HandlerGoes(c, "leave", "none")
  /\ conn' = Closed(socket[c], Sent(socket[c], "LEAVE"))
  /\ UNCHANGED <<peer_info, listening, thread, calls, input, history>>

\* In CHAT mode: LEAVE goes out, and the conversation goes on until the peer
\* hangs up.
SendLeave(c) ==
  /\ HandlerGoes(c, "leave", "none")
  /\ conn' = Sent(socket[c], "LEAVE")
  /\ UNCHANGED <<peer_info, listening, thread, calls, input, history>>

\* In WAIT mode: /stop_wait, and the listener is closed ...
CloseListener(c) ==
  /\ HandlerGoes(c, "close", "stop")
  /\ opened' = opened \ {listener[c]}
  /\ listener' = [listener EXCEPT ![c] = None]
  /\ UNCHANGED <<peer_info, thread, network, input, history>>

\* ... and the mode is set, whatever it has become.
StopWaiting(c) ==
  /\ HandlerGoes(c, "stop", "none")
  /\ mode' = [mode EXCEPT ![c] = "INFO"]
  /\ Cross(c, mode[c] = "CHAT")
  /\ UNCHANGED <<socket, listening, thread, network, input>>

\* The client ends without a LEAVE, sooner or later: /quit outside CHAT mode, the
\* end of the server, which the reader notices, or a SIGPIPE, which a send() to
\* the server or to a peer that has hung up raises.
Dies(c) == mode[c] # "off" /\ Exit(c, conn)

-----------------------------------------------------------------------------
(***************************************************************************)
(* The reader of the server's messages and handle_connect.                 *)
(***************************************************************************)

ThreadGoes(t, from, to, on) ==
  /\ thread[t].pc = from
  /\ thread' = [thread EXCEPT ![t] = [pc |-> to, on |-> on]]
  /\ UNCHANGED <<control, listening>>

\* The server looks a port up under the wrong index: any may come out.
Announced == {p \in Ports : thread[p] # Unborn}

\* A CONNECT that nobody has asked for.
GetsConnectUnasked(c) ==
  /\ asked' = [asked EXCEPT ![c] = @ - 1]
  /\ UNCHANGED typed

GetsConnect(c) ==
  /\ asked[c] > 0
  /\ asked' = [asked EXCEPT ![c] = @ - 1]
  /\ UNCHANGED typed

NewEnd(c, p, words) == [owner |-> c, backlog |-> p, open |-> TRUE, stream |-> words]

\* connect() succeeds as soon as there is a listener; the id goes out.
Connect(c, p) ==
  LET k == calls + 1
  IN  /\ GetsConnect(c)
      /\ p \in Announced /\ Listens(p)
      /\ k <= MaxCalls
      /\ calls' = k
      /\ conn' = [e \in Ends(k) |->
                    IF e = k THEN NewEnd(c, None, << >>)
                    ELSE IF e = Mate(k) THEN NewEnd(Owner(p), p, <<"id">>)
                    ELSE conn[e]]
      /\ ThreadGoes(c, "server", "begin", k)
      /\ UNCHANGED <<peer_info, history>>

\* The port is -1, or nobody listens there.  What is closed then is the socket of
\* peer_info ...
ConnectFails(c) ==
  /\ GetsConnect(c)
  /\ conn' = Closed(socket[c], conn)
  /\ Cross(c, socket[c] # None)
  /\ ThreadGoes(c, "server", "clear", None)
  /\ UNCHANGED <<peer_info, calls>>

\* ... and it is cleared, whatever it is by then.
ClearSocket(c) ==
  /\ ThreadGoes(c, "clear", "server", None)
  /\ socket' = [socket EXCEPT ![c] = None]
  /\ Cross(c, socket[c] # None)
  /\ UNCHANGED <<mode, network, input>>

-----------------------------------------------------------------------------
(***************************************************************************)
(* wait_for_connection, in thread t.                                       *)
(***************************************************************************)

\* It waits at the listener that there is when it runs, if there is one.
EnterAccept(t) ==
  LET p == listener[Owner(t)]
  IN  /\ ThreadGoes(t, "born", IF p = None THEN "done" ELSE "accept", p)
      /\ UNCHANGED <<peer_info, network, input, history>>

\* accept() takes the caller that has waited longest.
Accept(t) ==
  LET callers == {e \in DOMAIN conn : conn[e].backlog = thread[t].on}
  IN  \E e \in callers :
        /\ \A f \in callers : f <= e
        /\ ThreadGoes(t, "accept", "id", e)
        /\ conn' = [conn EXCEPT ![e].backlog = None]
        /\ UNCHANGED <<peer_info, calls, input, history>>

\* What one recv() on end e returns: the first n words, run together.
Takes(e, n) ==
  /\ n <= Len(conn[e].stream)
  /\ conn' = [conn EXCEPT ![e].stream = SubSeq(@, n + 1, Len(@))]

\* A LEAVE is recognised only at the beginning.
Hide(e, n) ==
  hidden' = IF \E i \in 2 .. n : conn[e].stream[i] = "LEAVE" THEN hidden \cup {e} ELSE hidden

\* The caller's id, with whatever follows it.
ReadId(t, n) ==
  LET e == thread[t].on
  IN  /\ ThreadGoes(t, "id", "begin", e)
      /\ Takes(e, n) /\ Hide(e, n)
      /\ UNCHANGED <<peer_info, calls, input, crossed, heard>>

\* The connection breaks before the id has come.
ReadNoId(t) ==
  LET e == thread[t].on
  IN  /\ ThreadGoes(t, "id", "done", None)
      /\ Gone(Mate(e))
      /\ conn' = Closed(e, conn)
      /\ UNCHANGED <<peer_info, calls, input, history>>

-----------------------------------------------------------------------------
(***************************************************************************)
(* The conversation, in thread t: its begin in handle_connect or           *)
(* wait_for_connection, and receive_peer_messages.                         *)
(***************************************************************************)

\* The thread has written to peer_info and will write to it again.
Busy(t) == thread[t].pc \in {"chat", "head", "enter", "recv", "hangup", "forget", "inform"}

SetSocket(t) ==
  LET c == Owner(t)
  IN  /\ ThreadGoes(t, "begin", "chat", None)
      /\ socket' = [socket EXCEPT ![c] = thread[t].on]
      /\ Cross(c, \E u \in Threads \ {t} : Owner(u) = c /\ Busy(u))
      /\ UNCHANGED <<mode, network, input>>

SetChat(t) ==
  /\ ThreadGoes(t, "chat", "head", None)
  /\ mode' = [mode EXCEPT ![Owner(t)] = "CHAT"]
  /\ UNCHANGED <<socket, network, input, history>>

\* After the conversation the reader goes back to the server's messages.
Return(t) == IF t \in Peers THEN "server" ELSE "done"

\* The head of the loop tests the socket ...
LoopHead(t) ==
  /\ ThreadGoes(t, "head", IF socket[Owner(t)] = None THEN Return(t) ELSE "enter", None)
  /\ UNCHANGED <<peer_info, network, input, history>>

\* ... and recv() is called with what it is by then.
EnterRecv(t) ==
  LET e == socket[Owner(t)]
  IN  /\ \/ Usable(e) /\ ThreadGoes(t, "enter", "recv", e)
         \/ ~Usable(e) /\ ThreadGoes(t, "enter", "hangup", None)
      /\ UNCHANGED <<peer_info, network, input, history>>

RecvText(t, n) ==
  LET e == thread[t].on
  IN  /\ ThreadGoes(t, "recv", "head", None)
      /\ Takes(e, n) /\ Hide(e, n)
      /\ Head(conn[e].stream) # "LEAVE"
      /\ UNCHANGED <<peer_info, calls, input, crossed, heard>>

RecvLeave(t, n) ==
  LET e == thread[t].on
  IN  /\ ThreadGoes(t, "recv", "hangup", None)
      /\ Takes(e, n)
      /\ Head(conn[e].stream) = "LEAVE"
      /\ heard' = heard \cup {e}
      /\ UNCHANGED <<peer_info, calls, input, crossed, hidden>>

\* recv() returns 0 when all is read that a peer sent before it hung up, or an
\* error if the peer had not read everything.
EndOfStream(e) ==
  /\ Gone(Mate(e))
  /\ conn[e].stream = << >> \/ conn[Mate(e)].stream # << >>

\* A recv() that returns 0 is taken for an empty message.
RecvEndAsText(t) ==
  /\ ThreadGoes(t, "recv", "head", None)
  /\ EndOfStream(thread[t].on)
  /\ UNCHANGED <<peer_info, network, input, history>>

RecvEnd(t) ==
  /\ ThreadGoes(t, "recv", "hangup", None)
  /\ EndOfStream(thread[t].on)
  /\ heard' = heard \cup {thread[t].on}
  /\ UNCHANGED <<peer_info, network, input, crossed, hidden>>

\* The socket stays open.
CloseNothing(t) ==
  /\ ThreadGoes(t, "hangup", "forget", None)
  /\ UNCHANGED <<peer_info, network, input, history>>

\* What is closed is the socket in peer_info, not the one that was read from.
CloseSocket(t) ==
  /\ ThreadGoes(t, "hangup", "forget", None)
  /\ conn' = Closed(socket[Owner(t)], conn)
  /\ UNCHANGED <<peer_info, calls, input, history>>

\* The closed socket stays in peer_info.
KeepSocket(t) ==
  /\ ThreadGoes(t, "forget", "inform", None)
  /\ UNCHANGED <<peer_info, network, input, history>>

ForgetSocket(t) ==
  /\ ThreadGoes(t, "forget", "inform", None)
  /\ socket' = [socket EXCEPT ![Owner(t)] = None]
  /\ UNCHANGED <<mode, network, input, history>>

SetInfo(t) ==
  /\ ThreadGoes(t, "inform", Return(t), None)
  /\ mode' = [mode EXCEPT ![Owner(t)] = "INFO"]
  /\ UNCHANGED <<socket, network, input, history>>

-----------------------------------------------------------------------------
\* What the users and the server do or not.
FreeStep(c) ==
  \/ TypeText(c)
  \/ TypeQuit(c)
  \/ TypeConnect(c)
  \/ TypeWait(c)
  \/ Interrupt(c)
  \/ Dies(c)
  \/ \E p \in Ports : Connect(c, p)
  \/ ConnectFails(c)

\* What the main thread does by itself.
MainStep(c) ==
  \/ SendText(c)
  \/ SayBye(c)
  \/ AskServer(c)
  \/ TestWait(c)
  \/ SetWait(c)
  \/ StartWaiting(c)
  \/ SendLeave(c)
  \/ CloseListener(c)
  \/ StopWaiting(c)

ThreadStep(t) ==
  \/ t \in Peers /\ ClearSocket(t)
  \/ EnterAccept(t)
  \/ Accept(t)
  \/ \E n \in 1 .. MaxTyped + 1 : ReadId(t, n) \/ RecvText(t, n) \/ RecvLeave(t, n)
  \/ ReadNoId(t)
  \/ SetSocket(t)
  \/ SetChat(t)
  \/ LoopHead(t)
  \/ EnterRecv(t)
  \/ RecvEnd(t)
  \/ CloseSocket(t)
  \/ ForgetSocket(t)
  \/ SetInfo(t)

Next ==
  \/ \E c \in Peers : FreeStep(c) \/ MainStep(c)
  \/ \E t \in Threads : ThreadStep(t)

\* The threads run, and a blocked call returns when it can.  Nothing is assumed
\* of the users and of the server.
Fairness ==
  /\ \A c \in Peers : WF_vars(MainStep(c))
  /\ \A t \in Threads : WF_vars(ThreadStep(t))

Spec == Init /\ [][Next]_vars

FairSpec == Spec /\ Fairness

-----------------------------------------------------------------------------
(***************************************************************************)
(* The variables keep their types, and a descriptor is always one of the   *)
(* own process: in peer_info, in a recv() (irc/client.c:68, 118) and in an *)
(* accept() (irc/client.c:110).                                            *)
(***************************************************************************)
End == [owner : Peers, backlog : {None} \cup Ports, open : BOOLEAN,
        stream : Seq({"id", "text", "LEAVE"})]

TypeOK ==
  /\ mode \in [Peers -> {"INFO", "WAIT", "CHAT", "off"}]
  /\ socket \in [Peers -> {None} \cup Ends(calls)]
  /\ main \in [Peers -> {"prompt", "send", "connect", "test", "wait", "listen", "bye", "off"}]
  /\ signal \in [Peers -> {"none", "leave", "close", "stop"}]
  /\ listener \in [Peers -> {None} \cup Ports]
  /\ \A c \in Peers : listener[c] # None => Owner(listener[c]) = c
  /\ opened \subseteq Ports
  /\ thread \in [Threads -> [pc : {"none", "born", "server", "clear", "accept", "id",
                                   "begin", "chat", "head", "enter", "recv", "hangup",
                                   "forget", "inform", "done"},
                             on : {None} \cup Ports \cup Ends(calls)]]
  /\ calls \in 0 .. MaxCalls
  /\ conn \in [Ends(calls) -> End]
  /\ \A t \in Threads :
       /\ thread[t].pc = "accept" => thread[t].on \in PortsOf(Owner(t))
       /\ thread[t].pc \in {"id", "begin", "recv"} =>
            thread[t].on \in Ends(calls) /\ conn[thread[t].on].owner = Owner(t)
  /\ \A c \in Peers : socket[c] # None => conn[socket[c]].owner = c
  /\ asked \in [Peers -> 0 .. MaxTyped]
  /\ typed \in 0 .. MaxTyped
  /\ crossed \subseteq Peers
  /\ hidden \subseteq Ends(calls)
  /\ heard \subseteq Ends(calls)

(***************************************************************************)
(* Outside the moments in which a thread is between its own assignments    *)
(* (irc/client.c:128-130, 157-159, 74-76), a client is in CHAT mode if and *)
(* only if it has a conversation (irc/client.c:20-24), with a socket that  *)
(* it has not closed.  The threads share peer_info without a lock; they    *)
(* keep it right as long as none of them writes to it while it belongs to  *)
(* another conversation (irc/client.c:54, 128, 157, 167, 168, 290).        *)
(***************************************************************************)
ChatHasSocket ==
  \A c \in Peers \ crossed :
    (\A t \in Threads : Owner(t) = c => thread[t].pc \notin {"chat", "forget", "inform"})
      => /\ mode[c] = "CHAT" <=> socket[c] # None
         /\ socket[c] # None => conn[socket[c]].open

(***************************************************************************)
(* A client that goes on running hangs up when it has heard from the very  *)
(* end that it closes that the peer leaves or is gone, and not before:     *)
(* Ctrl+C does not cut off what the peer is sending, and no thread closes  *)
(* the conversation of another one, although they close whatever socket is *)
(* in peer_info (irc/client.c:74, 83, 92, 167).  A connection that breaks  *)
(* before the caller's id has come is closed, too (irc/client.c:121).      *)
(***************************************************************************)
HangsUpLast ==
  [][\A e \in DOMAIN conn :
       conn[e].open /\ ~conn'[e].open =>
         \/ mode'[conn[e].owner] = "off"
         \/ conn[e].owner \in crossed'
         \/ Gone(Mate(e))
         \/ e \in heard]_vars

Over(e) == ~conn[e].open /\ ~conn[Mate(e)].open

\* Nobody has answered the call.
Unanswered(e) == conn[e].backlog # None \/ conn[Mate(e)].backlog # None

\* The owner of end e has been told to leave, and the conversation is not over.
Leaving(e) ==
  /\ e \in heard \/ \E i \in DOMAIN conn[e].stream : conn[e].stream[i] = "LEAVE"
  /\ ~Over(e)

(***************************************************************************)
(* After Ctrl+C both clients leave the conversation (irc/README.md:14 and  *)
(* 54 "Left conversation with", 74 "The other client has left              *)
(* conversation."), also when both press it, quit or type at once.  It     *)
(* takes a peer that has accepted the call, and a recv() that returns the  *)
(* LEAVE by itself (irc/client.c:89).  (What has ended stays so: a         *)
(* conversation that hung for ever would keep the formula from becoming    *)
(* true again.)                                                            *)
(***************************************************************************)
LeaveEnds ==
  []<>(\A e \in DOMAIN conn :
         Leaving(e) => crossed # {} \/ e \in hidden \/ Unanswered(e))

(***************************************************************************)
(* A client whose peer has exited leaves CHAT mode.                        *)
(***************************************************************************)
PeerGoneEnds ==
  []<>(\A c \in Peers \ crossed :
         mode[c] = "CHAT" /\ socket[c] # None
           => mode[conn[Mate(socket[c])].owner] # "off")
=============================================================================

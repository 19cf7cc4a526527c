----------------------------- MODULE IrcPeerProofs -----------------------------
(***************************************************************************)
(* Safety of the conversation of two IRC clients, for any number of ports, *)
(* of typed lines and of calls: the shared peer_info stays right as long   *)
(* as no thread writes to it during another one's conversation.            *)
(***************************************************************************)
EXTENDS IrcPeer, SequenceTheorems, TLAPS

\* A question to the server takes a line, also one that main() is about to send.
AskedInTime ==
  \A c \in Peers : asked[c] + (IF main[c] = "connect" THEN 1 ELSE 0) <= typed

\* Nothing of an exited client does anything more.
ExitIsFinal ==
  \A c \in Peers : mode[c] = "off" =>
    /\ main[c] = "off" /\ signal[c] = "none"
    /\ socket[c] = None
    /\ \A t \in Threads : Owner(t) = c => thread[t].pc \in {"none", "done"}

\* A call waits at a port of the client that is called.
CallsOwnPort ==
  \A e \in DOMAIN conn : conn[e].backlog # None => conn[e].owner = Owner(conn[e].backlog)

\* Thread t is about to begin a conversation on e, and only it knows the descriptor.
Holds(t, e) == thread[t].pc \in {"id", "begin"} /\ thread[t].on = e

OneHolder ==
  \A t \in Threads, e \in DOMAIN conn : Holds(t, e) =>
    /\ conn[e].backlog = None
    /\ \A u \in Threads : Holds(u, e) => u = t

Fresh(e) == conn[e].backlog # None \/ \E t \in Threads : Holds(t, e)

\* Before its conversation has begun, nobody closes an end or has it in peer_info.
FreshUntouched ==
  \A e \in DOMAIN conn :
    Fresh(e) /\ mode[conn[e].owner] # "off" => conn[e].open /\ socket[conn[e].owner] # e

\* What is in peer_info of client c where its thread t is.
InStep(c, t) ==
  LET e == socket[c]
  IN  /\ thread[t].pc = "chat" <=> mode[c] # "CHAT"
      /\ thread[t].pc # "inform" <=> e # None
      /\ thread[t].pc \notin {"forget", "inform"} => conn[e].open
      /\ thread[t].pc = "recv" => thread[t].on = e
      /\ thread[t].pc = "hangup" => e \in heard

\* One thread converses, and peer_info is what it has made of it; or none does.
Converses(c) ==
  /\ \A t \in Threads : Owner(t) = c /\ Busy(t) =>
       /\ InStep(c, t)
       /\ \A u \in Threads : Owner(u) = c /\ Busy(u) => u = t
  /\ (\A t \in Threads : Owner(t) = c => ~Busy(t)) => mode[c] # "CHAT" /\ socket[c] = None

Conversations == \A c \in Peers \ crossed : Converses(c)

IndInv ==
  /\ TypeOK
  /\ AskedInTime
  /\ ExitIsFinal
  /\ CallsOwnPort
  /\ OneHolder
  /\ FreshUntouched
  /\ Conversations
-----------------------------------------------------------------------------
\* Every thread belongs to one of the two clients, the reader to its own.
LEMMA OwnerFacts ==
  /\ \A t \in Threads : Owner(t) \in Peers
  /\ \A c \in Peers : c \in Threads /\ Owner(c) = c
  /\ Ports \subseteq Threads /\ None \notin Ports
  /\ \A c \in Peers : PortsOf(c) \subseteq Ports /\ \A p \in PortsOf(c) : Owner(p) = c
BY IrcPeerAssumption DEF Threads, Peers, Ports, PortsOf, Owner, None

\* A call adds two ends, which are new.
LEMMA EndsFacts ==
  ASSUME NEW n \in Nat
  PROVE  /\ None \notin Ends(n)
         /\ \A e \in Ends(n) : Mate(e) \in Ends(n)
         /\ n + 1 \in Ends(n + 1) /\ Mate(n + 1) \in Ends(n + 1) /\ Mate(n + 1) # n + 1
         /\ n + 1 \notin Ends(n) /\ Mate(n + 1) \notin Ends(n)
         /\ \A e : e \in Ends(n + 1) <=> e \in Ends(n) \/ e = n + 1 \/ e = Mate(n + 1)
BY DEF Ends, Mate, None

\* Of the ends only what they carry is another, and that end e is closed, if it is
\* one.
EndsBut(ends, e) ==
  /\ ends \in [Ends(calls) -> End]
  /\ \A f \in Ends(calls) : /\ ends[f].owner = conn[f].owner
                            /\ ends[f].backlog = conn[f].backlog
                            /\ ends[f].open <=> conn[f].open /\ f # e

\* What TypeOK says of one end, one thread, one socket.
LEMMA TypeFacts ==
  ASSUME TypeOK
  PROVE  /\ calls \in Nat /\ DOMAIN conn = Ends(calls)
         /\ \A e \in Ends(calls) : /\ e # None
                                   /\ conn[e] \in End
                                   /\ conn[e].owner \in Peers
                                   /\ conn[e].backlog \in {None} \cup Ports
                                   /\ conn[e].open \in BOOLEAN
                                   /\ conn[e].stream \in Seq({"id", "text", "LEAVE"})
         /\ \A t \in Threads : thread[t].pc \in {"id", "begin", "recv"} =>
              thread[t].on \in Ends(calls) /\ conn[thread[t].on].owner = Owner(t)
         /\ \A c \in Peers : socket[c] # None =>
              socket[c] \in Ends(calls) /\ conn[socket[c]].owner = c
<1>1. calls \in Nat /\ DOMAIN conn = Ends(calls)
  BY IrcPeerAssumption DEF TypeOK
<1>2. \A e \in Ends(calls) : e # None
  BY <1>1, EndsFacts
<1>3. \A e \in Ends(calls) : conn[e] \in End
  BY DEF TypeOK
<1>4. QED
  BY <1>1, <1>2, <1>3 DEF TypeOK, End

\* A change of what one end carries.
LEMMA StreamChanged ==
  ASSUME TypeOK, NEW e \in Ends(calls), NEW s \in Seq({"id", "text", "LEAVE"})
  PROVE  EndsBut([conn EXCEPT ![e].stream = s], None)
<1> DEFINE new == [conn[e] EXCEPT !.stream = s]
<1>1. /\ new \in End
      /\ new.owner = conn[e].owner /\ new.backlog = conn[e].backlog /\ new.open = conn[e].open
  BY TypeFacts DEF End
<1>2. [conn EXCEPT ![e].stream = s] = [conn EXCEPT ![e] = new]
  OBVIOUS
<1> HIDE DEF new
<1>3. conn \in [Ends(calls) -> End]
  BY DEF TypeOK
<1>4. \A f \in Ends(calls) :
        [conn EXCEPT ![e] = new][f] = IF f = e THEN new ELSE conn[f]
  BY <1>3
<1>5. [conn EXCEPT ![e] = new] \in [Ends(calls) -> End]
  BY <1>1, <1>3
<1>6. QED
  BY <1>1, <1>2, <1>4, <1>5, TypeFacts DEF EndsBut

\* send().
LEMMA SentIs ==
  ASSUME TypeOK, NEW c \in Peers, NEW w \in {"text", "LEAVE"}
  PROVE  EndsBut(Sent(socket[c], w), None)
<1>1. CASE ~(Usable(socket[c]) /\ ~Gone(Mate(socket[c])))
  <2>1. Sent(socket[c], w) = conn
    BY <1>1 DEF Sent
  <2>2. QED
    BY <2>1, TypeFacts DEF EndsBut, TypeOK
<1>2. CASE Usable(socket[c]) /\ ~Gone(Mate(socket[c]))
  <2> DEFINE m == Mate(socket[c])
             s == Append(conn[m].stream, w)
  <2>1. m \in Ends(calls)
    BY <1>2, TypeFacts, EndsFacts DEF Usable
  <2>2. s \in Seq({"id", "text", "LEAVE"})
    BY <2>1, TypeFacts, AppendProperties
  <2>3. Sent(socket[c], w) = [conn EXCEPT ![m].stream = s]
    BY <1>2 DEF Sent
  <2>4. QED
    BY <2>1, <2>2, <2>3, StreamChanged
<1>3. QED
  BY <1>1, <1>2

\* recv().
LEMMA TakesIs ==
  ASSUME TypeOK, NEW e \in Ends(calls), NEW n \in Nat, Takes(e, n)
  PROVE  EndsBut(conn', None)
<1> DEFINE s == SubSeq(conn[e].stream, n + 1, Len(conn[e].stream))
<1>1. conn[e].stream \in Seq({"id", "text", "LEAVE"})
  BY TypeFacts
<1>2. s \in Seq({"id", "text", "LEAVE"})
  BY <1>1, SubSeqProperties, LenProperties DEF Takes
<1>3. conn' = [conn EXCEPT ![e].stream = s]
  BY DEF Takes
<1>4. QED
  BY <1>2, <1>3, StreamChanged

\* close().
LEMMA ClosedIs ==
  ASSUME TypeOK, NEW e \in {None} \cup Ends(calls)
  PROVE  EndsBut(Closed(e, conn), e)
<1>1. CASE e = None
  BY <1>1, TypeFacts DEF EndsBut, Closed, TypeOK
<1>2. CASE e # None
  <2> DEFINE new == [conn[e] EXCEPT !.open = FALSE]
  <2>1. /\ new \in End /\ new.owner = conn[e].owner /\ new.backlog = conn[e].backlog
        /\ ~new.open
    BY <1>2, TypeFacts DEF End
  <2>2. Closed(e, conn) = [conn EXCEPT ![e] = new]
    BY <1>2 DEF Closed
  <2> HIDE DEF new
  <2>3. QED
    BY <1>2, <2>1, <2>2, TypeFacts DEF EndsBut, TypeOK
<1>3. QED
  BY <1>1, <1>2

-----------------------------------------------------------------------------
\* The parts of the invariant that speak of calls whose conversation has not begun.
LEMMA FreshKept ==
  ASSUME IndInv, calls' = calls, NEW e, EndsBut(conn', e),
         \A t \in Threads : thread'[t].pc \in {"id", "begin"} =>
           thread[t].pc \in {"id", "begin"} /\ thread'[t].on = thread[t].on,
         \A c \in Peers : mode'[c] # "off" => mode[c] # "off",
         \A f \in Ends(calls) : Fresh(f)' /\ mode[conn[f].owner] # "off" => f # e,
         \A c \in Peers : \/ socket'[c] \in {socket[c], None}
                          \/ \E f \in Ends(calls) : socket'[c] = f /\ ~Fresh(f)'
  PROVE  CallsOwnPort' /\ OneHolder' /\ FreshUntouched'
<1> USE DEF IndInv
<1>1. DOMAIN conn = Ends(calls) /\ DOMAIN conn' = Ends(calls) /\ None \notin Ends(calls)
  BY TypeFacts DEF EndsBut
<1>2. \A t \in Threads : \A f : Holds(t, f)' => Holds(t, f)
  BY DEF Holds
<1>3. \A f \in Ends(calls) : Fresh(f)' => Fresh(f)
  BY <1>2 DEF Fresh, EndsBut
<1>4. CallsOwnPort'
  BY <1>1 DEF CallsOwnPort, EndsBut
<1>5. OneHolder'
  BY <1>1, <1>2 DEF OneHolder, EndsBut
<1>6. FreshUntouched'
  <2> SUFFICES ASSUME NEW f \in Ends(calls), Fresh(f)', mode'[conn'[f].owner] # "off"
               PROVE  conn'[f].open /\ socket'[conn'[f].owner] # f
    BY <1>1 DEF FreshUntouched
  <2>1. conn'[f].owner = conn[f].owner /\ conn[f].owner \in Peers
    BY TypeFacts DEF EndsBut
  <2>2. Fresh(f) /\ mode[conn[f].owner] # "off" /\ f # e
    BY <1>3, <2>1
  <2>3. conn[f].open /\ socket[conn[f].owner] # f
    BY <1>1, <2>2 DEF FreshUntouched
  <2>4. conn'[f].open
    BY <2>2, <2>3 DEF EndsBut
  <2>5. socket'[conn[f].owner] # f
    BY <1>1, <2>1, <2>3
  <2>6. QED
    BY <2>1, <2>4, <2>5
<1>7. QED
  BY <1>4, <1>5, <1>6

\* A client whose conversation the step does not touch.
LEMMA ConversesStill ==
  ASSUME NEW c \in Peers, Converses(c),
         mode'[c] = "CHAT" <=> mode[c] = "CHAT", socket'[c] = socket[c],
         \A t \in Threads : Owner(t) = c =>
           thread'[t] = thread[t] \/ (~Busy(t) /\ ~Busy(t)'),
         socket[c] # None /\ conn[socket[c]].open => conn'[socket[c]].open,
         heard \subseteq heard'
  PROVE  Converses(c)'
<1>1. \A t \in Threads : Owner(t) = c /\ Busy(t)' => Busy(t) /\ thread'[t] = thread[t]
  BY DEF Busy
<1>2. \A t \in Threads : Owner(t) = c /\ Busy(t) => Busy(t)'
  BY DEF Busy
<1>3. \A t \in Threads : Owner(t) = c /\ Busy(t)' => InStep(c, t)'
  <2> SUFFICES ASSUME NEW t \in Threads, Owner(t) = c, Busy(t)'
               PROVE  InStep(c, t)'
    OBVIOUS
  <2>1. InStep(c, t) /\ thread'[t] = thread[t] /\ Busy(t)
    BY <1>1 DEF Converses
  <2>2. QED
    BY <2>1 DEF InStep, Busy
<1>4. QED
  BY <1>1, <1>2, <1>3 DEF Converses

\* The thread that converses goes on with the conversation.
LEMMA ConversesOn ==
  ASSUME NEW c \in Peers, Converses(c), NEW t \in Threads, Owner(t) = c,
         Busy(t), InStep(c, t)',
         \A u \in Threads \ {t} : Owner(u) = c => thread'[u] = thread[u]
  PROVE  Busy(t)' => Converses(c)'
BY DEF Converses, Busy

\* It ends it.
LEMMA ConversesNoMore ==
  ASSUME NEW c \in Peers, Converses(c), NEW t \in Threads, Owner(t) = c,
         Busy(t), ~Busy(t)', mode'[c] # "CHAT", socket'[c] = None,
         \A u \in Threads \ {t} : Owner(u) = c => thread'[u] = thread[u]
  PROVE  Converses(c)'
BY DEF Converses, Busy

\* Only the client that acts can be disturbed.
LEMMA ConversationsKept ==
  ASSUME IndInv, NEW d \in Peers, crossed \subseteq crossed', heard \subseteq heard',
         \A f \in Ends(calls) : conn[f].open /\ conn[f].owner # d => conn'[f].open,
         \A c \in Peers \ {d} : mode'[c] = mode[c] /\ socket'[c] = socket[c],
         \A t \in Threads : Owner(t) # d => thread'[t] = thread[t],
         d \notin crossed' => Converses(d)'
  PROVE  Conversations'
<1> SUFFICES ASSUME NEW c \in Peers \ crossed', c # d
             PROVE  Converses(c)'
  BY DEF Conversations
<1>1. Converses(c)
  BY DEF IndInv, Conversations
<1>2. socket[c] # None /\ conn[socket[c]].open => conn'[socket[c]].open
  BY TypeFacts DEF IndInv
<1>3. QED
  BY <1>1, <1>2, ConversesStill

-----------------------------------------------------------------------------
\* A step of main() or of the handler of Ctrl+C that sends a word, or sets the mode
\* to INFO or WAIT, at most.
LEMMA MainKeeps ==
  ASSUME IndInv, UNCHANGED <<socket, thread, calls, hidden, heard>>,
         EndsBut(conn', None),
         mode' \in [Peers -> {"INFO", "WAIT", "CHAT", "off"}],
         \A c \in Peers : \/ mode'[c] = mode[c]
                          \/ /\ mode[c] # "off" /\ mode'[c] \in {"INFO", "WAIT"}
                             /\ mode[c] = "CHAT" => c \in crossed',
         main' \in [Peers -> {"prompt", "send", "connect", "test", "wait", "listen", "bye", "off"}],
         signal' \in [Peers -> {"none", "leave", "close", "stop"}],
         \A c \in Peers : mode[c] = "off" => main'[c] = "off" /\ signal'[c] = "none",
         listener' \in [Peers -> {None} \cup Ports],
         \A c \in Peers : listener'[c] # None => Owner(listener'[c]) = c,
         opened' \subseteq Ports,
         asked' \in [Peers -> 0 .. MaxTyped], typed' \in 0 .. MaxTyped, AskedInTime',
         crossed \subseteq crossed', crossed' \subseteq Peers
  PROVE  IndInv'
<1>1. TypeOK'
  <2>1. /\ conn' \in [Ends(calls) -> End]
        /\ \A f \in Ends(calls) : conn'[f].owner = conn[f].owner
    BY DEF EndsBut
  <2>2. QED
    BY <2>1, TypeFacts DEF IndInv, TypeOK
<1>2. ExitIsFinal'
  BY DEF IndInv, ExitIsFinal
<1>3. CallsOwnPort' /\ OneHolder' /\ FreshUntouched'
  <2>1. \A f \in Ends(calls) : f # None
    BY TypeFacts DEF IndInv
  <2>2. QED
    BY <2>1, FreshKept
<1>4. Conversations'
  <2> SUFFICES ASSUME NEW c \in Peers \ crossed'
               PROVE  Converses(c)'
    BY DEF Conversations
  <2>1. Converses(c)
    BY DEF IndInv, Conversations
  <2>2. socket[c] # None /\ conn[socket[c]].open => conn'[socket[c]].open
    BY TypeFacts DEF IndInv, EndsBut
  <2>3. mode'[c] = "CHAT" <=> mode[c] = "CHAT"
    OBVIOUS
  <2>4. QED
    BY <2>1, <2>2, <2>3, ConversesStill
<1>5. QED
  BY <1>1, <1>2, <1>3, <1>4 DEF IndInv

Pcs == {"none", "born", "server", "clear", "accept", "id", "begin", "chat", "head",
        "enter", "recv", "hangup", "forget", "inform", "done"}

\* What a step of thread t makes of the variables of the client and of the histories.
Tidy(t) ==
  /\ mode' \in [Peers -> {"INFO", "WAIT", "CHAT", "off"}]
  /\ mode[Owner(t)] # "off" => mode'[Owner(t)] # "off"
  /\ socket' \in [Peers -> {None} \cup Ends(calls)]
  /\ \A c \in Peers : socket'[c] # None => conn[socket'[c]].owner = c
  /\ \A c \in Peers \ {Owner(t)} : mode'[c] = mode[c] /\ socket'[c] = socket[c]
  /\ asked' \in [Peers -> 0 .. MaxTyped] /\ \A c \in Peers : asked'[c] <= asked[c]
  /\ typed' = typed /\ calls' = calls
  /\ crossed \subseteq crossed' /\ crossed' \subseteq Peers
  /\ hidden' \subseteq Ends(calls)
  /\ heard \subseteq heard' /\ heard' \subseteq Ends(calls)

\* The socket that it leaves in peer_info is not that of a call to come.
Proper(t) ==
  \/ socket'[Owner(t)] \in {socket[Owner(t)], None}
  \/ \E f \in Ends(calls) : socket'[Owner(t)] = f /\ ~Fresh(f)'

\* It keeps the types ...
LEMMA ThreadTypes ==
  ASSUME TypeOK, NEW t \in Threads, NEW from, NEW to \in Pcs,
         NEW on \in {None} \cup Ports \cup Ends(calls), ThreadGoes(t, from, to, on),
         Tidy(t), NEW e, EndsBut(conn', e),
         to = "accept" => on \in PortsOf(Owner(t)),
         to \in {"id", "begin", "recv"} => on \in Ends(calls) /\ conn[on].owner = Owner(t)
  PROVE  TypeOK'
<1> USE DEF Tidy
<1> DEFINE new == [pc |-> to, on |-> on]
<1>1. /\ conn' \in [Ends(calls) -> End]
      /\ \A f \in Ends(calls) : conn'[f].owner = conn[f].owner
  BY DEF EndsBut
<1>2. /\ new \in [pc : Pcs, on : {None} \cup Ports \cup Ends(calls)]
      /\ new.pc = to /\ new.on = on
  OBVIOUS
<1>3. thread' = [thread EXCEPT ![t] = new] /\ UNCHANGED <<main, signal, listener, opened>>
  BY DEF ThreadGoes, control, listening
<1> HIDE DEF new
<1>4. thread \in [Threads -> [pc : Pcs, on : {None} \cup Ports \cup Ends(calls)]]
  BY DEF TypeOK, Pcs
<1>5. thread' \in [Threads -> [pc : Pcs, on : {None} \cup Ports \cup Ends(calls)]]
  BY <1>2, <1>3, <1>4
<1>6. \A u \in Threads :
        /\ thread'[u].pc = "accept" => thread'[u].on \in PortsOf(Owner(u))
        /\ thread'[u].pc \in {"id", "begin", "recv"} =>
             thread'[u].on \in Ends(calls) /\ conn'[thread'[u].on].owner = Owner(u)
  <2> SUFFICES ASSUME NEW u \in Threads
               PROVE  /\ thread'[u].pc = "accept" => thread'[u].on \in PortsOf(Owner(u))
                      /\ thread'[u].pc \in {"id", "begin", "recv"} =>
                           /\ thread'[u].on \in Ends(calls)
                           /\ conn'[thread'[u].on].owner = Owner(u)
    OBVIOUS
  <2>1. CASE u = t
    BY <1>1, <1>2, <1>3, <1>4, <2>1
  <2>2. CASE u # t
    <3>1. thread'[u] = thread[u]
      BY <1>3, <1>4, <2>2
    <3>2. QED
      BY <1>1, <3>1 DEF TypeOK
  <2>3. QED
    BY <2>1, <2>2
<1>7. \A c \in Peers : socket'[c] # None => conn'[socket'[c]].owner = c
  BY <1>1
<1>8. QED
  BY <1>1, <1>3, <1>5, <1>6, <1>7 DEF TypeOK, Pcs

\* ... and the invariant, if it leaves the conversation of its client in order, and
\* does not close an end before its conversation.
LEMMA ThreadKeeps ==
  ASSUME IndInv, TypeOK', NEW t \in Threads, NEW from, NEW to, NEW on,
         ThreadGoes(t, from, to, on), from \notin {"none", "done"},
         to \in {"id", "begin"} => from \in {"id", "begin"} /\ on = thread[t].on,
         Tidy(t), Proper(t), NEW e, EndsBut(conn', e),
         e # None => e \in Ends(calls) /\ conn[e].owner = Owner(t) /\ ~Fresh(e)',
         Owner(t) \notin crossed' => Converses(Owner(t))'
  PROVE  IndInv'
<1> USE DEF Tidy, Proper
<1> DEFINE d == Owner(t)
<1>1. d \in Peers
  BY OwnerFacts
<1>2. /\ \A u \in Threads : u # t => thread'[u] = thread[u]
      /\ thread[t].pc = from /\ thread'[t].pc = to /\ thread'[t].on = on
      /\ UNCHANGED <<main, signal>>
  BY DEF ThreadGoes, control, IndInv, TypeOK
<1>3. mode[d] # "off" /\ mode'[d] # "off"
  BY <1>1, <1>2 DEF IndInv, ExitIsFinal
<1>4. AskedInTime'
  BY <1>2 DEF IndInv, AskedInTime, TypeOK
<1>5. ExitIsFinal'
  BY <1>1, <1>2, <1>3 DEF IndInv, ExitIsFinal
<1>6. CallsOwnPort' /\ OneHolder' /\ FreshUntouched'
  <2>1. \A u \in Threads : thread'[u].pc \in {"id", "begin"} =>
          thread[u].pc \in {"id", "begin"} /\ thread'[u].on = thread[u].on
    BY <1>2
  <2>2. \A c \in Peers : mode'[c] # "off" => mode[c] # "off"
    BY <1>3
  <2>3. \A f \in Ends(calls) : Fresh(f)' /\ mode[conn[f].owner] # "off" => f # e
    BY TypeFacts DEF IndInv
  <2>4. \A c \in Peers : \/ socket'[c] \in {socket[c], None}
                          \/ \E f \in Ends(calls) : socket'[c] = f /\ ~Fresh(f)'
    <3> SUFFICES ASSUME NEW c \in Peers
                 PROVE  \/ socket'[c] \in {socket[c], None}
                        \/ \E f \in Ends(calls) : socket'[c] = f /\ ~Fresh(f)'
      OBVIOUS
    <3>1. CASE c = d
      BY <3>1
    <3>2. CASE c # d
      BY <3>2
    <3>3. QED
      BY <3>1, <3>2
  <2>5. QED
    BY <2>1, <2>2, <2>3, <2>4, FreshKept
<1>7. Conversations'
  <2>1. \A f \in Ends(calls) : conn[f].open /\ conn[f].owner # d => conn'[f].open
    BY TypeFacts DEF EndsBut, IndInv
  <2>2. \A u \in Threads : Owner(u) # d => thread'[u] = thread[u]
    BY <1>2
  <2>3. QED
    BY <1>1, <2>1, <2>2, ConversationsKept
<1>8. QED
  BY <1>4, <1>5, <1>6, <1>7 DEF IndInv

LEMMA ConnUnchanged ==
  ASSUME TypeOK
  PROVE  EndsBut(conn, None) /\ \A e : conn' = conn => EndsBut(conn', None)
BY TypeFacts DEF EndsBut, TypeOK

-----------------------------------------------------------------------------
LEMMA InitInd ==
  ASSUME Init
  PROVE  IndInv
<1>1. Ends(0) = {}
  BY DEF Ends, None
<1>2. TypeOK
  BY <1>1, OwnerFacts, IrcPeerAssumption DEF Init, TypeOK, At
<1>3. Conversations
  BY DEF Init, Conversations, Converses, Busy, At
<1>4. QED
  BY <1>1, <1>2, <1>3
     DEF Init, IndInv, AskedInTime, ExitIsFinal, CallsOwnPort, OneHolder, FreshUntouched, At

\* The user types, and main() does what the line asks for.
LEMMA TypesKeeps ==
  ASSUME IndInv, NEW c \in Peers,
         TypeText(c) \/ TypeQuit(c) \/ TypeConnect(c) \/ TypeWait(c) \/ Interrupt(c)
  PROVE  IndInv'
<1> USE DEF IndInv, AskedInTime, ExitIsFinal
<1>1. /\ UNCHANGED <<mode, socket, listener, opened, thread, calls, conn, crossed, hidden, heard>>
      /\ typed < MaxTyped /\ typed' = typed + 1
      /\ asked' \in {asked, [asked EXCEPT ![c] = @ + 1]}
      /\ mode[c] # "off"
      /\ \/ UNCHANGED signal /\ \E m \in {"send", "bye", "prompt", "connect", "test", "wait"} :
                                    main' = [main EXCEPT ![c] = m]
         \/ UNCHANGED main /\ \E m \in {"leave", "close"} : signal' = [signal EXCEPT ![c] = m]
  BY DEF TypeText, TypeQuit, TypeConnect, TypeWait, Interrupt, Types, Asks, MainGoes,
         HandlerGoes, Count, peer_info, listening, network, history
<1>2. /\ asked' \in [Peers -> 0 .. MaxTyped] /\ typed' \in 0 .. MaxTyped
      /\ AskedInTime'
  <2>1. \A d \in Peers : asked'[d] + (IF main'[d] = "connect" THEN 1 ELSE 0) <= typed + 1
    BY <1>1 DEF TypeText, TypeQuit, TypeConnect, TypeWait, Interrupt, Types, Asks, MainGoes,
                HandlerGoes, TypeOK
  <2>2. QED
    BY <1>1, <2>1, IrcPeerAssumption DEF TypeOK
<1>3. /\ main' \in [Peers -> {"prompt", "send", "connect", "test", "wait", "listen", "bye", "off"}]
      /\ signal' \in [Peers -> {"none", "leave", "close", "stop"}]
      /\ \A d \in Peers : mode[d] = "off" => main'[d] = "off" /\ signal'[d] = "none"
  BY <1>1 DEF TypeOK
<1>4. EndsBut(conn', None)
  BY <1>1, ConnUnchanged
<1>5. QED
  BY <1>1, <1>2, <1>3, <1>4, MainKeeps DEF TypeOK

LEMMA MainTurnKeeps ==
  ASSUME IndInv, NEW c \in Peers,
         \/ SendText(c) \/ AskServer(c) \/ TestWait(c) \/ SetWait(c)
         \/ SendLeave(c) \/ CloseListener(c) \/ StopWaiting(c)
  PROVE  IndInv'
<1> USE DEF IndInv, ExitIsFinal
<1>1. /\ UNCHANGED <<socket, thread, calls, hidden, heard>>
      /\ typed' = typed
      /\ mode[c] # "off"
      /\ \/ UNCHANGED signal /\ \E m \in {"prompt", "wait", "listen"} :
                                    main' = [main EXCEPT ![c] = m]
         \/ UNCHANGED main /\ \E m \in {"none", "stop"} : signal' = [signal EXCEPT ![c] = m]
  BY DEF SendText, AskServer, TestWait, SetWait, SendLeave, CloseListener, StopWaiting,
         MainGoes, HandlerGoes, Cross, peer_info, listening, network, input, history, TypeOK
<1>2. conn' = conn \/ \E w \in {"text", "LEAVE"} : conn' = Sent(socket[c], w)
  BY DEF SendText, AskServer, TestWait, SetWait, SendLeave, CloseListener, StopWaiting, network
<1>3. EndsBut(conn', None)
  BY <1>2, ConnUnchanged, SentIs
<1>4. /\ crossed \subseteq crossed' /\ crossed' \subseteq Peers
      /\ mode' \in [Peers -> {"INFO", "WAIT", "CHAT", "off"}]
      /\ \A d \in Peers : \/ mode'[d] = mode[d]
                           \/ /\ mode[d] # "off" /\ mode'[d] \in {"INFO", "WAIT"}
                              /\ mode[d] = "CHAT" => d \in crossed'
  BY <1>1 DEF SendText, AskServer, TestWait, SetWait, SendLeave, CloseListener, StopWaiting,
              Cross, peer_info, history, TypeOK
<1>5. /\ listener' \in [Peers -> {None} \cup Ports] /\ opened' \subseteq Ports
      /\ \A d \in Peers : listener'[d] # None => Owner(listener'[d]) = d
  BY DEF SendText, AskServer, TestWait, SetWait, SendLeave, CloseListener, StopWaiting,
         listening, TypeOK
<1>6. asked' \in [Peers -> 0 .. MaxTyped] /\ AskedInTime'
  BY <1>1, IrcPeerAssumption
     DEF MainGoes, Asks, HandlerGoes, SendText, AskServer, TestWait, SetWait, SendLeave, CloseListener, StopWaiting,
         AskedInTime, input, TypeOK
<1>7. /\ main' \in [Peers -> {"prompt", "send", "connect", "test", "wait", "listen", "bye", "off"}]
      /\ signal' \in [Peers -> {"none", "leave", "close", "stop"}]
      /\ \A d \in Peers : mode[d] = "off" => main'[d] = "off" /\ signal'[d] = "none"
  BY <1>1 DEF TypeOK
<1>8. QED
  BY <1>1, <1>3, <1>4, <1>5, <1>6, <1>7, MainKeeps DEF TypeOK

LEMMA StartWaitingKeeps ==
  ASSUME IndInv, NEW c \in Peers, StartWaiting(c)
  PROVE  IndInv'
<1> USE DEF IndInv
<1>1. PICK p \in PortsOf(c) :
        /\ thread[p] = Unborn
        /\ listener' = [listener EXCEPT ![c] = p]
        /\ opened' = opened \cup {p}
        /\ thread' = [thread EXCEPT ![p] = At("born")]
  BY DEF StartWaiting
<1>2. /\ UNCHANGED <<mode, socket, signal, calls, conn, asked, typed, crossed, hidden, heard>>
      /\ main[c] = "listen" /\ main' = [main EXCEPT ![c] = "prompt"]
  BY DEF StartWaiting, MainGoes, peer_info, network, input, history
<1>3. p \in Threads /\ p \in Ports /\ Owner(p) = c
  BY OwnerFacts
<1>4. /\ thread[p].pc = "none" /\ thread'[p].pc = "born" /\ thread'[p].on = None
      /\ \A u \in Threads : u # p => thread'[u] = thread[u]
  BY <1>1, <1>3 DEF Unborn, At, TypeOK
<1>5. TypeOK'
  <2>1. thread' \in [Threads -> [pc : Pcs, on : {None} \cup Ports \cup Ends(calls)]]
    BY <1>1 DEF TypeOK, Pcs, At
  <2>2. /\ main' \in [Peers -> {"prompt", "send", "connect", "test", "wait", "listen", "bye", "off"}]
        /\ listener' \in [Peers -> {None} \cup Ports] /\ opened' \subseteq Ports
        /\ \A d \in Peers : listener'[d] # None => Owner(listener'[d]) = d
    BY <1>1, <1>2, <1>3 DEF TypeOK
  <2>3. QED
    BY <1>2, <1>4, <2>1, <2>2 DEF TypeOK, Pcs
<1>6. AskedInTime'
  BY <1>2 DEF AskedInTime, TypeOK
<1>7. ExitIsFinal'
  BY <1>2, <1>3, <1>4 DEF ExitIsFinal, TypeOK
<1>8. CallsOwnPort' /\ OneHolder' /\ FreshUntouched'
  <2>1. EndsBut(conn', None) /\ \A f \in Ends(calls) : f # None
    BY <1>2, ConnUnchanged, TypeFacts
  <2>2. \A u \in Threads : thread'[u].pc \in {"id", "begin"} =>
          thread[u].pc \in {"id", "begin"} /\ thread'[u].on = thread[u].on
    BY <1>4
  <2>3. QED
    BY <1>2, <2>1, <2>2, FreshKept
<1>9. Conversations'
  <2>1. Converses(c) => Converses(c)'
    <3>1. \A u \in Threads : thread'[u] = thread[u] \/ (~Busy(u) /\ ~Busy(u)')
      BY <1>4 DEF Busy
    <3>2. QED
      BY <1>2, <3>1, ConversesStill
  <2>2. \A u \in Threads : Owner(u) # c => thread'[u] = thread[u]
    BY <1>3, <1>4
  <2>3. QED
    BY <1>2, <2>1, <2>2, ConversationsKept DEF Conversations
<1>10. QED
  BY <1>5, <1>6, <1>7, <1>8, <1>9

\* The client ends, after a last word perhaps.
LEMMA ExitKeeps ==
  ASSUME IndInv, NEW c \in Peers, NEW ends, EndsBut(ends, None), Exit(c, ends)
  PROVE  IndInv'
<1> USE DEF IndInv
<1>1. /\ UNCHANGED <<calls, typed, crossed, hidden, heard>>
      /\ mode' = [mode EXCEPT ![c] = "off"] /\ socket' = [socket EXCEPT ![c] = None]
      /\ main' = [main EXCEPT ![c] = "off"] /\ signal' = [signal EXCEPT ![c] = "none"]
      /\ listener' = [listener EXCEPT ![c] = None] /\ opened' = opened \ PortsOf(c)
      /\ asked' = [asked EXCEPT ![c] = 0]
  BY DEF Exit, history
<1>2. /\ thread' \in [Threads -> [pc : Pcs, on : {None} \cup Ports \cup Ends(calls)]]
      /\ \A t \in Threads : Owner(t) # c => thread'[t] = thread[t]
      /\ \A t \in Threads : Owner(t) = c => thread'[t].pc \in {"none", "done"}
  BY DEF Exit, TypeOK, Pcs, At, Unborn
<1>3. /\ conn' \in [Ends(calls) -> End]
      /\ \A f \in Ends(calls) : /\ conn'[f].owner = conn[f].owner
                                /\ conn'[f].backlog = conn[f].backlog
                                /\ conn'[f].open <=> conn[f].open /\ conn[f].owner # c
  <2>1. DOMAIN conn = Ends(calls)
    BY TypeFacts
  <2>2. conn' = [f \in Ends(calls) |->
                   IF conn[f].owner = c THEN [ends[f] EXCEPT !.open = FALSE] ELSE ends[f]]
    BY <2>1 DEF Exit
  <2>3. \A f \in Ends(calls) :
          LET new == [ends[f] EXCEPT !.open = FALSE]
          IN  /\ new \in End /\ new.owner = ends[f].owner
              /\ new.backlog = ends[f].backlog /\ ~new.open
    BY DEF EndsBut, End
  <2>4. \A f \in Ends(calls) : ends[f] \in End
    BY DEF EndsBut
  <2>5. \A f \in Ends(calls) : f # None
    BY TypeFacts
  <2>6. \A f \in Ends(calls) : conn'[f] \in End /\ conn'[f].owner = conn[f].owner
                                /\ conn'[f].backlog = conn[f].backlog
                                /\ (conn'[f].open <=> conn[f].open /\ conn[f].owner # c)
    <3> SUFFICES ASSUME NEW f \in Ends(calls)
                 PROVE  conn'[f] \in End /\ conn'[f].owner = conn[f].owner
                        /\ conn'[f].backlog = conn[f].backlog
                        /\ (conn'[f].open <=> conn[f].open /\ conn[f].owner # c)
      OBVIOUS
    <3> DEFINE new == [ends[f] EXCEPT !.open = FALSE]
    <3>1. /\ new \in End /\ new.owner = ends[f].owner
          /\ new.backlog = ends[f].backlog /\ ~new.open
      BY <2>3
    <3>2. conn'[f] = IF conn[f].owner = c THEN new ELSE ends[f]
      BY <2>2
    <3> HIDE DEF new
    <3>3. QED
      BY <2>4, <2>5, <3>1, <3>2 DEF EndsBut
  <2>7. QED
    BY <2>2, <2>6
<1>4. TypeOK'
  BY <1>1, <1>2, <1>3, IrcPeerAssumption DEF TypeOK, Pcs
<1>5. AskedInTime'
  BY <1>1 DEF AskedInTime, TypeOK
<1>6. ExitIsFinal'
  BY <1>1, <1>2 DEF ExitIsFinal, TypeOK
<1>7. DOMAIN conn = Ends(calls) /\ DOMAIN conn' = Ends(calls)
  BY <1>3, TypeFacts
<1>8. \A t \in Threads : \A f : Holds(t, f)' => Holds(t, f)
  BY <1>2 DEF Holds
<1>9. CallsOwnPort' /\ OneHolder'
  BY <1>3, <1>7, <1>8 DEF CallsOwnPort, OneHolder
<1>10. FreshUntouched'
  <2> SUFFICES ASSUME NEW f \in Ends(calls), Fresh(f)', mode'[conn'[f].owner] # "off"
               PROVE  conn'[f].open /\ socket'[conn'[f].owner] # f
    BY <1>7 DEF FreshUntouched
  <2>1. Fresh(f)
    BY <1>3, <1>8 DEF Fresh
  <2>2. conn'[f].owner = conn[f].owner /\ conn[f].owner \in Peers /\ conn[f].owner # c
    BY <1>1, <1>3, TypeFacts DEF TypeOK
  <2>3. mode'[conn[f].owner] = mode[conn[f].owner] /\ socket'[conn[f].owner] = socket[conn[f].owner]
    BY <1>1, <2>2 DEF TypeOK
  <2>4. QED
    BY <1>3, <1>7, <2>1, <2>2, <2>3 DEF FreshUntouched
<1>11. Conversations'
  <2>1. Converses(c)'
    BY <1>1, <1>2 DEF Converses, Busy, TypeOK
  <2>2. \A d \in Peers \ {c} : mode'[d] = mode[d] /\ socket'[d] = socket[d]
    BY <1>1 DEF TypeOK
  <2>3. QED
    BY <1>1, <1>2, <1>3, <2>1, <2>2, ConversationsKept
<1>12. QED
  BY <1>4, <1>5, <1>6, <1>9, <1>10, <1>11

LEMMA EndKeeps ==
  ASSUME IndInv, NEW c \in Peers, SayBye(c) \/ Dies(c)
  PROVE  IndInv'
BY SentIs, ConnUnchanged, ExitKeeps DEF SayBye, Dies, IndInv

-----------------------------------------------------------------------------
\* Where thread t is and where it goes, if it begins or ends no conversation.
LEMMA Aside ==
  ASSUME IndInv, NEW t \in Threads, NEW from, NEW to, NEW on, ThreadGoes(t, from, to, on),
         {from, to} \cap {"chat", "head", "enter", "recv", "hangup", "forget", "inform"} = {},
         mode' = mode, crossed \subseteq crossed', heard \subseteq heard',
         Owner(t) \notin crossed' =>
           /\ socket'[Owner(t)] = socket[Owner(t)]
           /\ socket[Owner(t)] # None /\ conn[socket[Owner(t)]].open
                => conn'[socket[Owner(t)]].open
  PROVE  Owner(t) \notin crossed' => Converses(Owner(t))'
<1> SUFFICES ASSUME Owner(t) \notin crossed'
             PROVE  Converses(Owner(t))'
  OBVIOUS
<1>1. Owner(t) \in Peers /\ Converses(Owner(t))
  BY OwnerFacts DEF IndInv, Conversations
<1>2. \A u \in Threads : thread'[u] = thread[u] \/ (~Busy(u) /\ ~Busy(u)')
  BY DEF ThreadGoes, Busy, IndInv, TypeOK
<1>3. QED
  BY <1>1, <1>2, ConversesStill

\* Neither the socket of a client nor an end that it has closed waits for its
\* conversation.
LEMMA SocketNotFresh ==
  ASSUME IndInv, NEW c \in Peers, mode[c] # "off", socket[c] # None,
         NEW t \in Threads, NEW from, NEW to, NEW on, ThreadGoes(t, from, to, on),
         to \notin {"id", "begin"}, calls' = calls, NEW g, EndsBut(conn', g)
  PROVE  \A e \in Ends(calls) : e = socket[c] => ~Fresh(e)'
<1> SUFFICES ASSUME NEW e \in Ends(calls), e = socket[c], Fresh(e)'
             PROVE  FALSE
  OBVIOUS
<1>1. \A u \in Threads : Holds(u, e)' => Holds(u, e)
  BY DEF ThreadGoes, Holds, IndInv, TypeOK
<1>2. Fresh(e)
  BY <1>1 DEF Fresh, EndsBut
<1>3. conn[e].owner = c /\ DOMAIN conn = Ends(calls)
  BY TypeFacts DEF IndInv
<1>4. QED
  BY <1>2, <1>3 DEF IndInv, FreshUntouched

\* A step that leaves peer_info alone.
LEMMA TidyFacts ==
  ASSUME TypeOK, NEW t \in Threads, UNCHANGED <<mode, calls, typed>>,
         socket' \in {socket, [socket EXCEPT ![Owner(t)] = None]},
         asked' \in [Peers -> 0 .. MaxTyped], \A c \in Peers : asked'[c] <= asked[c],
         crossed \subseteq crossed', crossed' \subseteq Peers, hidden' \subseteq Ends(calls),
         heard \subseteq heard', heard' \subseteq Ends(calls)
  PROVE  Tidy(t) /\ Proper(t)
<1>1. Owner(t) \in Peers
  BY OwnerFacts
<1>2. \A c \in Peers : socket'[c] = socket[c] \/ (c = Owner(t) /\ socket'[c] = None)
  <2>1. CASE socket' = socket
    BY <2>1
  <2>2. CASE socket' = [socket EXCEPT ![Owner(t)] = None]
    BY <1>1, <2>2 DEF TypeOK
  <2>3. QED
    BY <2>1, <2>2
<1>3. socket' \in [Peers -> {None} \cup Ends(calls)]
  BY <1>1 DEF TypeOK
<1>4. Proper(t)
  BY <1>1, <1>2 DEF Proper
<1>5. QED
  BY <1>2, <1>3, <1>4 DEF Tidy, TypeOK

LEMMA ConnectFailsKeeps ==
  ASSUME IndInv, NEW c \in Peers, ConnectFails(c)
  PROVE  IndInv'
<1> USE DEF IndInv
<1>1. PICK e : e = socket[c]
  OBVIOUS
<1>2. /\ ThreadGoes(c, "server", "clear", None) /\ c \in Threads /\ Owner(c) = c
      /\ UNCHANGED <<mode, socket, calls, typed, hidden, heard>>
      /\ crossed \subseteq crossed' /\ crossed' \subseteq Peers
      /\ c \notin crossed' => socket[c] = None
      /\ asked' = [asked EXCEPT ![c] = @ - 1] /\ asked[c] > 0
  BY OwnerFacts DEF ConnectFails, GetsConnect, Cross, peer_info, TypeOK
<1>3. EndsBut(conn', e) /\ e \in {None} \cup Ends(calls)
  BY <1>1, ClosedIs DEF ConnectFails, TypeOK
<1>4. asked' \in [Peers -> 0 .. MaxTyped] /\ \A d \in Peers : asked'[d] <= asked[d]
  BY <1>2, IrcPeerAssumption DEF TypeOK
<1>5. Tidy(c) /\ Proper(c)
  BY <1>2, <1>4, TidyFacts DEF TypeOK
<1>6. TypeOK'
  BY <1>2, <1>3, <1>5, ThreadTypes DEF Pcs
<1>7. mode[c] # "off"
  BY <1>2 DEF ExitIsFinal, ThreadGoes
<1>8. e # None => e \in Ends(calls) /\ conn[e].owner = c /\ ~Fresh(e)'
  BY <1>1, <1>2, <1>3, <1>7, SocketNotFresh, TypeFacts
<1>9. c \notin crossed' => Converses(c)'
  BY <1>2, Aside
<1>10. QED
  BY <1>2, <1>3, <1>5, <1>6, <1>8, <1>9, ThreadKeeps

LEMMA ClearSocketKeeps ==
  ASSUME IndInv, NEW c \in Peers, ClearSocket(c)
  PROVE  IndInv'
<1> USE DEF IndInv
<1>1. /\ ThreadGoes(c, "clear", "server", None) /\ c \in Threads /\ Owner(c) = c
      /\ UNCHANGED <<mode, calls, conn, asked, typed, hidden, heard>>
      /\ socket' = [socket EXCEPT ![c] = None]
      /\ crossed \subseteq crossed' /\ crossed' \subseteq Peers
      /\ c \notin crossed' => socket[c] = None
  BY OwnerFacts DEF ClearSocket, Cross, network, input, TypeOK
<1>2. EndsBut(conn', None)
  BY <1>1, ConnUnchanged
<1>3. Tidy(c) /\ Proper(c)
  <2>1. asked' \in [Peers -> 0 .. MaxTyped] /\ \A d \in Peers : asked'[d] <= asked[d]
    BY <1>1, IrcPeerAssumption DEF TypeOK
  <2>2. hidden' \subseteq Ends(calls) /\ heard' \subseteq Ends(calls) /\ heard \subseteq heard'
    BY <1>1 DEF TypeOK
  <2>3. QED
    BY <1>1, <2>1, <2>2, TidyFacts
<1>4. TypeOK'
  BY <1>1, <1>2, <1>3, ThreadTypes DEF Pcs
<1>5. c \notin crossed' => Converses(c)'
  BY <1>1, Aside DEF TypeOK
<1>6. QED
  BY <1>1, <1>2, <1>3, <1>4, <1>5, ThreadKeeps

LEMMA EnterAcceptKeeps ==
  ASSUME IndInv, NEW t \in Threads, EnterAccept(t)
  PROVE  IndInv'
<1> USE DEF IndInv
<1>1. PICK p : p = listener[Owner(t)]
  OBVIOUS
<1>2. PICK to \in {"done", "accept"} :
        ThreadGoes(t, "born", to, p) /\ (to = "accept" => p # None)
  BY <1>1 DEF EnterAccept
<1>3. UNCHANGED <<mode, socket, calls, conn, asked, typed, crossed, hidden, heard>>
  BY DEF EnterAccept, peer_info, network, input, history
<1>4. Owner(t) \in Peers /\ p \in {None} \cup Ports /\ (p # None => p \in PortsOf(Owner(t)))
  BY <1>1, OwnerFacts DEF TypeOK, PortsOf
<1>5. EndsBut(conn', None)
  BY <1>3, ConnUnchanged
<1>6. Tidy(t) /\ Proper(t)
  BY <1>3, TidyFacts, IrcPeerAssumption DEF TypeOK
<1>7. TypeOK'
  BY <1>2, <1>4, <1>5, <1>6, ThreadTypes DEF Pcs
<1>8. Owner(t) \notin crossed' => Converses(Owner(t))'
  BY <1>2, <1>3, Aside
<1>9. QED
  BY <1>2, <1>5, <1>6, <1>7, <1>8, ThreadKeeps

LEMMA ReadIdKeeps ==
  ASSUME IndInv, NEW t \in Threads, NEW n \in Nat, ReadId(t, n)
  PROVE  IndInv'
<1> USE DEF IndInv
<1>1. PICK e : e = thread[t].on
  OBVIOUS
<1>2. /\ ThreadGoes(t, "id", "begin", e) /\ thread[t].pc = "id"
      /\ UNCHANGED <<mode, socket, calls, asked, typed, crossed, heard>>
  BY <1>1 DEF ReadId, ThreadGoes, peer_info, input
<1>3. e \in Ends(calls) /\ conn[e].owner = Owner(t) /\ Owner(t) \in Peers
  BY <1>1, <1>2, OwnerFacts DEF TypeOK
<1>4. hidden' \subseteq Ends(calls)
  BY <1>1, <1>3 DEF ReadId, Hide, TypeOK
<1>5. EndsBut(conn', None)
  BY <1>1, <1>3, TakesIs DEF ReadId
<1>6. Tidy(t) /\ Proper(t)
  BY <1>2, <1>4, TidyFacts, IrcPeerAssumption DEF TypeOK
<1>7. TypeOK'
  BY <1>2, <1>3, <1>5, <1>6, ThreadTypes DEF Pcs
<1>8. Owner(t) \notin crossed' => Converses(Owner(t))'
  BY <1>2, <1>3, <1>5, Aside, TypeFacts DEF EndsBut
<1>9. QED
  BY <1>1, <1>2, <1>5, <1>6, <1>7, <1>8, ThreadKeeps

LEMMA ReadNoIdKeeps ==
  ASSUME IndInv, NEW t \in Threads, ReadNoId(t)
  PROVE  IndInv'
<1> USE DEF IndInv
<1>1. PICK e : e = thread[t].on
  OBVIOUS
<1>2. /\ ThreadGoes(t, "id", "done", None) /\ thread[t].pc = "id"
      /\ UNCHANGED <<mode, socket, calls, asked, typed, crossed, hidden, heard>>
      /\ conn' = Closed(e, conn)
  BY <1>1 DEF ReadNoId, ThreadGoes, peer_info, input, history
<1>3. e \in Ends(calls) /\ conn[e].owner = Owner(t) /\ Owner(t) \in Peers
  BY <1>1, <1>2, OwnerFacts DEF TypeOK
<1>4. EndsBut(conn', e)
  BY <1>2, <1>3, ClosedIs
<1>5. Tidy(t) /\ Proper(t)
  BY <1>2, TidyFacts, IrcPeerAssumption DEF TypeOK
<1>6. TypeOK'
  BY <1>2, <1>4, <1>5, ThreadTypes DEF Pcs
<1>7. Holds(t, e) /\ DOMAIN conn = Ends(calls)
  BY <1>1, <1>2, TypeFacts DEF Holds
<1>8. conn[e].backlog = None /\ \A u \in Threads : Holds(u, e) => u = t
  BY <1>3, <1>7 DEF OneHolder
<1>9. ~Fresh(e)'
  <2>1. \A u \in Threads : Holds(u, e)' => Holds(u, e) /\ u # t
    BY <1>2 DEF ThreadGoes, Holds, TypeOK
  <2>2. QED
    BY <1>3, <1>4, <1>8, <2>1 DEF Fresh, EndsBut
<1>10. socket[Owner(t)] # e
  <2>1. mode[Owner(t)] # "off"
    BY <1>2, <1>3 DEF ExitIsFinal
  <2>2. QED
    BY <1>3, <1>7, <2>1 DEF Fresh, FreshUntouched
<1>11. Owner(t) \notin crossed' => Converses(Owner(t))'
  BY <1>2, <1>3, <1>4, <1>10, Aside, TypeFacts DEF EndsBut
<1>12. QED
  BY <1>2, <1>3, <1>4, <1>5, <1>6, <1>9, <1>11, ThreadKeeps

-----------------------------------------------------------------------------
\* A thread whose conversation nobody has disturbed, and what it makes of peer_info.
LEMMA Undisturbed ==
  ASSUME IndInv, NEW t \in Threads, Busy(t)
  PROVE  /\ Owner(t) \in Peers
         /\ Owner(t) \notin crossed => Converses(Owner(t)) /\ InStep(Owner(t), t)
BY OwnerFacts DEF IndInv, Conversations, Converses

LEMMA GoesOn ==
  ASSUME IndInv, NEW t \in Threads, NEW from, NEW to, NEW on, ThreadGoes(t, from, to, on),
         {from, to} \subseteq {"chat", "head", "enter", "recv", "hangup", "forget", "inform"},
         crossed' = crossed, Owner(t) \notin crossed => InStep(Owner(t), t)'
  PROVE  Owner(t) \notin crossed' => Converses(Owner(t))'
<1>1. Busy(t) /\ Busy(t)' /\ \A u \in Threads \ {t} : thread'[u] = thread[u]
  BY DEF ThreadGoes, Busy, IndInv, TypeOK
<1>2. QED
  BY <1>1, Undisturbed, ConversesOn

LEMMA SetSocketKeeps ==
  ASSUME IndInv, NEW t \in Threads, SetSocket(t)
  PROVE  IndInv'
<1> USE DEF IndInv
<1>1. PICK e : e = thread[t].on
  OBVIOUS
<1>2. PICK c : c = Owner(t)
  OBVIOUS
<1>3. /\ ThreadGoes(t, "begin", "chat", None) /\ thread[t].pc = "begin"
      /\ UNCHANGED <<mode, calls, conn, asked, typed, hidden, heard>>
      /\ socket' = [socket EXCEPT ![c] = e]
      /\ crossed' = IF \E u \in Threads \ {t} : Owner(u) = c /\ Busy(u)
                      THEN crossed \cup {c} ELSE crossed
  BY <1>1, <1>2 DEF SetSocket, ThreadGoes, Cross, network, input
<1>4. e \in Ends(calls) /\ conn[e].owner = c /\ c \in Peers
  BY <1>1, <1>2, <1>3, OwnerFacts DEF TypeOK
<1>5. Holds(t, e) /\ DOMAIN conn = Ends(calls)
  BY <1>1, <1>3, TypeFacts DEF Holds
<1>6. conn[e].backlog = None /\ \A u \in Threads : Holds(u, e) => u = t
  BY <1>4, <1>5 DEF OneHolder
<1>7. EndsBut(conn', None)
  BY <1>3, ConnUnchanged
<1>8. /\ thread'[t].pc = "chat"
      /\ \A u \in Threads \ {t} : thread'[u] = thread[u]
  BY <1>3 DEF ThreadGoes, TypeOK
<1>9. ~Fresh(e)'
  <2>1. \A u \in Threads : Holds(u, e)' => Holds(u, e) /\ u # t
    BY <1>8 DEF Holds
  <2>2. QED
    BY <1>3, <1>6, <2>1 DEF Fresh
<1>10. Tidy(t)
  BY <1>2, <1>3, <1>4, IrcPeerAssumption DEF Tidy, TypeOK
<1>11. Proper(t)
  BY <1>2, <1>3, <1>4, <1>9 DEF Proper, TypeOK
<1>12. TypeOK'
  BY <1>3, <1>7, <1>10, ThreadTypes DEF Pcs
<1>13. conn[e].open /\ e # None
  <2>1. mode[c] # "off"
    BY <1>2, <1>3, <1>4 DEF ExitIsFinal
  <2>2. QED
    BY <1>4, <1>5, <2>1, TypeFacts DEF Fresh, FreshUntouched
<1>14. ASSUME c \notin crossed'
       PROVE  Converses(c)'
  <2>1. c \notin crossed /\ \A u \in Threads \ {t} : Owner(u) = c => ~Busy(u)
    BY <1>3, <1>14
  <2>2. ~Busy(t)
    BY <1>3 DEF Busy
  <2>3. mode[c] # "CHAT"
    BY <1>4, <2>1, <2>2 DEF Conversations, Converses
  <2>4. InStep(c, t)'
    BY <1>3, <1>4, <1>8, <1>13, <2>3 DEF InStep, TypeOK
  <2>5. Busy(t)' /\ \A u \in Threads \ {t} : Owner(u) = c => ~Busy(u)'
    BY <1>8, <2>1 DEF Busy
  <2>6. QED
    BY <1>2, <2>4, <2>5 DEF Converses
<1>15. QED
  BY <1>2, <1>3, <1>7, <1>10, <1>11, <1>12, <1>14, ThreadKeeps

LEMMA SetChatKeeps ==
  ASSUME IndInv, NEW t \in Threads, SetChat(t)
  PROVE  IndInv'
<1> USE DEF IndInv
<1>1. PICK c : c = Owner(t)
  OBVIOUS
<1>2. /\ ThreadGoes(t, "chat", "head", None) /\ Busy(t)
      /\ UNCHANGED <<socket, calls, conn, asked, typed, crossed, hidden, heard>>
      /\ mode' = [mode EXCEPT ![c] = "CHAT"]
  BY <1>1 DEF SetChat, ThreadGoes, Busy, network, input, history
<1>3. EndsBut(conn', None)
  BY <1>2, ConnUnchanged
<1>4. thread[t].pc = "chat" /\ thread'[t].pc = "head"
  BY <1>2 DEF ThreadGoes, TypeOK
<1>5. Tidy(t) /\ Proper(t)
  BY <1>1, <1>2, Undisturbed, IrcPeerAssumption DEF Tidy, Proper, TypeOK
<1>6. TypeOK'
  BY <1>2, <1>3, <1>5, ThreadTypes DEF Pcs
<1>7. c \notin crossed => InStep(c, t)'
  BY <1>1, <1>2, <1>4, Undisturbed DEF InStep, TypeOK
<1>8. c \notin crossed' => Converses(c)'
  BY <1>1, <1>2, <1>7, GoesOn
<1>9. QED
  BY <1>1, <1>2, <1>3, <1>5, <1>6, <1>8, ThreadKeeps

LEMMA ForgetSocketKeeps ==
  ASSUME IndInv, NEW t \in Threads, ForgetSocket(t)
  PROVE  IndInv'
<1> USE DEF IndInv
<1>1. PICK c : c = Owner(t)
  OBVIOUS
<1>2. /\ ThreadGoes(t, "forget", "inform", None) /\ Busy(t)
      /\ UNCHANGED <<mode, calls, conn, asked, typed, crossed, hidden, heard>>
      /\ socket' = [socket EXCEPT ![c] = None]
  BY <1>1 DEF ForgetSocket, ThreadGoes, Busy, network, input, history
<1>3. EndsBut(conn', None)
  BY <1>2, ConnUnchanged
<1>4. thread[t].pc = "forget" /\ thread'[t].pc = "inform"
  BY <1>2 DEF ThreadGoes, TypeOK
<1>5. Tidy(t) /\ Proper(t)
  BY <1>1, <1>2, Undisturbed, IrcPeerAssumption DEF Tidy, Proper, TypeOK
<1>6. TypeOK'
  BY <1>2, <1>3, <1>5, ThreadTypes DEF Pcs
<1>7. c \notin crossed => InStep(c, t)'
  BY <1>1, <1>2, <1>4, Undisturbed DEF InStep, TypeOK
<1>8. c \notin crossed' => Converses(c)'
  BY <1>1, <1>2, <1>7, GoesOn
<1>9. QED
  BY <1>1, <1>2, <1>3, <1>5, <1>6, <1>8, ThreadKeeps

LEMMA SetInfoKeeps ==
  ASSUME IndInv, NEW t \in Threads, SetInfo(t)
  PROVE  IndInv'
<1> USE DEF IndInv
<1>1. PICK c : c = Owner(t)
  OBVIOUS
<1>2. PICK to \in {"server", "done"} : ThreadGoes(t, "inform", to, None)
  BY DEF SetInfo, Return
<1>3. /\ UNCHANGED <<socket, calls, conn, asked, typed, crossed, hidden, heard>>
      /\ mode' = [mode EXCEPT ![c] = "INFO"]
      /\ Busy(t)
  BY <1>1, <1>2 DEF SetInfo, ThreadGoes, Busy, network, input, history
<1>4. EndsBut(conn', None)
  BY <1>3, ConnUnchanged
<1>5. /\ thread[t].pc = "inform" /\ ~Busy(t)'
      /\ \A u \in Threads \ {t} : thread'[u] = thread[u]
  BY <1>2 DEF ThreadGoes, Busy, TypeOK
<1>6. Tidy(t) /\ Proper(t)
  BY <1>1, <1>3, Undisturbed, IrcPeerAssumption DEF Tidy, Proper, TypeOK
<1>7. TypeOK'
  BY <1>2, <1>4, <1>6, ThreadTypes DEF Pcs
<1>8. ASSUME c \notin crossed'
      PROVE  Converses(c)'
  <2>1. c \in Peers /\ Converses(c) /\ InStep(c, t)
    BY <1>1, <1>3, <1>8, Undisturbed
  <2>2. socket'[c] = None /\ mode'[c] # "CHAT"
    BY <1>3, <1>5, <2>1 DEF InStep, TypeOK
  <2>3. QED
    BY <1>1, <1>3, <1>5, <2>1, <2>2, ConversesNoMore
<1>9. QED
  BY <1>1, <1>2, <1>4, <1>6, <1>7, <1>8, ThreadKeeps

\* The head of the loop.
LEMMA LoopKeeps ==
  ASSUME IndInv, NEW t \in Threads, LoopHead(t) \/ EnterRecv(t)
  PROVE  IndInv'
<1> USE DEF IndInv
<1>1. PICK e : e = socket[Owner(t)]
  OBVIOUS
<1>2. PICK from \in {"head", "enter"}, to \in {"server", "done", "enter", "recv", "hangup"},
           on \in {None, e} :
        /\ ThreadGoes(t, from, to, on)
        /\ to = "recv" => Usable(e) /\ on = e
        /\ from = "head" /\ to # "enter" => e = None /\ to \in {"server", "done"}
        /\ from = "enter" => IF Usable(e) THEN to = "recv" ELSE to = "hangup"
        /\ to = "enter" => from = "head"
  BY <1>1 DEF LoopHead, EnterRecv, Return
<1>3. UNCHANGED <<mode, socket, calls, conn, asked, typed, crossed, hidden, heard>>
  BY DEF LoopHead, EnterRecv, peer_info, network, input, history
<1>4. /\ Busy(t) /\ Owner(t) \in Peers
      /\ thread[t].pc = from /\ thread'[t].pc = to /\ thread'[t].on = on
  BY <1>2, OwnerFacts DEF ThreadGoes, Busy, TypeOK
<1>5. e = None \/ (e \in Ends(calls) /\ conn[e].owner = Owner(t))
  BY <1>1, <1>4, TypeFacts
<1>6. EndsBut(conn', None)
  BY <1>3, ConnUnchanged
<1>7. Tidy(t) /\ Proper(t)
  BY <1>3, TidyFacts, IrcPeerAssumption DEF TypeOK
<1>8. TypeOK'
  BY <1>2, <1>5, <1>6, <1>7, ThreadTypes DEF Pcs, Usable
<1>9. ASSUME Owner(t) \notin crossed'
      PROVE  Converses(Owner(t))'
  <2>1. InStep(Owner(t), t) /\ from \in {"head", "enter"}
    BY <1>3, <1>4, <1>9, Undisturbed
  <2>2. e # None /\ conn[e].open /\ mode[Owner(t)] = "CHAT"
    BY <1>1, <1>4, <2>1 DEF InStep
  <2>3. to \in {"enter", "recv"}
    BY <1>2, <2>2 DEF Usable
  <2>4. InStep(Owner(t), t)'
    BY <1>1, <1>2, <1>3, <1>4, <2>2, <2>3 DEF InStep
  <2>5. QED
    BY <1>2, <1>3, <1>9, <2>3, <2>4, GoesOn
<1>10. QED
  BY <1>2, <1>6, <1>7, <1>8, <1>9, ThreadKeeps

\* A recv() that returns.
LEMMA RecvKeeps ==
  ASSUME IndInv, NEW t \in Threads, NEW n \in Nat,
         RecvText(t, n) \/ RecvLeave(t, n) \/ RecvEnd(t)
  PROVE  IndInv'
<1> USE DEF IndInv
<1>1. PICK e : e = thread[t].on
  OBVIOUS
<1>2. PICK to \in {"head", "hangup"} :
        /\ ThreadGoes(t, "recv", to, None)
        /\ to = "hangup" => heard' = heard \cup {e}
  BY <1>1 DEF RecvText, RecvLeave, RecvEnd
<1>3. /\ UNCHANGED <<mode, socket, calls, asked, typed, crossed>>
      /\ heard' \in {heard, heard \cup {e}}
  BY <1>1 DEF RecvText, RecvLeave, RecvEnd, peer_info, input, network
<1>4. Busy(t) /\ thread[t].pc = "recv" /\ thread'[t].pc = to
  BY <1>2 DEF ThreadGoes, Busy, TypeOK
<1>5. e \in Ends(calls) /\ conn[e].owner = Owner(t) /\ Owner(t) \in Peers
  BY <1>1, <1>4, OwnerFacts DEF TypeOK
<1>6. EndsBut(conn', None)
  BY <1>1, <1>5, TakesIs, ConnUnchanged DEF RecvText, RecvLeave, RecvEnd, network
<1>7. hidden' \subseteq Ends(calls)
  BY <1>1, <1>5 DEF RecvText, RecvLeave, RecvEnd, Hide, TypeOK
<1>8. heard \subseteq heard' /\ heard' \subseteq Ends(calls)
  BY <1>3, <1>5 DEF TypeOK
<1>9. Tidy(t) /\ Proper(t)
  BY <1>3, <1>7, <1>8, TidyFacts, IrcPeerAssumption DEF TypeOK
<1>10. TypeOK'
  BY <1>2, <1>6, <1>9, ThreadTypes DEF Pcs
<1>11. ASSUME Owner(t) \notin crossed
       PROVE  InStep(Owner(t), t)'
  <2>1. InStep(Owner(t), t)
    BY <1>4, <1>11, Undisturbed
  <2>2. e = socket[Owner(t)] /\ e # None /\ conn[e].open /\ mode[Owner(t)] = "CHAT"
    BY <1>1, <1>4, <2>1 DEF InStep
  <2>3. conn'[e].open
    BY <1>5, <1>6, <2>2, TypeFacts DEF EndsBut
  <2>4. QED
    BY <1>2, <1>3, <1>4, <2>2, <2>3 DEF InStep
<1>12. Owner(t) \notin crossed' => Converses(Owner(t))'
  BY <1>2, <1>3, <1>11, GoesOn
<1>13. QED
  BY <1>2, <1>6, <1>9, <1>10, <1>12, ThreadKeeps

LEMMA CloseSocketKeeps ==
  ASSUME IndInv, NEW t \in Threads, CloseSocket(t)
  PROVE  IndInv'
<1> USE DEF IndInv
<1>1. PICK e : e = socket[Owner(t)]
  OBVIOUS
<1>2. /\ ThreadGoes(t, "hangup", "forget", None)
      /\ UNCHANGED <<mode, socket, calls, asked, typed, crossed, hidden, heard>>
      /\ conn' = Closed(e, conn)
  BY <1>1 DEF CloseSocket, peer_info, input, history
<1>3. Busy(t) /\ thread[t].pc = "hangup" /\ thread'[t].pc = "forget" /\ Owner(t) \in Peers
  BY <1>2, OwnerFacts DEF ThreadGoes, Busy, TypeOK
<1>4. e \in {None} \cup Ends(calls) /\ (e # None => conn[e].owner = Owner(t))
  BY <1>1, <1>3 DEF TypeOK
<1>5. EndsBut(conn', e)
  BY <1>2, <1>4, ClosedIs
<1>6. Tidy(t) /\ Proper(t)
  BY <1>2, TidyFacts, IrcPeerAssumption DEF TypeOK
<1>7. TypeOK'
  BY <1>2, <1>5, <1>6, ThreadTypes DEF Pcs
<1>8. e # None => e \in Ends(calls) /\ conn[e].owner = Owner(t) /\ ~Fresh(e)'
  <2>1. mode[Owner(t)] # "off"
    BY <1>3 DEF ExitIsFinal
  <2>2. QED
    BY <1>1, <1>2, <1>3, <1>4, <1>5, <2>1, SocketNotFresh
<1>9. Owner(t) \notin crossed => InStep(Owner(t), t)'
  BY <1>1, <1>2, <1>3, Undisturbed DEF InStep
<1>10. Owner(t) \notin crossed' => Converses(Owner(t))'
  BY <1>2, <1>9, GoesOn
<1>11. QED
  BY <1>2, <1>5, <1>6, <1>7, <1>8, <1>10, ThreadKeeps

-----------------------------------------------------------------------------
\* A call: its two ends are new.
LEMMA ConnectKeeps ==
  ASSUME IndInv, NEW c \in Peers, NEW p \in Ports, Connect(c, p)
  PROVE  IndInv'
<1> USE DEF IndInv
<1>1. PICK k : k = calls + 1
  OBVIOUS
<1>2. PICK m : m = Mate(k)
  OBVIOUS
<1>3. /\ ThreadGoes(c, "server", "begin", k) /\ c \in Threads /\ Owner(c) = c
      /\ UNCHANGED <<mode, socket, typed, crossed, hidden, heard>>
      /\ asked' = [asked EXCEPT ![c] = @ - 1] /\ asked[c] > 0
      /\ calls' = k /\ k <= MaxCalls
      /\ conn' = [e \in Ends(k) |->
                    IF e = k THEN NewEnd(c, None, << >>)
                    ELSE IF e = m THEN NewEnd(Owner(p), p, <<"id">>) ELSE conn[e]]
  BY <1>1, <1>2, OwnerFacts DEF Connect, GetsConnect, peer_info, history
<1>4. /\ calls \in Nat /\ k \in Nat /\ None \notin Ends(k)
      /\ k \in Ends(k) /\ m \in Ends(k) /\ m # k
      /\ k \notin Ends(calls) /\ m \notin Ends(calls)
      /\ \A e : e \in Ends(k) <=> e \in Ends(calls) \/ e = k \/ e = m
      /\ DOMAIN conn = Ends(calls) /\ DOMAIN conn' = Ends(k)
  <2>1. calls \in Nat /\ DOMAIN conn = Ends(calls) /\ DOMAIN conn' = Ends(k)
    BY <1>3, TypeFacts
  <2>2. k \in Nat /\ None \notin Ends(k)
    BY <1>1, <2>1, EndsFacts
  <2>3. QED
    BY <1>1, <1>2, <2>1, <2>2, EndsFacts
<1>5. Owner(p) \in Peers
  BY OwnerFacts
<1>6. /\ conn'[k] \in End /\ conn'[k].owner = c /\ conn'[k].backlog = None /\ conn'[k].open
      /\ conn'[m] \in End /\ conn'[m].owner = Owner(p) /\ conn'[m].backlog = p /\ conn'[m].open
      /\ \A e \in Ends(calls) : conn'[e] = conn[e]
  <2>1. /\ NewEnd(c, None, << >>) \in End /\ NewEnd(Owner(p), p, <<"id">>) \in End
        /\ NewEnd(c, None, << >>).owner = c /\ NewEnd(c, None, << >>).backlog = None
        /\ NewEnd(c, None, << >>).open
        /\ NewEnd(Owner(p), p, <<"id">>).owner = Owner(p)
        /\ NewEnd(Owner(p), p, <<"id">>).backlog = p /\ NewEnd(Owner(p), p, <<"id">>).open
    BY <1>5 DEF NewEnd, End
  <2>2. conn'[k] = NewEnd(c, None, << >>) /\ conn'[m] = NewEnd(Owner(p), p, <<"id">>)
    BY <1>3, <1>4
  <2>3. \A e \in Ends(calls) : conn'[e] = conn[e]
    BY <1>3, <1>4
  <2>4. QED
    BY <2>1, <2>2, <2>3
<1>7. /\ thread'[c].pc = "begin" /\ thread'[c].on = k /\ thread[c].pc = "server"
      /\ \A u \in Threads \ {c} : thread'[u] = thread[u]
      /\ UNCHANGED <<main, signal, listener, opened>>
  BY <1>3 DEF ThreadGoes, control, listening, TypeOK
<1>8. TypeOK'
  <2>1. conn' \in [Ends(k) -> End]
    <3>1. \A e \in Ends(k) : conn'[e] \in End
      BY <1>4, <1>6 DEF TypeOK
    <3>2. QED
      BY <1>3, <3>1
  <2>2. thread' \in [Threads -> [pc : Pcs, on : {None} \cup Ports \cup Ends(k)]]
    <3>1. thread \in [Threads -> [pc : Pcs, on : {None} \cup Ports \cup Ends(k)]]
      BY <1>4 DEF TypeOK, Pcs
    <3>2. [pc |-> "begin", on |-> k] \in [pc : Pcs, on : {None} \cup Ports \cup Ends(k)]
      BY <1>4 DEF Pcs
    <3>3. thread' = [thread EXCEPT ![c] = [pc |-> "begin", on |-> k]]
      BY <1>3 DEF ThreadGoes
    <3>4. QED
      BY <3>1, <3>2, <3>3
  <2>3. \A t \in Threads :
          /\ thread'[t].pc = "accept" => thread'[t].on \in PortsOf(Owner(t))
          /\ thread'[t].pc \in {"id", "begin", "recv"} =>
               thread'[t].on \in Ends(k) /\ conn'[thread'[t].on].owner = Owner(t)
    <3> SUFFICES ASSUME NEW t \in Threads
                 PROVE  /\ thread'[t].pc = "accept" => thread'[t].on \in PortsOf(Owner(t))
                        /\ thread'[t].pc \in {"id", "begin", "recv"} =>
                             /\ thread'[t].on \in Ends(k)
                             /\ conn'[thread'[t].on].owner = Owner(t)
      OBVIOUS
    <3>1. CASE t = c
      BY <1>3, <1>4, <1>6, <1>7, <3>1
    <3>2. CASE t # c
      <4>1. thread'[t] = thread[t]
        BY <1>7, <3>2
      <4>2. QED
        BY <1>4, <1>6, <4>1 DEF TypeOK
    <3>3. QED
      BY <3>1, <3>2
  <2>4. /\ socket' \in [Peers -> {None} \cup Ends(k)]
        /\ \A d \in Peers : socket'[d] # None => conn'[socket'[d]].owner = d
    BY <1>3, <1>4, <1>6 DEF TypeOK
  <2>5. k \in 0 .. MaxCalls /\ asked' \in [Peers -> 0 .. MaxTyped]
    BY <1>3, <1>4, IrcPeerAssumption DEF TypeOK
  <2>6. hidden' \subseteq Ends(k) /\ heard' \subseteq Ends(k)
    BY <1>3, <1>4 DEF TypeOK
  <2>7. QED
    BY <1>3, <1>7, <2>1, <2>2, <2>3, <2>4, <2>5, <2>6 DEF TypeOK, Pcs
<1>9. AskedInTime'
  BY <1>3, <1>7, IrcPeerAssumption DEF AskedInTime, TypeOK
<1>10. mode[c] # "off" /\ ExitIsFinal'
  BY <1>3, <1>7 DEF ExitIsFinal
<1>11. CallsOwnPort'
  <2> SUFFICES ASSUME NEW e \in Ends(k), conn'[e].backlog # None
               PROVE  conn'[e].owner = Owner(conn'[e].backlog)
    BY <1>4 DEF CallsOwnPort
  <2>1. QED
    BY <1>4, <1>6 DEF CallsOwnPort
<1>12. \A u \in Threads : \A e : Holds(u, e)' => IF u = c THEN e = k ELSE Holds(u, e) /\ e \in Ends(calls)
  BY <1>7 DEF Holds, TypeOK
<1>13. OneHolder'
  <2> SUFFICES ASSUME NEW t \in Threads, NEW e \in Ends(k), Holds(t, e)'
               PROVE  conn'[e].backlog = None /\ \A u \in Threads : Holds(u, e)' => u = t
    BY <1>4 DEF OneHolder
  <2>1. CASE t = c
    BY <1>4, <1>6, <1>12, <2>1
  <2>2. CASE t # c
    BY <1>4, <1>6, <1>12, <2>2 DEF OneHolder
  <2>3. QED
    BY <2>1, <2>2
<1>14. FreshUntouched'
  <2> SUFFICES ASSUME NEW e \in Ends(k), Fresh(e)', mode'[conn'[e].owner] # "off"
               PROVE  conn'[e].open /\ socket'[conn'[e].owner] # e
    BY <1>4 DEF FreshUntouched
  <2>1. CASE e \in Ends(calls)
    <3>1. conn'[e] = conn[e] /\ Fresh(e)
      BY <1>4, <1>6, <1>12, <2>1 DEF Fresh
    <3>2. QED
      BY <1>3, <1>4, <2>1, <3>1 DEF FreshUntouched
  <2>2. CASE e \in {k, m}
    <3>1. \A d \in Peers : socket[d] # e
      BY <1>4, <2>2 DEF TypeOK
    <3>2. QED
      BY <1>3, <1>5, <1>6, <2>2, <3>1
  <2>3. QED
    BY <1>4, <2>1, <2>2
<1>15. Conversations'
  <2>1. c \notin crossed' => Converses(c)'
    BY <1>3, <1>6, Aside, TypeFacts
  <2>2. \A t \in Threads : Owner(t) # c => thread'[t] = thread[t]
    BY <1>3, <1>7
  <2>3. QED
    BY <1>3, <1>6, <2>1, <2>2, ConversationsKept
<1>16. QED
  BY <1>8, <1>9, <1>10, <1>11, <1>13, <1>14, <1>15

LEMMA AcceptKeeps ==
  ASSUME IndInv, NEW t \in Threads, Accept(t)
  PROVE  IndInv'
<1> USE DEF IndInv
<1>1. DOMAIN conn = Ends(calls)
  BY TypeFacts
<1>2. PICK e \in Ends(calls) : /\ conn[e].backlog = thread[t].on
                               /\ ThreadGoes(t, "accept", "id", e)
                               /\ conn' = [conn EXCEPT ![e].backlog = None]
  BY <1>1 DEF Accept
<1>3. UNCHANGED <<mode, socket, calls, asked, typed, crossed, hidden, heard>>
  BY DEF Accept, peer_info, input, history
<1>4. /\ thread[t].pc = "accept" /\ thread'[t].pc = "id" /\ thread'[t].on = e
      /\ \A u \in Threads \ {t} : thread'[u] = thread[u]
      /\ UNCHANGED <<main, signal, listener, opened>>
  BY <1>2 DEF ThreadGoes, control, listening, TypeOK
<1>5. /\ Owner(t) \in Peers /\ conn[e].backlog # None /\ conn[e].owner = Owner(t)
  <2>1. conn[e].backlog \in PortsOf(Owner(t)) /\ Owner(t) \in Peers
    BY <1>2, <1>4, OwnerFacts DEF TypeOK
  <2>2. QED
    BY <1>1, <2>1, OwnerFacts DEF CallsOwnPort
<1>6. /\ conn' \in [Ends(calls) -> End]
      /\ conn'[e].backlog = None
      /\ \A f \in Ends(calls) : /\ conn'[f].owner = conn[f].owner
                                /\ conn'[f].open = conn[f].open
                                /\ f # e => conn'[f] = conn[f]
  <2> DEFINE new == [conn[e] EXCEPT !.backlog = None]
  <2>1. /\ new \in End /\ new.owner = conn[e].owner
        /\ new.backlog = None /\ new.open = conn[e].open
    BY TypeFacts DEF End
  <2>2. conn' = [conn EXCEPT ![e] = new] /\ conn \in [Ends(calls) -> End]
    BY <1>2 DEF TypeOK
  <2> HIDE DEF new
  <2>3. \A f \in Ends(calls) : conn'[f] = IF f = e THEN new ELSE conn[f]
    BY <2>2
  <2>4. conn' \in [Ends(calls) -> End]
    BY <2>1, <2>2
  <2>5. QED
    BY <2>1, <2>3, <2>4
<1>7. TypeOK'
  <2>1. thread' \in [Threads -> [pc : Pcs, on : {None} \cup Ports \cup Ends(calls)]]
    <3>1. thread \in [Threads -> [pc : Pcs, on : {None} \cup Ports \cup Ends(calls)]]
      BY DEF TypeOK, Pcs
    <3>2. [pc |-> "id", on |-> e] \in [pc : Pcs, on : {None} \cup Ports \cup Ends(calls)]
      BY DEF Pcs
    <3>3. thread' = [thread EXCEPT ![t] = [pc |-> "id", on |-> e]]
      BY <1>2 DEF ThreadGoes
    <3>4. QED
      BY <3>1, <3>2, <3>3
  <2>2. \A u \in Threads :
          /\ thread'[u].pc = "accept" => thread'[u].on \in PortsOf(Owner(u))
          /\ thread'[u].pc \in {"id", "begin", "recv"} =>
               thread'[u].on \in Ends(calls) /\ conn'[thread'[u].on].owner = Owner(u)
    <3> SUFFICES ASSUME NEW u \in Threads
                 PROVE  /\ thread'[u].pc = "accept" => thread'[u].on \in PortsOf(Owner(u))
                        /\ thread'[u].pc \in {"id", "begin", "recv"} =>
                             /\ thread'[u].on \in Ends(calls)
                             /\ conn'[thread'[u].on].owner = Owner(u)
      OBVIOUS
    <3>1. CASE u = t
      BY <1>4, <1>5, <1>6, <3>1
    <3>2. CASE u # t
      <4>1. thread'[u] = thread[u]
        BY <1>4, <3>2
      <4>2. QED
        BY <1>6, <4>1 DEF TypeOK
    <3>3. QED
      BY <3>1, <3>2
  <2>3. \A d \in Peers : socket'[d] # None => conn'[socket'[d]].owner = d
    BY <1>3, <1>6 DEF TypeOK
  <2>4. QED
    BY <1>3, <1>4, <1>6, <2>1, <2>2, <2>3 DEF TypeOK, Pcs
<1>8. AskedInTime' /\ mode[Owner(t)] # "off"
  BY <1>3, <1>4, <1>5 DEF AskedInTime, ExitIsFinal
<1>9. ExitIsFinal'
  BY <1>3, <1>4, <1>8 DEF ExitIsFinal
<1>10. DOMAIN conn' = Ends(calls)
  BY <1>6
<1>11. CallsOwnPort'
  BY <1>1, <1>6, <1>10 DEF CallsOwnPort
<1>12. \A u \in Threads : \A f : Holds(u, f)' => IF u = t THEN f = e ELSE Holds(u, f)
  BY <1>4 DEF Holds
<1>13. \A u \in Threads : ~Holds(u, e)
  BY <1>1, <1>5 DEF OneHolder
<1>14. OneHolder'
  <2> SUFFICES ASSUME NEW u \in Threads, NEW f \in Ends(calls), Holds(u, f)'
               PROVE  conn'[f].backlog = None /\ \A v \in Threads : Holds(v, f)' => v = u
    BY <1>10 DEF OneHolder
  <2>1. CASE u = t
    BY <1>6, <1>12, <1>13, <2>1
  <2>2. CASE u # t
    BY <1>1, <1>6, <1>12, <1>13, <2>2 DEF OneHolder
  <2>3. QED
    BY <2>1, <2>2
<1>15. FreshUntouched'
  <2> SUFFICES ASSUME NEW f \in Ends(calls), Fresh(f)', mode'[conn'[f].owner] # "off"
               PROVE  conn'[f].open /\ socket'[conn'[f].owner] # f
    BY <1>10 DEF FreshUntouched
  <2>1. Fresh(f)
    BY <1>5, <1>6, <1>12 DEF Fresh
  <2>2. QED
    BY <1>1, <1>3, <1>6, <2>1 DEF FreshUntouched
<1>16. Conversations'
  <2>1. Owner(t) \notin crossed' => Converses(Owner(t))'
    BY <1>2, <1>3, <1>5, <1>6, Aside, TypeFacts
  <2>2. \A u \in Threads : Owner(u) # Owner(t) => thread'[u] = thread[u]
    BY <1>4
  <2>3. QED
    BY <1>3, <1>5, <1>6, <2>1, <2>2, ConversationsKept
<1>17. QED
  BY <1>7, <1>8, <1>9, <1>11, <1>14, <1>15, <1>16

-----------------------------------------------------------------------------
LEMMA NextInd ==
  ASSUME IndInv, [Next]_vars
  PROVE  IndInv'
<1>1. CASE UNCHANGED vars
  <2>1. UNCHANGED <<mode, socket, main, signal, listener, opened, thread, calls, conn,
                    asked, typed, crossed, hidden, heard>>
    BY <1>1 DEF vars, peer_info, control, listening, network, input, history
  <2>2. /\ TypeOK' /\ AskedInTime' /\ ExitIsFinal'
    BY <2>1 DEF IndInv, TypeOK, AskedInTime, ExitIsFinal
  <2>3. CallsOwnPort' /\ OneHolder' /\ FreshUntouched'
    BY <2>1 DEF IndInv, CallsOwnPort, OneHolder, FreshUntouched, Fresh, Holds
  <2>4. Conversations'
    BY <2>1 DEF IndInv, Conversations, Converses, InStep, Busy
  <2>5. QED
    BY <2>2, <2>3, <2>4 DEF IndInv
<1>2. ASSUME NEW c \in Peers, FreeStep(c)
      PROVE  IndInv'
  <2>1. CASE TypeText(c) \/ TypeQuit(c) \/ TypeConnect(c) \/ TypeWait(c) \/ Interrupt(c)
    BY <2>1, TypesKeeps
  <2>2. CASE Dies(c)
    BY <2>2, EndKeeps
  <2>3. CASE \E p \in Ports : Connect(c, p)
    BY <2>3, ConnectKeeps
  <2>4. CASE ConnectFails(c)
    BY <2>4, ConnectFailsKeeps
  <2>5. QED
    BY <1>2, <2>1, <2>2, <2>3, <2>4 DEF FreeStep
<1>3. ASSUME NEW c \in Peers, MainStep(c)
      PROVE  IndInv'
  <2>1. CASE SayBye(c)
    BY <2>1, EndKeeps
  <2>2. CASE StartWaiting(c)
    BY <2>2, StartWaitingKeeps
  <2>3. CASE \/ SendText(c) \/ AskServer(c) \/ TestWait(c) \/ SetWait(c)
             \/ SendLeave(c) \/ CloseListener(c) \/ StopWaiting(c)
    BY <2>3, MainTurnKeeps
  <2>4. QED
    BY <1>3, <2>1, <2>2, <2>3 DEF MainStep
<1>4. ASSUME NEW t \in Threads, ThreadStep(t)
      PROVE  IndInv'
  <2>1. CASE t \in Peers /\ ClearSocket(t)
    BY <2>1, ClearSocketKeeps
  <2>2. CASE EnterAccept(t) \/ Accept(t) \/ ReadNoId(t)
    BY <2>2, EnterAcceptKeeps, AcceptKeeps, ReadNoIdKeeps
  <2>3. CASE RecvEnd(t) \/ \E n \in 1 .. MaxTyped + 1 :
                              ReadId(t, n) \/ RecvText(t, n) \/ RecvLeave(t, n)
    <3>1. 1 .. MaxTyped + 1 \subseteq Nat /\ 1 \in Nat
      BY IrcPeerAssumption
    <3>2. QED
      BY <2>3, <3>1, ReadIdKeeps, RecvKeeps
  <2>4. CASE SetSocket(t) \/ SetChat(t) \/ LoopHead(t) \/ EnterRecv(t)
    BY <2>4, SetSocketKeeps, SetChatKeeps, LoopKeeps
  <2>5. CASE CloseSocket(t) \/ ForgetSocket(t) \/ SetInfo(t)
    BY <2>5, CloseSocketKeeps, ForgetSocketKeeps, SetInfoKeeps
  <2>6. QED
    BY <1>4, <2>1, <2>2, <2>3, <2>4, <2>5 DEF ThreadStep
<1>5. QED
  BY <1>1, <1>2, <1>3, <1>4 DEF Next

(***************************************************************************)
(* Type correctness, for any number of ports, of typed lines and of calls; *)
(* with it that every recv() and accept() has a descriptor of the own      *)
(* process (irc/client.c:68, 110, 118).                                    *)
(***************************************************************************)
THEOREM TypeCorrect == Spec => []TypeOK
<1>1. IndInv => TypeOK
  BY DEF IndInv
<1>2. QED
  BY <1>1, InitInd, NextInd, PTL DEF Spec

(***************************************************************************)
(* CHAT mode and an open socket in peer_info go together wherever no       *)
(* thread is between its own assignments to the two, in whatever order the *)
(* threads make their single accesses to peer_info, unless one of them has *)
(* written to it during another one's conversation (irc/client.c:20-24,    *)
(* 54, 74-76, 128-130, 157-159, 167-168, 290).                             *)
(***************************************************************************)
THEOREM ModeFollowsSocket == Spec => []ChatHasSocket
<1>1. IndInv => ChatHasSocket
  <2> SUFFICES ASSUME IndInv, NEW c \in Peers \ crossed,
                      \A t \in Threads :
                        Owner(t) = c => thread[t].pc \notin {"chat", "forget", "inform"}
               PROVE  /\ mode[c] = "CHAT" <=> socket[c] # None
                      /\ socket[c] # None => conn[socket[c]].open
    BY DEF ChatHasSocket
  <2>1. Converses(c)
    BY DEF IndInv, Conversations
  <2>2. CASE \E t \in Threads : Owner(t) = c /\ Busy(t)
    BY <2>1, <2>2 DEF Converses, InStep
  <2>3. CASE \A t \in Threads : Owner(t) = c => ~Busy(t)
    BY <2>1, <2>3 DEF Converses
  <2>4. QED
    BY <2>2, <2>3
<1>2. QED
  BY <1>1, InitInd, NextInd, PTL DEF Spec

-----------------------------------------------------------------------------
\* What HangsUpLast says of end e in one step.
HangUpJustified(e) ==
  conn[e].open /\ ~conn'[e].open =>
    \/ mode'[conn[e].owner] = "off"
    \/ conn[e].owner \in crossed'
    \/ Gone(Mate(e))
    \/ e \in heard

\* The steps that close an end do so for a reason, the others do not.
LEMMA NextHangsUpLast ==
  ASSUME IndInv, [Next]_vars
  PROVE  \A e \in DOMAIN conn : HangUpJustified(e)
<1> USE DEF IndInv
<1> DEFINE Goal == \A e \in DOMAIN conn : HangUpJustified(e)
<1>1. DOMAIN conn = Ends(calls) /\ \A e \in Ends(calls) : e # None
  BY TypeFacts
<1>2. ASSUME EndsBut(conn', None) PROVE Goal
  BY <1>1, <1>2 DEF HangUpJustified, EndsBut
<1>3. ASSUME conn' = conn PROVE Goal
  BY <1>3 DEF HangUpJustified
<1>4. ASSUME NEW c \in Peers, NEW ends, EndsBut(ends, None), Exit(c, ends) PROVE Goal
  <2> SUFFICES ASSUME NEW e \in Ends(calls), conn[e].open, conn[e].owner # c
               PROVE  conn'[e].open
    BY <1>1, <1>4 DEF Exit, TypeOK, HangUpJustified
  <2>1. conn'[e] = ends[e]
    BY <1>1, <1>4 DEF Exit
  <2>2. QED
    BY <1>1, <1>4, <2>1 DEF EndsBut
<1>5. ASSUME NEW c \in Peers, FreeStep(c) PROVE Goal
  <2>1. CASE TypeText(c) \/ TypeQuit(c) \/ TypeConnect(c) \/ TypeWait(c) \/ Interrupt(c)
    BY <1>3, <2>1 DEF TypeText, TypeQuit, TypeConnect, TypeWait, Interrupt, Types, network
  <2>2. CASE Dies(c)
    BY <1>4, <2>2, ConnUnchanged DEF Dies
  <2>3. CASE \E p \in Ports : Connect(c, p)
    <3>1. PICK k : k = calls + 1
      OBVIOUS
    <3>2. k \notin Ends(calls) /\ Mate(k) \notin Ends(calls) /\ Ends(calls) \subseteq Ends(k)
      <4>1. calls \in Nat
        BY TypeFacts
      <4>2. QED
        BY <3>1, <4>1, EndsFacts
    <3>3. \A e \in Ends(calls) : conn'[e] = conn[e]
      BY <2>3, <3>1, <3>2 DEF Connect
    <3>4. QED
      BY <1>1, <3>3 DEF HangUpJustified
  <2>4. CASE ConnectFails(c)
    <3>1. PICK e : e = socket[c]
      OBVIOUS
    <3>2. EndsBut(conn', e) /\ (e # None => conn[e].owner = c /\ c \in crossed')
      BY <2>4, <3>1, ClosedIs DEF ConnectFails, Cross, TypeOK
    <3>3. QED
      BY <1>1, <3>2 DEF HangUpJustified, EndsBut
  <2>5. QED
    BY <1>5, <2>1, <2>2, <2>3, <2>4 DEF FreeStep
<1>6. ASSUME NEW c \in Peers, MainStep(c) PROVE Goal
  <2>1. CASE SayBye(c)
    BY <1>4, <2>1, SentIs DEF SayBye
  <2>2. CASE SendText(c) \/ SendLeave(c)
    BY <1>2, <2>2, SentIs DEF SendText, SendLeave
  <2>3. CASE \/ AskServer(c) \/ TestWait(c) \/ SetWait(c) \/ StartWaiting(c)
             \/ CloseListener(c) \/ StopWaiting(c)
    BY <1>3, <2>3 DEF AskServer, TestWait, SetWait, StartWaiting, CloseListener, StopWaiting,
                      network
  <2>4. QED
    BY <1>6, <2>1, <2>2, <2>3 DEF MainStep
<1>7. ASSUME NEW t \in Threads, ThreadStep(t) PROVE Goal
  <2>1. PICK e : e = thread[t].on
    OBVIOUS
  <2>2. CASE \/ t \in Peers /\ ClearSocket(t)
             \/ EnterAccept(t) \/ SetSocket(t) \/ SetChat(t) \/ LoopHead(t)
             \/ EnterRecv(t) \/ RecvEnd(t) \/ ForgetSocket(t) \/ SetInfo(t)
    BY <1>3, <2>2 DEF ClearSocket, EnterAccept, SetSocket, SetChat, LoopHead, EnterRecv,
                      RecvEnd, ForgetSocket, SetInfo, network
  <2>3. CASE Accept(t)
    <3>1. \A f \in Ends(calls) : conn'[f].open = conn[f].open
      BY <1>1, <2>3, TypeFacts DEF Accept, End
    <3>2. QED
      BY <1>1, <3>1 DEF HangUpJustified
  <2>4. CASE \E n \in 1 .. MaxTyped + 1 : ReadId(t, n) \/ RecvText(t, n) \/ RecvLeave(t, n)
    <3>1. PICK n \in Nat : ReadId(t, n) \/ RecvText(t, n) \/ RecvLeave(t, n)
      BY <2>4, IrcPeerAssumption
    <3>2. e \in Ends(calls)
      BY <2>1, <3>1, TypeFacts DEF ReadId, RecvText, RecvLeave, ThreadGoes
    <3>3. QED
      BY <1>2, <2>1, <3>1, <3>2, TakesIs DEF ReadId, RecvText, RecvLeave
  <2>5. CASE ReadNoId(t)
    <3>1. e \in Ends(calls) /\ Gone(Mate(e)) /\ conn' = Closed(e, conn)
      BY <2>1, <2>5, TypeFacts DEF ReadNoId, ThreadGoes
    <3>2. EndsBut(conn', e)
      BY <3>1, ClosedIs
    <3>3. QED
      BY <1>1, <3>1, <3>2 DEF HangUpJustified, EndsBut
  <2>6. CASE CloseSocket(t)
    <3>1. PICK f : f = socket[Owner(t)]
      OBVIOUS
    <3>2. /\ thread[t].pc = "hangup" /\ Busy(t) /\ Owner(t) \in Peers
          /\ conn' = Closed(f, conn) /\ crossed' = crossed
      BY <2>6, <3>1, OwnerFacts DEF CloseSocket, ThreadGoes, Busy, history
    <3>3. EndsBut(conn', f) /\ (f # None => conn[f].owner = Owner(t))
      BY <3>1, <3>2, ClosedIs DEF TypeOK
    <3>4. Owner(t) \notin crossed => f \in heard
      BY <3>1, <3>2, Undisturbed DEF InStep
    <3>5. QED
      BY <1>1, <3>2, <3>3, <3>4 DEF HangUpJustified, EndsBut
  <2>7. QED
    BY <1>7, <2>2, <2>3, <2>4, <2>5, <2>6 DEF ThreadStep
<1>8. CASE UNCHANGED vars
  BY <1>3, <1>8 DEF vars, network
<1>9. QED
  BY <1>5, <1>6, <1>7, <1>8 DEF Next

(***************************************************************************)
(* A client that goes on running hangs up when it has heard on the very    *)
(* end that it closes that the peer leaves or is gone, unless peer_info    *)
(* has been written during another conversation (irc/client.c:74, 83, 92,  *)
(* 121, 167).                                                              *)
(***************************************************************************)
THEOREM HangUpFollowsPeer == Spec => HangsUpLast
<1>1. IndInv /\ [Next]_vars =>
        [\A e \in DOMAIN conn :
           conn[e].open /\ ~conn'[e].open =>
             \/ mode'[conn[e].owner] = "off"
             \/ conn[e].owner \in crossed'
             \/ Gone(Mate(e))
             \/ e \in heard]_vars
  BY NextHangsUpLast DEF HangUpJustified
<1>2. QED
  BY <1>1, InitInd, NextInd, PTL DEF Spec, HangsUpLast
=============================================================================

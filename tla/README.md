# A TLA+ model of network-protocol-cli-tools

The repository holds small client/server programs in C: two parallel file
downloaders (`ftp/` over TCP, `tftp/` over UDP), a chat (`irc/`), an HTTPS client
(`https/`) and the earlier versions of them (`archive/`). This directory models
the downloaders, the chat and the web clients, model-checks them with TLC and proves
every safety property that TLC checks there, and both refinements, with TLAPS. `PROJECT.json` lists the runs, the map from definitions to
source lines, the hazards and the theorems.

To check a run: `tlc -config TftpDelivery.cfg MCTftp`. To check proofs:
`tlapm TftpProofs.tla`.

## 1. Inventory

| component | state | operations | works with |
|---|---|---|---|
| chunk plan, `main()` of both download clients | `file_size`, `num_connections`, `tasks[]` | reduce the connections, divide, fill in and validate each task | hands the tasks to the threads |
| TFTP client, `tftp/client.c` | `file_data`, one task per thread, `shared_socket_lock` | CHECK, create threads, GET, receive, acknowledge, store, time out, give up, join, write `output.dat` | datagrams to and from the servers; the lock between its threads |
| TFTP server, `tftp/server.c` | one socket for all threads, `ack_queue` under `ack_queue_lock` and `ack_queue_cond` | receive an ACK or a request, start a handler, reply, send a packet, search the queue, sleep, wake up, exit | handlers and main thread share the queue; any handler may exit the process or close the socket |
| FTP client, `ftp/client.c` | as the TFTP client, one TCP connection per thread, `retries` | CHECK, connect with retries, GET, recv loop, join, write | a TCP connection per chunk |
| FTP server, `ftp/server.c` | the connection being served; the kernel's backlog | accept, CHECK, GET, write loop, close, exit | iterative: one connection at a time |
| IRC server, `irc/server.c` | `clients[]`, `waiting_clients[]`, their counts, `client_mutex` | accept, register, `/list`, `/wait`, `/connect`, `/stop_wait`, disconnect | a handler thread per client |
| IRC client, `irc/client.c` | `peer_info`, mode, listener socket | commands, Ctrl+C, wait for a peer, connect to a peer, converse | the server over TCP, one peer over TCP |
| HTTPS client, `https/client.c` | socket, TLS session and context, output file | parse the URL, connect, handshake, check the certificate, request, copy to the file or print the header | sequential, against a server that answers in pieces, closes or breaks off |
| archive: web downloaders | as the HTTPS client | the same, byte by byte and with Content-Length | ancestors of `https/` |
| archive: chat | linked list of waiting clients under a mutex | as `irc/` | ancestor of `irc/`; exits after its first client |
| archive: UDP and TCP file transfer, UDP echo | segments, or a chunk per connection | stop-and-wait; as `ftp/` | ancestors of `tftp/` and `ftp/` |
| archive: shell | a stream | run a command | sequential |

What is hard in this code, and what would make it correct:

* **The plan.** Unsigned and signed numbers are mixed (`int` against `size_t`),
  and the result is a divisor. Every byte must be in exactly one task.
* **TFTP.** The server's handlers share a bounded queue of ACKs in which every
  chunk counts its packets from 0; datagrams are lost, doubled, reordered and
  late; the client's threads wait in `recvfrom` while they hold a lock that all
  of them need; a handler can take the whole server down. A wakeup must not be
  lost, an ACK must reach its handler, a thread must stay in its own part of the
  buffer, and the client must end.
* **FTP.** Reads and writes are short, connections wait behind one another in
  the backlog, a broken connection kills the server. The stream must stay in
  step, and the client must end.
* **IRC.** The arrays are shared by the handlers, descriptors are reused,
  TCP has no message boundaries and one critical section contains a `recv`. The
  registry must agree with the clients that are served, commands must finish,
  and `/connect` must lead to the client it names.
* **IRC conversations.** Up to four threads of a client and a signal handler
  share `peer_info` without a lock; each closes whatever socket is in it. Mode and
  socket must stay in step, no thread may hang up another one's conversation, and
  a conversation that one side leaves must end on both.
* **Web clients.** Reads return any part of the response, the end of the header
  may be split between two of them, the connection may break anywhere, and an
  invalid certificate leads to a context that is released twice. What is in
  `output.dat` must be right as far as it goes, and complete when nothing failed;
  the program must end.

## 2. Plan

Order of work, the most important behaviour first. All of it is done.

1. `ChunkPlan`, `PlanLoop`: the plan, with proofs.
2. `TftpNet`, `TftpServer`, `TftpClient`, composed in `Tftp`; proofs of the type
   invariant and of the main safety properties.
3. `ChunkedDownload`: the abstract specification of a download; proof of what it
   promises.
4. `FtpServer`, `FtpClient`, composed in `Ftp`; the same abstract specification.
5. `IrcServer`, `IrcClient`, composed in `Irc`.
6. `IrcPeer`: the calls and conversations of two whole clients, for which
   `IrcClient` has the single step `EndChat`.
7. The waiting list after a disconnect (`Irc`), the descriptors that the FTP
   server leaks (`FtpServer`).
8. `WebClient`: `https/client.c` and its two ancestors.
9. Proofs about every system of the list: type invariants and the safety
   properties of `Tftp`, `Ftp`, `Irc`, `IrcPeer` and `WebClient`.
10. Proofs that `Ftp` and `Tftp` implement `ChunkedDownload`, and what their output
   holds therefore; for `Tftp` with an invariant that follows each packet through
   network, queue and buffer.
   What the prover cannot do is at the end of section 5.

## 3. Modules

| module | models | notes |
|---|---|---|
| `ChunkPlan` | the arithmetic of the plan | operators only; used by everything below |
| `PlanLoop`, `MCPlanLoop` | the loop of `main()` that fills `tasks[]` | one step per iteration |
| `ChunkedDownload` | what a download promises | abstract; filled chunk by chunk, in order, with right bytes only |
| `TftpNet` | UDP (external) | a bag of datagrams; a `Fault` counter that all faults share |
| `TftpServer` | `tftp/server.c` | `srv`, `ack_queue`, `worker`; handler threads in slots |
| `TftpClient` | `tftp/client.c` | `main`, `thread`, `lock`, `file_data` |
| `Tftp`, `MCTftp` | client, servers and network together | adds the timeouts |
| `FtpServer`, `FtpClient`, `Ftp`, `MCFtp` | `ftp/` over TCP (external) | `conn[c]` is what both ends see of a connection |
| `IrcServer`, `IrcClient`, `Irc`, `MCIrc` | `irc/` | `inbox`, `outbox`: the two directions of a connection |
| `IrcPeer` | two clients of `irc/` in conversation; the server is external | `mode`, `socket`: `peer_info`; `main`, `thread`: where the threads are; `conn`: the calls |
| `WebClient`, `MCWeb` | `https/client.c`, `myweb.c`, `client.c` of the web downloaders | `pc` is the place in `main()`; `arrived`, `server`: the other end |
| `ChunkPlanProofs`, `PlanLoopProofs`, `ChunkedDownloadProofs`, `TftpProofs`, `FtpProofs`, `IrcProofs`, `IrcPeerProofs`, `WebClientProofs` | | theorems, section 5 |

**Grain of atomicity.** A step is the code between two operations on shared
state. A critical section that does not block is one step: the server's search of
`ack_queue` with the removal or the `pthread_cond_wait`, the main thread's
append with the broadcast, the sections of `client_mutex`. The sections that do
block are several steps: the client's `recvfrom` under `shared_socket_lock`
(`Lock`, then `Receive` or a timeout) and the `recv` of the port under
`client_mutex` (`WaitLock`, then `RecvPort` or `RecvNoPort`). In `IrcPeer`, where
there is no lock, a step makes one access to what the threads share: it reads or
writes one member of `peer_info`, or makes one system call with the descriptor
that it finds there. So the test of the mode and what `main()` does about it are
different steps (`TypeText`, `SendText`; `TypeWait`, `TestWait`, `SetWait`,
`StartWaiting`), and so are the parts of the Ctrl+C handler (`Interrupt`, then
`SendLeave`, or `CloseListener` and `StopWaiting`), the two assignments at the begin
of a conversation (`SetSocket`, `SetChat`: `irc/client.c:128-130, 157-159`), the test
at the head of the receive loop, the read of the descriptor and the `recv`
(`LoopHead`, `EnterRecv`, `RecvText` and others), and the three statements at the end
(`CloseSocket`, `ForgetSocket`, `SetInfo`: `:74-76, 83-85, 92-94`). Any of these may
fall between two of another thread.

**Data.** A byte of the file is its position, so `file_data[j] = j` says that
byte `j` is right; `Zero` is a byte as `calloc` left it and `Junk` a byte of an
error message. A datagram is a record with its kind and numbers. Reads of
uninitialised variables are a choice from a constant (`UninitSizes` for
`file_size` after a reply that is not OK, `UninitIndexes` for `target_index` in
`/stop_wait`; in `WebClient` any exit status where a function ends without a
value). A byte of a web response is its position too; what a response is made of
(length of the header, Content-Length or not, the body and its zero bytes, what
follows) is a record.

**Faults.** `FaultKinds` says which may happen and `MaxFaults` how many.
TFTP: `loss`, `duplicate`, `delay` (a timeout although an answer is on its way),
`send` (a failing `sendto` or `socket`), `create` (a failing `pthread_create` or
allocation). FTP: `connect`, `create`, `reset`; how many descriptors a server has
is part of `Setups`. Web: a failing name lookup, `connect`, context or `fopen`, and a
connection that breaks and loses what was not read. Clients that end at any time are
no faults but what users do; a client of the IRC server that has quit may make the
server's next reply to it a SIGPIPE, which ends the server (`KilledBySend`). The
first `send()` of a connection never does, since nothing can have made the client's
kernel refuse the connection before; any later one may, for the greeting or a reply
may be unread when the client closes, or an earlier reply may have come after that.
What the client had sent is still read by then. Reordering, spurious wakeups and
short reads and writes are no faults: they happen at any time.

**Timeouts.** There is no clock. A thread in `recvfrom` may time out freely when
nothing that leads to an answer is under way, and else as a `delay` fault
(`Timeout` in `Tftp`): five seconds are long compared with an answer.

## 4. Runs

| run | question | result |
|---|---|---|
| `PlanLoop` | is every byte of every small file in exactly one task, and is no file turned away? | holds |
| `TftpDelivery` | two threads, one server, at most one loss or duplicate: is a wakeup ever lost, does a thread leave its chunk, and without a fault is the file delivered and every handler gone? | holds |
| `TftpFaults` | two faults of loss, delay, failing sends and allocations: does the client end, are only right bytes stored, is every queued ACK awaited, is the lock held by the thread in `recvfrom` only? | holds; the download is a `ChunkedDownload` |
| `TftpMissing` | the first server lacks the file, `file_size` is garbage: is the damage kept to the thread's own chunk, and does the client end? | holds |
| `TftpFullQueue` | on a perfect network, with more chunks on a server than slots in `ack_queue`: does the download complete? | **violated** |
| `FtpDownload` | up to three connections to two servers with a backlog of one, one that lacks the file, few or many descriptors, two faults: is the stream in step, is damage kept to the chunk, does the client end, and without a fault is the file delivered as long as the descriptors last? | holds; the download is a `ChunkedDownload` |
| `IrcServer` | two sessions with ids that may be the same, any three commands and Ctrl+C: does every command finish unless a reply to a client that has left ends the server, is `client_mutex` kept only by a handler that waits for a port, is no id registered or waiting twice, also when a client left and came back? | holds |
| `IrcFdReuse` | does the registry agree with the clients served? | **violated** |
| `IrcMutexHeld` | do commands finish when sends arrive together? | **violated** |
| `IrcWrongPort` | does CONNECT name the port of the client asked for? | **violated** |
| `IrcPeer` | two clients, two calls, four lines or Ctrl+C: do mode and socket agree between one thread's assignments, does each thread hang up its own conversation, do both sides leave it? | holds, but for what `crossed` and `hidden` record |
| `Web` | three programs, every kind of URL, 32 responses and one fault: is the output a beginning of the right one, is it complete, does the program end? | holds; the old GET needs the server's help to end |

`crossed`, `hidden` and `heard` are history variables. A client is in `crossed` once
its `peer_info` was written while it belonged to another conversation: by the Ctrl+C
handler or `/wait` that set the mode after a call has come in (`irc/client.c:54, 290`),
by a call answered or made while another thread is anywhere between its first write
to `peer_info` and its last (`:128, 157`), or by a call that fails and closes and clears
the conversation's socket (`:167, 168`). A connection is in `hidden` once a LEAVE was
returned behind another message by one `recv` (`:89, 118`), and in `heard` once a
LEAVE or the end of the stream was returned by itself. The run shows that mode and
socket differ, a thread hangs up another's conversation, or a conversation outlives
its LEAVE in no other way than these, and when nobody has accepted the call (`:151`:
the kernel completes a connection that the one thread of a listener will never accept).

So two conversations of one client that overlap are excused. One of them goes like
this: a thread closes its conversation and sets the socket to -1 (`:75`), another
thread answers a call (`:128-130`), and the first one then sets the mode to INFO
(`:76`): a live conversation in INFO mode. It is listed in section 6.

### The four violations

* `TftpFullQueue` (`tftp/server.c:208`): an ACK that finds the queue full is
  dropped, the client does not send it again, and the handler that needs it
  sleeps for ever. The client's thread uses up its retries and `output.dat` is
  incomplete, on a network that loses nothing.
* `IrcFdReuse` (`irc/server.c:76-81`): a handler closes its socket, and only then
  looks for its entry by descriptor. `accept()` may have given that descriptor
  to a new client by then. That the entry removed is the new client's takes an
  order of entries in which it is found first, which the swap with the last
  entry makes possible.
* `IrcMutexHeld` (`irc/server.c:70, 126`): `/wait` and the port that the client
  sends right after it can be returned by one `recv`. The port is dropped with
  the rest of the buffer, and the handler waits for it with `client_mutex`
  locked.
* `IrcWrongPort` (`irc/server.c:131, 163`): the port is stored in and read from
  `clients[]` under an index of `waiting_clients[]`.

### Bounds

* TFTP: files of 5 or 6 bytes with 2 per packet give chunks of 2 or 3 packets,
  the last one short or full, which is where sequence numbers of two chunks
  collide in the queue. `MaxQueue` is 2 for 2 connections (as 5 is enough for 5
  connections: a chunk has at most one ACK outstanding without faults), and 1
  in `TftpFullQueue`. `MaxWorkers` = 3 leaves a handler for every connection and
  one for a duplicated request, so that no request waits for a slot.
  `MaxRetries` is 1 for 5 in the code: the counting is the same.
* FTP: files of a few bytes, 2 per read or write, a backlog of 1 for up to 3
  connections, so that a connection waits for room in it; descriptors that run
  out during the download, and that do not (`SetupsRun`).
* IRC: two clients with three commands together, and three without commands for
  the reuse of descriptors. Three
  commands are enough for `/wait`, `/connect` and the Ctrl+C that crosses it, after
  which `waiting_count` may be negative; a fourth that would use it as an index
  is outside the model (`RecvPort`), for it writes outside the array.
  `NewPort` numbers the ports by client, which stands for the kernel's choice of
  a fresh one.
* IRC conversations: four lines or Ctrl+C (`MaxTyped`) are enough for `/wait`,
  `/connect`, and a text, `/quit` or Ctrl+C from each side, or for a second `/wait` and a
  second call during the first conversation; three ports (`MaxPort` = 5: the threads 3
  to 5) give client 1 two of them and client 2 one. A reader that calls and a
  waiting thread that answers overlap within these bounds; two waiting threads of one
  client, each in a conversation, need six lines and are beyond them. The theorems
  of `IrcPeerProofs` hold for any bounds. What `LeaveEnds` and `PeerGoneEnds` say was
  checked within these only.
* Web: a buffer of 6 against headers of 5 and 7 bytes, so that the end of the
  header is in one read, at its very beginning, or split in every way; bodies of
  0 and 3 bytes, with and without a zero byte and a byte that follows.

### Fairness

Weak fairness of each process or thread: a thread that can run does run, a
blocked `recvfrom` returns when a datagram is there or, in the client's threads,
when the timeout set with `SO_RCVTIMEO` is over. `pthread` mutexes and the kernel
scheduler justify that and no more: there is no fairness of faults, of spurious
wakeups, or of users (in `Irc`, commands, Ctrl+C and the end of a conversation
are never forced). In `IrcPeer` the server need not answer either. In `WebClient` the
response arrives, and the server closes the connection if it was asked to with
`Connection: close`, which `https/client.c:322` does and the old programs do not.
The fairness of the client's threads is that of the group,
weaker than one condition per thread, and is enough for `ClientEnds`.

`ClientEnds` starts where the threads do: before, `main()` waits for the reply
to CHECK without a timeout, see section 6. `Delivered` and `HandlersEnd` speak of
behaviours without faults, and hold under reordering; in `TftpDelivery` these
are checked next to behaviours with faults, about which they say nothing.

## 5. Proofs

All theorems hold for every value of the constants that the named assumptions
allow (`ServerAssumption`, `ClientAssumption`, ...), which TLC evaluates in each
run: any number of servers, handlers, connections, bytes and faults.

* `ChunkPlanProofs`: `TasksValid`, `PlanDisjoint`, `PlanCovers`. The chunks are
  disjoint, cover the file, and pass the client's own check, for every file with
  a byte and every `num_connections` but 0. `PlanCovers` names the chunk of a byte
  `b` (`b \div chunk_size`, capped at the last one); the rest is arithmetic on
  a quotient.
* `PlanLoopProofs`: `EveryByteOnce` and `NeverRejected`, that is
  `EveryByteAssignedOnce` and `NonEmptyFileAccepted` of the run `PlanLoop`. The
  invariant says that the tasks so far are those of the plan, in order.
* `ChunkedDownloadProofs`: `DownloadRight`, what an implementation of the
  abstract specification gets: right bytes up to where a chunk is filled, zeros
  after it. `Partition` makes the step of one chunk leave the others alone.
* `TftpProofs`: `TypeCorrect` (`TypeOK`), `WakeupsNotLost` (`NoLostWakeup`),
  `OutputStaysInChunk` (`OutputInChunk`) and `ChunksIsolated` (`ChunkIsolation`).
  The inductive invariant of these is the conjunction of the first three. `TypeOK` is
  not only types: that the lock is held by exactly the thread in `recvfrom`, and
  that threads not created are `"new"`, is needed for each other. `NoLostWakeup` needs
  the types of the handlers, and is inductive with them because search and sleep
  are one critical section and append and broadcast another. `OutputInChunk`
  rests on the client's two tests before the `memcpy`, whatever is in the packet;
  `ChunkIsolation` follows from it and `PlanDisjoint`: this is why `file_data`
  needs no lock. There is one lemma per group of actions, and one case per action.
  `ServersStayUp` (`ServersSurvive`) adds `RequestsOK`: a server exits when a GET
  asks for more than its copy holds, so the invariant follows the requests. Only
  the first server is asked for the size, and only with the socket of CHECK; only
  a server without the file answers ERROR; so `file_size` is the size of the first
  copy (`SizeKnown`) unless the first server lacks the file, and every GET, in the
  network or with a handler, lies inside that copy. Duplicates do no harm to it.

  The other properties of `Tftp` are about delivery, and a duplicated packet breaks
  them (section 6). Their theorems assume `Reliable`, which is about the constants
  and holds in the run `TftpFaults`: the network duplicates nothing, and
  every server has the file with the size of the first. Losses, delays, reordering,
  failing sends and allocations, and any number of them, remain. The invariant is
  `InOnePlace`: what a thread and its handler say to each other (`Conversation`) is in
  one place at a time. Either the request, the packet or the ACK is in the network,
  once (`NetPart`); or a handler is about to send (`HandlerPart`); or the ACK is in
  the queue of its server (`QueuePart`); or the packet is in the buffer of the thread
  (`ThreadPart`); or it was lost, and nothing follows. Wherever it is, it is the next
  packet of the chunk, of the right number, and `remaining` of thread and handler
  differ by it only if it was stored. An action either carries a conversation
  on, which is one lemma each (`PacketReceived` and the like), or is quiet for it, and
  then frame lemmas say that each of the four parts stays. From it follow
  `AcksAwaited` (`QueuedAcksAwaited`), `ZeroMeansAllOrNothing`
  (`StatusZeroAllOrNothing`), `TftpDownloads` (`RefinesDownload`: each step is one of
  `Plan`, `Fill`, `GiveUp`, `Write`, `Abort` or none) and, with `DownloadRight`,
  what `output.dat` holds (`OutputRight`).
* `FtpProofs`: `TypeCorrect` (`TypeOK`), `StreamsAgree` (`StreamInStep`), `ServersStayUp`
  (`ServersSurvive`) and `ChunksIsolated` (`ChunkIsolation`). `StreamInStep` speaks of a
  server that writes to a thread; to be inductive it needs what is true before
  and after (`Agreed`): nothing is asked and nothing has come before the GET, the
  GET asks for the whole chunk while the request waits in the backlog, and a
  connection belongs to one server (`HomeOK`). `ServersSurvive` speaks of behaviours
  in which nothing fails, and needs what is true of them only (`QuietOK`): a
  connection is in one backlog once, or with one server; both ends of it are open
  for as long; what the thread has asked and received is what it planned; and the
  size is that of the first copy, unless descriptors ran out (`NoDescriptors`,
  after which no request is granted and none kills).
  `FtpDownloads` is the refinement of `ChunkedDownload` (`RefinesDownload`), with all
  faults. It takes a second invariant, `RefInv`: nothing is planned before the size is
  known (`NoPlanYet`); a connection is in one place, broken or not, either unused, in
  one backlog or with one server (`PlacesOK`), so that two servers never write to one
  thread; and what is on its way to a thread continues the part of the file for which
  it waits, or is an error message after which the server sends nothing (`BytesOK`).
  Each step is then one of `Plan`, `Fill`, `GiveUp`, `Write`, `Abort` or none.
  With `DownloadRight` it follows what `output.dat` holds (`OutputRight`).
* `IrcProofs`: `TypeCorrect` (`TypeOK`), `IdsStayUnique` (`UniqueIds`) and
  `WaitingStaysUnique` (`WaitsOnce`). What is added is `CountBounded`, that
  a client takes a slot of `clients[]` at most once and so there is room for all,
  and `PortClaim`, that a client stays off the waiting list while its handler has
  the mutex and waits for the port, so that the id found missing before is still
  missing when it is appended. The end of the server by a SIGPIPE is one of the steps.
  `LeastNumber` (from well-foundedness)
  gives the entry that a search of the array finds first.
* `IrcPeerProofs`: `TypeCorrect` (`TypeOK`), `ModeFollowsSocket` (`ChatHasSocket`) and
  `HangUpFollowsPeer` (`HangsUpLast`), with every access to `peer_info` a step of its
  own and any number of lines, calls and waiting threads. The invariant adds that
  every question to the server took a typed line (`AskedInTime`), that an exited client does
  nothing more (`ExitIsFinal`), that a call waits at a port of the client that it was
  made to (`CallsOwnPort`), that an end whose conversation has not begun is with one
  thread (`OneHolder`), and that
  nobody has closed a connection whose conversation has not begun, or put it into
  `peer_info` (`FreshUntouched`). The core is `Conversations`: as long as a client is not
  in `crossed`, at most one of its threads is between its first write to `peer_info`
  and its last, and where that thread is says what is in `peer_info`: which mode, which
  socket, and whether the socket is open. Both theorems except the clients in
  `crossed`: of a client with two conversations at a time they say nothing (section 6).
* `WebClientProofs`: `TypeCorrect` (`TypeOK`), `OutputCorrect` (`OutputIsPrefix`) and
  `ResultComplete` (`CompleteAtEnd`), for every response, every cut of it into reads
  and any number of faults. The invariant says what has been read in each phase
  (`WireOK`, `PhaseOK`, `CountOK`) and that what was written is exactly the bytes of the
  result up to the reading position (`ScreenOK`, `OutOK`): a set of positions and its
  listing in order, which is why no induction over sequences is needed.

In each proof there is one lemma per action or group of actions and one case per
action; each inductive invariant was an invariant of a TLC run before.

Model-checked only: the liveness properties (the prover does not handle fairness),
and the findings, of which TLC gives a behaviour. What a recursive definition computes
for every input is out of the prover's reach, and so is induction with an operator
as a parameter; well-founded induction on a set, as in `LeastNumber`, is not.

## 6. What the code does that the runs do not hold against it

Met while modelling; the models contain those marked (m).

* (m) A lost datagram is never sent again (`tftp/server.c:138`), by either side. The
  repository's README says "UDP version handles basic retransmission" (line 6) and
  lists retry logic as a future improvement (line 30); one loss makes
  `output.dat` incomplete.
* (m) A lost CHECK, or its reply, leaves `main()` in `recvfrom` for ever
  (`tftp/client.c:193`).
* (m) A packet that comes twice is stored twice, since `seq_num` is not compared
  (`tftp/client.c:130`). `ChunkIsolation` bounds the damage.
* (m) An ERROR reply to GET is stored as if it were data (`tftp/client.c:115`, and
  `ftp/client.c:67`), and one to CHECK leaves `file_size` uninitialised.
* (m) A thread that cannot send its GET exits with the status of a success
  (`tftp/client.c:47, 64`): `StatusZeroAllOrNothing` is as much as status 0 says.
* (m) When the last of the allowed connects succeeds, the FTP thread takes it for
  a failure (`ftp/client.c:44`).
* (m) `/stop_wait` of a client that `/connect` has just taken off the list removes
  an entry with an uninitialised index (`irc/server.c:186`).
* (m) A waiting client that disconnects stays in `waiting_clients[]`
  (`irc/server.c:80`).
* `pthread_join` stores a pointer into an `int` (`tftp/client.c:263`); the FTP
  thread's status is undefined after a success (`ftp/client.c:94`).
* `buffer[received] = '\0'` is one byte too far for a full buffer
  (`tftp/server.c:199`).
* `client_count` is never compared with `MAX_CLIENTS` (`irc/server.c:57`).
* (m) The FTP server does not close the first `FILE*` of a request
  (`ftp/server.c:53`): after as many requests as it has descriptors it has no file.
* (m) A reply to a client that has quit with commands pending raises a SIGPIPE that
  nobody handles, and the IRC server ends with all its handlers
  (`irc/server.c:97, 109, 135, 137, 140, 158, 175, 204, 211`); its clients then exit.
  `CommandsFinish` takes that for the end of the commands.
* (m) A command that is sent right behind the id, before the greeting, may be read as
  part of the id (`irc/server.c:42`), which is then registered and looked for in
  `waiting_clients` as it is.
* (m) What is in `crossed` and `hidden`, section 4. In particular, between `:75` and
  `:76` of `irc/client.c` in one thread another one may begin a conversation
  (`:128-130` or `:157-159`), which then goes on in INFO mode: lines typed are taken for
  commands to the server, and Ctrl+C is ignored. It is in the model, and in `crossed`.
* (m) `fetch_via_https` and `validate_certificate` return 1 or nothing at all while
  their callers look for -1 (`https/client.c:164, 328`), so that most failures end
  with status 0, and the context is released twice (`:141, 217`).
* (m) The old web programs read one byte more than Content-Length says and so wait
  for the server (`myweb.c:227`), drop zero bytes (`:229`), and go on without a
  Content-Length (`client.c:126-130` of the simple one). `myweb.c:18` has an example
  with `http://`, whose `http:` is taken for the host (`:34-42`); an `https://` URL
  without a port is tried on port 80 (`:63`).

## 7. Not modelled

* Parsing of the server list and of command lines, and requests that this
  client never sends; wording and layout of messages; failures of `fopen` for
  `output.dat` and of `setsockopt`.
* Memory layout: writes outside an array, the consequences of a wrong pointer
  type. Files of 2^31 bytes and more.
* In `IrcPeer`, descriptor numbers that are given out again: a descriptor that was
  closed and is still in `peer_info` (`irc/client.c:74-75`) is an error there, and never
  another open file. The `close` of a `listener_socket` that was never set, when Ctrl+C
  comes between `:290` and `:294` of the first `/wait`.
* `broadcast()` of the IRC server, which nothing calls, and its `/quit`, which the
  client never sends. A Ctrl+C that the kernel gives to another thread than the
  main one.
* OpenSSL and the text of URLs, requests and headers beyond what decides a branch;
  the old web programs' `temp[]`, which is neither cleared nor checked for its
  length.
* `archive/chat`: its server calls `exit(0)` after the first `pthread_create`
  (`myserver.c:129`), so its list is never shared; its documentation calls it very
  buggy.
* `archive/file-transfer`: the TCP version does not work (its README: "stuck at
  writing integer values from server to client"), lab3 of the UDP version uses
  packets after they were freed, and the UDP echo passes an `int` for a `FILE*` and
  has no state.
* `archive/shell`: the client waits for a length that the server does not send,
  which its README reports.

These have no behaviour of their own to check that `tftp/`, `ftp/` and `irc/`, which
grew out of them, do not have.

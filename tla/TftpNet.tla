-------------------------------- MODULE TftpNet --------------------------------
(***************************************************************************)
(* The UDP network between the TFTP client and its servers, and the budget *)
(* of faults that the environment may spend on a behaviour.                *)
(*                                                                         *)
(* A datagram travels between one client socket and one server.  The       *)
(* client uses a socket of its own for the CHECK request (CheckPort) and   *)
(* one per download thread, whose port is the index of the thread.  The    *)
(* kernel picks the ports, so they are all different; the server's socket  *)
(* is shared by all its handlers.                                          *)
(***************************************************************************)
EXTENDS Integers, Bags, BagsExt

CONSTANTS
  NumServers,   \* the length of the client's server list
  FaultKinds,   \* which faults may happen
  MaxFaults     \* BOUND: how many may happen in one behaviour

Servers   == 0 .. NumServers - 1
CheckPort == -1

AllFaultKinds == {"loss", "duplicate", "delay", "send", "create"}

ASSUME NetAssumption ==
  /\ NumServers \in Nat \ {0}
  /\ FaultKinds \subseteq AllFaultKinds
  /\ MaxFaults \in Nat

VARIABLES
  net,      \* the bag of datagrams sent and not yet received
  faults    \* the number of faults so far

netVars == <<net, faults>>

\* One shape for all datagrams.  A GET asks for len bytes at position from, a
\* DATA packet number seq carries the len bytes at position from, OK says that
\* the file has len bytes.
Datagram(kind, port, server, seq, from, len) ==
  [kind |-> kind, port |-> port, server |-> server,
   seq |-> seq, from |-> from, len |-> len]

ToServer == {"CHECK", "GET", "ACK"}
ToClient == {"OK", "ERROR", "DATA"}

\* The first eight bytes of "ERROR File not found", read as a sequence number:
\* a number no handler ever gets to.
JunkSeq == -1

Check(server)                 == Datagram("CHECK", CheckPort, server, 0, 0, 0)
Get(port, server, from, len)  == Datagram("GET", port, server, 0, from, len)
Ack(port, server, seq)        == Datagram("ACK", port, server, seq, 0, 0)
Ok(port, server, size)        == Datagram("OK", port, server, 0, 0, size)
Error(port, server)           == Datagram("ERROR", port, server, JunkSeq, 0, 0)
Data(port, server, seq, from, len) ==
  Datagram("DATA", port, server, seq, from, len)

DatagramSet ==
  [kind : ToServer \cup ToClient, port : Int, server : Servers,
   seq : Int, from : Nat, len : Nat]

InFlight == DOMAIN net

Send(m)  == net' = BagAdd(net, m)
Consume(m) == net' = BagRemove(net, m)

NetInit ==
  /\ net = EmptyBag
  /\ faults = 0

-----------------------------------------------------------------------------
(***************************************************************************)
(* Faults.  Reordering needs none: a bag keeps no order.                   *)
(***************************************************************************)

Fault(kind) ==
  /\ kind \in FaultKinds
  /\ faults < MaxFaults
  /\ faults' = faults + 1

Lose(m) ==
  /\ m \in InFlight
  /\ Fault("loss")
  /\ Consume(m)

Duplicate(m) ==
  /\ m \in InFlight
  /\ Fault("duplicate")
  /\ Send(m)
=============================================================================

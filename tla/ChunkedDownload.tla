---------------------------- MODULE ChunkedDownload ----------------------------
(***************************************************************************)
(* What a download client of this repository promises, with the protocol   *)
(* left out: the file is cut into disjoint chunks that cover it, each      *)
(* chunk is filled from its start with the right bytes and nothing else,   *)
(* and output.dat is written once every chunk is complete or given up.     *)
(* The parts of a chunk that never arrived keep the zeros of calloc.       *)
(*                                                                         *)
(* tftp/client.c and ftp/client.c both work this way.                      *)
(***************************************************************************)
EXTENDS Integers

CONSTANT Zero    \* the value of a byte that calloc wrote, no position

VARIABLES
  phase,   \* "sizing", "fetching", "written" or "aborted"
  total,   \* the size of the file
  chunk,   \* chunk[i]: its first position and the one after its last
  filled,  \* filled[i]: the position after the bytes that chunk i has
  open,    \* the chunks that are still worked on
  data     \* the buffer

dvars == <<phase, total, chunk, filled, open, data>>

\* c cuts the positions below n into intervals.
Partition(c, n) ==
  /\ \A i \in DOMAIN c : 0 <= c[i].lo /\ c[i].lo < c[i].hi /\ c[i].hi <= n
  /\ \A b \in 0 .. n - 1 :
       \E i \in DOMAIN c :
         \A k \in DOMAIN c : (c[k].lo <= b /\ b < c[k].hi) <=> k = i

DInit ==
  /\ phase = "sizing"
  /\ total = 0
  /\ chunk = << >>
  /\ filled = << >>
  /\ open = {}
  /\ data = << >>

\* The size is known: all chunks are open and empty.
Plan ==
  /\ phase = "sizing"
  /\ phase' = "fetching"
  /\ total' \in Nat \ {0}
  /\ chunk' \in [DOMAIN chunk' -> [lo : Nat, hi : Nat]]
  /\ Partition(chunk', total')
  /\ filled' = [i \in DOMAIN chunk' |-> chunk'[i].lo]
  /\ open' = DOMAIN chunk'
  /\ data' = [j \in 0 .. total' - 1 |-> Zero]

\* The next bytes of chunk i arrive, up to position p; with the last one the
\* chunk is closed.
Fill(i, p) ==
  /\ phase = "fetching"
  /\ i \in open
  /\ p \in filled[i] + 1 .. chunk[i].hi
  /\ filled' = [filled EXCEPT ![i] = p]
  /\ data' = [j \in DOMAIN data |-> IF filled[i] <= j /\ j < p THEN j ELSE data[j]]
  /\ open' = IF p = chunk[i].hi THEN open \ {i} ELSE open
  /\ UNCHANGED <<phase, total, chunk>>

GiveUp(i) ==
  /\ phase = "fetching"
  /\ i \in open
  /\ open' = open \ {i}
  /\ UNCHANGED <<phase, total, chunk, filled, data>>

Write ==
  /\ phase = "fetching"
  /\ open = {}
  /\ phase' = "written"
  /\ UNCHANGED <<total, chunk, filled, open, data>>

Abort ==
  /\ phase \in {"sizing", "fetching"}
  /\ phase' = "aborted"
  /\ UNCHANGED <<total, chunk, filled, open, data>>

DNext ==
  \/ Plan
  \/ \E i \in open : GiveUp(i) \/ \E p \in filled[i] + 1 .. chunk[i].hi : Fill(i, p)
  \/ Write
  \/ Abort

DSpec == DInit /\ [][DNext]_dvars

-----------------------------------------------------------------------------
(***************************************************************************)
(* A written file is right up to what each chunk received, and zero after  *)
(* it: no byte is ever in a wrong place.                                   *)
(***************************************************************************)
RightUpToFilled ==
  phase \in {"fetching", "written"} =>
    \A i \in DOMAIN chunk : \A j \in chunk[i].lo .. chunk[i].hi - 1 :
      data[j] = IF j < filled[i] THEN j ELSE Zero
=============================================================================

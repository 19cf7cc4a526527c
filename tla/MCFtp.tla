---------------------------------- MODULE MCFtp ----------------------------------
(***************************************************************************)
(* The instance of Ftp: how the servers may start, and the client's        *)
(* argument.  A read or a write handles at most two bytes.                 *)
(***************************************************************************)
EXTENDS Ftp

Setup(sizes, descriptors) ==
  [hosted |-> [s \in Servers |-> sizes[s + 1]], free |-> descriptors]

\* Both servers have the file, with enough descriptors for every request or
\* for one only; or the first one has no file, and the second another one.
SetupsRun ==
  {Setup(<<5, 5>>, 4), Setup(<<3, 3>>, 2), Setup(<<NoFile, 1>>, 4)}

ArgumentsRun == {0, 1, 2, 3}
=============================================================================

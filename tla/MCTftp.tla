--------------------------------- MODULE MCTftp ---------------------------------
(***************************************************************************)
(* Instances of Tftp.  A packet carries two bytes of a file of five or six *)
(* bytes, so a chunk takes several packets and the last one may be short.  *)
(***************************************************************************)
EXTENDS Tftp

CONSTANT Bytes   \* the size of the file on the first server that has it

\* Who has the file: every server, or all but the first one.
AllHave    == [s \in Servers |-> Bytes]
FirstLacks == [s \in Servers |-> IF s = 0 THEN NoFile ELSE Bytes]

\* Arguments of the client.
OneOrTwo == {1, 2}
=============================================================================

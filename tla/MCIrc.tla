---------------------------------- MODULE MCIrc ----------------------------------
(***************************************************************************)
(* Instances of Irc: the ids of two and of three users.                    *)
(***************************************************************************)
EXTENDS Irc

AnnBob     == {"ann", "bob"}
AnnBobCleo == {"ann", "bob", "cleo"}
=============================================================================

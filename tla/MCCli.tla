------------------------------- MODULE MCCli --------------------------------
(***************************************************************************)
(* Cli for TLC.  Which node comes first in --addr makes no difference.     *)
(***************************************************************************)
EXTENDS Cli

Order == SetToSeq(Node)

Symmetry == Permutations(Client)

\* The second node won term 1.
EstablishedSpec == CliInit(Order[2]) /\ [][CliNext]_cliVars
=============================================================================

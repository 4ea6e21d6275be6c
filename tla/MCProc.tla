------------------------------- MODULE MCProc -------------------------------
(***************************************************************************)
(* Instances of the process life cycle.                                    *)
(***************************************************************************)
EXTENDS Proc

=============================================================================

------------------------- MODULE MCSportmonksClient -------------------------
(***************************************************************************)
(* Small instances of SportmonksClient for TLC.                            *)
(***************************************************************************)
EXTENDS SportmonksClient

(* A negative one, one that is waited out and one that is not.             *)
SomeResets == {-1, 1, 2}

=============================================================================

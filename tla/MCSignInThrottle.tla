-------------------------- MODULE MCSignInThrottle --------------------------
(***************************************************************************)
(* Small instances of SignInThrottle and of ClientIdentity for TLC.  The   *)
(* counters are those of one identity, so a behaviour is either of the     *)
(* counters or of the resolution of an identity.                           *)
(***************************************************************************)
EXTENDS SignInThrottle, ClientIdentity, TLC

VARIABLE side

(* Attempts are interchangeable.                                           *)
Symmetry == Permutations(Attempts)

MCInit == Init /\ ForwardInit /\ side \in {"counters", "identity"}

MCNext ==
  \/ side = "counters" /\ Next /\ UNCHANGED <<side, forwardVars>>
  \/ side = "identity" /\ ForwardNext /\ UNCHANGED <<side, vars>>

MCSpec == MCInit /\ [][MCNext]_<<vars, forwardVars, side>>

=============================================================================

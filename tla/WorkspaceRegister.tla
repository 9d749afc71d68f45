------------------------- MODULE WorkspaceRegister -------------------------
(***************************************************************************)
(* What the store promises its callers about the workspace definition: a   *)
(* register that edits move from one revision to the next, none of which   *)
(* is lost once it was acknowledged.                                       *)
(***************************************************************************)
EXTENDS Naturals

CONSTANT Edits

VARIABLES
  revision,      \* of the definition a reader finds
  applied,       \* the edits that definition contains
  acknowledged   \* the edits whose caller was told they are saved

registerVars == <<revision, applied, acknowledged>>

RegisterInit == revision \in Nat /\ applied = {} /\ acknowledged = {}

\* An edit of the current definition becomes the next revision of it.
Commit(e) ==
  /\ revision' = revision + 1
  /\ applied' = applied \union {e}
  /\ UNCHANGED acknowledged

Acknowledge(e) ==
  /\ e \in applied
  /\ acknowledged' = acknowledged \union {e}
  /\ UNCHANGED <<revision, applied>>

RegisterNext == \E e \in Edits : Commit(e) \/ Acknowledge(e)

RegisterSpec == RegisterInit /\ [][RegisterNext]_registerVars
=============================================================================

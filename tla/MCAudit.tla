-------------------------------- MODULE MCAudit --------------------------------
(***************************************************************************)
(* VerifierAudit for TLC.                                                  *)
(***************************************************************************)
EXTENDS VerifierAudit, Configurations

=============================================================================

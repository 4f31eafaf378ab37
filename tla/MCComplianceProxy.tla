-------------------------- MODULE MCComplianceProxy -------------------------
(* Small instances of ComplianceProxy; the cfg files give all constants values. *)
EXTENDS ComplianceProxy
=============================================================================

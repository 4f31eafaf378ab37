-------------------------- MODULE MCComplianceJobs --------------------------
(* Small instances of ComplianceJobs; the cfg files give all constants values. *)
EXTENDS ComplianceJobs
=============================================================================

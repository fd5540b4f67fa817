------------------------------- MODULE MCAudit -------------------------------
(***************************************************************************)
(* Two runs on which TLC explores Audit: one starts a case, the other      *)
(* continues it.                                                           *)
(***************************************************************************)
EXTENDS Audit

CONSTANTS a, a1, a2

OneCase == [r \in Runs |-> a]
=============================================================================

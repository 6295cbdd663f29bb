---------------------------- MODULE MCAcpSession ----------------------------
(***************************************************************************)
(* A small instance of AcpSession: three turns with two models and one     *)
(* compaction, under both lifecycle policies.  One bridge configuration is *)
(* enough: its drift abandons a child exactly as a changed history does.   *)
(***************************************************************************)
EXTENDS AcpSession

CONSTANTS m1, m2, g1, s1

MCModels == {m1, m2}
MCConfigs == {g1}
MCSummaries == {s1}
MCPolicies == {"turn-scoped", "process-scoped"}
=============================================================================

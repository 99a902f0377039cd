------------------------------- MODULE MCAudit -------------------------------
(***************************************************************************)
(* Instances of VaultAudit for TLC: the inputs of MCVault, and a wallet    *)
(* that is named twice among the beneficiaries.                            *)
(***************************************************************************)
EXTENDS VaultAudit, MCVault

AuditBeneficiaries == {Split(b1, 3333, b2, 6667), Split(b1, 5000, b1, 5000)}
==============================================================================

------------------------------- MODULE MCVault -------------------------------
(***************************************************************************)
(* Instances of VaultProgram for TLC.                                      *)
(***************************************************************************)
EXTENDS VaultLedger, TLC

CONSTANTS o, fee, vk, k1, b1, b2, a1, a2, m1

Split(w1, s1, w2, s2) ==
    <<[wallet |-> w1, share_bps |-> s1], [wallet |-> w2, share_bps |-> s2]>>
Sole(w) == <<[wallet |-> w, share_bps |-> 10000]>>
Bequest(mint, amount, i) ==
    [mint |-> mint, amount |-> amount, beneficiary_index |-> i, is_nft |-> FALSE]

\* The owner can found two vaults; the keeper can send late transfers.
PurseOf(owner, keeper) ==
    [a \in Accounts |-> IF a = o THEN owner ELSE IF a = k1 THEN keeper ELSE 0]

\* -- lifecycle: setup, edits, heartbeats, revocation, re-initialisation ------
LifeBeneficiaries ==
    {Sole(b1), Split(b1, 4000, b2, 6000), Split(b1, 4000, b2, 5000), Sole(o)}
LifePlans == {<<Bequest(SOL, 1, 2)>>, <<Bequest(NotAMint, 1, 1)>>}
LifeSol == PurseOf(4, 0)
NoTokens == [m \in Mints |-> [a \in Accounts |-> 0]]

\* -- SOL: shares, specific SOL bequests, bounty, dust, late transfers ---------
SolBeneficiaries == {Split(b1, 3333, b2, 6667), Split(b1, 5000, b2, 5000)}
SolPlans == {<<Bequest(SOL, 1, 1)>>, <<Bequest(SOL, 2, 2), Bequest(SOL, 2, 1)>>}
SolSol == PurseOf(7, 1)

\* -- tokens ---------------------------------------------------------------
TokenBeneficiaries == {Split(b1, 5000, b2, 5000)}
TokenPlans == {<<Bequest(m1, 1, 1)>>, <<Bequest(m1, 2, 2), Bequest(m1, 2, 1)>>}
TokenSol == PurseOf(2, 0)
TokenTokens == [m \in Mints |-> PurseOf(4, 1)]

\* -- a vault that an older version of the program revoked ----------------------
ZombieBeneficiaries == {Sole(b2)}
Revoked(interval) ==
    {[agent_pubkey |-> a1, heartbeat_interval |-> interval, grace_period |-> 1,
      beneficiaries |-> Sole(b1), executed |-> FALSE, active |-> FALSE,
      is_mutable |-> TRUE, has_asset_plan |-> FALSE, open_token_dists |-> 0,
      keeper_bounty |-> 0]}
Zombies == Revoked(1)
\* Its deadline, ZombieTime + 3, lies beyond MaxTime: no execution begins on it.
LateZombies == Revoked(2)
==============================================================================

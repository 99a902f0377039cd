------------------------------ MODULE VaultAudit ------------------------------
(***************************************************************************)
(* An auditor beside VaultProgram.  When an execution (or the distribution *)
(* of one mint) opens it copies the ledger, it computes from that copy     *)
(* alone what every heir is due, and it compares when the accounts close.  *)
(* The books only observe: every step of VaultProgram is a step here.      *)
(* The heirs it looks at neither deposit nor crank, so that what their     *)
(* accounts gain is what the vault paid.                                   *)
(***************************************************************************)
EXTENDS VaultLedger

VARIABLE books   \* books[x]: the ledger of asset x when its distribution opened

auditVars == <<vars, books>>

Assets == Mints \cup {SOL}

IsOpen(x) == IF x = SOL THEN log # NoAccount ELSE dist[x] # NoAccount

Estate(x) == IF x = SOL THEN Available ELSE AtaBalance(x)

Held(x) == IF x = SOL THEN sol ELSE tokens[x]

Untouched(x) ==
    plan # NoAccount => OfMint(plan.assignments, x) \cap plan.paid_mask = {}

\* late: assets arrived after the opening.  whole: no bequest of x was paid
\* before it, as happens when the distribution of a mint is opened again.
OpeningEntry(x) ==
    [estate |-> Estate(x), held |-> Held(x), late |-> FALSE, whole |-> Untouched(x)]

Entry(x) ==
    IF ~IsOpen(x)' THEN NoAccount
    ELSE IF ~IsOpen(x) THEN OpeningEntry(x)
    ELSE [books[x] EXCEPT !.late = @ \/ Estate(x)' > Estate(x)]

AuditInit == Init /\ books = [x \in Assets |-> NoAccount]

AuditNext == Next /\ books' = [x \in Assets |-> Entry(x)]

AuditSpec == AuditInit /\ [][AuditNext]_auditVars

-------------------------------------------------------------------------------
(* What each heir is due, computed from the opening ledger.                   *)

Bequests == IF plan = NoAccount THEN << >> ELSE plan.assignments

\* What is left of an estate after the first k bequests, served in plan order.
LeftOf(assignments, x, estate) ==
    LET left[k \in 0..Len(assignments)] ==
            IF k = 0 THEN estate
            ELSE SatSub(left[k - 1],
                        IF assignments[k].mint = x THEN assignments[k].amount ELSE 0)
    IN left

Left(x) == LeftOf(Bequests, x, books[x].estate)

AfterBequests(x) == Left(x)[Len(Bequests)]

Reward(x) == IF x = SOL THEN vault.keeper_bounty ELSE 0

ResidualShares(x) ==
    [i \in Indices |->
        (SatSub(AfterBequests(x), Reward(x)) * vault.beneficiaries[i].share_bps)
            \div 10000]

\* Rounding leaves a remainder, which goes to the largest share.  A share of the
\* vault itself, if it is named as its own heir, stays there and is part of it.
Remainder(x) ==
    SatSub(AfterBequests(x)
             - SumOver(Len(vault.beneficiaries), {i \in Indices : WalletOf(i) # VaultKey},
                       ResidualShares(x)),
           Reward(x))

DustHeir ==
    LET bps(i) == vault.beneficiaries[i].share_bps
        largest == {i \in Indices : \A k \in Indices : bps(i) >= bps(k)}
    IN WalletOf(CHOOSE i \in largest : \A k \in largest : i <= k)

\* What the estate grants to each bequest.
Granted(x) == [j \in 1..Len(Bequests) |-> Left(x)[j - 1] - Left(x)[j]]

GrantedTo(x, w, some) ==
    SumOver(Len(Bequests), {j \in some : WalletOf(Bequests[j].beneficiary_index) = w}, Granted(x))

SharedTo(x, w, some) ==
    SumOver(Len(vault.beneficiaries), {i \in some : WalletOf(i) = w}, ResidualShares(x))

Due(x, w) ==
    GrantedTo(x, w, 1..Len(Bequests)) + SharedTo(x, w, Indices)
         + (IF w = DustHeir THEN Remainder(x) ELSE 0)

Heirs ==
    {WalletOf(i) : i \in Indices} \ ({Owner, FeeWallet, VaultKey} \cup Payers \cup Depositors)

-------------------------------------------------------------------------------
\* When the accounts of an execution or of a token distribution close, every heir
\* holds exactly its due, and more than that only of assets that arrived late,
\* whatever the order, batching and repetition of the permissionless instructions.
HeirsPaid ==
    [][\A x \in Assets :
         (IsOpen(x) /\ ~IsOpen(x)' /\ books[x].whole) =>
             \A w \in Heirs :
                 LET got == Held(x)'[w] - books[x].held[w] IN
                 /\ got >= Due(x, w)
                 /\ ~books[x].late => got = Due(x, w)]_auditVars

-------------------------------------------------------------------------------
(* What holds of the books at any time in between, and makes HeirsPaid follow. *)

Ledger == [estate : Nat, held : [Accounts -> Nat], late : BOOLEAN, whole : BOOLEAN]

Snapshot(x) == IF x = SOL THEN log.sol_snapshot ELSE dist[x].snapshot

SharesPaid(x) == IF x = SOL THEN log.sol_paid_mask ELSE dist[x].paid_mask

BequestsPaid(x) ==
    IF plan = NoAccount THEN {} ELSE OfMint(plan.assignments, x) \cap plan.paid_mask

\* What the vault should still hold: what the bequests paid so far leave, from
\* the finalisation on without the bounty, less the shares that went out.
ShouldHold(x) ==
    (IF x = SOL /\ vault.executed THEN SatSub(AfterBequests(x), Reward(x))
     ELSE SatSub(books[x].estate,
                 SumOver(Len(Bequests), BequestsPaid(x), AssignedAmounts(Bequests))))
      - SumOver(Len(vault.beneficiaries), {i \in SharesPaid(x) : WalletOf(i) # VaultKey},
                ResidualShares(x))

\* Late arrivals may add to a balance, nothing takes from it.
Agrees(late, balance, expected) == balance >= expected /\ (~late => balance = expected)

BooksBalance(x) ==
    IsOpen(x) =>
        /\ books[x] \in Ledger
        /\ Snapshot(x) = SatSub(AfterBequests(x), Reward(x))
        /\ SharesPaid(x) \subseteq Indices
        /\ books[x].whole =>
               /\ \A j \in BequestsPaid(x) :
                      LowerIndexSameMint(Bequests, x, j) \subseteq BequestsPaid(x)
               /\ Agrees(books[x].late, Estate(x), ShouldHold(x))
               /\ \A w \in Heirs :
                      Agrees(books[x].late, Held(x)[w] - books[x].held[w],
                             GrantedTo(x, w, BequestsPaid(x)) + SharedTo(x, w, SharesPaid(x)))

BooksInv == \A x \in Assets : BooksBalance(x)
===============================================================================

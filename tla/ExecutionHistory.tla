--------------------------- MODULE ExecutionHistory ---------------------------
(***************************************************************************)
(* The execution log of the phone (ExecutionHistoryService.ts): it asks an *)
(* indexer for the transactions of the vault's address, newest first, and  *)
(* cuts them into sessions, one per execution of the vault.  A transaction *)
(* is its signature, its block time in seconds, the program's instructions *)
(* in it and whether it succeeded; amounts and labels are left out.  The   *)
(* indexer lists the transactions that failed as well, and the service     *)
(* never looks at their error.                                             *)
(***************************************************************************)
EXTENDS Naturals, Sequences, FiniteSets

LOCAL INSTANCE SequencesExt

CONSTANTS
    PageSize,      \* transactions of a page (50)
    MaxPages,      \* MAX_PAGES (5)
    MaxHistory,    \* transactions that land
    MaxReverted    \* of these, transactions that fail as they land

ASSUME ExecutionHistoryAssumption ==
    {PageSize, MaxPages} \subseteq Nat \ {0} /\ {MaxHistory, MaxReverted} \subseteq Nat

VARIABLES
    landed,        \* transactions of the vault's address, oldest first
    chain          \* state of the vault

logVars == <<landed, chain>>

DISCRIMINATOR ==
    {"begin_execution", "begin_token_dist", "execute_specific_asset", "execute_specific_sol",
     "execute_sol_shares", "execute_token_shares", "finalize_execution", "close_token_dist",
     "close_executed_vault_by_owner", "record_heartbeat", "initialize_vault", "revoke_vault",
     "rotate_agent", "update_vault", "withdraw_sol_from_vault", "withdraw_from_vault",
     "set_asset_plan", "update_asset_plan", "clear_asset_plan"}

EXECUTION_INSTRUCTIONS ==
    {"begin_execution", "begin_token_dist", "execute_specific_asset", "execute_specific_sol",
     "execute_sol_shares", "execute_token_shares", "finalize_execution", "close_token_dist",
     "close_executed_vault_by_owner"}

\* What the screen shows of a transaction with several instructions.
PRIORITY ==
    <<"execute_specific_sol", "execute_specific_asset", "execute_sol_shares",
      "execute_token_shares", "finalize_execution", "begin_token_dist", "close_token_dist",
      "close_executed_vault_by_owner", "begin_execution">>

\* A page that fails, an empty or a short one ends the list.
Pages(txs, answered) ==
    LET pages == IF answered < MaxPages THEN answered ELSE MaxPages
        count == IF pages * PageSize < Len(txs) THEN pages * PageSize ELSE Len(txs)
    IN  SubSeq(txs, 1, count)

\* Among the calls of a transaction, outer and inner, those whose first bytes
\* are known; close_executed_vault, the keeper's close, is not among them.
dmvInstructionNames(tx) == tx.calls \cap DISCRIMINATOR

primaryType(names) == SelectSeq(PRIORITY, LAMBDA t : t \in names)[1]

buildStep(tx) == [type |-> primaryType(tx.names), txSignature |-> tx.signature]

NewSession(tx) ==
    [steps |-> << >>, executedAt |-> tx.timestamp, recordTxSignature |-> tx.signature]

\* The finalisation gives the session its time and its signature.
AddStep(session, tx) ==
    LET final == "finalize_execution" \in tx.names IN
    [steps |-> Append(session.steps, buildStep(tx)),
     executedAt |-> IF final THEN tx.timestamp ELSE session.executedAt,
     recordTxSignature |-> IF final THEN tx.signature ELSE session.recordTxSignature]

\* The sort is stable: within a second, newest first stays newest first.
ByTime(txs) ==
    LET earlier(i, j) == \/ txs[i].timestamp < txs[j].timestamp
                         \/ txs[i].timestamp = txs[j].timestamp /\ i < j
        order == SetToSortSeq(DOMAIN txs, earlier)
    IN  [k \in DOMAIN txs |-> txs[order[k]]]

\* Mutant: only the first session is begun.
OneSession(tx, sessions) == sessions = << >>

\* A begin_execution ends the session before it.
Begins(tx, sessions) == sessions = << >> \/ "begin_execution" \in tx.names

groupIntoSessions(txs) ==
    LET add(sessions, tx) ==
            IF tx.names \cap EXECUTION_INSTRUCTIONS = {} THEN sessions
            ELSE IF Begins(tx, sessions) THEN Append(sessions, AddStep(NewSession(tx), tx))
            ELSE [sessions EXCEPT ![Len(sessions)] = AddStep(@, tx)]
    IN  Reverse(FoldLeft(add, << >>, ByTime(txs)))

\* A page also lists transactions that do not call the program.
getExecutionHistory(txs, answered) ==
    LET ours == SelectSeq(Pages(txs, answered), LAMBDA tx : tx.calls # {"transfer"}) IN
    groupIntoSessions([k \in DOMAIN ours |->
        [signature |-> ours[k].signature, timestamp |-> ours[k].timestamp,
         names |-> dmvInstructionNames(ours[k])]])

------------------------------------------------------------------------------
(* The chain: transactions land at the vault's address, oldest first.       *)

Kinds ==
    [deposit |-> {"transfer"}, beat |-> {"record_heartbeat"},
     begin |-> {"begin_execution"}, pay |-> {"execute_sol_shares"},
     final |-> {"finalize_execution"}, dist |-> {"close_token_dist"},
     claim |-> {"begin_execution", "execute_sol_shares", "finalize_execution"},
     reinit |-> {"close_executed_vault_by_owner", "initialize_vault"},
     reap |-> {"close_executed_vault"}, init |-> {"initialize_vault"}]

\* The states of the vault in which a kind of transaction succeeds, and the
\* state it leaves.
Accepts(state, kind) ==
    CASE kind = "deposit"                    -> TRUE
      [] kind \in {"beat", "begin", "claim"} -> state = "active"
      [] kind \in {"pay", "final"}           -> state = "begun"
      [] kind = "dist"                       -> state \in {"begun", "executed"}
      [] kind \in {"reinit", "reap"}         -> state = "executed"
      [] kind = "init"                       -> state = "gone"

Leaves(state, kind) ==
    CASE kind = "begin"               -> "begun"
      [] kind \in {"claim", "final"}  -> "executed"
      [] kind \in {"reinit", "init"}  -> "active"
      [] kind = "reap"                -> "gone"
      [] OTHER                        -> state

LogInit == landed = << >> /\ chain = "active"

Reverted == {i \in DOMAIN landed : ~landed[i].ok}

\* A transaction that fails, say the second begin_execution of two crankers
\* that race; one of another kind is to the service what a deposit is.
MayFail(kind) ==
    Kinds[kind] \cap EXECUTION_INSTRUCTIONS # {} /\ Cardinality(Reverted) < MaxReverted

\* later: in a later second than the transaction before it.
Lands(kind, later, ok) ==
    /\ Len(landed) < MaxHistory
    /\ IF ok THEN Accepts(chain, kind) ELSE MayFail(kind)
    /\ chain' = IF ok THEN Leaves(chain, kind) ELSE chain
    /\ landed' = Append(landed, [signature |-> Len(landed) + 1, calls |-> Kinds[kind], ok |-> ok,
                                 timestamp |-> (IF landed = << >> THEN 0 ELSE Last(landed).timestamp)
                                                + (IF later THEN 1 ELSE 0)])

LogNext == \E kind \in DOMAIN Kinds, later, ok \in BOOLEAN : Lands(kind, later, ok)

------------------------------------------------------------------------------

LOCAL Shown(sessions) ==
    {{sessions[k].steps[i].txSignature : i \in DOMAIN sessions[k].steps} : k \in DOMAIN sessions}

LOCAL Executing == {i \in DOMAIN landed : landed[i].calls \cap EXECUTION_INSTRUCTIONS # {}}
LOCAL Starts == {i \in DOMAIN landed : "begin_execution" \in landed[i].calls}

\* The execution that transaction i belongs to, told by its beginning.
LOCAL ExecutionOf(i) == Cardinality({j \in Starts : j <= i})

\* Every transaction of an execution that was fetched is shown exactly once,
\* one that failed included.  If no transaction shares its second with the
\* beginning of an execution, and none that failed would have begun or
\* finalised one, the sessions are the executions, newest first, each under
\* the signature of its finalisation, wherever the pages end and whatever
\* other attempts failed in its course (getExecutionHistory,
\* groupIntoSessions).
SessionsMatchExecutions ==
    \A answered \in 0..MaxPages :
        LET txs == Reverse(landed)
            kept == {i \in Executing : i > Len(landed) - Len(Pages(txs, answered))}
            sessions == getExecutionHistory(txs, answered)
            apart == \A i \in Starts : \A j \in DOMAIN landed \ {i} :
                        landed[i].timestamp # landed[j].timestamp
            decided == \A i \in Reverted :
                          landed[i].calls \cap {"begin_execution", "finalize_execution"} = {}
        IN  /\ UNION Shown(sessions) = kept
            /\ FoldLeft(LAMBDA n, s : n + Len(s.steps), 0, sessions) = Cardinality(kept)
            /\ apart /\ decided =>
                 /\ Shown(sessions) = {{j \in kept : ExecutionOf(j) = ExecutionOf(i)} : i \in kept}
                 /\ \A k \in DOMAIN sessions :
                      LET rec == sessions[k].recordTxSignature
                          finals == {i \in kept : /\ "finalize_execution" \in landed[i].calls
                                                  /\ ExecutionOf(i) = ExecutionOf(rec)}
                      IN  /\ finals # {} => rec \in finals
                          /\ \A l \in 1..(k - 1) : sessions[l].recordTxSignature > rec
===============================================================================

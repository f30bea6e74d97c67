---------------------------- MODULE ChainQueries ----------------------------
(***************************************************************************)
(* The contracts as the API sees them: receipts on a ledger that other     *)
(* parties keep moving, and two read-only simulations, get_owner and       *)
(* get_token_metadata, both of the sesame contract whatever the token, and *)
(* each answered from the ledger as it stands when the RPC server runs it. *)
(* Between the answer and the code that resumes after `await` anything may *)
(* happen.                                                                 *)
(*                                                                         *)
(* The ledger is ReceiptLedger, which SesameReceipt implements.            *)
(***************************************************************************)
EXTENDS ReceiptLedger

CONSTANTS GoneTexts,    \* the texts the contract's TokenNotFound may arrive with
          MaxHeight,    \* bound: ledger operations in a behaviour
          MaxFailures   \* bound: queries the RPC server fails to answer

ASSUME ChainAssumption == MaxHeight \in Nat /\ MaxFailures \in Nat

VARIABLES height,       \* ledger operations so far
          failures      \* queries failed so far

chain == <<receipts, issued, height>>

Errors == GoneTexts \cup {"RPC timeout"}

Found(value) == [ok |-> TRUE, value |-> value]
Failed(error) == [ok |-> FALSE, error |-> error]

Gone == {Failed(text) : text \in GoneTexts}

\* What get_owner and get_token_metadata may answer for a token now.
queryOwner(id) ==
  IF id \in DOMAIN receipts THEN {Found(receipts[id].owner)} ELSE Gone
queryToken(id) ==
  IF id \in DOMAIN receipts THEN {Found(receipts[id])} ELSE Gone

\* Mutant: any error is taken for the token's absence.
isTokenNotFoundError_any(error) == error \in Errors

\* Mutant: the number of the error is not looked for.
isTokenNotFoundError_named(error) ==
  error \in {"TokenNotFound", "token not found"}

\* The test both API readers apply to the text of an error.
isTokenNotFoundError(error) ==
  error \in {"TokenNotFound", "Error(Contract, #1)", "token not found"}

\* Some party operates the contract.
ChainMoves ==
  /\ height < MaxHeight
  /\ LedgerNext
  /\ height' = height + 1
=============================================================================

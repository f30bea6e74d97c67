------------------------- MODULE SubmitTransaction --------------------------
(***************************************************************************)
(* How the SDK calls that change a contract get their transactions onto    *)
(* the ledger: read the account, build with a time bound, simulate, sign   *)
(* and send, then poll once a second for the outcome.  The calls repeat    *)
(* the same steps, those of sdk/src/sesame/mint.ts; maize/split.ts has an  *)
(* amount to check first and reports the contract's refusals by class.     *)
(* Time is in seconds.  Calls run concurrently, each step of one separated *)
(* from the next by an await, and none catches the rejection of a promise  *)
(* it awaits.                                                              *)
(*                                                                         *)
(* The network keeps at most one waiting transaction of an account, may    *)
(* drop a waiting one, and applies one at most once, under the account's   *)
(* next sequence number and within its time bound.  The RPC server may lag *)
(* behind the ledger when it is polled.                                    *)
(*                                                                         *)
(* The calls made are to one contract, and those about a receipt to one    *)
(* receipt, issued or still to be issued.  The contract answers as it does *)
(* in ContractAnswers, in the simulation as on the ledger; meanwhile its   *)
(* administrator, through other accounts, locks and unlocks the receipt.   *)
(***************************************************************************)
EXTENDS ContractAnswers, FiniteSets, ContractStorage

CONSTANTS Call,         \* the SDK calls made
          Signer,       \* accounts that sign them
          Wallet,       \* accounts that they name
          Weight,       \* weights of goods minted
          Amount,       \* weights to be split off
          Beginnings,   \* what the contract may be when the calls begin
          TimeBound,    \* setTimeout(30)
          MAX_ATTEMPTS, \* 30
          MaxClock      \* bound: the time observed, but for calls still polling

Account == Signer \cup Wallet \cup {None}

\* What a contract may be at any time.
ReceiptState ==
  [at : {"unissued", "live", "gone"}, owner : Account, custodian : Account, kg : Nat, locked : BOOLEAN]
ContractState ==
  [on : {"sesame", "maize"}, admin : Signer \cup {None}, custodians : SUBSET Account,
   receipt : ReceiptState]

\* The transaction's time bound is no longer than the polling.
ASSUME SubmitAssumption ==
  /\ None \notin Signer
  /\ Beginnings \subseteq ContractState
  /\ Weight \subseteq Nat /\ Amount \subseteq Nat
  /\ {TimeBound, MAX_ATTEMPTS, MaxClock} \subseteq Nat
  /\ TimeBound <= MAX_ATTEMPTS

VARIABLES clock,     \* the time
          sequence,  \* the ledger's sequence number of each account
          waiting,   \* transactions the network has queued
          results,   \* the transactions on the ledger with the contract's answer
          contract,  \* the contract
          call       \* where each call stands

vars == <<clock, sequence, waiting, results, contract, call>>
network == <<sequence, waiting, results, contract>>

\* What the contract answers to a transaction now.
Verdict(tx) == Answer(contract, tx)

----------------------------------------------------------------------------
(* A call *)

Idle == [at |-> "idle", tx |-> None, wake |-> 0, attempts |-> 0, queued |-> FALSE]

End(c, answer) == call' = [call EXCEPT ![c].at = answer]

\* Mutant: the time bound outlasts the polling.
Bounded_later(signer, fn, who, kg) ==
  [signer |-> signer, fn |-> fn, who |-> who, kg |-> kg,
   seq |-> sequence[signer] + 1, maxTime |-> clock + TimeBound + 1]

\* The transaction built from the account as the RPC server knows it.  It is
\* its content: two with the same content have one hash.
Bounded(signer, fn, who, kg) ==
  [signer |-> signer, fn |-> fn, who |-> who, kg |-> kg,
   seq |-> sequence[signer] + 1, maxTime |-> clock + TimeBound]

\* getAccount has answered and the transaction is built.
Build(c, signer, fn, who, kg) ==
  /\ call[c] = Idle
  /\ call' = [call EXCEPT ![c].at = "simulates", ![c].tx = Bounded(signer, fn, who, kg)]
  /\ UNCHANGED <<clock, network>>

\* Mutant: the contract's errors are counted from 0.
CONTRACT_CODE_fromZero ==
  [TokenNotFoundError |-> 2, TokenLockedError |-> 3, InvalidWeightError |-> 5]

\* The numbers in the classes that name the contract's reason.
CONTRACT_CODE ==
  [TokenNotFoundError |-> 3, TokenLockedError |-> 4, InvalidWeightError |-> 6]

\* The class that splitToken throws for a number found in the error's text.
mapContractError(code) ==
  IF \E class \in DOMAIN CONTRACT_CODE : CONTRACT_CODE[class] = code
  THEN CHOOSE class \in DOMAIN CONTRACT_CODE : CONTRACT_CODE[class] = code
  ELSE "ContractInvocationError"

\* The HTTP status the API gives a contract error number.
resolveContractError(code) ==
  IF code \in 1..6 THEN <<409, 403, 404, 422, 400, 400>>[code] ELSE 500

\* What a call throws when its simulation meets a refusal.
Refused(fn, verdict) ==
  IF fn = "split" THEN mapContractError(Discriminant[verdict])
  ELSE "SIMULATION_FAILED"

\* The simulation runs against the contract's present state.
Simulate(c) ==
  LET verdict == Verdict(call[c].tx)
  IN  /\ call[c].at = "simulates"
      /\ End(c, IF verdict = "Ok" THEN "sends" ELSE Refused(call[c].tx.fn, verdict))
      /\ UNCHANGED <<clock, network>>

\* What the network says of a transaction it is sent.
Status(tx) ==
  IF tx \in waiting THEN "DUPLICATE"
  ELSE IF tx.seq # sequence[tx.signer] + 1 \/ tx.maxTime < clock THEN "ERROR"
  ELSE IF \E other \in waiting : other.signer = tx.signer THEN "TRY_AGAIN_LATER"
  ELSE "PENDING"

\* Anything but an ERROR is polled for, first after a second.  The answer may
\* get lost though the network has the transaction.
Send(c) ==
  LET status == Status(call[c].tx)
  IN  /\ call[c].at = "sends"
      /\ waiting' = IF status = "PENDING" THEN waiting \cup {call[c].tx} ELSE waiting
      /\ \E at \in {IF status = "ERROR" THEN "SUBMISSION_FAILED" ELSE "polls", "rejected"} :
           call' = [call EXCEPT ![c].at = at, ![c].wake = clock + 1,
                                ![c].queued = (status = "PENDING")]
      /\ UNCHANGED <<clock, sequence, results, contract>>

Polls(c) == call[c].at = "polls" /\ clock >= call[c].wake

\* Mutant: a transaction not found is taken for a failed one.
NotFound_fails(c) ==
  /\ Polls(c)
  /\ End(c, "TRANSACTION_FAILED")

\* Mutant: attempts are not counted.
NotFound_uncounted(c) ==
  /\ Polls(c)
  /\ call' = [call EXCEPT ![c].wake = clock + 1]

\* The transaction is not on the ledger, or not yet where the RPC server looks.
NotFound(c) ==
  /\ Polls(c)
  /\ call' = [call EXCEPT
                ![c].attempts = @ + 1, ![c].wake = clock + 1,
                ![c].at = IF call[c].attempts + 1 = MAX_ATTEMPTS THEN "CONFIRMATION_TIMEOUT"
                          ELSE "polls"]

\* Calls that read the ids of new receipts in the transaction's result.
Decoding == {"mint", "split"}

\* What a call makes of a transaction on the ledger.  The result may lack the
\* ids it should hold.
Outcomes(tx) ==
  IF results[tx] # "Ok" THEN {"TRANSACTION_FAILED"}
  ELSE IF tx.fn \in Decoding THEN {"ok", "MALFORMED_RESULT"}
  ELSE {"ok"}

Poll(c) ==
  /\ \/ NotFound(c)
     \/ /\ Polls(c) /\ call[c].tx \in DOMAIN results
        /\ \E answer \in Outcomes(call[c].tx) : End(c, answer)
  /\ UNCHANGED <<clock, network>>

\* A request to the RPC server fails, and with it the call.
Reject(c) ==
  /\ call[c].at \in {"idle", "simulates", "sends"} \/ Polls(c)
  /\ End(c, "rejected")
  /\ UNCHANGED <<clock, network>>

\* A call that has its transaction goes on.
Proceed(c) == call[c].tx # None /\ (Simulate(c) \/ Send(c) \/ Poll(c) \/ Reject(c))

\* A call to a function of the contract, from its beginning to its end.
Submits(c, fn, who, kg) ==
  \/ call[c] = Idle /\ (Reject(c) \/ \E a \in Signer : Build(c, a, fn, who, kg))
  \/ call[c].tx # None /\ call[c].tx.fn = fn /\ Proceed(c)

Sesame == contract.on = "sesame"
Maize == contract.on = "maize"

\* addCustodian and removeCustodian
invokes(c) ==
  \E who \in Wallet, fn \in {"add_custodian", "remove_custodian"} : Submits(c, fn, who, 0)
mints(c) == \E farmer \in Wallet, kg \in Weight : Submits(c, "mint", farmer, kg)

init(c) == Sesame /\ Submits(c, "init", None, 0)
invokeCustodian(c) == Sesame /\ invokes(c)
mint(c) == Sesame /\ mints(c)
burn(c) == Sesame /\ Submits(c, "burn", None, 0)
transfer(c) == Sesame /\ \E to \in Wallet : Submits(c, "transfer", to, 0)

maizeInit(c) == Maize /\ Submits(c, "init", None, 0)
maizeInvokeCustodian(c) == Maize /\ invokes(c)
maizeMint(c) == Maize /\ mints(c)

\* An amount that is not a positive u32 is refused before the network is asked.
splitToken(c, amountKg) ==
  /\ Maize
  /\ \/ /\ amountKg = 0 /\ call[c] = Idle
        /\ End(c, "InvalidAmountError")
        /\ UNCHANGED <<clock, network>>
     \/ amountKg > 0 /\ Submits(c, "split", None, amountKg)

----------------------------------------------------------------------------
(* The network *)

\* A ledger closes with a waiting transaction in it; the contract may refuse it.
Apply(tx) ==
  /\ tx.maxTime >= clock
  /\ results' = Put(results, tx, Verdict(tx))
  /\ contract' = IF Verdict(tx) = "Ok" THEN After(contract, tx) ELSE contract
  /\ sequence' = [sequence EXCEPT ![tx.signer] = @ + 1]
  /\ waiting' = waiting \ {tx}
  /\ UNCHANGED <<clock, call>>

\* The network forgets a transaction.
Drop(tx) ==
  /\ waiting' = waiting \ {tx}
  /\ UNCHANGED <<clock, sequence, results, contract, call>>

\* The administrator locks or unlocks the receipt.
Relock ==
  /\ MayRelock(contract)
  /\ contract' = Relocked(contract)
  /\ UNCHANGED <<clock, sequence, waiting, results, call>>

\* Bound: every poll of every call waits for one second at most.
Horizon == MaxClock + Cardinality(Call) * MAX_ATTEMPTS

Tick ==
  /\ clock < Horizon
  /\ clock < MaxClock \/ \E c \in Call : call[c].at = "polls" /\ clock < call[c].wake
  /\ clock' = clock + 1
  /\ UNCHANGED <<network, call>>

Init ==
  /\ clock = 0
  /\ sequence = [a \in Signer |-> 0]
  /\ waiting = {}
  /\ results = NoEntries
  /\ contract \in Beginnings
  /\ call = [c \in Call |-> Idle]

Next ==
  \/ \E c \in Call :
       \/ init(c) \/ invokeCustodian(c) \/ mint(c) \/ burn(c) \/ transfer(c)
       \/ maizeInit(c) \/ maizeInvokeCustodian(c) \/ maizeMint(c)
       \/ \E amountKg \in Amount \cup {0} : splitToken(c, amountKg)
  \/ \E tx \in waiting : Apply(tx) \/ Drop(tx)
  \/ Relock
  \/ Tick

Spec == Init /\ [][Next]_vars

\* Every request is answered or rejected, and time goes on.
FairSpec == Spec /\ WF_vars(Tick) /\ \A c \in Call : WF_vars(Proceed(c))

----------------------------------------------------------------------------
(* Properties *)

Rejected == DOMAIN CONTRACT_CODE \cup {"SIMULATION_FAILED", "TRANSACTION_FAILED", "ContractInvocationError"}
Failures == Rejected \cup {"SUBMISSION_FAILED"}
Successes == {"ok", "MALFORMED_RESULT"}
Ended == Failures \cup Successes \cup {"CONFIRMATION_TIMEOUT", "InvalidAmountError", "rejected"}
Succeeded(tx) == tx \in DOMAIN results /\ results[tx] = "Ok"

(***************************************************************************)
(* An answer is the truth, then and for ever: a call that returns, or that *)
(* cannot read the ids in the result, had its transaction applied, and one *)
(* that fails, unless for want of a confirmation or of the RPC server,     *)
(* never has it applied, except that another call had put in a transaction *)
(* with the very same content.                                             *)
(***************************************************************************)
AnswersTrue ==
  \A c \in Call :
    /\ call[c].at \in Successes => Succeeded(call[c].tx)
    /\ (call[c].at \in Failures /\ Succeeded(call[c].tx)) =>
         ~call[c].queued /\ \E d \in Call : call[d].tx = call[c].tx /\ call[d].queued

(***************************************************************************)
(* The simulation lets any number of calls through to initialize the       *)
(* contract, or to dissolve the receipt by burning or splitting it.  One   *)
(* transaction alone of either kind succeeds, whatever the order in which  *)
(* they reach the ledger: no two callers are told of a success each of     *)
(* their own, the one that initialized is the administrator for good, and  *)
(* the receipt dissolved is gone for good.                                 *)
(***************************************************************************)
Kinds == {{"init"}, {"burn", "split"}}
OneWinner ==
  \A c, d \in Call, kind \in Kinds :
    /\ call[c].at \in Successes /\ call[d].at \in Successes
    /\ {call[c].tx.fn, call[d].tx.fn} \subseteq kind
    => /\ call[c].tx = call[d].tx
       /\ IF call[c].tx.fn = "init" THEN contract.admin = call[c].tx.signer
          ELSE contract.receipt.at = "gone"

(***************************************************************************)
(* A transaction that passed the simulation can still be refused on the    *)
(* ledger, but not for anything: a custodian call never, since the         *)
(* administrator stays; a mint only for the registry; a burn or a split    *)
(* only because the receipt is gone, for good, or locked at the moment,    *)
(* not for its custodian, though removed meanwhile, nor for its weight; a  *)
(* transfer for these or because another was first; and never is a receipt *)
(* not found that might still be issued.                                   *)
(***************************************************************************)
MayStillRefuse ==
  [init |-> {"AlreadyInitialized"}, add_custodian |-> {}, remove_custodian |-> {},
   mint |-> {"Unauthorized"}, burn |-> {"TokenNotFound", "TokenLocked"},
   split |-> {"TokenNotFound", "TokenLocked"},
   transfer |-> {"TokenNotFound", "TokenLocked", "Unauthorized"}]
RefusedForCause ==
  \A tx \in DOMAIN results :
    /\ results[tx] \in MayStillRefuse[tx.fn] \cup {"Ok"}
    /\ results[tx] = "TokenNotFound" => contract.receipt.at = "gone"

\* A call threw the class, or the API's table would give its number the status.
Told(c, class, status) ==
  \/ call[c].at = class
  \/ call[c].at \in DOMAIN CONTRACT_CODE /\ resolveContractError(CONTRACT_CODE[call[c].at]) = status

(***************************************************************************)
(* What the caller of splitToken may conclude from the class of a refusal  *)
(* or from its HTTP status, however old the refusal is: not found (404):   *)
(* the receipt can be split only if it has been minted since, it does not  *)
(* come back; locked (422): the id is one that was issued; invalid weight  *)
(* (400): this receipt will never be split by that amount.  Only a lock    *)
(* and an id not yet issued are reasons to try again.                      *)
(***************************************************************************)
ClassesTell ==
  \A c \in Call :
    /\ Told(c, "TokenNotFoundError", 404) /\ Live(contract) =>
         \E tx \in DOMAIN results : tx.fn = "mint" /\ results[tx] = "Ok"
    /\ Told(c, "TokenLockedError", 422) => contract.receipt.at # "unissued"
    /\ Told(c, "InvalidWeightError", 400) =>
         contract.receipt.at # "unissued" /\ Verdict(call[c].tx) # "Ok"

(***************************************************************************)
(* A call that could not confirm does not leave a transaction that may     *)
(* surface any time later: after CONFIRMATION_TIMEOUT it is applied within *)
(* the second of the last poll or not at all.                              *)
(***************************************************************************)
LateApplied(c) ==
  call[c].at = "CONFIRMATION_TIMEOUT" /\ call[c].tx \in DOMAIN results' \ DOMAIN results
LateOnlyInLastSecond ==
  [][\A c \in Call : LateApplied(c) => clock = call[c].wake - 1]_vars

(***************************************************************************)
(* Whatever the network does with its transaction, and however the RPC     *)
(* server lags, a call comes to an end.                                    *)
(***************************************************************************)
CallsEnd == \A c \in Call : (call[c].tx # None) ~> (call[c].at \in Ended)
=============================================================================

---------------------- MODULE SubmitTransactionProofs -----------------------
(***************************************************************************)
(* Theorems about the SDK's calls, for any number of them, any accounts    *)
(* and any time bound that does not outlast the polling: what a call       *)
(* answers is the truth and stays it, a transaction that could not be      *)
(* confirmed does not surface any time later, and what the contract let    *)
(* pass or refused holds of it as far as it may, however it is locked,     *)
(* minted and dissolved by others.                                         *)
(***************************************************************************)
EXTENDS SubmitTransaction, TLAPS

----------------------------------------------------------------------------
(* The inductive invariant *)

\* The contracts' functions that the SDK calls.
Entry == {"init", "add_custodian", "remove_custodian", "mint", "transfer", "burn", "split"}

Tx == [signer : Signer, fn : Entry, who : Account, kg : Nat, seq : Nat, maxTime : Nat]

Places == {"idle", "simulates", "sends", "polls"} \cup Ended

CallState == [at : Places, tx : Tx \cup {None}, wake : Nat, attempts : Nat, queued : BOOLEAN]

NetworkTyped ==
  /\ clock \in Nat
  /\ sequence \in [Signer -> Nat]
  /\ waiting \subseteq Tx
  /\ DOMAIN results \subseteq Tx
  /\ call \in [Call -> CallState]

\* What waits is its account's only one and the next to be applied; what is on
\* the ledger has been passed.  Hence nothing is applied twice.
InSequence ==
  /\ \A tx \in DOMAIN results : tx.seq <= sequence[tx.signer]
  /\ \A tx \in waiting : tx.seq = sequence[tx.signer] + 1
  /\ \A tx, other \in waiting : tx.signer = other.signer => tx = other

\* The network has no transaction that no call has put in.
PutIn == \A tx \in waiting \cup DOMAIN results :
           \E d \in Call : call[d].tx = tx /\ call[d].queued = TRUE

\* A call keeps its time: before it sends, while it polls, and when it gives up.
Timed(q) ==
  /\ q.at \in {"simulates", "sends"} =>
       q.tx \in Tx /\ q.attempts = 0 /\ q.tx.maxTime <= clock + TimeBound
  /\ q.at \in {"polls", "CONFIRMATION_TIMEOUT"} =>
       /\ q.tx \in Tx /\ q.wake <= clock + 1
       /\ q.tx.maxTime + q.attempts + 1 <= q.wake + TimeBound
  /\ q.at = "CONFIRMATION_TIMEOUT" => q.attempts = MAX_ATTEMPTS

\* A call's answer is true and it has put in what it says.
Truthful(q) ==
  /\ q.at \in {"idle", "simulates", "sends"} => q.queued = FALSE
  /\ q.at \in Successes => Succeeded(q.tx)
  /\ q.at \in Failures => \/ q.queued = FALSE
                          \/ q.tx \in DOMAIN results /\ results[q.tx] # "Ok"

IInv ==
  /\ NetworkTyped /\ InSequence /\ PutIn
  /\ \A c \in Call : Timed(call[c]) /\ Truthful(call[c])

----------------------------------------------------------------------------
(* What lasts *)

\* The ledger grows and never changes the outcome of a transaction.
Grows == \A tx \in DOMAIN results : tx \in DOMAIN results' /\ results'[tx] = results[tx]

\* What the clock has passed stays passed.
LEMMA TimedLater ==
  ASSUME NEW q \in CallState, Timed(q), clock \in Nat, clock' \in Nat, clock <= clock'
  PROVE  Timed(q)'
<1>1. q.wake \in Nat /\ TimeBound \in Nat /\ (q.tx \in Tx => q.tx.maxTime \in Nat)
  BY SubmitAssumption DEF CallState, Tx
<1> QED
  BY <1>1 DEF Timed

\* What was true of an answer stays true while the ledger grows.
LEMMA TruthfulLater ==
  ASSUME NEW q \in CallState, Truthful(q), Grows
  PROVE  Truthful(q)'
<1>1. Succeeded(q.tx) => Succeeded(q.tx)'
  BY DEF Grows, Succeeded
<1>2. (q.tx \in DOMAIN results /\ results[q.tx] # "Ok")
        => (q.tx \in DOMAIN results' /\ results'[q.tx] # "Ok")
  BY DEF Grows
<1> QED
  BY <1>1, <1>2 DEF Truthful

(***************************************************************************)
(* A call moves: it keeps its time and its truth, does not take back what  *)
(* it put in, and may put in a transaction that is its account's next.     *)
(***************************************************************************)
LEMMA CallMoves ==
  ASSUME IInv, NEW c \in Call, NEW q \in CallState,
         call' = [call EXCEPT ![c] = q], UNCHANGED <<clock, sequence, results>>,
         call[c].queued = TRUE => q.queued = TRUE /\ q.tx = call[c].tx,
         \/ waiting' = waiting
         \/ /\ waiting' = waiting \cup {q.tx} /\ q.queued = TRUE
            /\ q.tx \in Tx /\ q.tx.seq = sequence[q.tx.signer] + 1
            /\ \A other \in waiting : other.signer # q.tx.signer,
         Timed(q), Truthful(q)
  PROVE  IInv'
<1>1. /\ NetworkTyped /\ InSequence /\ PutIn
      /\ \A d \in Call : Timed(call[d]) /\ Truthful(call[d])
  BY DEF IInv
<1>2. /\ call'[c] = q
      /\ \A d \in Call : d # c => call'[d] = call[d]
      /\ call' \in [Call -> CallState]
  BY <1>1 DEF NetworkTyped
<1>3. waiting' \subseteq Tx
  BY <1>1 DEF NetworkTyped
<1>4. NetworkTyped'
  BY <1>1, <1>2, <1>3 DEF NetworkTyped
<1>5. InSequence'
  BY <1>1 DEF InSequence
<1>6. PutIn'
  <2>1. ASSUME NEW tx \in waiting' \cup DOMAIN results'
        PROVE  \E d \in Call : call'[d].tx = tx /\ call'[d].queued = TRUE
    <3>1. CASE tx \in waiting \cup DOMAIN results
      <4>1. PICK d \in Call : call[d].tx = tx /\ call[d].queued = TRUE
        BY <1>1, <3>1 DEF PutIn
      <4>2. call'[d].tx = tx /\ call'[d].queued = TRUE
        BY <1>2, <4>1
      <4> QED
        BY <4>2
    <3>2. CASE tx = q.tx /\ q.queued = TRUE
      BY <1>2, <3>2
    <3> QED
      BY <3>1, <3>2
  <2> QED
    BY <2>1 DEF PutIn
<1>7. \A p \in CallState : (Timed(p) => Timed(p)') /\ (Truthful(p) => Truthful(p)')
  <2>1. clock \in Nat /\ clock' \in Nat /\ clock <= clock' /\ Grows
    BY <1>1 DEF NetworkTyped, Grows
  <2> QED
    BY <2>1, TimedLater, TruthfulLater
<1>8. ASSUME NEW d \in Call
      PROVE  (Timed(call[d]) /\ Truthful(call[d]))'
  <2>1. CASE d = c
    BY <1>2, <1>7, <2>1
  <2>2. CASE d # c
    <3>1. call[d] \in CallState
      BY <1>1 DEF NetworkTyped
    <3> QED
      BY <1>1, <1>2, <1>7, <2>2, <3>1
  <2> QED
    BY <2>1, <2>2
<1> QED
  BY <1>4, <1>5, <1>6, <1>8 DEF IInv

----------------------------------------------------------------------------
(* The steps of a call *)

\* A call whose place alone changes keeps the rest of what it is.
LEMMA Moving ==
  ASSUME IInv, NEW c \in Call, NEW at \in Places, End(c, at), UNCHANGED <<clock, network>>,
         \A q \in CallState :
           (/\ q.at = at /\ q.tx = call[c].tx /\ q.wake = call[c].wake
            /\ q.attempts = call[c].attempts /\ q.queued = call[c].queued)
             => Timed(q) /\ Truthful(q)
  PROVE  IInv'
<1> DEFINE q == [call[c] EXCEPT !.at = at]
<1>1. call \in [Call -> CallState] /\ call[c] \in CallState
  BY DEF IInv, NetworkTyped
<1>2. call' = [call EXCEPT ![c] = q]
  BY <1>1 DEF End
<1>3. /\ q \in CallState /\ q.at = at /\ q.tx = call[c].tx /\ q.wake = call[c].wake
      /\ q.attempts = call[c].attempts /\ q.queued = call[c].queued
  BY <1>1 DEF CallState
<1> HIDE DEF q
<1>4. UNCHANGED <<clock, sequence, results>> /\ waiting' = waiting
  BY DEF network
<1> QED
  BY <1>2, <1>3, <1>4, CallMoves

\* The failures, one by one.
LEMMA FailureSet ==
  Failures = {"TokenNotFoundError", "TokenLockedError", "InvalidWeightError", "SIMULATION_FAILED",
              "TRANSACTION_FAILED", "ContractInvocationError", "SUBMISSION_FAILED"}
  BY DEF Failures, Rejected, CONTRACT_CODE

\* A rejected promise ends a call without an answer to be true.
LEMMA RejectStep ==
  ASSUME IInv, NEW c \in Call, Reject(c)
  PROVE  IInv'
<1>1. "rejected" \in Places
  BY DEF Places, Ended, Successes
<1>2. \A q \in CallState : q.at = "rejected" => Timed(q) /\ Truthful(q)
  BY FailureSet DEF Timed, Truthful, Successes
<1> QED
  BY <1>1, <1>2, Moving DEF Reject

\* A wrong amount ends a call before anything is built.
LEMMA AmountStep ==
  ASSUME IInv, NEW c \in Call, End(c, "InvalidAmountError"), UNCHANGED <<clock, network>>
  PROVE  IInv'
<1>1. "InvalidAmountError" \in Places
  BY DEF Places, Ended, Successes
<1>2. \A q \in CallState : q.at = "InvalidAmountError" => Timed(q) /\ Truthful(q)
  BY FailureSet DEF Timed, Truthful, Successes
<1> QED
  BY <1>1, <1>2, Moving

\* A transaction is bounded from the second it is built.
LEMMA BuildStep ==
  ASSUME IInv, NEW c \in Call, NEW signer \in Signer, NEW fn \in Entry,
         NEW who \in Account, NEW kg \in Nat, Build(c, signer, fn, who, kg)
  PROVE  IInv'
<1> DEFINE tx == Bounded(signer, fn, who, kg)
           q == [call[c] EXCEPT !.at = "simulates", !.tx = tx]
<1>1. /\ clock \in Nat /\ sequence \in [Signer -> Nat]
      /\ call \in [Call -> CallState] /\ call[c] \in CallState
  BY DEF IInv, NetworkTyped
<1>2. tx \in Tx /\ tx.maxTime = clock + TimeBound
  BY <1>1, SubmitAssumption DEF Bounded, Tx
<1>3. call' = [call EXCEPT ![c].at = "simulates", ![c].tx = tx]
  BY DEF Build
<1> HIDE DEF tx
<1>4. call' = [call EXCEPT ![c] = q]
  BY <1>1, <1>3
<1>5. call[c].queued = FALSE /\ call[c].attempts = 0
  BY DEF Build, Idle
<1>6. "simulates" \in Places
  BY DEF Places
<1>7. /\ q \in CallState /\ q.at = "simulates" /\ q.tx = tx /\ q.attempts = 0 /\ q.queued = FALSE
  BY <1>1, <1>2, <1>5, <1>6 DEF CallState
<1> HIDE DEF q
<1>8. clock + TimeBound <= clock + TimeBound
  BY <1>1, SubmitAssumption
<1>9. Timed(q)
  BY <1>2, <1>7, <1>8 DEF Timed
<1>10. Truthful(q)
  BY <1>7, FailureSet DEF Truthful, Successes
<1>11. UNCHANGED <<clock, sequence, results>> /\ waiting' = waiting
  BY DEF Build, network
<1> QED
  BY <1>4, <1>5, <1>7, <1>9, <1>10, <1>11, CallMoves

\* What a call may throw when its simulation meets a refusal.
LEMMA Refusing ==
  ASSUME NEW fn, NEW verdict
  PROVE  Refused(fn, verdict) \in Rejected \ {"TRANSACTION_FAILED"}
<1>1. DOMAIN CONTRACT_CODE = {"TokenNotFoundError", "TokenLockedError", "InvalidWeightError"}
  BY DEF CONTRACT_CODE
<1>2. \A code : mapContractError(code) \in DOMAIN CONTRACT_CODE \cup {"ContractInvocationError"}
  BY DEF mapContractError
<1> QED
  BY <1>1, <1>2 DEF Refused, Rejected

\* A call that the contract's present state refuses ends without having put in.
LEMMA SimulateStep ==
  ASSUME IInv, NEW c \in Call, Simulate(c)
  PROVE  IInv'
<1> DEFINE tx == call[c].tx
           answer == IF Verdict(tx) = "Ok" THEN "sends" ELSE Refused(tx.fn, Verdict(tx))
<1>1. call[c].at = "simulates" /\ UNCHANGED <<clock, network>> /\ End(c, answer)
  BY DEF Simulate
<1>2. /\ call[c].queued = FALSE /\ tx \in Tx /\ call[c].attempts = 0
      /\ tx.maxTime <= clock + TimeBound
  BY <1>1 DEF IInv, Timed, Truthful
<1>3. answer \in Failures \cup {"sends"}
  BY Refusing DEF Failures
<1> HIDE DEF tx, answer
<1>4. \A q \in CallState :
        (/\ q.at = answer /\ q.tx = tx /\ q.attempts = 0 /\ q.queued = FALSE)
           => Timed(q) /\ Truthful(q)
  BY <1>2, <1>3, FailureSet DEF Timed, Truthful, Successes
<1>5. answer \in Places
  BY <1>3 DEF Places, Ended
<1> QED
  BY <1>1, <1>2, <1>4, <1>5, Moving DEF tx

\* A PENDING transaction is the next of its account, none of which waits.
LEMMA Pending ==
  ASSUME NEW tx, Status(tx) = "PENDING"
  PROVE  /\ tx.seq = sequence[tx.signer] + 1
         /\ \A other \in waiting : other.signer # tx.signer
  BY DEF Status

\* A transaction sent is polled for unless the network refused it.
LEMMA SendStep ==
  ASSUME IInv, NEW c \in Call, Send(c)
  PROVE  IInv'
<1> DEFINE tx == call[c].tx
           status == Status(tx)
           pending == status = "PENDING"
           now == clock + 1
<1>1. PICK at \in {IF status = "ERROR" THEN "SUBMISSION_FAILED" ELSE "polls", "rejected"} :
        call' = [call EXCEPT ![c].at = at, ![c].wake = clock + 1, ![c].queued = pending]
  BY DEF Send
<1>2. /\ call[c].at = "sends" /\ UNCHANGED <<clock, sequence, results>>
      /\ waiting' = IF pending THEN waiting \cup {tx} ELSE waiting
  BY DEF Send
<1>3. /\ call[c].queued = FALSE /\ tx \in Tx /\ call[c].attempts = 0
      /\ tx.maxTime <= clock + TimeBound
  BY <1>2 DEF IInv, Timed, Truthful
<1>4. pending => /\ tx.seq = sequence[tx.signer] + 1
                 /\ \A other \in waiting : other.signer # tx.signer
  BY Pending
<1>5. /\ clock \in Nat /\ now \in Nat /\ TimeBound \in Nat /\ tx.maxTime \in Nat
      /\ call \in [Call -> CallState] /\ call[c] \in CallState
  BY <1>3, SubmitAssumption DEF IInv, NetworkTyped, Tx
<1>6. at \in {"SUBMISSION_FAILED", "polls", "rejected"} /\ (at = "SUBMISSION_FAILED" => ~pending)
  BY <1>1
<1>7. tx.maxTime + 0 + 1 <= now + TimeBound /\ now <= clock + 1
  BY <1>3, <1>5
<1>8. at \in Places /\ pending \in BOOLEAN
  BY <1>6 DEF Places, Ended, Failures
<1> DEFINE q == [call[c] EXCEPT !.at = at, !.wake = now, !.queued = pending]
<1> HIDE DEF tx, status, pending, now
<1>9. call' = [call EXCEPT ![c] = q]
  BY <1>1, <1>5 DEF now
<1>10. /\ q \in CallState /\ q.at = at /\ q.tx = tx /\ q.wake = now
       /\ q.attempts = 0 /\ q.queued = pending
  BY <1>3, <1>5, <1>8 DEF CallState, tx
<1> HIDE DEF q
<1>11. Timed(q)
  BY <1>3, <1>6, <1>7, <1>10 DEF Timed
<1>12. Truthful(q)
  BY <1>6, <1>8, <1>10, FailureSet DEF Truthful, Successes
<1>13. \/ waiting' = waiting
       \/ /\ waiting' = waiting \cup {q.tx} /\ q.queued = TRUE
          /\ q.tx \in Tx /\ q.tx.seq = sequence[q.tx.signer] + 1
          /\ \A other \in waiting : other.signer # q.tx.signer
  <2>1. CASE pending
    <3>1. waiting' = waiting \cup {tx} /\ q.queued = TRUE
      BY <1>2, <1>10, <2>1
    <3> QED
      BY <1>3, <1>4, <1>10, <2>1, <3>1, Zenon
  <2>2. CASE ~pending
    BY <1>2, <2>2
  <2> QED
    BY <2>1, <2>2
<1> QED
  BY <1>2, <1>3, <1>9, <1>10, <1>11, <1>12, <1>13, CallMoves

\* A poll that finds nothing waits a second more, or gives up.
LEMMA NotFoundStep ==
  ASSUME IInv, NEW c \in Call, NotFound(c), UNCHANGED <<clock, network>>
  PROVE  IInv'
<1> DEFINE tx == call[c].tx
           attempts == call[c].attempts + 1
           at == IF attempts = MAX_ATTEMPTS THEN "CONFIRMATION_TIMEOUT" ELSE "polls"
           now == clock + 1
           q == [call[c] EXCEPT !.attempts = attempts, !.wake = now, !.at = at]
<1>1. /\ clock \in Nat /\ now \in Nat /\ TimeBound \in Nat
      /\ call \in [Call -> CallState] /\ call[c] \in CallState
  BY SubmitAssumption DEF IInv, NetworkTyped
<1>2. call[c].at = "polls" /\ clock >= call[c].wake
  BY DEF NotFound, Polls
<1>3. /\ tx \in Tx /\ tx.maxTime + call[c].attempts + 1 <= call[c].wake + TimeBound
      /\ call[c].wake \in Nat /\ call[c].attempts \in Nat
  BY <1>1, <1>2 DEF IInv, Timed, CallState
<1>4. attempts \in Nat /\ tx.maxTime + attempts + 1 <= now + TimeBound /\ now <= clock + 1
  <2>1. tx.maxTime \in Nat
    BY <1>3 DEF Tx
  <2> QED
    BY <1>1, <1>2, <1>3, <2>1
<1>5. call' = [call EXCEPT ![c].attempts = @ + 1, ![c].wake = now, ![c].at = at]
  BY DEF NotFound
<1>6. call' = [call EXCEPT ![c] = q]
  <2> HIDE DEF now, at
  <2> QED
    BY <1>1, <1>5
<1>7. /\ at \in {"CONFIRMATION_TIMEOUT", "polls"} /\ at \in Places
      /\ at = "CONFIRMATION_TIMEOUT" => attempts = MAX_ATTEMPTS
  BY DEF Places, Ended, Successes
<1> HIDE DEF at, now, attempts, tx
<1>8. /\ q \in CallState /\ q.at = at /\ q.tx = tx /\ q.wake = now
      /\ q.attempts = attempts /\ q.queued = call[c].queued
  BY <1>1, <1>4, <1>7 DEF CallState, tx
<1> HIDE DEF q
<1>9. Timed(q)
  BY <1>3, <1>4, <1>7, <1>8 DEF Timed
<1>10. Truthful(q)
  BY <1>7, <1>8, FailureSet DEF Truthful, Successes
<1>11. UNCHANGED <<clock, sequence, results>> /\ waiting' = waiting
  BY DEF network
<1> QED
  BY <1>6, <1>8, <1>9, <1>10, <1>11, CallMoves DEF tx

\* A poll answers with what was applied.
LEMMA PollStep ==
  ASSUME IInv, NEW c \in Call, Poll(c)
  PROVE  IInv'
<1> DEFINE tx == call[c].tx
<1>1. UNCHANGED <<clock, network>>
  BY DEF Poll
<1>2. CASE NotFound(c)
  BY <1>1, <1>2, NotFoundStep
<1>3. ASSUME Polls(c), tx \in DOMAIN results,
             NEW answer \in Outcomes(tx), End(c, answer)
      PROVE  IInv'
  <2>1. CASE results[tx] = "Ok"
    <3>1. answer \in {"ok", "MALFORMED_RESULT"}
      BY <1>3, <2>1 DEF Outcomes
    <3>2. Succeeded(tx)
      BY <1>3, <2>1 DEF Succeeded
    <3> HIDE DEF tx
    <3>3. \A q \in CallState :
            (q.at = answer /\ q.tx = tx) => Timed(q) /\ Truthful(q)
      BY <3>1, <3>2, FailureSet DEF Timed, Truthful, Successes
    <3>4. answer \in Places
      BY <3>1 DEF Places, Ended, Successes
    <3> QED
      BY <1>1, <1>3, <3>3, <3>4, Moving DEF tx
  <2>2. CASE results[tx] # "Ok"
    <3>1. answer = "TRANSACTION_FAILED"
      BY <1>3, <2>2 DEF Outcomes
    <3> HIDE DEF tx
    <3>2. \A q \in CallState :
            (q.at = answer /\ q.tx = tx) => Timed(q) /\ Truthful(q)
      BY <1>3, <2>2, <3>1, FailureSet DEF Timed, Truthful, Successes
    <3>3. answer \in Places
      BY <3>1 DEF Places, Ended, Failures, Rejected
    <3> QED
      BY <1>1, <1>3, <3>2, <3>3, Moving DEF tx
  <2> QED
    BY <2>1, <2>2
<1> QED
  BY <1>2, <1>3 DEF Poll

----------------------------------------------------------------------------
(* The steps of the network, and time *)

(***************************************************************************)
(* A transaction is applied, refused or not: it is new to the ledger and   *)
(* the next of its account.                                                *)
(***************************************************************************)
LEMMA ApplyStep ==
  ASSUME IInv, NEW tx \in waiting, Apply(tx)
  PROVE  IInv'
<1> DEFINE outcome == Verdict(tx)
<1>1. /\ NetworkTyped /\ InSequence /\ PutIn
      /\ \A d \in Call : Timed(call[d]) /\ Truthful(call[d])
  BY DEF IInv
<1>2. /\ results' = Put(results, tx, outcome) /\ waiting' = waiting \ {tx}
      /\ sequence' = [sequence EXCEPT ![tx.signer] = sequence[tx.signer] + 1]
      /\ UNCHANGED <<clock, call>>
  BY DEF Apply
<1>3. /\ tx \in Tx /\ tx.signer \in Signer /\ tx.seq \in Nat
      /\ sequence[tx.signer] \in Nat /\ tx.seq = sequence[tx.signer] + 1
  BY <1>1 DEF NetworkTyped, InSequence, Tx
<1>4. tx \notin DOMAIN results
  BY <1>1, <1>3 DEF InSequence
<1> HIDE DEF outcome
<1>5. /\ DOMAIN results' = DOMAIN results \cup {tx} /\ results'[tx] = outcome
      /\ \A other \in DOMAIN results : results'[other] = results[other]
  BY <1>2, <1>4 DEF Put
<1>6. Grows
  BY <1>5 DEF Grows
<1>7. NetworkTyped'
  BY <1>1, <1>2, <1>3, <1>5 DEF NetworkTyped
<1>8. InSequence'
  <2>1. /\ sequence'[tx.signer] = sequence[tx.signer] + 1
        /\ \A a \in Signer : a # tx.signer => sequence'[a] = sequence[a]
    BY <1>1, <1>2, <1>3 DEF NetworkTyped
  <2>2. ASSUME NEW other \in DOMAIN results'
        PROVE  other.seq <= sequence'[other.signer]
    <3>1. CASE other = tx
      BY <1>3, <2>1, <3>1
    <3>2. CASE other \in DOMAIN results
      <4>1. /\ other.signer \in Signer /\ other.seq \in Nat /\ sequence[other.signer] \in Nat
            /\ other.seq <= sequence[other.signer]
        BY <1>1, <3>2 DEF NetworkTyped, InSequence, Tx
      <4>2. CASE other.signer = tx.signer
        BY <2>1, <4>1, <4>2
      <4>3. CASE other.signer # tx.signer
        BY <2>1, <4>1, <4>3
      <4> QED
        BY <4>2, <4>3
    <3> QED
      BY <1>5, <3>1, <3>2
  <2>3. ASSUME NEW other \in waiting'
        PROVE  other.seq = sequence'[other.signer] + 1
    <3>1. other \in waiting /\ other # tx /\ other.signer \in Signer
      BY <1>1, <1>2 DEF NetworkTyped, Tx
    <3>2. other.signer # tx.signer
      BY <1>1, <3>1 DEF InSequence
    <3> QED
      BY <1>1, <2>1, <3>1, <3>2 DEF InSequence
  <2>4. \A one, other \in waiting' : one.signer = other.signer => one = other
    BY <1>1, <1>2 DEF InSequence
  <2> QED
    BY <2>2, <2>3, <2>4 DEF InSequence
<1>9. PutIn'
  BY <1>1, <1>2, <1>5 DEF PutIn
<1>10. ASSUME NEW d \in Call
       PROVE  (Timed(call[d]) /\ Truthful(call[d]))'
  <2>1. /\ call[d] \in CallState /\ call'[d] = call[d]
        /\ clock \in Nat /\ clock' \in Nat /\ clock <= clock'
    BY <1>1, <1>2 DEF NetworkTyped
  <2>2. \A q \in CallState : (Timed(q) => Timed(q)') /\ (Truthful(q) => Truthful(q)')
    BY <1>6, <2>1, TimedLater, TruthfulLater
  <2> QED
    BY <1>1, <2>1, <2>2
<1> QED
  BY <1>7, <1>8, <1>9, <1>10 DEF IInv

\* The network forgets, time passes, or nothing happens.
LEMMA QuietStep ==
  ASSUME IInv, waiting' \subseteq waiting, UNCHANGED <<sequence, results, call>>,
         clock' \in Nat, clock <= clock'
  PROVE  IInv'
<1>1. /\ NetworkTyped /\ InSequence /\ PutIn
      /\ \A d \in Call : Timed(call[d]) /\ Truthful(call[d])
  BY DEF IInv
<1>2. NetworkTyped'
  BY <1>1 DEF NetworkTyped
<1>3. InSequence'
  BY <1>1 DEF InSequence
<1>4. PutIn'
  BY <1>1 DEF PutIn
<1>5. ASSUME NEW d \in Call
      PROVE  (Timed(call[d]) /\ Truthful(call[d]))'
  <2>1. call[d] \in CallState /\ call'[d] = call[d] /\ clock \in Nat /\ Grows
    BY <1>1 DEF NetworkTyped, Grows
  <2>2. \A q \in CallState : (Timed(q) => Timed(q)') /\ (Truthful(q) => Truthful(q)')
    BY <2>1, TimedLater, TruthfulLater
  <2> QED
    BY <1>1, <2>1, <2>2
<1> QED
  BY <1>2, <1>3, <1>4, <1>5 DEF IInv

----------------------------------------------------------------------------
(* The theorems *)

\* What a call is, whichever of the SDK's functions it calls.
LEMMA SubmitsStep ==
  ASSUME IInv, NEW c \in Call, NEW fn \in Entry, NEW who \in Account, NEW kg \in Nat,
         Submits(c, fn, who, kg)
  PROVE  IInv'
<1>1. CASE Reject(c)
  BY <1>1, RejectStep
<1>2. CASE \E a \in Signer : Build(c, a, fn, who, kg)
  BY <1>2, BuildStep
<1>3. CASE Simulate(c) \/ Send(c) \/ Poll(c)
  BY <1>3, SimulateStep, SendStep, PollStep
<1> QED
  BY <1>1, <1>2, <1>3 DEF Submits, Proceed

\* Each of the SDK's functions calls one function of the contract.
LEMMA ConcernsOneEntry ==
  ASSUME NEW c \in Call,
         \/ init(c) \/ invokeCustodian(c) \/ mint(c) \/ burn(c) \/ transfer(c)
         \/ maizeInit(c) \/ maizeInvokeCustodian(c) \/ maizeMint(c)
  PROVE  \E fn \in Entry, who \in Account, kg \in Nat : Submits(c, fn, who, kg)
<1>1. /\ {"init", "add_custodian", "remove_custodian", "mint", "burn", "transfer"} \subseteq Entry
      /\ Wallet \subseteq Account /\ None \in Account /\ Weight \subseteq Nat /\ 0 \in Nat
  BY SubmitAssumption DEF Entry, Account
<1>2. CASE invokeCustodian(c) \/ maizeInvokeCustodian(c)
  BY <1>1, <1>2 DEF invokeCustodian, maizeInvokeCustodian, invokes
<1>3. CASE mint(c) \/ maizeMint(c)
  BY <1>1, <1>3 DEF mint, maizeMint, mints
<1>4. CASE init(c) \/ maizeInit(c) \/ burn(c) \/ transfer(c)
  BY <1>1, <1>4 DEF init, maizeInit, burn, transfer
<1> QED
  BY <1>2, <1>3, <1>4

(***************************************************************************)
(* Along every behaviour of the calls and the network, each call keeps its *)
(* time and its truth, and the network applies nothing twice.              *)
(***************************************************************************)
THEOREM Invariance == Spec => []IInv
<1>1. Init => IInv
  <2> SUFFICES ASSUME Init
               PROVE  IInv
    OBVIOUS
  <2>1. /\ \A c \in Call : call[c] = Idle
        /\ clock = 0 /\ sequence = [a \in Signer |-> 0] /\ waiting = {}
        /\ DOMAIN results = {} /\ call = [c \in Call |-> Idle]
    BY DEF Init, NoEntries
  <2>2. /\ Idle \in CallState /\ Idle.at = "idle" /\ Idle.queued = FALSE
    BY DEF Idle, CallState, Places
  <2> HIDE DEF Idle
  <2>3. Timed(Idle) /\ Truthful(Idle)
    BY <2>2, FailureSet DEF Timed, Truthful, Successes
  <2>4. NetworkTyped
    BY <2>1, <2>2 DEF NetworkTyped
  <2>5. InSequence /\ PutIn
    BY <2>1 DEF InSequence, PutIn
  <2> QED
    BY <2>1, <2>3, <2>4, <2>5 DEF IInv
<1>2. IInv /\ [Next]_vars => IInv'
  <2> SUFFICES ASSUME IInv, [Next]_vars
               PROVE  IInv'
    OBVIOUS
  <2>1. clock \in Nat
    BY DEF IInv, NetworkTyped
  <2>2. ASSUME NEW c \in Call, NEW fn \in Entry, NEW who \in Account, NEW kg \in Nat,
               Submits(c, fn, who, kg)
        PROVE  IInv'
    BY <2>2, SubmitsStep
  <2>3. ASSUME NEW c \in Call,
               \/ init(c) \/ invokeCustodian(c) \/ mint(c) \/ burn(c) \/ transfer(c)
               \/ maizeInit(c) \/ maizeInvokeCustodian(c) \/ maizeMint(c)
        PROVE  IInv'
    <3>1. \E fn \in Entry, who \in Account, kg \in Nat : Submits(c, fn, who, kg)
      BY <2>3, ConcernsOneEntry
    <3> QED
      BY <2>2, <3>1
  <2>4. ASSUME NEW c \in Call, NEW amountKg \in Amount \cup {0}, splitToken(c, amountKg)
        PROVE  IInv'
    <3>1. amountKg \in Nat /\ "split" \in Entry /\ None \in Account
      BY SubmitAssumption DEF Entry, Account
    <3> QED
      BY <2>2, <2>4, <3>1, AmountStep DEF splitToken
  <2>5. ASSUME NEW tx \in waiting, Apply(tx)
        PROVE  IInv'
    BY <2>5, ApplyStep
  <2>6. ASSUME NEW tx \in waiting, Drop(tx)
        PROVE  IInv'
    BY <2>1, <2>6, QuietStep DEF Drop
  <2>7. CASE Relock
    BY <2>1, <2>7, QuietStep DEF Relock
  <2>8. CASE Tick
    BY <2>1, <2>8, QuietStep DEF Tick, network
  <2>9. CASE UNCHANGED vars
    BY <2>1, <2>9, QuietStep DEF vars
  <2> QED
    BY <2>3, <2>4, <2>5, <2>6, <2>7, <2>8, <2>9 DEF Next
<1> QED
  BY <1>1, <1>2, PTL DEF Spec

(***************************************************************************)
(* What a call answers is the truth for ever: one that succeeds had its    *)
(* transaction applied, one that fails never has it applied unless another *)
(* call had put in the very same.                                          *)
(***************************************************************************)
THEOREM TrueAnswers == Spec => []AnswersTrue
<1>1. IInv => AnswersTrue
  <2> SUFFICES ASSUME IInv, NEW c \in Call
               PROVE  /\ call[c].at \in Successes => Succeeded(call[c].tx)
                      /\ (call[c].at \in Failures /\ Succeeded(call[c].tx)) =>
                           /\ ~call[c].queued
                           /\ \E d \in Call : call[d].tx = call[c].tx /\ call[d].queued
    BY DEF AnswersTrue
  <2>1. Truthful(call[c]) /\ PutIn
    BY DEF IInv
  <2>2. ASSUME call[c].at \in Failures, Succeeded(call[c].tx)
        PROVE  ~call[c].queued /\ \E d \in Call : call[d].tx = call[c].tx /\ call[d].queued
    <3>1. call[c].queued = FALSE
      BY <2>1, <2>2 DEF Truthful, Succeeded
    <3>2. PICK d \in Call : call[d].tx = call[c].tx /\ call[d].queued = TRUE
      BY <2>1, <2>2 DEF PutIn, Succeeded
    <3> QED
      BY <3>1, <3>2
  <2> QED
    BY <2>1, <2>2 DEF Truthful
<1> QED
  BY <1>1, Invariance, PTL

\* The arithmetic of it: whatever its time bound allows is over by the last poll.
LEMMA LastSecond ==
  ASSUME NEW now \in Nat, NEW maxTime \in Nat, NEW wake \in Nat,
         NEW bound \in Nat, NEW attempts \in Nat, bound <= attempts,
         maxTime >= now, wake <= now + 1, maxTime + attempts + 1 <= wake + bound
  PROVE  now = wake - 1
OBVIOUS

(***************************************************************************)
(* A transaction whose call gave up is applied within the second of the    *)
(* last poll or not at all, because the polling outlasts its time bound.   *)
(***************************************************************************)
THEOREM NothingSurfacesLate == Spec => LateOnlyInLastSecond
<1>1. ASSUME IInv, NEW c \in Call, NEW tx \in waiting, Apply(tx), LateApplied(c)
      PROVE  clock = call[c].wake - 1
  <2>1. /\ DOMAIN results' = DOMAIN results \cup {tx} /\ tx.maxTime >= clock
    BY <1>1 DEF Apply, Put
  <2>2. call[c].tx = tx /\ call[c].at = "CONFIRMATION_TIMEOUT"
    BY <1>1, <2>1 DEF LateApplied
  <2>3. /\ tx \in Tx /\ call[c].wake <= clock + 1
        /\ tx.maxTime + call[c].attempts + 1 <= call[c].wake + TimeBound
        /\ call[c].attempts = MAX_ATTEMPTS
    BY <1>1, <2>2 DEF IInv, Timed
  <2>4. /\ tx.maxTime \in Nat /\ clock \in Nat /\ call[c].wake \in Nat
        /\ TimeBound \in Nat /\ MAX_ATTEMPTS \in Nat /\ TimeBound <= MAX_ATTEMPTS
    BY <1>1, <2>3, SubmitAssumption DEF IInv, NetworkTyped, CallState, Tx
  <2>5. tx.maxTime + MAX_ATTEMPTS + 1 <= call[c].wake + TimeBound
    BY <2>3
  <2> QED
    BY <2>1, <2>3, <2>4, <2>5, LastSecond
<1>2. ASSUME Next, NEW c \in Call, LateApplied(c)
      PROVE  \E tx \in waiting : Apply(tx)
  <2>1. results' # results
    BY <1>2 DEF LateApplied
  <2>2. ASSUME NEW d \in Call, NEW fn, NEW who, NEW kg, Submits(d, fn, who, kg)
        PROVE  FALSE
    BY <2>1, <2>2 DEF Submits, Reject, Build, Proceed, Simulate, Send, Poll, network
  <2>3. \A d \in Call, amountKg \in Amount \cup {0} : ~splitToken(d, amountKg)
    BY <2>1, <2>2 DEF splitToken, network
  <2>4. ~Tick /\ ~Relock /\ \A tx \in waiting : ~Drop(tx)
    BY <2>1 DEF Tick, Relock, Drop, network
  <2> QED
    BY <1>2, <2>2, <2>3, <2>4, ConcernsOneEntry DEF Next
<1>3. ASSUME IInv, [Next]_vars
      PROVE  [\A c \in Call : LateApplied(c) => clock = call[c].wake - 1]_vars
  BY <1>1, <1>2, <1>3
<1> QED
  BY <1>3, Invariance, PTL DEF Spec, LateOnlyInLastSecond

----------------------------------------------------------------------------
(* What is known of the contract *)

(***************************************************************************)
(* What no step takes back: an administrator, that the receipt was issued, *)
(* its custodian and its weight while it lives, and that it is gone.       *)
(***************************************************************************)
Evolves(k, n) ==
  /\ k.admin # None => n.admin = k.admin
  /\ n.receipt.at = "unissued" => k.receipt.at = "unissued"
  /\ k.receipt.at = "gone" => n.receipt.at = "gone"
  /\ (Live(k) /\ Live(n)) =>
       n.receipt.custodian = k.receipt.custodian /\ n.receipt.kg = k.receipt.kg

\* What stays true of a transaction to which the contract once had no objection.
Passed(tx) ==
  /\ tx \in Tx
  /\ tx.fn \in {"add_custodian", "remove_custodian"} => contract.admin = tx.signer
  /\ tx.fn = "mint" => tx.kg # 0
  /\ tx.fn \in {"transfer", "burn", "split"} => contract.receipt.at # "unissued"
  /\ (tx.fn = "burn" /\ Live(contract)) => contract.receipt.custodian = tx.signer
  /\ (tx.fn = "split" /\ Live(contract)) => tx.kg # 0 /\ ~(tx.kg >= contract.receipt.kg)

\* What a transaction on the ledger, answered by a, did or could not do.
Settled(tx, a) ==
  /\ a \in MayStillRefuse[tx.fn] \cup {"Ok"}
  /\ a = "TokenNotFound" => contract.receipt.at = "gone"
  /\ (a = "Ok" /\ tx.fn = "init") => contract.admin = tx.signer
  /\ (a = "Ok" /\ tx.fn \in {"burn", "split"}) => contract.receipt.at = "gone"

\* No two transactions of a kind succeed.
Alone ==
  \A tx, other \in DOMAIN results, kind \in Kinds :
    /\ results[tx] = "Ok" /\ results[other] = "Ok"
    /\ {tx.fn, other.fn} \subseteq kind
    => tx = other

MintedSince == \E tx \in DOMAIN results : tx.fn = "mint" /\ results[tx] = "Ok"

\* What a call's place tells of the contract.
Telling(at, tx) ==
  /\ at = "sends" => Passed(tx)
  /\ at = "TokenNotFoundError" => (Live(contract) => MintedSince)
  /\ at = "TokenLockedError" => contract.receipt.at # "unissued"
  /\ at = "InvalidWeightError" =>
       /\ tx.fn = "split" /\ contract.receipt.at # "unissued"
       /\ Live(contract) => tx.kg = 0 \/ tx.kg >= contract.receipt.kg

CInv ==
  /\ contract \in ContractState
  /\ \A tx \in waiting : Passed(tx)
  /\ \A tx \in DOMAIN results : Settled(tx, results[tx])
  /\ Alone
  /\ \A c \in Call : Telling(call[c].at, call[c].tx)

\* A call to which contract k has no objection.
LEMMA AfterEvolves ==
  ASSUME NEW k \in ContractState, NEW tx \in Tx, Answer(k, tx) = "Ok"
  PROVE  /\ After(k, tx) \in ContractState
         /\ Evolves(k, After(k, tx))
         /\ tx.fn = "init" => k.admin = None /\ After(k, tx).admin = tx.signer
         /\ tx.fn \in {"burn", "split"} => Live(k) /\ After(k, tx).receipt.at = "gone"
         /\ (~Live(k) /\ Live(After(k, tx))) => tx.fn = "mint"
<1> USE DEF ContractState, Live, Evolves
<1>1. CASE tx.fn = "init"
  <2>1. After(k, tx) = [k EXCEPT !.admin = tx.signer] /\ k.admin = None
    BY <1>1 DEF After, Answer, initAnswer
  <2>2. tx.signer \in Signer
    BY DEF Tx
  <2> QED
    BY <1>1, <2>1, <2>2
<1>2. CASE tx.fn \in {"add_custodian", "remove_custodian"}
  <2>1. After(k, tx) \in {[k EXCEPT !.custodians = k.custodians \cup {tx.who}],
                          [k EXCEPT !.custodians = k.custodians \ {tx.who}]}
    BY <1>2 DEF After
  <2>2. tx.who \in Account
    BY DEF Tx
  <2> QED
    BY <1>2, <2>1, <2>2
<1>3. CASE tx.fn = "mint"
  <2> DEFINE r == Issued(tx.who, tx.signer, tx.kg)
  <2>1. After(k, tx) = IF k.receipt.at = "unissued" THEN [k EXCEPT !.receipt = r] ELSE k
    BY <1>3 DEF After, Minted
  <2>2. tx.who \in Account /\ tx.signer \in Account /\ tx.kg \in Nat
    BY DEF Tx, Account
  <2>3. r \in ReceiptState /\ r.at = "live"
    BY <2>2 DEF Issued, ReceiptState
  <2> HIDE DEF r
  <2> QED
    BY <1>3, <2>1, <2>3
<1>4. CASE tx.fn = "transfer"
  <2>1. After(k, tx) = [k EXCEPT !.receipt.owner = tx.who] /\ Live(k)
    BY <1>4 DEF After, Answer, transferAnswer
  <2>2. tx.who \in Account
    BY DEF Tx
  <2> QED
    BY <1>4, <2>1, <2>2 DEF ReceiptState
<1>5. CASE tx.fn \in {"burn", "split"}
  <2>1. After(k, tx) = [k EXCEPT !.receipt = Retired] /\ Live(k)
    BY <1>5 DEF After, Dissolved, Answer, burnAnswer, splitAnswer
  <2>2. None \in Account
    BY DEF Account
  <2>3. Retired \in ReceiptState /\ Retired.at = "gone"
    BY <2>2 DEF Retired, Unissued, ReceiptState
  <2> QED
    BY <1>5, <2>1, <2>3
<1> QED
  BY <1>1, <1>2, <1>3, <1>4, <1>5 DEF Tx, Entry

\* To be locked or unlocked changes nothing of that.
LEMMA RelockEvolves ==
  ASSUME NEW k \in ContractState, MayRelock(k)
  PROVE  /\ Relocked(k) \in ContractState
         /\ Evolves(k, Relocked(k))
         /\ Live(k)
  BY DEF Relocked, MayRelock, ContractState, ReceiptState, Live, Evolves

(***************************************************************************)
(* What was known stays known while the contract evolves and the ledger    *)
(* grows, where a receipt comes to life by a mint alone.                   *)
(***************************************************************************)
LEMMA KnownStays ==
  ASSUME Evolves(contract, contract'), Grows,
         contract \in ContractState, contract' \in ContractState,
         (~Live(contract) /\ Live(contract')) => MintedSince'
  PROVE  /\ \A tx : Passed(tx) => Passed(tx)'
         /\ \A tx \in Tx : \A a : Settled(tx, a) => Settled(tx, a)'
         /\ \A at, tx : Telling(at, tx) => Telling(at, tx)'
<1>1. MintedSince => MintedSince'
  BY DEF MintedSince, Grows
<1>2. contract.receipt.at \in {"unissued", "live", "gone"}
  BY DEF ContractState, ReceiptState
<1>3. ASSUME NEW tx, Passed(tx)
      PROVE  Passed(tx)'
  <2>1. tx.signer # None
    BY <1>3, SubmitAssumption DEF Passed, Tx
  <2> QED
    BY <1>2, <1>3, <2>1 DEF Passed, Evolves, Live
<1>4. ASSUME NEW tx \in Tx, NEW a, Settled(tx, a)
      PROVE  Settled(tx, a)'
  <2>1. tx.signer # None
    BY SubmitAssumption DEF Tx
  <2> QED
    BY <1>4, <2>1 DEF Settled, Evolves
<1>5. ASSUME NEW at, NEW tx, Telling(at, tx)
      PROVE  Telling(at, tx)'
  BY <1>1, <1>2, <1>3, <1>5 DEF Telling, Evolves, Live
<1> QED
  BY <1>3, <1>4, <1>5

(***************************************************************************)
(* A step of a call leaves ledger and contract alone, may hand over a      *)
(* transaction that passed, and ends where it tells what is so.            *)
(***************************************************************************)
LEMMA CallTells ==
  ASSUME CInv, NEW c \in Call, UNCHANGED <<results, contract>>,
         \A tx \in waiting' : tx \in waiting \/ Passed(tx),
         \A d \in Call : d # c => call'[d] = call[d],
         Telling(call'[c].at, call'[c].tx)
  PROVE  CInv'
<1>1. Grows /\ Evolves(contract, contract') /\ contract \in ContractState /\ contract' \in ContractState
  BY DEF CInv, Grows, Evolves
<1>2. \A tx : Passed(tx) => Passed(tx)'
  BY <1>1, KnownStays
<1>3. \A tx, a : Settled(tx, a)' <=> Settled(tx, a)
  BY DEF Settled
<1>4. \A tx \in waiting' : Passed(tx)'
  BY <1>2 DEF CInv
<1>5. \A tx \in DOMAIN results' : Settled(tx, results[tx])'
  BY <1>3 DEF CInv
<1>6. Alone'
  BY DEF CInv, Alone
<1>7. ASSUME NEW d \in Call
      PROVE  Telling(call[d].at, call[d].tx)'
  <2>1. Telling(call'[d].at, call'[d].tx)
    BY DEF CInv
  <2> QED
    BY <2>1 DEF Telling, Passed, MintedSince
<1> QED
  BY <1>1, <1>4, <1>5, <1>6, <1>7 DEF CInv

\* Most places tell nothing of the contract.
LEMMA TellsNothing ==
  ASSUME NEW at, NEW tx,
         at \notin {"sends", "TokenNotFoundError", "TokenLockedError", "InvalidWeightError"}
  PROVE  Telling(at, tx)
  BY DEF Telling

(***************************************************************************)
(* What the simulation lets pass the contract had no objection to, and the *)
(* class that splitToken throws is that of the contract's objection.       *)
(***************************************************************************)
LEMMA PassesSimulation ==
  ASSUME CInv, NEW tx \in Tx, Verdict(tx) = "Ok"
  PROVE  Passed(tx)
<1>1. contract.receipt.kg \in Nat /\ tx.kg \in Nat
  BY DEF CInv, ContractState, ReceiptState, Tx
<1>2. CASE tx.fn \in {"init", "add_custodian", "remove_custodian", "mint"}
  BY <1>2 DEF Verdict, Answer, custodianAnswer, mintAnswer, Passed
<1>3. CASE tx.fn \in {"transfer", "burn"}
  BY <1>3 DEF Verdict, Answer, transferAnswer, burnAnswer, Passed, Live
<1>4. CASE tx.fn = "split"
  BY <1>1, <1>4 DEF Verdict, Answer, splitAnswer, Passed, Live
<1> QED
  BY <1>2, <1>3, <1>4 DEF Tx, Entry

\* The numbers and the classes agree.
LEMMA Classes ==
  /\ mapContractError(Discriminant["TokenNotFound"]) = "TokenNotFoundError"
  /\ mapContractError(Discriminant["TokenLocked"]) = "TokenLockedError"
  /\ mapContractError(Discriminant["InvalidWeight"]) = "InvalidWeightError"
<1>1. /\ Discriminant["TokenNotFound"] = 3
      /\ Discriminant["TokenLocked"] = 4
      /\ Discriminant["InvalidWeight"] = 6
  BY DEF Discriminant
<1>2. DOMAIN CONTRACT_CODE = {"TokenNotFoundError", "TokenLockedError", "InvalidWeightError"}
  BY DEF CONTRACT_CODE
<1>3. /\ CONTRACT_CODE["TokenNotFoundError"] = 3
      /\ CONTRACT_CODE["TokenLockedError"] = 4
      /\ CONTRACT_CODE["InvalidWeightError"] = 6
  BY DEF CONTRACT_CODE
<1>4. \A class \in DOMAIN CONTRACT_CODE :
        /\ CONTRACT_CODE[class] = 3 <=> class = "TokenNotFoundError"
        /\ CONTRACT_CODE[class] = 4 <=> class = "TokenLockedError"
        /\ CONTRACT_CODE[class] = 6 <=> class = "InvalidWeightError"
  BY <1>2, <1>3
<1>5. ASSUME NEW code, NEW name \in DOMAIN CONTRACT_CODE,
             \A class \in DOMAIN CONTRACT_CODE : CONTRACT_CODE[class] = code <=> class = name
      PROVE  mapContractError(code) = name
  BY <1>5 DEF mapContractError
<1>6. /\ "TokenNotFoundError" \in DOMAIN CONTRACT_CODE
      /\ "TokenLockedError" \in DOMAIN CONTRACT_CODE
      /\ "InvalidWeightError" \in DOMAIN CONTRACT_CODE
  BY <1>2
<1>7. mapContractError(3) = "TokenNotFoundError"
  BY <1>4, <1>5, <1>6
<1>8. mapContractError(4) = "TokenLockedError"
  BY <1>4, <1>5, <1>6
<1>9. mapContractError(6) = "InvalidWeightError"
  BY <1>4, <1>5, <1>6
<1> QED
  BY <1>1, <1>7, <1>8, <1>9, Zenon

LEMMA RefusalTells ==
  ASSUME CInv, NEW tx \in Tx, Verdict(tx) # "Ok"
  PROVE  Telling(Refused(tx.fn, Verdict(tx)), tx)
<1>1. CASE tx.fn = "split"
  <2>1. Verdict(tx) = splitAnswer(contract, tx.kg)
    BY <1>1 DEF Verdict, Answer
  <2>2. \/ Verdict(tx) = "TokenNotFound" /\ ~Live(contract)
        \/ Verdict(tx) = "TokenLocked" /\ Live(contract)
        \/ /\ Verdict(tx) = "InvalidWeight" /\ Live(contract)
           /\ tx.kg = 0 \/ tx.kg >= contract.receipt.kg
    BY <2>1 DEF splitAnswer
  <2>3. Live(contract) => contract.receipt.at # "unissued"
    BY DEF Live
  <2>4. CASE Verdict(tx) = "TokenNotFound" /\ ~Live(contract)
    <3>1. Refused(tx.fn, Verdict(tx)) = "TokenNotFoundError"
      BY <1>1, <2>4, Classes, Zenon DEF Refused
    <3> QED
      BY <2>4, <3>1 DEF Telling
  <2>5. CASE Verdict(tx) = "TokenLocked" /\ Live(contract)
    <3>1. Refused(tx.fn, Verdict(tx)) = "TokenLockedError"
      BY <1>1, <2>5, Classes, Zenon DEF Refused
    <3> QED
      BY <2>3, <2>5, <3>1 DEF Telling
  <2>6. CASE /\ Verdict(tx) = "InvalidWeight" /\ Live(contract)
             /\ tx.kg = 0 \/ tx.kg >= contract.receipt.kg
    <3>1. Refused(tx.fn, Verdict(tx)) = "InvalidWeightError"
      BY <1>1, <2>6, Classes, Zenon DEF Refused
    <3> QED
      BY <1>1, <2>3, <2>6, <3>1 DEF Telling
  <2> QED
    BY <2>2, <2>4, <2>5, <2>6
<1>2. CASE tx.fn # "split"
  BY <1>2 DEF Refused, Telling
<1> QED
  BY <1>1, <1>2

\* The steps of a call.
LEMMA CallStep ==
  ASSUME IInv, CInv, NEW c \in Call,
         \/ Reject(c) \/ Simulate(c) \/ Send(c) \/ Poll(c)
         \/ \E signer, fn, who, kg : Build(c, signer, fn, who, kg)
         \/ End(c, "InvalidAmountError") /\ UNCHANGED <<clock, network>>
  PROVE  CInv'
<1>1. call \in [Call -> CallState]
  BY DEF IInv, NetworkTyped
<1>2. /\ UNCHANGED <<results, contract>>
      /\ \A d \in Call : d # c => call'[d] = call[d]
  BY <1>1 DEF Reject, Simulate, Send, Poll, NotFound, Build, End, network
<1>3. CASE Simulate(c)
  <2> DEFINE tx == call[c].tx
             answer == IF Verdict(tx) = "Ok" THEN "sends" ELSE Refused(tx.fn, Verdict(tx))
  <2>1. call[c].at = "simulates" /\ End(c, answer) /\ waiting' = waiting
    BY <1>3 DEF Simulate, network
  <2>2. tx \in Tx
    BY <2>1 DEF IInv, Timed
  <2>3. Verdict(tx) = "Ok" => Telling("sends", tx)
    BY <2>2, PassesSimulation DEF Telling
  <2>4. Telling(answer, tx)
    BY <2>2, <2>3, RefusalTells
  <2> HIDE DEF answer
  <2>5. call'[c].at = answer /\ call'[c].tx = tx
    BY <1>1, <2>1 DEF End, CallState
  <2> HIDE DEF tx
  <2> QED
    BY <1>2, <2>1, <2>4, <2>5, CallTells
<1>4. CASE Send(c)
  <2>1. /\ call[c].at = "sends" /\ waiting' \subseteq waiting \cup {call[c].tx}
        /\ call'[c].at \in {"SUBMISSION_FAILED", "polls", "rejected"}
    BY <1>1, <1>4 DEF Send, CallState
  <2>2. Passed(call[c].tx)
    BY <2>1 DEF CInv, Telling
  <2>3. Telling(call'[c].at, call'[c].tx)
    BY <2>1, TellsNothing
  <2> QED
    BY <1>2, <2>1, <2>2, <2>3, CallTells
<1>5. CASE \/ Reject(c) \/ Poll(c)
           \/ \E signer, fn, who, kg : Build(c, signer, fn, who, kg)
           \/ End(c, "InvalidAmountError") /\ UNCHANGED <<clock, network>>
  <2>1. waiting' = waiting
    BY <1>5 DEF Reject, Poll, Build, network
  <2>2. call'[c].at \in {"rejected", "simulates", "InvalidAmountError", "polls", "ok",
                        "CONFIRMATION_TIMEOUT", "MALFORMED_RESULT", "TRANSACTION_FAILED"}
    BY <1>1, <1>5 DEF Reject, Poll, NotFound, Polls, Outcomes, Build, End, CallState
  <2>3. Telling(call'[c].at, call'[c].tx)
    BY <2>2, TellsNothing
  <2> QED
    BY <1>2, <2>1, <2>3, CallTells
<1> QED
  BY <1>3, <1>4, <1>5

(***************************************************************************)
(* What the ledger can still have against a transaction that passed, and   *)
(* what it then knows.                                                     *)
(***************************************************************************)
LEMMA RefusesForCause ==
  ASSUME CInv, NEW tx, Passed(tx), Verdict(tx) # "Ok"
  PROVE  Settled(tx, Verdict(tx))
<1>1. /\ contract.receipt.at \in {"unissued", "live", "gone"}
      /\ tx.fn \in Entry
  BY DEF CInv, ContractState, ReceiptState, Passed, Tx
<1>2. CASE tx.fn = "init"
  <2>1. Verdict(tx) = "AlreadyInitialized"
    BY <1>2 DEF Verdict, Answer, initAnswer
  <2> QED
    BY <1>2, <2>1 DEF Settled, MayStillRefuse
<1>3. CASE tx.fn \in {"add_custodian", "remove_custodian"}
  BY <1>3 DEF Verdict, Answer, custodianAnswer, Passed
<1>4. CASE tx.fn = "mint"
  <2>1. Verdict(tx) = "Unauthorized"
    BY <1>4 DEF Verdict, Answer, mintAnswer, Passed
  <2> QED
    BY <1>4, <2>1 DEF Settled, MayStillRefuse
<1>5. CASE tx.fn = "transfer"
  <2>1. /\ Verdict(tx) \in {"TokenNotFound", "Unauthorized", "TokenLocked"}
        /\ Verdict(tx) = "TokenNotFound" => contract.receipt.at = "gone"
    BY <1>1, <1>5 DEF Verdict, Answer, transferAnswer, Passed, Live
  <2> QED
    BY <1>5, <2>1 DEF Settled, MayStillRefuse
<1>6. CASE tx.fn = "burn"
  <2>1. /\ Verdict(tx) \in {"TokenNotFound", "TokenLocked"}
        /\ Verdict(tx) = "TokenNotFound" => contract.receipt.at = "gone"
    BY <1>1, <1>6 DEF Verdict, Answer, burnAnswer, Passed, Live
  <2> QED
    BY <1>6, <2>1 DEF Settled, MayStillRefuse
<1>7. CASE tx.fn = "split"
  <2>1. /\ Verdict(tx) \in {"TokenNotFound", "TokenLocked"}
        /\ Verdict(tx) = "TokenNotFound" => contract.receipt.at = "gone"
    BY <1>1, <1>7 DEF Verdict, Answer, splitAnswer, Passed, Live
  <2> QED
    BY <1>7, <2>1 DEF Settled, MayStillRefuse
<1> QED
  BY <1>1, <1>2, <1>3, <1>4, <1>5, <1>6, <1>7 DEF Entry

(***************************************************************************)
(* A transaction is applied.  If it is one of those that succeed alone,    *)
(* none of its kind has succeeded, or the contract would refuse it.        *)
(***************************************************************************)
LEMMA ApplySettles ==
  ASSUME IInv, CInv, NEW tx \in waiting, Apply(tx)
  PROVE  CInv'
<1>1. PICK answer : answer = Verdict(tx)
  OBVIOUS
<1>2. /\ contract \in ContractState /\ Passed(tx) /\ tx \in Tx /\ DOMAIN results \subseteq Tx
      /\ \A other \in DOMAIN results : Settled(other, results[other])
  BY DEF CInv, Passed, IInv, NetworkTyped
<1>3. /\ results' = Put(results, tx, answer) /\ waiting' = waiting \ {tx} /\ call' = call
      /\ contract' = IF answer = "Ok" THEN After(contract, tx) ELSE contract
  BY <1>1 DEF Apply
<1>4. tx \notin DOMAIN results
  <2>1. tx.seq = sequence[tx.signer] + 1 /\ sequence[tx.signer] \in Nat
    BY <1>2 DEF IInv, NetworkTyped, InSequence, Tx
  <2> QED
    BY <2>1 DEF IInv, InSequence
<1>5. answer = "Ok" =>
        /\ After(contract, tx) \in ContractState /\ Evolves(contract, After(contract, tx))
        /\ tx.fn = "init" => contract.admin = None /\ After(contract, tx).admin = tx.signer
        /\ tx.fn \in {"burn", "split"} => Live(contract) /\ After(contract, tx).receipt.at = "gone"
        /\ (~Live(contract) /\ Live(After(contract, tx))) => tx.fn = "mint"
  BY <1>1, <1>2, AfterEvolves DEF Verdict
<1>6. answer # "Ok" => Settled(tx, answer)
  BY <1>1, <1>2, RefusesForCause
<1>7. /\ DOMAIN results' = DOMAIN results \cup {tx} /\ results'[tx] = answer
      /\ \A other \in DOMAIN results : results'[other] = results[other]
  BY <1>3, <1>4 DEF Put
<1>8. /\ Grows /\ Evolves(contract, contract') /\ contract' \in ContractState
      /\ (~Live(contract) /\ Live(contract')) => MintedSince'
  <2>1. CASE answer = "Ok"
    BY <1>3, <1>5, <1>7, <2>1 DEF Grows, MintedSince
  <2>2. CASE answer # "Ok"
    BY <1>2, <1>3, <1>7, <2>2 DEF Grows, Evolves
  <2> QED
    BY <2>1, <2>2
<1>9. /\ \A other : Passed(other) => Passed(other)'
      /\ \A other \in Tx : \A a : Settled(other, a) => Settled(other, a)'
      /\ \A at, other : Telling(at, other) => Telling(at, other)'
  BY <1>2, <1>8, KnownStays
<1>10. \A other \in waiting' : Passed(other)'
  BY <1>3, <1>9 DEF CInv
<1>11. Settled(tx, answer)'
  <2>1. CASE answer = "Ok"
    BY <1>3, <1>5, <2>1 DEF Settled
  <2>2. CASE answer # "Ok"
    BY <1>2, <1>3, <1>6, <1>9, <2>2 DEF Settled
  <2> QED
    BY <2>1, <2>2
<1>12. ASSUME NEW other \in DOMAIN results'
       PROVE  Settled(other, results[other])'
  <2>1. CASE other = tx
    BY <1>7, <1>11, <2>1 DEF Settled
  <2>2. CASE other \in DOMAIN results
    <3>1. Settled(other, results[other]) /\ other \in Tx /\ results'[other] = results[other]
      BY <1>2, <1>7, <2>2
    <3> QED
      BY <1>9, <3>1 DEF Settled
  <2> QED
    BY <1>7, <2>1, <2>2
<1>13. Alone'
  <2>1. ASSUME NEW other \in DOMAIN results, NEW kind \in Kinds,
               answer = "Ok", results[other] = "Ok", {tx.fn, other.fn} \subseteq kind
        PROVE  FALSE
    <3>1. other.signer # None /\ Settled(other, "Ok")
      BY <1>2, <2>1, SubmitAssumption DEF Tx
    <3>2. kind = {"init"} \/ kind = {"burn", "split"}
      BY DEF Kinds
    <3> QED
      BY <1>5, <2>1, <3>1, <3>2 DEF Settled, Live
  <2> QED
    BY <1>7, <2>1 DEF CInv, Alone
<1>14. ASSUME NEW d \in Call
       PROVE  Telling(call[d].at, call[d].tx)'
  <2>1. Telling(call[d].at, call[d].tx)
    BY DEF CInv
  <2> QED
    BY <1>3, <1>9, <2>1 DEF Telling, Passed, MintedSince
<1> QED
  BY <1>8, <1>10, <1>12, <1>13, <1>14 DEF CInv

\* The administrator locks or unlocks the receipt.
LEMMA RelockKeeps ==
  ASSUME IInv, CInv, Relock
  PROVE  CInv'
<1>1. /\ contract \in ContractState /\ contract' = Relocked(contract) /\ DOMAIN results \subseteq Tx
      /\ UNCHANGED <<waiting, results, call>>
  BY DEF CInv, Relock, IInv, NetworkTyped
<1>2. Grows /\ Evolves(contract, contract') /\ contract' \in ContractState /\ Live(contract)
  BY <1>1, RelockEvolves DEF Grows, Relock
<1>3. /\ \A tx : Passed(tx) => Passed(tx)'
      /\ \A tx \in Tx : \A a : Settled(tx, a) => Settled(tx, a)'
      /\ \A at, tx : Telling(at, tx) => Telling(at, tx)'
  BY <1>1, <1>2, KnownStays
<1>4. \A tx \in waiting' : Passed(tx)'
  BY <1>1, <1>3 DEF CInv
<1>5. ASSUME NEW tx \in DOMAIN results'
      PROVE  Settled(tx, results[tx])'
  <2>1. Settled(tx, results[tx]) /\ tx \in Tx
    BY <1>1 DEF CInv
  <2> QED
    BY <1>1, <1>3, <2>1 DEF Settled
<1>6. Alone'
  BY <1>1 DEF CInv, Alone
<1>7. ASSUME NEW d \in Call
      PROVE  Telling(call[d].at, call[d].tx)'
  <2>1. Telling(call[d].at, call[d].tx)
    BY DEF CInv
  <2> QED
    BY <1>1, <1>3, <2>1 DEF Telling, Passed, MintedSince
<1> QED
  BY <1>2, <1>4, <1>5, <1>6, <1>7 DEF CInv

\* The network forgets, time passes, or nothing happens.
LEMMA QuietKeeps ==
  ASSUME CInv, waiting' \subseteq waiting, UNCHANGED <<results, contract, call>>
  PROVE  CInv'
  BY DEF CInv, Passed, Settled, Alone, Telling, MintedSince

(***************************************************************************)
(* Along every behaviour, what the simulation let pass, what the ledger    *)
(* answered and what a call has told agree with the contract.              *)
(***************************************************************************)
THEOREM ContractKnown == Spec => []CInv
<1>1. Init => CInv
  <2> SUFFICES ASSUME Init
               PROVE  CInv
    OBVIOUS
  <2>1. /\ \A c \in Call : call[c] = Idle
        /\ waiting = {} /\ DOMAIN results = {} /\ contract \in ContractState
    BY SubmitAssumption DEF Init, NoEntries
  <2>2. \A c \in Call : call[c].at = "idle"
    BY <2>1 DEF Idle
  <2> QED
    BY <2>1, <2>2 DEF CInv, Alone, Telling
<1>2. IInv /\ CInv /\ [Next]_vars => CInv'
  <2> SUFFICES ASSUME IInv, CInv, [Next]_vars
               PROVE  CInv'
    OBVIOUS
  <2>1. ASSUME NEW c \in Call, NEW fn, NEW who, NEW kg, Submits(c, fn, who, kg)
        PROVE  CInv'
    BY <2>1, CallStep DEF Submits, Proceed
  <2>2. ASSUME NEW c \in Call,
               \/ init(c) \/ invokeCustodian(c) \/ mint(c) \/ burn(c) \/ transfer(c)
               \/ maizeInit(c) \/ maizeInvokeCustodian(c) \/ maizeMint(c)
        PROVE  CInv'
    BY <2>1, <2>2, ConcernsOneEntry
  <2>3. ASSUME NEW c \in Call, NEW amountKg \in Amount \cup {0}, splitToken(c, amountKg)
        PROVE  CInv'
    BY <2>1, <2>3, CallStep DEF splitToken
  <2>4. ASSUME NEW tx \in waiting, Apply(tx)
        PROVE  CInv'
    BY <2>4, ApplySettles
  <2>5. CASE Relock
    BY <2>5, RelockKeeps
  <2>6. CASE Tick \/ UNCHANGED vars \/ \E tx \in waiting : Drop(tx)
    BY <2>6, QuietKeeps DEF Tick, Drop, vars, network
  <2> QED
    BY <2>2, <2>3, <2>4, <2>5, <2>6 DEF Next
<1> QED
  BY <1>1, <1>2, Invariance, PTL DEF Spec

(***************************************************************************)
(* Of the calls that the simulation lets through to initialize the         *)
(* contract, or to dissolve the receipt, one transaction alone succeeds.   *)
(***************************************************************************)
THEOREM WinnersAlone == Spec => []OneWinner
<1>1. IInv /\ CInv => OneWinner
  <2> SUFFICES ASSUME IInv, CInv, NEW c \in Call, NEW d \in Call, NEW kind \in Kinds,
                      call[c].at \in Successes, call[d].at \in Successes,
                      {call[c].tx.fn, call[d].tx.fn} \subseteq kind
               PROVE  /\ call[c].tx = call[d].tx
                      /\ IF call[c].tx.fn = "init" THEN contract.admin = call[c].tx.signer
                         ELSE contract.receipt.at = "gone"
    BY DEF OneWinner
  <2>1. Succeeded(call[c].tx) /\ Succeeded(call[d].tx)
    BY DEF IInv, Truthful
  <2>2. call[c].tx = call[d].tx
    BY <2>1 DEF CInv, Alone, Succeeded
  <2>3. Settled(call[c].tx, "Ok")
    BY <2>1 DEF CInv, Succeeded
  <2>4. call[c].tx.fn \in {"init", "burn", "split"}
    BY DEF Kinds
  <2> QED
    BY <2>2, <2>3, <2>4 DEF Settled
<1> QED
  BY <1>1, Invariance, ContractKnown, PTL

(***************************************************************************)
(* The ledger refuses a transaction that passed the simulation only for    *)
(* what can have changed since, and none for want of a receipt that might  *)
(* still be issued.                                                        *)
(***************************************************************************)
THEOREM RefusalsHaveCause == Spec => []RefusedForCause
<1>1. CInv => RefusedForCause
  BY DEF CInv, RefusedForCause, Settled
<1> QED
  BY <1>1, ContractKnown, PTL

(***************************************************************************)
(* What the class of a refused split, or its status, lets one conclude of  *)
(* the receipt stays true.                                                 *)
(***************************************************************************)
THEOREM ClassesTrue == Spec => []ClassesTell
<1>1. ASSUME NEW c \in Call
      PROVE  /\ Told(c, "TokenNotFoundError", 404) => call[c].at = "TokenNotFoundError"
             /\ Told(c, "TokenLockedError", 422) => call[c].at = "TokenLockedError"
             /\ Told(c, "InvalidWeightError", 400) => call[c].at = "InvalidWeightError"
  <2>1. DOMAIN CONTRACT_CODE = {"TokenNotFoundError", "TokenLockedError", "InvalidWeightError"}
    BY DEF CONTRACT_CODE
  <2>2. /\ CONTRACT_CODE["TokenNotFoundError"] = 3
        /\ CONTRACT_CODE["TokenLockedError"] = 4
        /\ CONTRACT_CODE["InvalidWeightError"] = 6
    BY DEF CONTRACT_CODE
  <2>3. /\ resolveContractError(3) = 404
        /\ resolveContractError(4) = 422
        /\ resolveContractError(6) = 400
    BY DEF resolveContractError
  <2> QED
    BY <2>1, <2>2, <2>3 DEF Told
<1>2. CInv => ClassesTell
  <2> SUFFICES ASSUME CInv, NEW c \in Call
               PROVE  /\ call[c].at = "TokenNotFoundError" /\ Live(contract) => MintedSince
                      /\ call[c].at = "TokenLockedError" => contract.receipt.at # "unissued"
                      /\ call[c].at = "InvalidWeightError" =>
                           contract.receipt.at # "unissued" /\ Verdict(call[c].tx) # "Ok"
    BY <1>1 DEF ClassesTell, MintedSince
  <2>1. Telling(call[c].at, call[c].tx)
    BY DEF CInv
  <2>2. call[c].at = "InvalidWeightError" => Verdict(call[c].tx) # "Ok"
    BY <2>1 DEF Telling, Verdict, Answer, splitAnswer
  <2> QED
    BY <2>1, <2>2 DEF Telling
<1> QED
  BY <1>2, ContractKnown, PTL
=============================================================================

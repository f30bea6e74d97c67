---------------------------- MODULE VerifyToken -----------------------------
(***************************************************************************)
(* The lender's verification of a token                                    *)
(* (apps/api/src/controllers/verifyToken.controller.ts): three awaited     *)
(* questions, the owner, the metadata and, of the price oracle, the price, *)
(* and one look at the database in between, while the contract is operated *)
(* by others.  The process also answers requests for its health.  Requests *)
(* share nothing, so one at a time is modelled; the database is whatever   *)
(* its writers left.                                                       *)
(***************************************************************************)
EXTENDS ChainQueries, TimedFetch, SequencesExt

CONSTANTS Blank,          \* a token id of white space only
          FeedPrices,     \* what the price feed quotes, in tenths of a naira
          ReferencePrice, \* FALLBACK_PRICES_NGN_PER_KG.SESAME, in tenths
          MaxRequests     \* bound: requests in a behaviour

\* undefined is neither a token id nor what the ledger holds under one.
ASSUME VerifyAssumption == None \notin Id \cup Receipt

VARIABLES request,        \* the request in flight, or None
          response,       \* the last response, or None
          served,         \* requests so far
          seen,           \* history: what the ledger held of the token, in order
          faulty          \* history: whether a query of the request failed

handler == <<request, response, served, seen, faulty>>
vars == <<receipts, issued, height, failures, handler, fetch>>

----------------------------------------------------------------------------
(* The report *)

TokenRecord == [owner : Party, quantity : Weight, custodian : Party]

\* What the ledger holds of a token.
OnChain(id) == IF id \in DOMAIN receipts THEN receipts[id] ELSE None

\* Mutant: the quantity is left out of the comparison.
detectDrift_noQuantity(record, meta, owner) ==
  IF record = None THEN {}
  ELSE {f \in {"owner", "custodian"} :
          \/ f = "owner" /\ record.owner # owner
          \/ f = "custodian" /\ record.custodian # meta.custodian}

\* The fields in which a record, if there is one, departs from the chain.
detectDrift(record, meta, owner) ==
  IF record = None THEN {}
  ELSE {f \in {"owner", "quantity", "custodian"} :
          \/ f = "owner" /\ record.owner # owner
          \/ f = "quantity" /\ record.quantity # meta.weight
          \/ f = "custodian" /\ record.custodian # meta.custodian}

\* The prices an answer of the oracle may stand for.
Prices(answer) == IF answer = "live" THEN FeedPrices ELSE {ReferencePrice}

\* Math.round(totalWeightKg * priceNgnPerKg)
estimatedValue(weight, price) == (weight * price + 5) \div 10

----------------------------------------------------------------------------
(* The handler *)

Respond(answer) ==
  /\ request' = None
  /\ response' = answer

Refused(status) == [status |-> status, id |-> request.id]

Quiet == UNCHANGED <<chain, failures, served, seen, faulty>>

\* A request arrives, and with it all that is kept of the last one goes.
Begins(id) ==
  /\ request = None /\ ~Waiting
  /\ served < MaxRequests
  /\ served' = served + 1
  /\ seen' = IF id = None THEN <<>> ELSE <<OnChain(id)>>
  /\ faulty' = FALSE
  /\ UNCHANGED <<chain, failures>>

\* Mutant: the token id is not looked at.
Receive_unchecked(id) ==
  /\ Begins(id)
  /\ fetch' = Idle
  /\ request' = [at |-> "asksOwner", id |-> id]
  /\ response' = None

\* The request is refused, or its token's owner is asked for.
Receive(id) ==
  /\ Begins(id)
  /\ fetch' = Idle
  /\ IF id = Blank
     THEN request' = None /\ response' = [status |-> 400, id |-> id]
     ELSE request' = [at |-> "asksOwner", id |-> id] /\ response' = None

\* Somebody asks for the health of the process instead.
Probe ==
  /\ Begins(None)
  /\ handleStellarHealth
  /\ response' = None
  /\ UNCHANGED request

At(step) == request # None /\ request.at = step

\* Mutant: without an owner from the chain, the record's is taken.
OwnerReturns_fallback(answer) ==
  /\ At("asksOwner")
  /\ UNCHANGED fetch
  /\ IF ~answer.ok /\ isTokenNotFoundError(answer.error) THEN Respond(Refused(404))
     ELSE /\ \E owner \in IF answer.ok THEN {answer.value} ELSE Party :
               request' = [at |-> "asksToken", id |-> request.id, owner |-> owner]
          /\ UNCHANGED response

OwnerReturns(answer) ==
  /\ At("asksOwner")
  /\ UNCHANGED fetch
  /\ IF answer.ok
     THEN /\ request' = [at |-> "asksToken", id |-> request.id, owner |-> answer.value]
          /\ UNCHANGED response
     ELSE Respond(Refused(IF isTokenNotFoundError(answer.error) THEN 404 ELSE 502))

\* The database is read and compared, and a price asked for, in the same stretch.
TokenReturns(answer) ==
  /\ At("asksToken")
  /\ IF answer.ok
     THEN /\ \E record \in TokenRecord \cup {None} :
               request' = [at |-> "asksPrice", id |-> request.id, owner |-> request.owner,
                           meta |-> answer.value, record |-> record,
                           drift |-> detectDrift(record, answer.value, request.owner)]
          /\ lookupPrice
          /\ UNCHANGED response
     ELSE Respond(Refused(502)) /\ UNCHANGED fetch

PriceReturns ==
  /\ At("asksPrice")
  /\ fetch.at = "done"
  /\ \E price \in Prices(fetch.answer) :
       Respond([status |-> 200, id |-> request.id, owner |-> request.owner,
                meta |-> request.meta, record |-> request.record, drift |-> request.drift,
                value |-> estimatedValue(request.meta.weight, price),
                isFallback |-> fetch.answer = "fallback"])
  /\ Quiet
  /\ UNCHANGED fetch

----------------------------------------------------------------------------

\* The RPC server answers at a moment of its choice, or not at all.
RpcAnswers ==
  /\ request # None
  /\ \/ \E answer \in queryOwner(request.id) : OwnerReturns(answer)
     \/ \E answer \in queryToken(request.id) : TokenReturns(answer)
  /\ Quiet

RpcFails ==
  /\ failures < MaxFailures
  /\ failures' = failures + 1
  /\ faulty' = TRUE
  /\ OwnerReturns(Failed("RPC timeout")) \/ TokenReturns(Failed("RPC timeout"))
  /\ UNCHANGED <<chain, served, seen>>

ChainActs ==
  /\ ChainMoves
  /\ UNCHANGED <<failures, request, response, served, faulty, fetch>>
  /\ seen' = IF request = None \/ OnChain(request.id)' = Last(seen) THEN seen
             ELSE Append(seen, OnChain(request.id)')

\* A request over HTTP goes on.
Fetches == FetchNext /\ UNCHANGED <<chain, failures, handler>>

Init ==
  /\ LedgerInit
  /\ fetch = Idle
  /\ height = 0
  /\ failures = 0
  /\ request = None
  /\ response = None
  /\ served = 0
  /\ seen = <<>>
  /\ faulty = FALSE

Next ==
  \/ \E id \in Id \cup {Blank} : Receive(id)
  \/ RpcAnswers
  \/ RpcFails
  \/ Probe
  \/ PriceReturns
  \/ ChainActs
  \/ Fetches

Spec == Init /\ [][Next]_vars

\* The RPC server deals with each question, time passes and timers go off; the
\* servers of Horizon and of the prices may keep silent.
FairSpec ==
  /\ Spec
  /\ WF_vars(RpcAnswers) /\ WF_vars(PriceReturns)
  /\ WF_vars(Tick /\ Fetches) /\ WF_vars(Abort /\ Fetches)

----------------------------------------------------------------------------
(* Properties *)

TypeOK ==
  /\ LedgerTypeOK
  /\ request # None =>
       /\ request.id \in Id
       /\ request.at \in {"asksOwner", "asksToken", "asksPrice"}
  /\ response # None => response.status \in {200, 400, 404, 502}
  /\ seen \in Seq(Receipt \cup {None})

Answers(status) == response # None /\ response.status = status
Moments == {k \in DOMAIN seen : seen[k] # None}

(***************************************************************************)
(* A report, although put together from two queries, tells what was true:  *)
(* its owner, weight and custodian at one moment of the request, and its   *)
(* lock together with that weight and custodian at that or a later moment  *)
(* (owner and lock may never have been true together).  Its value is that  *)
(* weight at a price quoted, or at the reference price if it says so.      *)
(***************************************************************************)
ReportWasTrue ==
  Answers(200) =>
    /\ \E i, j \in Moments :
         /\ i <= j
         /\ seen[i] \in [owner : {response.owner}, weight : {response.meta.weight},
                         custodian : {response.meta.custodian}, frozen : BOOLEAN]
         /\ seen[j] \in [owner : Party, weight : {response.meta.weight},
                         custodian : {response.meta.custodian},
                         frozen : {response.meta.frozen}]
    /\ \E p \in IF response.isFallback THEN {ReferencePrice} ELSE FeedPrices :
         response.value = estimatedValue(response.meta.weight, p)

(***************************************************************************)
(* A report says that its price is live exactly if the feed's whole and    *)
(* sensible answer to this request came before the deadline: a lender is   *)
(* never shown a late, broken or earlier quote as live, nor kept from one. *)
(***************************************************************************)
PriceTells ==
  Answers(200) => (response.isFallback <=> fetch.came # "body")

(***************************************************************************)
(* Every verification and every probe is answered, although the servers    *)
(* asked over HTTP never answer.                                           *)
(***************************************************************************)
EveryoneAnswered ==
  /\ (request # None) ~> (request = None)
  /\ Waiting ~> ~Waiting

(***************************************************************************)
(* A refusal is deserved: "does not exist" means that the token was not on *)
(* the ledger at some moment of the request, and a chain failure means one *)
(* of the queries failed or the token was not there all the time.          *)
(***************************************************************************)
RefusalDeserved ==
  /\ Answers(404) => Moments # DOMAIN seen
  /\ Answers(502) => faulty \/ Moments # DOMAIN seen

(***************************************************************************)
(* When the token did not change during the request, the fields reported   *)
(* to drift are those in which the record departs from the ledger: a       *)
(* record the reconciler would leave alone shows none, and a difference in *)
(* the fields both of them compare is shown.                               *)
(***************************************************************************)
DriftExact ==
  (Answers(200) /\ Len(seen) = 1 /\ response.record # None) =>
    (response.drift = {} <=>
       response.record = [owner |-> seen[1].owner, quantity |-> seen[1].weight,
                          custodian |-> seen[1].custodian])
=============================================================================

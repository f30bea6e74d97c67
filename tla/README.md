# Verification of the FarmLedge protocol

TLA+ models of the FarmLedge receipt contracts, of the SDK that calls them and
of the API services that read them, with the TLC runs that check the models and
proofs that their safety properties hold for all parameters. Paths are relative to `src/`.

Contents: [the system](#the-system) · [the modules](#the-modules) ·
[the runs](#the-runs) · [the proofs](#the-proofs) ·
[where code and documents disagree](#where-code-and-documents-disagree) ·
[what is not modelled](#what-is-not-modelled) · [plan](#plan) · [use](#use)

## The system

Farmers deposit maize or sesame at a warehouse; the warehouse's custodian mints
a receipt to the farmer's wallet. A receipt can be transferred, pledged to a
lender (locked by the administrator), split in two, and redeemed (burned).

| component | code | state | operations |
|---|---|---|---|
| maize contract | `contracts/maize-receipt/src` | instance storage: administrator, custodian map, counter, metadata and owner per token, list of all ids ever issued | `init`, `add_custodian`, `remove_custodian`, `mint`, `lock`, `unlock`, `transfer`, `burn`, `split`; `query_balance`, `query_token` |
| sesame contract | `contracts/sesame-receipt/src/lib.rs` | the same, one entry per custodian | the same changes; `get_token_metadata`, `get_owner`, `version` |
| token ids | in both contracts | none | `year_from_timestamp`, `write_padded_number`, `generate_token_id` |
| SDK submission | `sdk/src/sesame`, `sdk/src/maize` | none beyond the call in progress | `mint`, `burn`, `transfer`, `init`, `addCustodian`, `removeCustodian`, `splitToken` |
| SDK queries | `sdk/src/sesame/query.ts` | none | `queryToken`, `queryOwner` |
| reconciliation job | `apps/api/src/jobs/reconcile.job.ts` | the token store; a pass in progress | `runReconciliation`, started by cron |
| token verification | `apps/api/src/controllers/verifyToken.controller.ts`, `services/priceOracle.service.ts` | the request in progress | `handleVerifyToken`, `lookupPriceNgnPerKg` |
| farmer registration | `apps/api/src/services/farmerRegistration.service.ts` | the farmer repository | `registerFarmer`, `handleFarmerRegistration` |
| wallet signer | `apps/api/src/services/farmerWalletSigner.service.ts` | none; reads the process's secret | `encryptPrivateKey`, `signAsFarmer` |
| warehouse summary | `apps/api/src/routes/warehouse.routes.ts` | none; reads the token store | `handleWarehouseSummary` |
| health probe | `apps/api/src/routes/health.routes.ts` | the request in progress | `handleStellarHealth`, `probeHorizon` |
| API error map | `apps/api/src/lib/errorMap.ts` | none | `resolveContractError` (nothing calls it yet) |
| certificates | `sdk/src/lib/pdf/certificate.ts` | none | `generateCertificatePdf` |
| environment, configuration | `apps/api/src/lib/{env,stellar}.ts`, `sdk/src/{client,index}.ts` | constants | |

How they interact:

* A contract call is one transaction, run by the host from beginning to end;
  one that fails leaves no trace in storage. Contracts do not call each other.
* The SDK is the only writer to the contracts in the tree. A call reads the
  account's sequence number, builds, simulates, signs, sends, and polls. Between
  any two of these steps other transactions reach the ledger.
* The API reads the sesame contract through two SDK queries and never writes
  it. The reconciliation job and the verification handler share the token store
  (`TokenStore`); only the job and requests write it.
* JavaScript runs uninterrupted from one `await` to the next, so an interleaving
  is one of such stretches, of answers of the RPC server, and of the ledger.

What is hard, by component, and what makes it correct:

* **Contracts** (no concurrency, but long histories): three indexes written
  entry by entry must agree; the counter is stored before the call can still
  fail and is reset by `init`; lock checks are repeated in three operations;
  children of a split mix copied and fresh fields. Correct means: coherent
  indexes, an id issued once and never again live after retirement, weight
  neither made nor lost, pledged goods untouchable, provenance kept.
* **Token ids**: calendar arithmetic, minimum widths. Correct means: the civil
  year, and different ids for different counters.
* **SDK submission**: an answer may be lost, late or about an older ledger.
  Correct means: what a call answered is and stays true, what its caller may
  conclude of the receipt stays true although it is locked, minted or dissolved
  meanwhile, and giving up leaves nothing behind that surfaces later.
* **Reconciliation**: passes may overlap and act on old answers; queries fail.
  Correct means: the store ends up right, records of gone tokens go, records of
  live ones do not.
* **Verification**: two queries of a moving ledger reported as one. Correct
  means: what the report says was true at one moment; refusals say why.
* **Registration and signing**: check, long computation, act; a repository that
  may fail after it has stored; a process that restarts with another secret.
  Correct means: the answers agree with the repository, how a duplicate can and
  cannot arise is known, and who is told of a wallet can be signed for.
* **Readers of the store** (summaries, certificates): they trust units, times
  and warehouses that requests filed and the reconciler rewrites. Correct means:
  what they say comes to agree with the chain, but for records of gone tokens.
* **Outbound requests** (health, price): servers that stall between headers and
  body. Correct means: an answer by the deadline, and the right one.

`PROJECT.json` lists the hazards with their lines and the properties that catch
each of them.

## The modules

```
ContractStorage   TokenIds            ReceiptLedger  (abstract: what a receipt ledger promises)
   |   \           /     \              ^     ^   \
   |  MaizeReceipt   MCTokenIds         |     |    ChainQueries   TimedFetch
   |  SesameReceipt ---- implement -----+-----+     /        \       /
   |                                           Reconcile   VerifyToken
   |                                           |
   |  ContractAnswers                     RecordReaders      FarmerRegistration
   |   /
SubmitTransaction
```

Each `MC…` module holds what the runs of the module it is named for add to it:
constants, symmetry, view. (`MCTokenIds` is the one that also has behaviour.) Each `…Proofs` module extends
the module it is named for (`TokenIdsProofs` extends `MCTokenIds`) and holds its
theorems (`ReconcileProofs` extends `RecordReaders`, and holds its theorems too);
nothing else extends or instantiates a proof module, but that
`ReconcileProofs`, `VerifyTokenProofs` and `SesameReceiptProofs` build on
`ReceiptLedgerProofs`, and `MaizeReceiptProofs` and `ReconcileProofs` on
`TokenIdsProofs`, whose first section is about induction and loops.

### `ReceiptLedger`: the abstract specification

A set of live receipts and the set of ids ever issued. `Deposit` puts a receipt
under an id never used; `Assign`, `Freeze`, `Release`, `Divide` and `Redeem` say
the rest. Everything but `Release` needs a receipt that is not frozen; `Divide`
splits the weight and keeps owner and custodian. Both contracts implement it,
and the API modules are built on it: what the API may find on the chain is
whatever a ledger may do, not one contract's accidents.

### `MaizeReceipt`, `SesameReceipt`: the contracts

One variable per storage entry (`admin`, `custodians`, `counter`, `tokenMeta`,
`owner`, `allTokens`), the ledger time `now`, and the answer `outcome`. Absent
entries are absent from the functions' domains. One action is one entry point,
whole. `XOutcome` gives what the call answers, its conditions in the order of
the code's early returns, `require_auth` included (`signer` is the account that
authorised the transaction, chosen freely, so every refusal is exercised).
`Refuse(answer)` changes the answer only, because the host undoes a failed
call's writes; the code before a late failure (the counter stored in `mint`)
depends on exactly that. Arithmetic overflow traps (`overflow-checks = true` in
the release profile) and is the outcome `HostError`.

Ids are records `[year, n]`: rendering loses nothing (`IdsDiffer`).
`query_balance` is its loop, `Pushed`, with the list it has after each turn.
Callers may name any id ever issued and one that never was. Grade and warehouse
are copied and never read; events change no storage; both are left out.

`SesameReceipt` is modelled from its own lines, not by instantiating the maize
module: the crates were copied by hand, and a difference is what one would look
for. It keeps an entry per custodian, accepts one commodity, and is asked by
`get_owner` and `get_token_metadata`.

### `TokenIds`, `MCTokenIds`

The helpers as constant operators. `MCTokenIds` runs a contract that mints once
a day beside a calendar that is advanced a day at a time by the rules of month
lengths and leap years, and reads every id back.

### `ChainQueries`, `Reconcile`, `VerifyToken`: the readers

`ChainQueries` gives the two queries over a `ReceiptLedger`, and how a missing
token's error reads. `GoneTexts` is the set of texts: `AsDeployed` is what the
contract's error number produces (`Error(Contract, #3)`), `AsTested` what the
job's tests write (`Error(Contract, #1)`), `Either` both.

`Reconcile`: a pass is `idle`, waits for the owner (`asksOwner`), has the answer
(`hasOwner`), waits for the metadata (`asksToken`) or has it (`hasToken`). The
server answers (`AnswerOwner`, `AnswerToken`) at one moment and the code resumes
at a later one (`OwnerKnown`, `OwnerUnknown`, `Persist`). `GoOn` is the loop's
head: the next listed id that is still in the store. `Persist` stores the copy
made before both queries, as line 183 does. A receipt's fields are reduced to
one that is a number, one that is an address, the unit of the weight and the
scale of the time; all are fixed at the mint or by the job, and compared alike.
Requests file any record (right or wrong, in any unit and scale) of an issued
token and remove one, once per token.

`VerifyToken`: the same two queries, then the store and, in the same stretch, the
request for a price (`TimedFetch`), whose answer makes the report. The process is
also asked for its health (`Probe`). Requests share nothing, so they are served
one at a time. The store holds anything, as its writers are not controlled by the handler. `seen` is
history, what the ledger held of the token during the request, in order, and so
is `faulty`. The answer and the resumption are one step here: nothing
that happens between them can be read by the handler.

### `RecordReaders`

The warehouse summary and the certificate as operators on the states of
`Reconcile`: both work on what the store gives them without an await and change
nothing, so what matters is what the reconciler and the requests make of the
store around them. A record's warehouse is the receipt's `depositor`, where
`mapMetadataToReceipt` puts it; in the model the one address field stands for
it. The store may give the records in any order; `Aggregation` is the loop over
them. `ReadersTrue` says that both readers are right about a repaired store,
`ReadersSettle` that they come to be: certificates of live tokens always, the
summary of a warehouse unless a gone token's record is left in it (`Padded`).
With the text of the deployed contract's error such a record stays and goes on
being counted (run `ReconcileGone`), so the condition cannot be dropped; with the
tests' text `GoneForgotten` discharges it. `generateCertificatePdf` keeps
by which factor a date is too far: the code multiplies by 1000.

### `FarmerRegistration`

Requests that look up, make and encrypt a key pair, hash and create. An input is
a number or none, with or without its plus sign and punctuation, and a PIN that
is valid or not; `normalizePhone` drops punctuation and keeps the sign. `said`
and `saw` are history. `Reject` is a repository that rejects, or scrypt that
fails; `Create` stores the farmer and then says so (`Created`: phone and public
key; `of`, the secret at that moment, is history) or rejects all the same.

`Restart` ends the process: requests are `Lost`, except that what the repository
had been asked to create may still be stored (`orphaned`). The new process has
any secret, or none that is a key. The wallet signer is part of the module:
`encryptPrivateKey` seals a key pair under the secret of the moment,
`decryptPrivateKey` opens it under the same secret only (AES-GCM), `signAsFarmer`
gives the key pair a transaction is signed with.

### `TimedFetch`

The health probe and the price look-up as two kinds of one protocol: headers,
then the body, one abort signal for both. The server may refuse, send, break off
or keep silent at any point. A timer that is due goes off before time passes; how
late the event loop is, is not modelled. The module has the request's steps
(`FetchNext`) and no `Init` or `Next`: `VerifyToken` starts the requests and
interleaves their steps with everything else.

### `SubmitTransaction`

A call goes through `Build`, `Simulate`, `Send` and `Poll`, one for each stretch
between awaits; `Submits` is the whole of it. `mint`, `burn`, `transfer`, `init`
and `invokeCustodian` (both custodian calls), and the maize files' `maizeMint`,
`maizeInit` and `maizeInvokeCustodian`, are its instances, since they repeat the
same steps. `splitToken` first refuses an amount that is no positive `u32`, and
turns a refusal met in simulation into a class by its number
(`mapContractError`, `CONTRACT_CODE`). `resolveContractError` is the API's table
from the same numbers to HTTP statuses.

At every await the RPC client's promise may be rejected; no call catches that
(`Reject`, end state `rejected`). In `Send` this may happen after the network
has taken the transaction. `MALFORMED_RESULT` is a mint or split whose ids cannot
be read in a successful result (`Outcomes`).

The contract called is the sesame or the maize one, as it is when the calls
begin (`Beginnings`), and answers by `ContractAnswers`, in the simulation
(`Simulate`) and, with the same operator, when a ledger closes (`Apply`), which
also makes it what the call makes of it (`After`). Between the two anything may
have happened: other calls, and the administrator, who works through another
account and may lock and unlock the receipt (`Relock`). All calls that name a
receipt name the same one, so any two of them race; it may not be issued yet, in
which case the next mint issues it.

The network keeps at most one waiting transaction per account, may drop it, and
applies it at most once, with the right sequence number, before its time bound.
A transaction is its content, so two calls that build the same content share a
hash. `getTransaction` may say NOT_FOUND of a transaction that is on the ledger
(the server lags). Clock skew between caller and ledger, fees and the limits of
what a simulated transaction may use are not modelled.

### `ContractAnswers`

The checks of `init`, the custodian calls, `mint`, `transfer`, `burn` and `split`
in the order of both contracts' early returns, on what is left of the storage
when one receipt is looked at: administrator, registry, and the receipt's owner,
custodian, weight and lock. Refusals that do not last are among them: a locked
receipt may be unlocked, a custodian registered, an id issued, a receipt
transferred back. `MaizeReceipt` and `SesameReceipt` have the whole storage; the
SDK's model needs the answers. Goods have the right commodity and weights that
fit, as refusals for these do not depend on when a call is made.

## The runs

| run | states | question |
|---|---|---|
| `TokenIds` | 292,202 | is the year civil, and can every id be read back? |
| `MaizeReceipt` | 40,213 | indexes, ids, balances, retirement, weight, collateral; refinement |
| `MaizeYears` | 45,173 | provenance through splits of splits and a new year |
| `SesameReceipt` | 17,530 | does the copy implement the same ledger, and do its queries agree? |
| `ReconcileOverlap` | 1,230,892 | overlapping passes, failures, requests: safety and convergence |
| `ReconcileOnePass` | 1,306,834 | does an undisturbed pass repair all it lists, are summaries and certificates true of a repaired store, and do they come to be, where no gone token's record is left? |
| `VerifyToken` | 1,093,441 | are reports and prices true, refusals deserved, drift exact, everyone answered? |
| `FarmerRegistration` | 747,116 | when can a number be registered twice; do answers hold over failures and restarts, and can who was told of a wallet be signed for? |
| `SubmitTransaction` | 1,586,944 | are answers true, can two calls both win, for what is refused what the simulation let pass, what may one conclude from a class, can a call surface after it gave up, does every call end? |
| `MaizeRemovedCustodian` | violation | may only registered custodians burn? |
| `ReconcileGone` | violation | do records of burned tokens go, with the real error text? |
| `ReconcileRemoved` | violation | do removed records stay removed? |

Every property has a mutant: a plausible slip in the code, written beside the
definition it replaces, which the property's own run then refutes.

**Contracts.** *Bounds.* Two accounts let administrator, custodian, owner and
caller coincide or differ. `MaxU64 = 4` allows a mint, a split, a further mint,
and the counter's overflow in both operations; `MaizeYears` has 5, for a split
of a split. `MaxU32 = 5` with deposits 3x1 (accepted, splittable twice), 2x3
(overflows by one), 0x1 and 1x0. Timestamps: the last second of 1970, the first
of 1971, and 0. *View.* `StorageAndTime` drops `outcome`, which no guard and no
invariant but `TypeOK` reads; `TypeOK`'s conjunct about it follows from the
finite list of constants the `XOutcome` operators return (and is proved).
*Symmetry.* Accounts are interchangeable: no operator names one. These runs
check safety only. `MaizeYears`: one account, as provenance does not depend on
who acts.

**Reconciliation.** `ReconcileOverlap`: one token with two passes shows every
overlap, since a pass handles tokens one at a time and a record depends on its
own token only; three ledger operations, a deposit, an assignment, and a freeze
or a redemption; two weights and two parties, so that a record can be wrong in a
number, in an address or in both; one failed query at any place.
`ReconcileOnePass`: two tokens with one pass show the loop, and two tokens with
two warehouses summaries of none, one or both; records in kilograms or tonnes,
with times in seconds or milliseconds. Both texts of a missing token may arrive:
passes remove records and skip removed ones, and gone tokens' records may also
stay for good. One weight is enough there: sums are told
apart by what they count. No symmetry, since liveness is checked. The two
violations need one token.

**Fairness.** In `Reconcile`, `FairSpec` asks weak fairness of each pass's own
work, `Work(p)`: cron fires again every quarter of an hour
(`startReconciliationJob`), an await resumes once answered, and the RPC server
deals with each query. It is not asked of failures, of the ledger or of
requests, which may stop; failures are limited to `MaxFailures` (they are
outages that end), and so are ledger operations and requests, hence "eventually
for ever" in `Convergence`, `GoneForgotten` and `ReadersSettle`. In
`SubmitTransaction` it is asked of time and of each call's own steps,
`Proceed(c)`: an RPC request is answered or rejected some time, a sleep ends;
nothing is asked of the network, which need not apply or drop anything. In
`VerifyToken` it is asked of the RPC server, of time, of the timers and of the
handler's own resumption, and not of the HTTP servers: `EveryoneAnswered` holds
although they keep silent, because the signal fires. (The RPC queries have no
deadline in the code; that the server deals with each is an assumption, and
without it a verification may hang.) No fairness is assumed anywhere else.

**Verification.** `MaxHeight = 3`: a deposit and two changes (transfer, freeze,
or a redemption) between any two questions; two requests, so that nothing of the
first can leak into the second. Both error texts may arrive: the refusal
properties do not depend on which. Prices are in tenths so that rounding happens
(0.4, 2.5 and the reference 1800). Deadlines of 3 and 2 seconds stand for the
probe's 8 and the price's 5: time passes before, between and after headers and
body. One failed query.

**Registration.** Three requests: two that collide and one after them, with two
numbers. Two restarts, two secrets or none: a wallet sealed with the old secret,
one with the new, and the old one back, after a restart with another secret or
with none.

**Submission.** `TimeBound` and `MAX_ATTEMPTS` are 30 in the code and 2 here;
what matters is their relation: the last poll is at least `MAX_ATTEMPTS` seconds
after the sending, which is no earlier than the building from which the bound is
counted. Time goes on beyond `MaxClock = 0`
(to `Horizon`) as long as a call waits to poll, so every call can reach its last
poll, and the other can begin, build or send at any second up to then. Two calls
by two accounts, one or both of them: every pair of operations. Either contract
is just deployed (a call finds no administrator), set up by alice (nothing
issued, an empty registry but for her), or in use: bob is a custodian too, and
alice holds a receipt of weight 2, which may be split by 1 and not by 2. Wallets
named are bob's: registered or removed, given a receipt, or transferred one. A
call that was refused leaves time for two more events, the other call and any
number of locks and unlocks. No symmetry, as `CallsEnd` is a liveness property
and the accounts differ.

**Deadlock** is not checked where the system rests: all requests answered
(`FarmerRegistration`, `VerifyToken`), the calendar's last day (`TokenIds`), all
calls ended (`SubmitTransaction`).

## The proofs

Every safety property that a passing run checks is proved for all values of the
constants. Each module defines
an inductive invariant `IInv`, proves `Spec => []IInv` (theorem `Invariance`) by
lemmas about its actions, and derives the rest (in `ReceiptLedgerProofs`
`LedgerTypeOK` is inductive itself; `SubmitTransactionProofs` has a second one,
`CInv`, of what calls and contract know of each other). Every one was checked by
TLC, as an invariant of the component's run, before it was proved.

| module | theorem | states |
|---|---|---|
| `MaizeReceiptProofs` | `TypeCorrect`, `Coherence`, `DenseIds`, `EmptyBeforeInit` | invariants `TypeOK`, `StorageCoherent`, `IdsDense`, `NothingBeforeInit` |
| | `Provenance`, `BalancesPartition` | invariants `Lineage`, `BalancesPartitionLive` |
| | `WeightConservation`, `CollateralProtection`, `RetirementIsFinal` | action properties `WeightConserved`, `CollateralFrozen`, `RetiredForever` |
| | `Refinement` | `ImplementsLedger` |
| `TokenIdsProofs` | `StampedWithCivilYear` | invariant `YearIsCivilYear`, for every second of a day |
| | `EveryIdReadsBack` | invariant `IdReadsBack` |
| | `IdsDiffer` | ids that differ in prefix, year or counter are different texts |
| `SesameReceiptProofs` | `TypeCorrect`, `QueriesAgreeAlways` | invariants `TypeOK`, `QueriesAgree` |
| | `Refinement` | `ImplementsLedger` |
| | `ReadersMayRely`, `PledgesHold`, `GoodsHold` | what follows from it and the ledger's three theorems |
| `ReceiptLedgerProofs` | `ReceiptsLast` | on any ledger, ids stay used and live receipts keep weight and custodian |
| | `PledgesBind` | a frozen receipt stays as it is until it is released |
| | `GoodsBalanced` | a step takes goods in, gives those of one receipt out, divides them in two, or does none of this |
| `ReconcileProofs` | `TypeCorrect` | invariant `TypeOK` |
| | `OnlyGoneForgotten`, `PassSuffices` | action properties `LiveNeverForgotten`, `OnePassSuffices` |
| | `ReadersAreTold` | invariant `ReadersTrue` of `RecordReaders` |
| | `PassMakesReadersTrue` | summaries and certificates are true when an undisturbed pass ends that left no gone token recorded |
| `VerifyTokenProofs` | `TypeCorrect`, `TrueReports`, `LivePricesAreLive`, `RefusalsDeserved`, `DriftIsExact` | invariants `TypeOK`, `ReportWasTrue`, `PriceTells`, `RefusalDeserved`, `DriftExact` |
| | `HealthIsTold` | invariant `HealthTells` of `TimedFetch` |
| `FarmerRegistrationProofs` | `DuplicatesOnlyByOverlap`, `AnswersAreTrue`, `SignedAsTold` | invariants `SecondOnlyByOverlap`, `AnswersTell`, `SignsForTheTold` |
| `SubmitTransactionProofs` | `TrueAnswers`, `WinnersAlone` | invariants `AnswersTrue`, `OneWinner` |
| | `RefusalsHaveCause`, `ClassesTrue` | invariants `RefusedForCause`, `ClassesTell` |
| | `NothingSurfacesLate` | action property `LateOnlyInLastSecond` |

### The inductive invariants

* **Maize**: `TypeOK /\ StorageCoherent /\ IdsDense /\ NothingBeforeInit`. No part
  is inductive alone. A mint or a split must find its ids unused: that holds
  because the numbers of issued ids end at the counter (`IdsDense`) and live ids
  are issued (`StorageCoherent`). `init` resets the counter, which keeps
  `IdsDense` only because nothing was issued before it (`NothingBeforeInit`), and
  that needs that only an administrator registers custodians and only custodians
  mint. `Lineage` takes two more: live ids are dated no later than the ledger
  (`Dated`), or a split could date children before their parent, and the code's
  year never falls as time goes on (`YearMonotone`).
* **Sesame**: the same parts, from this contract's own entries, for it has the
  same `init`. `QueriesAgree` alone says nothing of what comes before `init`.
* **Token ids**: `date \in Dates /\ day = DayNumber(date) /\ counter \in Nat`. That the year is right
  today does not make it right tomorrow; that depends on month, day and every
  leap year before. `DayNumber` counts days by leap years; a step of the calendar
  advances it by one, and the code's eras and 153-day groups find its year again.
* **Reconciliation**: types; each pass `Stands` (one that read "not found" is
  right for good, as no id comes back to life); and each undisturbed pass
  `Follows` the store (its copy is the store's, its answers are the chain's, and
  every record that needs repair is the current one or still listed). The last
  is why the end of such a pass leaves nothing to repair.
* **Verification**: types; what a request in flight holds was the ledger's at
  moments in the order of its questions, and its token's history in between is
  one receipt's (`InHand`; the ledger never changes weight or custodian of a
  live receipt and never revives an id, `ReceiptsLast`); an answer stands by that
  (`Answered`). The outbound request has an invariant of its own, `Known`: the
  server has sent what its place says, and its answer is the one deserved.
* **Registration**: what a request knows of the repository was true of a prefix
  of it, which stays, as farmers are only added (`Progress`); a request in
  progress has no farmer and an ended one is told the truth (`Ending`). Without
  these `SecondOnlyByOverlap` is not kept by `Create`. A wallet in memory is
  sealed under the process's secret (`Progress`), because a restart loses what is
  in memory; so what a farmer is told is what was sealed for them, under the
  secret of that moment (`Told`).
* **Submission**: what waits is its account's next and only transaction
  (`InSequence`), so nothing is applied twice; every transaction was put in by a
  call (`PutIn`); a call keeps its time (`Timed`: the bound runs out no later than
  a second after the last poll); and it says what is true (`Truthful`). Of the
  contract, `CInv` says what lasts in spite of locks, mints and registry
  (`Evolves`: an administrator stays, an id issued stays issued, a receipt keeps
  custodian and weight, and one that is gone does not come back), hence what a
  call that passed the simulation can count on until it is applied (`Passed`),
  for what a transaction on the ledger was refused (`Settled`), that one
  transaction alone initialized or dissolved (`Alone`), and what a class thrown
  still says (`Telling`).

### The arguments

In both contracts a step is first brought down to what it does to the entries
(the `...Effect` lemmas of maize, the five kinds of step of sesame; `StepCases`),
and invariant, action properties and refinement are derived from the kinds. For
the refinement, a step's effect on `Receipts` and `Issued` is shown to be one
action of `ReceiptLedger` with the same ids, or none. `ReceiptsLast` is proved
of that ledger and carried to the sesame contract (`ReadersMayRely`): what the
reconciler and the verifier are proved to rely on, the deployed contract gives.
So are `PledgesBind` and `GoodsBalanced`; the maize contract has the like of them,
and more, of its own entries (`CollateralFrozen`, `WeightConserved`).

*Loops.* What a loop or a recursion computes for every input needs induction over
the input, and the provers take no induction over formulas. They take it over
sets: a set of numbers that contains every number whose predecessors it contains
is all of `Nat` (`Induction`, from the least number of its complement). A
recursive definition is a CHOOSE, which says something only once such a function
is shown to exist: `Recursion` pieces one together from functions that recur up
to some argument, `Loop` is the case of a loop over a list, and `Turns` is
induction over its turns. The loops of the code are therefore modelled as
recursive functions, with the value after each turn:

* `digits` (`write_padded_number`): the figures after any number of divisions
  read back as the number (`DigitsRead`), zeroes on the left change nothing
  (`ZerosLeft`), and no figure is a dash (`FigureRight`), so the last dash ends
  the year (`Joined`, `RoundTrip`).
* `Pushed` (`query_balance`): after k turns the list has the wallet's receipts
  among the first k issued, in order (`ListedThroughout`).
* `Aggregation` (`aggregateWarehouseStats`): after k turns the sum is the number
  of kilograms of the first k tokens, counted one by one as a set (`AddsUp`);
  the store lists each token once (`ListedOnce`).

In `ReconcileProofs` the loop's head is one lemma (`NextFound`, `LoopGoesOn`)
that three actions use. In `SubmitTransactionProofs` every entry point goes
through `Submits`, so one lemma per stretch (`BuildStep` to `PollStep`) covers
them all; what `CInv` says of a transaction is kept by every step after which the
contract `Evolves`, and shown anew at the simulation and at the ledger's close.

### The assumptions

| assumption | says |
|---|---|
| `MaizeAssumption`, `SesameAssumption` | constants have their types, the set of ledger times is not empty, `None` is no account |
| `AbsentAssumption` (both contracts) | the value for "absent" is no id, and no metadata: Rust's `None` is no `Some` |
| `WeightAssumption` (`ReceiptLedger`) | weights are positive numbers: `mint` refuses a deposit of none, `split` a part of none |
| `RunAssumption` (`MCTokenIds`) | the starts and the lengths are natural numbers, and the seconds checked those of whole days |
| `ChainAssumption`, `ReconcileAssumption`, `VerifyAssumption` | bounds are natural numbers; kilograms and milliseconds, which the job writes, are among units and scales; `None` is no id, no receipt and no address |
| `TimedFetchAssumption` | both deadlines are positive |
| `SubmitAssumption` | `None` is no account; contracts begin in states of their type; weights and bounds are natural numbers; `TimeBound <= MAX_ATTEMPTS` |

The last conjunct of `SubmitAssumption` is where the code's two constants meet:
both are 30 (`setTimeout(30)`, thirty polls a second apart). It is needed for
`LateOnlyInLastSecond` only: with a longer bound than the polling, a transaction
does surface after its call has given up.

### Only model-checked

* Liveness (`Convergence`, `GoneForgotten`, `ReadersSettle`, `CallsEnd`,
  `EveryoneAnswered`): temporal reasoning under fairness needs ENABLED, which the
  prover does not handle.
* The three disagreements below, which are counterexamples.

## Where code and documents disagree

With a run that shows it (details in `PROJECT.json`):

1. **A burned token's record is never removed.** `isTokenNotFoundError`
   (`reconcile.job.ts:249`, copied at `verifyToken.controller.ts:280`) looks for
   contract error 1; `TokenNotFound` is 3. Verification answers 502, not 404.
   Run `ReconcileGone`. Its warehouse's summary goes on counting it, which is why
   `ReadersSettle` excepts such warehouses. `ReconcileOverlap` checks the same property with the
   text the tests use, where it holds.
2. **A removed record comes back.** `reconcile.job.ts:183` stores a copy older
   than the removal. Run `ReconcileRemoved`.
3. **A removed custodian still burns.** `docs/TOKEN_STANDARD.md:90` says only
   registered ones may. Run `MaizeRemovedCustodian`.

Seen while modelling, without a run of their own:

* Records of maize receipts are never repaired: the job speaks of every token in
  the database (`reconcile.job.ts:15`) and asks the sesame contract only. Were
  error 3 recognised, it would remove them.
* A failed mint may be untyped: `sdk/src/sesame/mint.ts:29-31` promises a
  `FarmledgeSDKError`, but a rejected RPC promise passes through (`Reject`), also
  after the network has taken the transaction.
* An unknown warehouse is a 200 with zeroes; `warehouse.routes.ts:25` documents a
  404.
* `certificate.ts:39` takes times for seconds, the reconciler writes milliseconds
  (`reconcile.job.ts:283`): `ReadersSettle` states that every certificate ends
  with dates a thousand times too far.
* After a split `total_weight_kg` is not `bag_count * weight_per_bag_kg`
  (`docs/TOKEN_STANDARD.md:30`; maize `lib.rs:478-480`), and an odd bag
  count loses a bag.
* Two registrations of one phone that overlap both succeed
  (`farmerRegistration.service.ts:88-101`); `SecondOnlyByOverlap` states that
  nothing else makes a duplicate of the same sign and digits. `+234...` and
  `234...` are different numbers to the service.
* `split` asks for nobody's authorization, while `sdk/src/maize/split.ts:36,142`
  speaks of the owner's signature.
* Two identical mints that one account builds in the same second with the same
  sequence number share one transaction hash: both calls are then answered with
  the one token. `AnswersTrue` states the exception.
* A typed error of `splitToken` carries the code `TRANSACTION_FAILED`
  (`sdk/src/errors.ts:57`) although it was met in simulation and nothing was
  sent; a split refused on the ledger is a plain `FarmledgeSDKError` with that
  code and no class (`sdk/src/maize/split.ts:267`).
* `errors.ts:1-6` speaks of a typed error with a `code`; the maize `init` and
  custodian calls throw a plain `Error` (`sdk/src/maize/init.ts:48`).
* `TRY_AGAIN_LATER` is polled for like `PENDING` until the timeout.
* A verification report can pair an owner with a lock flag set after that owner
  had transferred the token (two queries).
  `ReportWasTrue` says what is left: the lock is not older than the owner shown.
* `warehouse.routes.ts:12-23` shows a breakdown with locked tokens; the code
  counts every token as minted. Its comment (line 96) says the first token names
  the unit; the last one does. Weights are added up whatever their unit.
* `mapMetadataToReceipt` sets `expiresAt` to 0: an expiry a record had is lost at
  its first correction.
* The wallet signer's header (`farmerWalletSigner.service.ts:26-31`) says that
  the secret is overwritten with zeroes; its own comment at 130-135 says that it
  cannot be. A secret of 64 characters that are not all hexadecimal passes the
  length check and fails in the cipher.
* `errorMap.ts:92` refers to a `contractErrorCode(err)` in the SDK that does not
  exist; nothing calls the map.

## What is not modelled

* **Environment, client, index, scripts, CI**: configuration, re-exports and
  command lines, with no state and no interaction. `src/scripts` runs the
  Stellar command line by hand, once per deployment.
* **Host limits**: size and rent of the instance-storage entry.
* **Cryptography**: AES-GCM and scrypt are what they promise to be.
* **A store or registry that throws** (the summary's 500, a verification that
  rejects): the tree has no implementation of them.
* **Simulation refusals without a number** (budget exhausted, expired entries):
  what a simulated transaction may use suffices in the model.
* **Lateness of the event loop**: timers go off when they are due.
* **Records of a maize token** in the store of `Reconcile`: the model's tokens are
  the sesame contract's.
* **Wording and layout** of errors, logs, events and the PDF.

## Plan

Done: contracts and ids with the abstract ledger; the readers on the ledger and
on the store; the submission protocol of both SDK halves with its failures;
registration and signing over restarts; timed requests; the theorems of every
component, those about loops over data included.

Next, in this order:

1. A caller that retries a timed-out mint, composed of `SubmitTransaction` and
   `ReceiptLedger`: when does a farmer get two receipts for one deposit?
2. Records of maize tokens in the store of `Reconcile`, once the job asks the
   contract that issued a token.

New questions join existing runs where the bounds allow, so that the whole set
stays quick to repeat.

## Use

```
tlc -workers 2 -config MaizeReceipt.cfg MCMaizeReceipt    # any run of the table
for m in *Proofs.tla; do tlapm $m; done                   # all proofs
```

---------------------------- MODULE MaizeReceipt ----------------------------
(***************************************************************************)
(* The maize receipt contract (contracts/maize-receipt/src/lib.rs).        *)
(*                                                                         *)
(* Each variable is an entry of the contract's instance storage; one       *)
(* action is one invocation, whole, since the host runs an invocation to   *)
(* its end before the next.  An invocation that returns an error or traps  *)
(* leaves the storage as it was: the host discards its writes.             *)
(*                                                                         *)
(* An operator XOutcome gives what invocation X answers, its checks in the *)
(* order of the early returns; "HostError" is a failed require_auth or an  *)
(* arithmetic overflow (the release profile keeps overflow-checks on).     *)
(* `signer` is the address whose authorization the transaction carries.    *)
(*                                                                         *)
(* An id is the record [year, n] the string is rendered from (TokenIds).   *)
(* The grade and the warehouse of a receipt are copied and never read, and *)
(* are left out.                                                           *)
(***************************************************************************)
EXTENDS TokenIds, ContractStorage, FiniteSets

CONSTANTS Address,     \* accounts
          None,        \* an absent Option
          Commodity,   \* the commodities callers ask for
          Deposits,    \* the [bags, perBag] callers ask for
          MaxU32,      \* u32::MAX, of bag counts and weights
          MaxU64,      \* u64::MAX, of the token counter
          Timestamps   \* the ledger close times

ASSUME MaizeAssumption ==
  /\ None \notin Address
  /\ MaxU32 \in Nat
  /\ MaxU64 \in Nat
  /\ Deposits \subseteq [bags : 0..MaxU32, perBag : 0..MaxU32]
  /\ Timestamps \subseteq Nat
  /\ Timestamps # {}

VARIABLES admin,       \* DataKey::Admin, None before init
          custodians,  \* DataKey::Custodians, the addresses mapped to true
          counter,     \* DataKey::TokenCounter, 0 when unset
          tokenMeta,   \* DataKey::TokenMeta, a function on the live ids
          owner,       \* DataKey::Owner, a function on the live ids
          allTokens,   \* DataKey::AllTokens
          now,         \* the ledger timestamp
          outcome      \* the answer to the last invocation

storage == <<admin, custodians, counter, tokenMeta, owner, allTokens>>
tokens == <<counter, tokenMeta, owner, allTokens>>
vars == <<admin, custodians, counter, tokenMeta, owner, allTokens, now, outcome>>

Years == {year_from_timestamp(t) : t \in Timestamps}
Id == [year : Years, n : 1..MaxU64]

AcceptedCommodity == {"MAIZE_WHITE", "MAIZE_YELLOW"}

TokenMetadata ==
  [token_id : Id, commodity : AcceptedCommodity,
   bag_count : 0..MaxU32, weight_per_bag_kg : 1..MaxU32,
   total_weight_kg : 1..MaxU32, custodian : Address,
   deposit_ts : Timestamps, is_locked : BOOLEAN,
   parent_token_id : Id \cup {None}]

\* The parent of a minted receipt, none, is not taken for an id.
ASSUME AbsentAssumption == None \notin Id

Answers == {"Ok", "AlreadyInitialized", "Unauthorized", "TokenNotFound",
            "TokenLocked", "InvalidCommodity", "InvalidWeight", "HostError"}

Issued == Range(allTokens)

Live == DOMAIN tokenMeta

\* The ids a caller may name: one issued at some time, or one that never was.
Named == Issued \cup {[year |-> 1969, n |-> 0]}

\* Mutant: numbers the next receipt from how many are live.
NewId_live(n) ==
  [year |-> year_from_timestamp(now), n |-> n - counter + Cardinality(Live)]

NewId(n) == [year |-> year_from_timestamp(now), n |-> n]

Init ==
  /\ admin = None
  /\ custodians = {}
  /\ counter = 0
  /\ tokenMeta = NoEntries
  /\ owner = NoEntries
  /\ allTokens = <<>>
  /\ now \in Timestamps
  /\ outcome = "Ok"

\* Mutant: the writes made before the error was found stay.
Refuse_halfway(answer) ==
  /\ answer # "Ok"
  /\ outcome' = answer
  /\ counter' = IF answer = "InvalidWeight" /\ counter < MaxU64
                THEN counter + 1 ELSE counter
  /\ UNCHANGED <<admin, custodians, tokenMeta, owner, allTokens, now>>

\* The invocation is refused; the host undoes what it wrote.
Refuse(answer) ==
  /\ answer # "Ok"
  /\ outcome' = answer
  /\ UNCHANGED <<storage, now>>

Accept(answer) ==
  /\ answer = "Ok"
  /\ outcome' = "Ok"
  /\ UNCHANGED now

----------------------------------------------------------------------------
(* Administration *)

InitOutcome == IF admin # None THEN "AlreadyInitialized" ELSE "Ok"

Initialise(newAdmin) ==
  \/ Refuse(InitOutcome)
  \/ /\ Accept(InitOutcome)
     /\ admin' = newAdmin
     /\ counter' = 0
     /\ UNCHANGED <<custodians, tokenMeta, owner, allTokens>>

\* Mutant: an absent administrator is nobody to compare with.
AdminOutcome_lax(signer, claimed) ==
  IF signer # claimed THEN "HostError"
  ELSE IF admin # None /\ claimed # admin THEN "Unauthorized"
  ELSE "Ok"

\* What every entry point reserved to the administrator checks first.
AdminOutcome(signer, claimed) ==
  IF signer # claimed THEN "HostError"
  ELSE IF claimed # admin THEN "Unauthorized"
  ELSE "Ok"

AddCustodian(signer, claimed, custodian) ==
  \/ Refuse(AdminOutcome(signer, claimed))
  \/ /\ Accept(AdminOutcome(signer, claimed))
     /\ custodians' = custodians \cup {custodian}
     /\ UNCHANGED <<admin, tokens>>

RemoveCustodian(signer, claimed, custodian) ==
  \/ Refuse(AdminOutcome(signer, claimed))
  \/ /\ Accept(AdminOutcome(signer, claimed))
     /\ custodians' = custodians \ {custodian}
     /\ UNCHANGED <<admin, tokens>>

----------------------------------------------------------------------------
(* Issuing *)

\* Mutant: wrapping_mul
wrapping_mul(x, y) == (x * y) % (MaxU32 + 1)

\* u32::checked_mul
checked_mul(x, y) == IF x * y > MaxU32 THEN None ELSE x * y

\* The counter is advanced and stored before the weight is multiplied out.
MintOutcome(signer, custodian, commodity, bags, perBag) ==
  IF signer # custodian THEN "HostError"
  ELSE IF custodian \notin custodians THEN "Unauthorized"
  ELSE IF commodity \notin AcceptedCommodity THEN "InvalidCommodity"
  ELSE IF bags = 0 \/ perBag = 0 THEN "InvalidWeight"
  ELSE IF counter + 1 > MaxU64 THEN "HostError"
  ELSE IF checked_mul(bags, perBag) = None THEN "InvalidWeight"
  ELSE "Ok"

Minted(custodian, commodity, bags, perBag) ==
  [token_id |-> NewId(counter + 1), commodity |-> commodity,
   bag_count |-> bags, weight_per_bag_kg |-> perBag,
   total_weight_kg |-> checked_mul(bags, perBag), custodian |-> custodian,
   deposit_ts |-> now, is_locked |-> FALSE, parent_token_id |-> None]

Mint(signer, custodian, farmer, commodity, bags, perBag) ==
  LET answer == MintOutcome(signer, custodian, commodity, bags, perBag)
      id     == NewId(counter + 1)
  IN  \/ Refuse(answer)
      \/ /\ Accept(answer)
         /\ counter' = counter + 1
         /\ tokenMeta' = Put(tokenMeta, id, Minted(custodian, commodity, bags, perBag))
         /\ owner' = Put(owner, id, farmer)
         /\ allTokens' = Append(allTokens, id)
         /\ UNCHANGED <<admin, custodians>>

----------------------------------------------------------------------------
(* Pledging *)

LockOutcome(signer, claimed, id) ==
  IF AdminOutcome(signer, claimed) # "Ok" THEN AdminOutcome(signer, claimed)
  ELSE IF id \notin Live THEN "TokenNotFound"
  ELSE IF tokenMeta[id].is_locked THEN "TokenLocked"
  ELSE "Ok"

UnlockOutcome(signer, claimed, id) ==
  IF AdminOutcome(signer, claimed) # "Ok" THEN AdminOutcome(signer, claimed)
  ELSE IF id \notin Live THEN "TokenNotFound"
  ELSE IF ~tokenMeta[id].is_locked THEN "TokenLocked"
  ELSE "Ok"

Lock(signer, claimed, id) ==
  \/ Refuse(LockOutcome(signer, claimed, id))
  \/ /\ Accept(LockOutcome(signer, claimed, id))
     /\ tokenMeta' = [tokenMeta EXCEPT ![id].is_locked = TRUE]
     /\ UNCHANGED <<admin, custodians, counter, owner, allTokens>>

Unlock(signer, claimed, id) ==
  \/ Refuse(UnlockOutcome(signer, claimed, id))
  \/ /\ Accept(UnlockOutcome(signer, claimed, id))
     /\ tokenMeta' = [tokenMeta EXCEPT ![id].is_locked = FALSE]
     /\ UNCHANGED <<admin, custodians, counter, owner, allTokens>>

----------------------------------------------------------------------------
(* Moving, redeeming and splitting *)

TransferOutcome(signer, id, from) ==
  IF id \notin Live \/ id \notin DOMAIN owner THEN "TokenNotFound"
  ELSE IF owner[id] # from THEN "Unauthorized"
  ELSE IF tokenMeta[id].is_locked THEN "TokenLocked"
  ELSE IF signer # from THEN "HostError"
  ELSE "Ok"

Transfer(signer, id, from, to) ==
  \/ Refuse(TransferOutcome(signer, id, from))
  \/ /\ Accept(TransferOutcome(signer, id, from))
     /\ owner' = Put(owner, id, to)
     /\ UNCHANGED <<admin, custodians, counter, tokenMeta, allTokens>>

\* Mutant: the lock is not looked at.
BurnOutcome_unlocked(signer, custodian, id) ==
  IF id \notin Live THEN "TokenNotFound"
  ELSE IF tokenMeta[id].custodian # custodian THEN "Unauthorized"
  ELSE IF signer # custodian THEN "HostError"
  ELSE "Ok"

\* The custodian is compared with the receipt's, not looked up in custodians.
BurnOutcome(signer, custodian, id) ==
  IF id \notin Live THEN "TokenNotFound"
  ELSE IF tokenMeta[id].is_locked THEN "TokenLocked"
  ELSE IF tokenMeta[id].custodian # custodian THEN "Unauthorized"
  ELSE IF signer # custodian THEN "HostError"
  ELSE "Ok"

Burn(signer, custodian, id) ==
  \/ Refuse(BurnOutcome(signer, custodian, id))
  \/ /\ Accept(BurnOutcome(signer, custodian, id))
     /\ tokenMeta' = Remove(tokenMeta, id)
     /\ owner' = Remove(owner, id)
     /\ UNCHANGED <<admin, custodians, counter, allTokens>>

\* Mutant: the lock is not looked at.
SplitOutcome_unlocked(id, amount) ==
  IF id \notin Live THEN "TokenNotFound"
  ELSE IF amount = 0 \/ amount >= tokenMeta[id].total_weight_kg THEN "InvalidWeight"
  ELSE IF counter + 2 > MaxU64 THEN "HostError"
  ELSE "Ok"

\* No authorization is asked for.
SplitOutcome(id, amount) ==
  IF id \notin Live THEN "TokenNotFound"
  ELSE IF tokenMeta[id].is_locked THEN "TokenLocked"
  ELSE IF amount = 0 \/ amount >= tokenMeta[id].total_weight_kg THEN "InvalidWeight"
  ELSE IF counter + 2 > MaxU64 THEN "HostError"
  ELSE IF id \notin DOMAIN owner THEN "TokenNotFound"
  ELSE "Ok"

\* Mutants: a child copied from the parent without one of the resets.
Child_sameId(id, n, weight) ==
  [tokenMeta[id] EXCEPT
     !.bag_count = @ \div 2, !.total_weight_kg = weight,
     !.is_locked = FALSE, !.parent_token_id = tokenMeta[id].token_id]
Child_fullWeight(id, n, weight) ==
  [tokenMeta[id] EXCEPT
     !.token_id = NewId(n), !.bag_count = @ \div 2,
     !.is_locked = FALSE, !.parent_token_id = tokenMeta[id].token_id]
Child_sameParent(id, n, weight) ==
  [tokenMeta[id] EXCEPT
     !.token_id = NewId(n), !.bag_count = @ \div 2, !.total_weight_kg = weight,
     !.is_locked = FALSE]

Child(id, n, weight) ==
  [tokenMeta[id] EXCEPT
     !.token_id = NewId(n), !.bag_count = @ \div 2, !.total_weight_kg = weight,
     !.is_locked = FALSE, !.parent_token_id = tokenMeta[id].token_id]

Split(id, amount) ==
  LET a    == NewId(counter + 1)
      b    == NewId(counter + 2)
      rest == tokenMeta[id].total_weight_kg - amount
  IN  \/ Refuse(SplitOutcome(id, amount))
      \/ /\ Accept(SplitOutcome(id, amount))
         /\ counter' = counter + 2
         /\ tokenMeta' = Remove(Put(Put(tokenMeta, a, Child(id, counter + 1, amount)),
                                    b, Child(id, counter + 2, rest)), id)
         /\ owner' = Remove(Put(Put(owner, a, owner[id]), b, owner[id]), id)
         /\ allTokens' = allTokens \o <<a, b>>
         /\ UNCHANGED <<admin, custodians>>

\* A later ledger closes; its time is never before the last one's.
LedgerCloses ==
  /\ now' \in {t \in Timestamps : t > now}
  /\ UNCHANGED <<storage, outcome>>

----------------------------------------------------------------------------
Next ==
  \/ \E a \in Address : Initialise(a)
  \/ \E s, a, c \in Address : AddCustodian(s, a, c) \/ RemoveCustodian(s, a, c)
  \/ \E s, c, f \in Address, m \in Commodity, d \in Deposits :
       Mint(s, c, f, m, d.bags, d.perBag)
  \/ \E s, a \in Address, id \in Named : Lock(s, a, id) \/ Unlock(s, a, id)
  \/ \E s, f, t \in Address, id \in Named : Transfer(s, id, f, t)
  \/ \E s, c \in Address, id \in Named : Burn(s, c, id)
  \/ \E id \in Named, w \in 0..MaxU32 : Split(id, w)
  \/ LedgerCloses

Spec == Init /\ [][Next]_vars

----------------------------------------------------------------------------
(* The read-only entry points *)

\* None stands for Err(TokenNotFound).
query_token(id) == IF id \in Live THEN tokenMeta[id] ELSE None

\* What the loop over AllTokens has pushed after each of its turns.
Pushed(wallet) ==
  LET pushed[k \in 0..Len(allTokens)] ==
        IF k = 0 THEN <<>>
        ELSE IF allTokens[k] \in DOMAIN owner /\ owner[allTokens[k]] = wallet
             THEN Append(pushed[k - 1], allTokens[k])
             ELSE pushed[k - 1]
  IN  pushed

\* Mutant: the loop over AllTokens stops one short.
query_balance_short(wallet) ==
  Pushed(wallet)[IF allTokens = <<>> THEN 0 ELSE Len(allTokens) - 1]

query_balance(wallet) == Pushed(wallet)[Len(allTokens)]

----------------------------------------------------------------------------
(* Properties *)

TypeOK ==
  /\ admin \in Address \cup {None}
  /\ custodians \subseteq Address
  /\ counter \in 0..MaxU64
  /\ Live \subseteq Id
  /\ tokenMeta \in [Live -> TokenMetadata]
  /\ owner \in [DOMAIN owner -> Address]
  /\ allTokens \in Seq(Id)
  /\ now \in Timestamps
  /\ outcome \in Answers

(***************************************************************************)
(* The three indexes the contract keeps by hand agree after every sequence *)
(* of calls: a receipt has an owner exactly when it has metadata, is found *)
(* under its own id, and is in AllTokens, where query_balance looks.       *)
(* (mint, burn and split write the three entries one by one.)              *)
(***************************************************************************)
StorageCoherent ==
  /\ DOMAIN owner = Live
  /\ Live \subseteq Issued
  /\ \A id \in Live : tokenMeta[id].token_id = id

(***************************************************************************)
(* The counter, the list of issued ids and the numbers in the ids never    *)
(* drift apart, although mint stores the counter before it can still fail  *)
(* and split stores it twice: the k-th id issued carries the number k, so  *)
(* no number is skipped and none is used twice.                            *)
(***************************************************************************)
IdsDense ==
  /\ Len(allTokens) = counter
  /\ \A k \in 1..counter : allTokens[k].n = k

(***************************************************************************)
(* init sets the counter to 0 without looking at it; that cannot make ids  *)
(* repeat because no receipt and no custodian exists before there is an    *)
(* administrator, whatever is called first.                                *)
(***************************************************************************)
NothingBeforeInit ==
  admin = None => custodians = {} /\ counter = 0 /\ Live = {} /\ allTokens = <<>>

(***************************************************************************)
(* query_balance over all wallets lists every live receipt, in one wallet, *)
(* in the order they were issued and so once, and no retired one, although *)
(* AllTokens still holds the ids that burn and split retired.              *)
(***************************************************************************)
BalancesPartitionLive ==
  \A w \in Address :
    LET list == query_balance(w)
    IN  /\ Range(list) = {id \in Live : owner[id] = w}
        /\ \A j, k \in DOMAIN list : j < k => list[j].n < list[k].n

(***************************************************************************)
(* A split receipt's provenance survives further splits, transfers and     *)
(* years: the parent it names was issued before it and is retired, and its *)
(* id is dated no earlier than the parent's or than its deposit.  (split   *)
(* copies deposit_ts but dates the children's ids by the time of the split.)*)
(***************************************************************************)
Lineage ==
  \A id \in Live :
    LET meta == tokenMeta[id]  parent == meta.parent_token_id
    IN  /\ meta.deposit_ts <= now
        /\ year_from_timestamp(meta.deposit_ts) <= id.year
        /\ parent = None => id.year = year_from_timestamp(meta.deposit_ts)
        /\ parent # None =>
             /\ parent \in Issued \ Live
             /\ parent.n < id.n /\ parent.year <= id.year

(***************************************************************************)
(* "A burned token cannot be recovered" (docs/TOKEN_STANDARD.md): an id    *)
(* that was issued and is no longer live never becomes live again, by      *)
(* minting, by splitting or by initialising, and the issue list only grows.*)
(***************************************************************************)
RetiredStep ==
  /\ \A id \in Issued \ Live : id \notin Live'
  /\ SubSeq(allTokens', 1, Len(allTokens)) = allTokens

RetiredForever == [][RetiredStep]_vars

(***************************************************************************)
(* Goods are neither made nor lost on the books: a step keeps the weight   *)
(* of every receipt that stays, and either adds none, or adds one that has *)
(* no parent (a deposit), or replaces one by two that name it and whose    *)
(* weights sum to its own.                                                 *)
(***************************************************************************)
WeightStep ==
  LET gone == Live \ Live'
      new  == Live' \ Live
      weight(id) == tokenMeta[id].total_weight_kg
  IN  /\ \A id \in Live \cap Live' : weight(id)' = weight(id)
      /\ \/ new = {} /\ \A x, y \in gone : x = y
         \/ /\ gone = {}
            /\ \E id \in new : new = {id} /\ tokenMeta'[id].parent_token_id = None
         \/ \E p \in gone, a, b \in new :
              /\ gone = {p} /\ new = {a, b} /\ a # b
              /\ tokenMeta'[a].parent_token_id = p
              /\ tokenMeta'[b].parent_token_id = p
              /\ tokenMeta'[a].total_weight_kg + tokenMeta'[b].total_weight_kg
                   = tokenMeta[p].total_weight_kg

WeightConserved == [][WeightStep]_vars

(***************************************************************************)
(* "A locked token blocks transfer, burn, and split to protect lender      *)
(* collateral" (docs/TOKEN_STANDARD.md): whatever is called, a locked      *)
(* receipt stays, with its owner and its metadata, until it is unlocked.   *)
(***************************************************************************)
CollateralStep ==
  \A id \in Live :
    tokenMeta[id].is_locked =>
      /\ id \in Live'
      /\ owner'[id] = owner[id]
      /\ tokenMeta'[id] = [tokenMeta[id] EXCEPT !.is_locked = tokenMeta'[id].is_locked]

CollateralFrozen == [][CollateralStep]_vars

(***************************************************************************)
(* The contract implements the receipt ledger: each invocation is one step *)
(* of ReceiptLedger or none.                                               *)
(***************************************************************************)
Receipts ==
  [id \in Live |->
     [owner |-> owner[id], custodian |-> tokenMeta[id].custodian,
      weight |-> tokenMeta[id].total_weight_kg, frozen |-> tokenMeta[id].is_locked]]

Ledger == INSTANCE ReceiptLedger WITH
            Party <- Address, Weight <- 1..MaxU32,
            receipts <- Receipts, issued <- Issued

ImplementsLedger == Ledger!LedgerSpec

----------------------------------------------------------------------------
(* What the documentation says and the code does not do *)

(***************************************************************************)
(* "Only addresses that have been registered via add_custodian() may call  *)
(* mint() and burn()" (docs/TOKEN_STANDARD.md:90): a receipt is redeemed   *)
(* only while its custodian is registered.  burn compares the caller with  *)
(* the receipt's custodian and does not look at the registry.              *)
(***************************************************************************)
BurnedByRegistered ==
  [][\A id \in Live \ Live' :
       (\A c \in Live' : tokenMeta'[c].parent_token_id # id)
         => tokenMeta[id].custodian \in custodians]_vars
=============================================================================

--------------------------- MODULE SesameReceipt ----------------------------
(***************************************************************************)
(* The sesame receipt contract (contracts/sesame-receipt/src/lib.rs), a    *)
(* separate crate with its own storage.  It differs from the maize         *)
(* contract in keeping one entry per custodian instead of one map, in the  *)
(* commodity it accepts, and in its read-only entry points (no             *)
(* query_balance; the owner can be asked for).  Everything else was copied *)
(* by hand from the same original, which is why it is modelled from its    *)
(* own lines and shown to implement the same ReceiptLedger.                *)
(*                                                                         *)
(* Conventions as in MaizeReceipt: one action per invocation, XOutcome the *)
(* answer in the order of the early returns, a refused invocation undone   *)
(* by the host.                                                            *)
(***************************************************************************)
EXTENDS TokenIds, ContractStorage, FiniteSets

CONSTANTS Address,     \* accounts
          None,        \* an absent Option
          Commodity,   \* the commodities callers ask for
          Deposits,    \* the [bags, perBag] callers ask for
          MaxU32,      \* u32::MAX, of bag counts and weights
          MaxU64,      \* u64::MAX, of the token counter
          Timestamps   \* the ledger close times

ASSUME SesameAssumption ==
  /\ None \notin Address
  /\ MaxU32 \in Nat
  /\ MaxU64 \in Nat
  /\ Deposits \subseteq [bags : 0..MaxU32, perBag : 0..MaxU32]
  /\ Timestamps \subseteq Nat
  /\ Timestamps # {}

VARIABLES admin,       \* DataKey::Admin
          custodian,   \* DataKey::Custodian(a), TRUE for every a present
          counter,     \* DataKey::TokenCounter
          tokenMeta,   \* DataKey::TokenMeta(id)
          owner,       \* DataKey::Owner(id)
          allTokens,   \* DataKey::AllTokens
          now,         \* the ledger timestamp
          outcome      \* the answer to the last invocation

tokens == <<counter, tokenMeta, owner, allTokens>>
storage == <<admin, custodian, tokens>>
vars == <<admin, custodian, counter, tokenMeta, owner, allTokens, now, outcome>>

Id == [year : {year_from_timestamp(t) : t \in Timestamps}, n : 1..MaxU64]

TokenMetadata ==
  [token_id : Id, commodity : {"SESAME"},
   bag_count : 0..MaxU32, weight_per_bag_kg : 1..MaxU32,
   total_weight_kg : 1..MaxU32, custodian : Address,
   deposit_ts : Timestamps, is_locked : BOOLEAN,
   parent_token_id : Id \cup {None}]

\* No answer of get_token_metadata is taken for an absent one.
ASSUME AbsentAssumption == None \notin TokenMetadata

Answers == {"Ok", "AlreadyInitialized", "Unauthorized", "TokenNotFound",
            "TokenLocked", "InvalidCommodity", "InvalidWeight", "HostError"}

Issued == Range(allTokens)
Live == DOMAIN tokenMeta

\* The ids a caller may name: one issued at some time, or one that never was.
Named == Issued \cup {[year |-> 1969, n |-> 0]}

NewId(n) == [year |-> year_from_timestamp(now), n |-> n]

Init ==
  /\ admin = None
  /\ custodian = NoEntries
  /\ counter = 0
  /\ tokenMeta = NoEntries
  /\ owner = NoEntries
  /\ allTokens = <<>>
  /\ now \in Timestamps
  /\ outcome = "Ok"

Refuse(answer) ==
  /\ answer # "Ok"
  /\ outcome' = answer
  /\ UNCHANGED <<storage, now>>

Accept(answer) ==
  /\ answer = "Ok"
  /\ outcome' = "Ok"
  /\ UNCHANGED now

InitOutcome == IF admin # None THEN "AlreadyInitialized" ELSE "Ok"

Initialise(newAdmin) ==
  \/ Refuse(InitOutcome)
  \/ /\ Accept(InitOutcome)
     /\ admin' = newAdmin
     /\ counter' = 0
     /\ UNCHANGED <<custodian, tokenMeta, owner, allTokens>>

AdminOutcome(signer, claimed) ==
  IF signer # claimed THEN "HostError"
  ELSE IF claimed # admin THEN "Unauthorized"
  ELSE "Ok"

AddCustodian(signer, claimed, a) ==
  \/ Refuse(AdminOutcome(signer, claimed))
  \/ /\ Accept(AdminOutcome(signer, claimed))
     /\ custodian' = Put(custodian, a, TRUE)
     /\ UNCHANGED <<admin, tokens>>

RemoveCustodian(signer, claimed, a) ==
  \/ Refuse(AdminOutcome(signer, claimed))
  \/ /\ Accept(AdminOutcome(signer, claimed))
     /\ custodian' = Remove(custodian, a)
     /\ UNCHANGED <<admin, tokens>>

checked_mul(x, y) == IF x * y > MaxU32 THEN None ELSE x * y

\* Mutant: the product is not looked at.
MintOutcome_unchecked(signer, by, commodity, bags, perBag) ==
  IF signer # by THEN "HostError"
  ELSE IF by \notin DOMAIN custodian THEN "Unauthorized"
  ELSE IF commodity # "SESAME" THEN "InvalidCommodity"
  ELSE IF bags = 0 \/ perBag = 0 THEN "InvalidWeight"
  ELSE IF counter + 1 > MaxU64 THEN "HostError"
  ELSE "Ok"

MintOutcome(signer, by, commodity, bags, perBag) ==
  IF signer # by THEN "HostError"
  ELSE IF by \notin DOMAIN custodian THEN "Unauthorized"
  ELSE IF commodity # "SESAME" THEN "InvalidCommodity"
  ELSE IF bags = 0 \/ perBag = 0 THEN "InvalidWeight"
  ELSE IF counter + 1 > MaxU64 THEN "HostError"
  ELSE IF checked_mul(bags, perBag) = None THEN "InvalidWeight"
  ELSE "Ok"

Mint(signer, by, farmer, commodity, bags, perBag) ==
  LET answer == MintOutcome(signer, by, commodity, bags, perBag)
      id     == NewId(counter + 1)
      meta   == [token_id |-> id, commodity |-> commodity,
                 bag_count |-> bags, weight_per_bag_kg |-> perBag,
                 total_weight_kg |-> checked_mul(bags, perBag),
                 custodian |-> by, deposit_ts |-> now,
                 is_locked |-> FALSE, parent_token_id |-> None]
  IN  \/ Refuse(answer)
      \/ /\ Accept(answer)
         /\ counter' = counter + 1
         /\ tokenMeta' = Put(tokenMeta, id, meta)
         /\ owner' = Put(owner, id, farmer)
         /\ allTokens' = Append(allTokens, id)
         /\ UNCHANGED <<admin, custodian>>

TransferOutcome(signer, id, from) ==
  IF id \notin Live \/ id \notin DOMAIN owner THEN "TokenNotFound"
  ELSE IF owner[id] # from THEN "Unauthorized"
  ELSE IF tokenMeta[id].is_locked THEN "TokenLocked"
  ELSE IF signer # from THEN "HostError"
  ELSE "Ok"

Transfer(signer, id, from, to) ==
  \/ Refuse(TransferOutcome(signer, id, from))
  \/ /\ Accept(TransferOutcome(signer, id, from))
     /\ owner' = Put(owner, id, to)
     /\ UNCHANGED <<admin, custodian, counter, tokenMeta, allTokens>>

BurnOutcome(signer, by, id) ==
  IF id \notin Live THEN "TokenNotFound"
  ELSE IF tokenMeta[id].is_locked THEN "TokenLocked"
  ELSE IF tokenMeta[id].custodian # by THEN "Unauthorized"
  ELSE IF signer # by THEN "HostError"
  ELSE "Ok"

Burn(signer, by, id) ==
  \/ Refuse(BurnOutcome(signer, by, id))
  \/ /\ Accept(BurnOutcome(signer, by, id))
     /\ tokenMeta' = Remove(tokenMeta, id)
     /\ owner' = Remove(owner, id)
     /\ UNCHANGED <<admin, custodian, counter, allTokens>>

LockOutcome(signer, claimed, id) ==
  IF AdminOutcome(signer, claimed) # "Ok" THEN AdminOutcome(signer, claimed)
  ELSE IF id \notin Live THEN "TokenNotFound"
  ELSE IF tokenMeta[id].is_locked THEN "TokenLocked"
  ELSE "Ok"

UnlockOutcome(signer, claimed, id) ==
  IF AdminOutcome(signer, claimed) # "Ok" THEN AdminOutcome(signer, claimed)
  ELSE IF id \notin Live THEN "TokenNotFound"
  ELSE IF ~tokenMeta[id].is_locked THEN "TokenLocked"
  ELSE "Ok"

Lock(signer, claimed, id) ==
  \/ Refuse(LockOutcome(signer, claimed, id))
  \/ /\ Accept(LockOutcome(signer, claimed, id))
     /\ tokenMeta' = [tokenMeta EXCEPT ![id].is_locked = TRUE]
     /\ UNCHANGED <<admin, custodian, counter, owner, allTokens>>

Unlock(signer, claimed, id) ==
  \/ Refuse(UnlockOutcome(signer, claimed, id))
  \/ /\ Accept(UnlockOutcome(signer, claimed, id))
     /\ tokenMeta' = [tokenMeta EXCEPT ![id].is_locked = FALSE]
     /\ UNCHANGED <<admin, custodian, counter, owner, allTokens>>

SplitOutcome(id, amount) ==
  IF id \notin Live THEN "TokenNotFound"
  ELSE IF tokenMeta[id].is_locked THEN "TokenLocked"
  ELSE IF amount = 0 \/ amount >= tokenMeta[id].total_weight_kg THEN "InvalidWeight"
  ELSE IF counter + 2 > MaxU64 THEN "HostError"
  ELSE IF id \notin DOMAIN owner THEN "TokenNotFound"
  ELSE "Ok"

\* Mutant: both children get the amount that was asked for.
Remainder_amount(total, amount) == amount

Remainder(total, amount) == total - amount

Child(id, n, weight) ==
  [tokenMeta[id] EXCEPT
     !.token_id = NewId(n), !.bag_count = @ \div 2, !.total_weight_kg = weight,
     !.is_locked = FALSE, !.parent_token_id = tokenMeta[id].token_id]

\* Mutant: the list learns of the first child only.
Listed_first(a, b) == <<a>>

\* The ids a split pushes to AllTokens.
Listed(a, b) == <<a, b>>

Split(id, amount) ==
  LET a    == NewId(counter + 1)
      b    == NewId(counter + 2)
      rest == Remainder(tokenMeta[id].total_weight_kg, amount)
  IN  \/ Refuse(SplitOutcome(id, amount))
      \/ /\ Accept(SplitOutcome(id, amount))
         /\ counter' = counter + 2
         /\ tokenMeta' = Remove(Put(Put(tokenMeta, a, Child(id, counter + 1, amount)),
                                    b, Child(id, counter + 2, rest)), id)
         /\ owner' = Remove(Put(Put(owner, a, owner[id]), b, owner[id]), id)
         /\ allTokens' = allTokens \o Listed(a, b)
         /\ UNCHANGED <<admin, custodian>>

\* A later ledger closes; its time is never before the last one's.
LedgerCloses ==
  /\ now' \in {t \in Timestamps : t > now}
  /\ UNCHANGED <<storage, outcome>>

Next ==
  \/ \E a \in Address : Initialise(a)
  \/ \E s, a, c \in Address : AddCustodian(s, a, c) \/ RemoveCustodian(s, a, c)
  \/ \E s, c, f \in Address, m \in Commodity, d \in Deposits :
       Mint(s, c, f, m, d.bags, d.perBag)
  \/ \E s, a \in Address, id \in Named : Lock(s, a, id) \/ Unlock(s, a, id)
  \/ \E s, f, t \in Address, id \in Named : Transfer(s, id, f, t)
  \/ \E s, c \in Address, id \in Named : Burn(s, c, id)
  \/ \E id \in Named, w \in 0..MaxU32 : Split(id, w)
  \/ LedgerCloses

Spec == Init /\ [][Next]_vars

\* None stands for Err(TokenNotFound).
get_token_metadata(id) == IF id \in Live THEN tokenMeta[id] ELSE None
get_owner(id) == IF id \in DOMAIN owner THEN owner[id] ELSE None

----------------------------------------------------------------------------
(* Properties *)

TypeOK ==
  /\ admin \in Address \cup {None}
  /\ DOMAIN custodian \subseteq Address
  /\ custodian \in [DOMAIN custodian -> {TRUE}]
  /\ counter \in 0..MaxU64
  /\ Live \subseteq Id
  /\ tokenMeta \in [Live -> TokenMetadata]
  /\ owner \in [DOMAIN owner -> Address]
  /\ allTokens \in Seq(Id)
  /\ now \in Timestamps
  /\ outcome \in Answers

(***************************************************************************)
(* What the off-chain reader relies on: the two read-only entry points,    *)
(* asked about any id, agree on whether it is live (the reconciler asks    *)
(* for the owner first and for the metadata second), a live id is listed   *)
(* in AllTokens, and the k-th id issued carries the number k.              *)
(***************************************************************************)
QueriesAgree ==
  /\ \A id \in Named :
       (get_owner(id) = None) <=> (get_token_metadata(id) = None)
  /\ Live \subseteq Issued
  /\ Len(allTokens) = counter
  /\ \A k \in 1..counter : allTokens[k].n = k

(***************************************************************************)
(* The contract implements the receipt ledger, like the maize contract.    *)
(***************************************************************************)
Receipts ==
  [id \in Live |->
     [owner |-> owner[id], custodian |-> tokenMeta[id].custodian,
      weight |-> tokenMeta[id].total_weight_kg, frozen |-> tokenMeta[id].is_locked]]

Ledger == INSTANCE ReceiptLedger WITH
            Party <- Address, Weight <- 1..MaxU32,
            receipts <- Receipts, issued <- Issued

ImplementsLedger == Ledger!LedgerSpec
=============================================================================

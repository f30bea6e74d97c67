--------------------------- MODULE ReceiptLedger ----------------------------
(***************************************************************************)
(* What a warehouse receipt contract promises, without its counters, its   *)
(* error codes, its administrator or its storage layout: a set of receipts *)
(* under ids that are used once, goods that enter only by a deposit and    *)
(* leave only by a redemption, and a receipt that is neither moved,        *)
(* divided nor redeemed while it is pledged.  MaizeReceipt and             *)
(* SesameReceipt are shown to implement it.                                *)
(***************************************************************************)
EXTENDS Integers

CONSTANTS Party,   \* depositors, custodians, buyers
          Id,      \* every id that can ever be issued
          Weight   \* the weights a receipt may stand for

ASSUME WeightAssumption == Weight \subseteq Nat \ {0}

VARIABLES receipts,  \* the live receipts, a function on their ids
          issued     \* every id ever issued

ledger == <<receipts, issued>>

Receipt == [owner : Party, custodian : Party, weight : Weight, frozen : BOOLEAN]

LedgerTypeOK ==
  /\ issued \subseteq Id
  /\ DOMAIN receipts \subseteq issued
  /\ receipts \in [DOMAIN receipts -> Receipt]

LedgerInit == receipts = [i \in {} |-> {}] /\ issued = {}

Free(i) == i \in DOMAIN receipts /\ ~receipts[i].frozen

\* Goods come in: a receipt under an id never used before.
Deposit(i) ==
  /\ issued' = issued \cup {i}
  /\ \E r \in Receipt :
       /\ ~r.frozen
       /\ receipts' = [j \in DOMAIN receipts \cup {i} |->
                         IF j = i THEN r ELSE receipts[j]]

Assign(i, p) ==
  /\ Free(i)
  /\ receipts' = [receipts EXCEPT ![i].owner = p]
  /\ UNCHANGED issued

Freeze(i) ==
  /\ Free(i)
  /\ receipts' = [receipts EXCEPT ![i].frozen = TRUE]
  /\ UNCHANGED issued

Release(i) ==
  /\ i \in DOMAIN receipts
  /\ receipts[i].frozen
  /\ receipts' = [receipts EXCEPT ![i].frozen = FALSE]
  /\ UNCHANGED issued

\* One receipt becomes two of the same goods, the same owner and custodian.
Divide(i, a, b) ==
  /\ Free(i)
  /\ a # b
  /\ issued' = issued \cup {a, b}
  /\ \E w \in Weight :
       /\ receipts[i].weight - w \in Weight
       /\ receipts' =
            [j \in (DOMAIN receipts \ {i}) \cup {a, b} |->
               IF j = a THEN [receipts[i] EXCEPT !.weight = w]
               ELSE IF j = b THEN [receipts[i] EXCEPT !.weight = @ - w]
               ELSE receipts[j]]

\* Goods leave: the receipt is gone for good, its id stays used.
Redeem(i) ==
  /\ Free(i)
  /\ receipts' = [j \in DOMAIN receipts \ {i} |-> receipts[j]]
  /\ UNCHANGED issued

LedgerNext ==
  \/ \E i \in Id \ issued : Deposit(i)
  \/ \E i \in DOMAIN receipts :
       \/ \E p \in Party : Assign(i, p)
       \/ Freeze(i)
       \/ Release(i)
       \/ Redeem(i)
       \/ \E a, b \in Id \ issued : Divide(i, a, b)

LedgerSpec == LedgerInit /\ [][LedgerNext]_ledger
=============================================================================

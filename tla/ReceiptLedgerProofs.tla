------------------------ MODULE ReceiptLedgerProofs -------------------------
(***************************************************************************)
(* Theorems about what a receipt contract promises, for every set of       *)
(* parties, ids and weights.  The API's verifications and reconciliations  *)
(* rest on them: what they read of a token at one moment stays true of it  *)
(* as long as the token lives.  So do lenders and depositors: a pledge is  *)
(* not undone by anything but its release, and every receipt stands for    *)
(* goods that were deposited.                                              *)
(***************************************************************************)
EXTENDS ReceiptLedger, FiniteSetTheorems, TLAPS

\* What an operation leaves of the ledger: ids stay used; a receipt that lives
\* after it under a used id lived before it, for the same goods of the same custodian.
Lasts ==
  /\ issued \subseteq issued'
  /\ \A i \in issued :
       i \in DOMAIN receipts' =>
         /\ i \in DOMAIN receipts
         /\ receipts'[i].weight = receipts[i].weight
         /\ receipts'[i].custodian = receipts[i].custodian

\* The receipts of an operation that leaves one id's receipt changed.
LEMMA OneChanged ==
  ASSUME LedgerTypeOK, NEW i \in DOMAIN receipts, NEW r \in Receipt,
         receipts' = [receipts EXCEPT ![i] = r], UNCHANGED issued,
         r.weight = receipts[i].weight, r.custodian = receipts[i].custodian
  PROVE  LedgerTypeOK' /\ Lasts
<1>1. DOMAIN receipts' = DOMAIN receipts
  OBVIOUS
<1>2. \A j \in DOMAIN receipts : receipts'[j] = IF j = i THEN r ELSE receipts[j]
  OBVIOUS
<1>3. receipts' \in [DOMAIN receipts' -> Receipt]
  BY <1>1, <1>2 DEF LedgerTypeOK
<1>4. LedgerTypeOK'
  BY <1>1, <1>3 DEF LedgerTypeOK
<1> QED
  BY <1>1, <1>2, <1>4 DEF Lasts

(***************************************************************************)
(* Every operation of the ledger keeps its type, the finiteness of what    *)
(* was issued, and what lasts of it.                                       *)
(***************************************************************************)
LEMMA Operation ==
  ASSUME LedgerTypeOK, LedgerNext
  PROVE  LedgerTypeOK' /\ Lasts /\ (IsFiniteSet(issued) => IsFiniteSet(issued)')
<1> USE DEF LedgerTypeOK
<1>1. ASSUME NEW i \in Id \ issued, Deposit(i)
      PROVE  LedgerTypeOK' /\ Lasts /\ (IsFiniteSet(issued) => IsFiniteSet(issued)')
  <2>1. PICK r \in Receipt :
          receipts' = [j \in DOMAIN receipts \cup {i} |-> IF j = i THEN r ELSE receipts[j]]
    BY <1>1 DEF Deposit
  <2>2. issued' = issued \cup {i}
    BY <1>1 DEF Deposit
  <2>3. IsFiniteSet(issued) => IsFiniteSet(issued)'
    BY <2>2, FS_AddElement
  <2>4. LedgerTypeOK'
    BY <2>1, <2>2
  <2>5. Lasts
    BY <2>1, <2>2 DEF Lasts
  <2> QED
    BY <2>3, <2>4, <2>5
<1>2. ASSUME NEW i \in DOMAIN receipts, NEW p \in Party, Assign(i, p)
      PROVE  LedgerTypeOK' /\ Lasts /\ (IsFiniteSet(issued) => IsFiniteSet(issued)')
  <2>1. receipts[i] \in Receipt
    OBVIOUS
  <2>2. [receipts[i] EXCEPT !.owner = p] \in Receipt
    BY <2>1 DEF Receipt
  <2>3. receipts' = [receipts EXCEPT ![i] = [receipts[i] EXCEPT !.owner = p]]
    BY <1>2 DEF Assign
  <2> QED
    BY <1>2, <2>1, <2>2, <2>3, OneChanged DEF Assign, Receipt
<1>3. ASSUME NEW i \in DOMAIN receipts, Freeze(i)
      PROVE  LedgerTypeOK' /\ Lasts /\ (IsFiniteSet(issued) => IsFiniteSet(issued)')
  <2>1. receipts[i] \in Receipt
    OBVIOUS
  <2>2. [receipts[i] EXCEPT !.frozen = TRUE] \in Receipt
    BY <2>1 DEF Receipt
  <2>3. receipts' = [receipts EXCEPT ![i] = [receipts[i] EXCEPT !.frozen = TRUE]]
    BY <1>3 DEF Freeze
  <2> QED
    BY <1>3, <2>1, <2>2, <2>3, OneChanged DEF Freeze, Receipt
<1>4. ASSUME NEW i \in DOMAIN receipts, Release(i)
      PROVE  LedgerTypeOK' /\ Lasts /\ (IsFiniteSet(issued) => IsFiniteSet(issued)')
  <2>1. receipts[i] \in Receipt
    OBVIOUS
  <2>2. [receipts[i] EXCEPT !.frozen = FALSE] \in Receipt
    BY <2>1 DEF Receipt
  <2>3. receipts' = [receipts EXCEPT ![i] = [receipts[i] EXCEPT !.frozen = FALSE]]
    BY <1>4 DEF Release
  <2> QED
    BY <1>4, <2>1, <2>2, <2>3, OneChanged DEF Release, Receipt
<1>5. ASSUME NEW i \in DOMAIN receipts, Redeem(i)
      PROVE  LedgerTypeOK' /\ Lasts /\ (IsFiniteSet(issued) => IsFiniteSet(issued)')
  BY <1>5 DEF Redeem, Lasts
<1>6. ASSUME NEW i \in DOMAIN receipts,
             NEW a \in Id \ issued, NEW b \in Id \ issued, Divide(i, a, b)
      PROVE  LedgerTypeOK' /\ Lasts /\ (IsFiniteSet(issued) => IsFiniteSet(issued)')
  <2>1. PICK w \in Weight :
          /\ receipts[i].weight - w \in Weight
          /\ receipts' =
               [j \in (DOMAIN receipts \ {i}) \cup {a, b} |->
                  IF j = a THEN [receipts[i] EXCEPT !.weight = w]
                  ELSE IF j = b THEN [receipts[i] EXCEPT !.weight = @ - w]
                  ELSE receipts[j]]
    BY <1>6 DEF Divide
  <2>2. issued' = issued \cup {a, b}
    BY <1>6 DEF Divide
  <2>3. [receipts[i] EXCEPT !.weight = w] \in Receipt
    BY <2>1 DEF Receipt
  <2>4. [receipts[i] EXCEPT !.weight = @ - w] \in Receipt
    BY <2>1 DEF Receipt
  <2>5. LedgerTypeOK'
    BY <2>1, <2>2, <2>3, <2>4
  <2>6. Lasts
    BY <2>1, <2>2 DEF Lasts
  <2>7. IsFiniteSet(issued) => IsFiniteSet(issued)'
    <3>1. issued' = (issued \cup {a}) \cup {b}
      BY <2>2
    <3> QED
      BY <3>1, FS_AddElement
  <2> QED
    BY <2>5, <2>6, <2>7
<1> QED
  BY <1>1, <1>2, <1>3, <1>4, <1>5, <1>6 DEF LedgerNext

\* A ledger starts well typed, with nothing issued.
LEMMA Deployment ==
  ASSUME LedgerInit
  PROVE  LedgerTypeOK /\ IsFiniteSet(issued)
  BY FS_EmptySet DEF LedgerInit, LedgerTypeOK

\* Without an operation all of it lasts.
LEMMA Rest ==
  ASSUME LedgerTypeOK, UNCHANGED ledger
  PROVE  LedgerTypeOK' /\ Lasts /\ (IsFiniteSet(issued) => IsFiniteSet(issued)')
  BY DEF LedgerTypeOK, ledger, Lasts

(***************************************************************************)
(* On every ledger a used id never comes back to life, and a receipt keeps *)
(* its weight and its custodian until it is redeemed or divided: goods are *)
(* never lost, gained or carried to another store while a receipt for them *)
(* lives.                                                                  *)
(***************************************************************************)
THEOREM ReceiptsLast == LedgerSpec => []LedgerTypeOK /\ [][Lasts]_ledger
<1>1. LedgerInit => LedgerTypeOK
  BY Deployment
<1>2. LedgerTypeOK /\ [LedgerNext]_ledger => LedgerTypeOK'
  BY Operation, Rest
<1>3. LedgerTypeOK /\ [LedgerNext]_ledger => [Lasts]_ledger
  BY Operation, Rest
<1> QED
  BY <1>1, <1>2, <1>3, PTL DEF LedgerSpec

----------------------------------------------------------------------------
(* Pledges and goods *)

\* An operation leaves a pledged receipt alone, but for lifting the pledge.
PledgeBinds ==
  \A i \in DOMAIN receipts :
    receipts[i].frozen =>
      /\ i \in DOMAIN receipts'
      /\ receipts'[i] = [receipts[i] EXCEPT !.frozen = receipts'[i].frozen]

\* An operation takes in goods under one new id, or gives out those of one receipt,
\* or divides one receipt's between two new ids of the same owner and custodian, or
\* does none of this.
GoodsBalance ==
  LET gone == DOMAIN receipts \ DOMAIN receipts'
      new  == DOMAIN receipts' \ DOMAIN receipts
  IN  \/ gone = {} /\ \E i \in Id \ issued : new = {i}
      \/ new = {} /\ \A i, j \in gone : i = j
      \/ \E i \in gone, a, b \in Id \ issued :
           /\ gone = {i} /\ new = {a, b} /\ a # b
           /\ receipts'[a].weight + receipts'[b].weight = receipts[i].weight
           /\ \A c \in {a, b} : /\ receipts'[c].owner = receipts[i].owner
                                /\ receipts'[c].custodian = receipts[i].custodian

\* Each operation is one of the four kinds, and asks that the receipt is free.
LEMMA Careful ==
  ASSUME LedgerTypeOK, LedgerNext
  PROVE  PledgeBinds /\ GoodsBalance
<1>1. ASSUME NEW i \in Id \ issued, Deposit(i)
      PROVE  PledgeBinds /\ GoodsBalance
  <2>1. PICK r \in Receipt :
          receipts' = [j \in DOMAIN receipts \cup {i} |-> IF j = i THEN r ELSE receipts[j]]
    BY <1>1 DEF Deposit
  <2>2. i \notin DOMAIN receipts
    BY DEF LedgerTypeOK
  <2>3. /\ DOMAIN receipts' = DOMAIN receipts \cup {i}
        /\ \A j \in DOMAIN receipts : receipts'[j] = receipts[j] /\ receipts[j] \in Receipt
    BY <2>1, <2>2 DEF LedgerTypeOK
  <2>4. PledgeBinds
    BY <2>3 DEF PledgeBinds, Receipt
  <2>5. GoodsBalance
    BY <2>2, <2>3 DEF GoodsBalance
  <2> QED
    BY <2>4, <2>5
<1>2. ASSUME NEW i \in DOMAIN receipts, NEW r \in Receipt,
             receipts' = [receipts EXCEPT ![i] = r],
             receipts[i].frozen => r = [receipts[i] EXCEPT !.frozen = FALSE]
      PROVE  PledgeBinds /\ GoodsBalance
  <2>1. /\ DOMAIN receipts' = DOMAIN receipts
        /\ \A j \in DOMAIN receipts : /\ receipts'[j] = IF j = i THEN r ELSE receipts[j]
                                      /\ receipts[j] \in Receipt
    BY <1>2 DEF LedgerTypeOK
  <2>2. PledgeBinds
    BY <1>2, <2>1 DEF PledgeBinds, Receipt
  <2>3. GoodsBalance
    BY <2>1 DEF GoodsBalance
  <2> QED
    BY <2>2, <2>3
<1>3. ASSUME NEW i \in DOMAIN receipts, NEW p \in Party, Assign(i, p)
      PROVE  PledgeBinds /\ GoodsBalance
  <2>1. receipts[i] \in Receipt /\ ~receipts[i].frozen
    BY <1>3 DEF Assign, Free, LedgerTypeOK
  <2>2. [receipts[i] EXCEPT !.owner = p] \in Receipt
    BY <2>1 DEF Receipt
  <2> QED
    BY <1>2, <1>3, <2>1, <2>2 DEF Assign
<1>4. ASSUME NEW i \in DOMAIN receipts, Freeze(i)
      PROVE  PledgeBinds /\ GoodsBalance
  <2>1. receipts[i] \in Receipt /\ ~receipts[i].frozen
    BY <1>4 DEF Freeze, Free, LedgerTypeOK
  <2>2. [receipts[i] EXCEPT !.frozen = TRUE] \in Receipt
    BY <2>1 DEF Receipt
  <2> QED
    BY <1>2, <1>4, <2>1, <2>2 DEF Freeze
<1>5. ASSUME NEW i \in DOMAIN receipts, Release(i)
      PROVE  PledgeBinds /\ GoodsBalance
  <2>1. receipts[i] \in Receipt
    BY DEF LedgerTypeOK
  <2>2. [receipts[i] EXCEPT !.frozen = FALSE] \in Receipt
    BY <2>1 DEF Receipt
  <2> QED
    BY <1>2, <1>5, <2>2 DEF Release
<1>6. ASSUME NEW i \in DOMAIN receipts, Redeem(i)
      PROVE  PledgeBinds /\ GoodsBalance
  <2>1. /\ ~receipts[i].frozen
        /\ DOMAIN receipts' = DOMAIN receipts \ {i}
        /\ \A j \in DOMAIN receipts \ {i} : receipts'[j] = receipts[j]
        /\ \A j \in DOMAIN receipts : receipts[j] \in Receipt
    BY <1>6 DEF Redeem, Free, LedgerTypeOK
  <2>2. PledgeBinds
    BY <2>1 DEF PledgeBinds, Receipt
  <2>3. GoodsBalance
    BY <2>1 DEF GoodsBalance
  <2> QED
    BY <2>2, <2>3
<1>7. ASSUME NEW i \in DOMAIN receipts, NEW a \in Id \ issued, NEW b \in Id \ issued,
             Divide(i, a, b)
      PROVE  PledgeBinds /\ GoodsBalance
  <2>1. PICK w \in Weight :
          /\ receipts[i].weight - w \in Weight
          /\ receipts' =
               [j \in (DOMAIN receipts \ {i}) \cup {a, b} |->
                  IF j = a THEN [receipts[i] EXCEPT !.weight = w]
                  ELSE IF j = b THEN [receipts[i] EXCEPT !.weight = @ - w]
                  ELSE receipts[j]]
    BY <1>7 DEF Divide
  <2>2. /\ ~receipts[i].frozen /\ a # b
        /\ a \notin DOMAIN receipts /\ b \notin DOMAIN receipts
        /\ \A j \in DOMAIN receipts : receipts[j] \in Receipt
    BY <1>7 DEF Divide, Free, LedgerTypeOK
  <2>3. /\ DOMAIN receipts' = (DOMAIN receipts \ {i}) \cup {a, b}
        /\ \A j \in DOMAIN receipts \ {i} : receipts'[j] = receipts[j]
        /\ receipts'[a] = [receipts[i] EXCEPT !.weight = w]
        /\ receipts'[b] = [receipts[i] EXCEPT !.weight = receipts[i].weight - w]
    BY <2>1, <2>2
  <2>4. PledgeBinds
    BY <2>2, <2>3 DEF PledgeBinds, Receipt
  <2>5. /\ receipts'[a].weight + receipts'[b].weight = receipts[i].weight
        /\ \A c \in {a, b} : /\ receipts'[c].owner = receipts[i].owner
                             /\ receipts'[c].custodian = receipts[i].custodian
    BY <2>2, <2>3, WeightAssumption DEF Receipt
  <2>6. /\ DOMAIN receipts \ DOMAIN receipts' = {i}
        /\ DOMAIN receipts' \ DOMAIN receipts = {a, b}
    BY <2>2, <2>3
  <2>7. GoodsBalance
    BY <2>2, <2>5, <2>6 DEF GoodsBalance
  <2> QED
    BY <2>4, <2>7
<1> QED
  BY <1>1, <1>3, <1>4, <1>5, <1>6, <1>7 DEF LedgerNext

\* Without an operation nothing changes.
LEMMA NothingDone ==
  ASSUME LedgerTypeOK, UNCHANGED ledger
  PROVE  PledgeBinds /\ GoodsBalance
  BY DEF LedgerTypeOK, Receipt, ledger, PledgeBinds, GoodsBalance

(***************************************************************************)
(* On every ledger a pledged receipt stays, with its owner and its goods,  *)
(* until the pledge is lifted: what a lender was shown cannot be moved,    *)
(* divided or redeemed away.                                               *)
(***************************************************************************)
THEOREM PledgesBind == LedgerSpec => [][PledgeBinds]_ledger
<1>1. LedgerTypeOK /\ [LedgerNext]_ledger => [PledgeBinds]_ledger
  BY Careful, NothingDone
<1> QED
  BY <1>1, ReceiptsLast, PTL DEF LedgerSpec

(***************************************************************************)
(* On every ledger receipts come and go only as goods do, or one by two of *)
(* the same weight together: no sequence of operations makes receipts for  *)
(* goods that were not deposited.                                          *)
(***************************************************************************)
THEOREM GoodsBalanced == LedgerSpec => [][GoodsBalance]_ledger
<1>1. LedgerTypeOK /\ [LedgerNext]_ledger => [GoodsBalance]_ledger
  BY Careful, NothingDone
<1> QED
  BY <1>1, ReceiptsLast, PTL DEF LedgerSpec
=============================================================================

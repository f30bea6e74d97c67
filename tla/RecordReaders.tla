--------------------------- MODULE RecordReaders ----------------------------
(***************************************************************************)
(* What is told from the token database while the reconciler works on it:  *)
(* the summary of a warehouse (apps/api/src/routes/warehouse.routes.ts)    *)
(* and a receipt's certificate (sdk/src/lib/pdf/certificate.ts).  The one  *)
(* reads the store and answers without an await, the other is given a      *)
(* record, which nobody changes in place; neither changes anything.  They  *)
(* are operators on the states of Reconcile.                               *)
(*                                                                         *)
(* A record's warehouse is the receipt's depositor field, where the        *)
(* reconciler puts it.  Of the fields fixed at the mint Reconcile keeps    *)
(* one, which stands for the warehouse here: a warehouse is a Party.       *)
(***************************************************************************)
EXTENDS Reconcile, FiniteSets

\* The store's records of a warehouse, in any order the store may have them.
getTokensByWarehouse(w) ==
  {[k \in DOMAIN ids |-> db[ids[k]]] :
     ids \in SequencesOf!SetToSeqs({id \in DOMAIN db : db[id].receipt.custodian = w})}

EmptyStats == [totalWeight |-> 0, unit |-> "kg", minted |-> 0]

\* Mutant: the weight is that of the last record.
Aggregated_last(stats, token) ==
  [totalWeight |-> token.receipt.quantity, unit |-> token.receipt.unit,
   minted |-> stats.minted + 1]

\* One turn of the loop: weights are added up in whatever unit they are, and the
\* last record names the unit.
Aggregated(stats, token) ==
  [totalWeight |-> stats.totalWeight + token.receipt.quantity,
   unit |-> token.receipt.unit, minted |-> stats.minted + 1]

\* The loop: what it has after each of its turns.
Aggregation(tokens) ==
  LET stats[k \in 0..Len(tokens)] ==
        IF k = 0 THEN EmptyStats ELSE Aggregated(stats[k - 1], tokens[k])
  IN  stats

aggregateWarehouseStats(tokens) == Aggregation(tokens)[Len(tokens)]

\* The answers a summary of a warehouse, or of no warehouse, may have.  Nothing
\* is ever counted as locked or transferred.  (500 is for a store that throws.)
handleWarehouseSummary(w) ==
  IF w = None THEN {[status |-> 400]}
  ELSE {LET stats == aggregateWarehouseStats(tokens)
        IN  [status |-> 200, totalTokens |-> Len(tokens),
             totalWeight |-> stats.totalWeight, unit |-> stats.unit,
             minted |-> stats.minted, locked |-> 0, transferred |-> 0] :
          tokens \in getTokensByWarehouse(w)}

\* Mutant: the warehouse on the certificate is the owner.
generateCertificatePdf_owner(record) ==
  [owner |-> record.owner, quantity |-> record.receipt.quantity, unit |-> record.receipt.unit,
   custodian |-> record.owner,
   timesTooFar |-> record.receipt.issuedAt]

\* What the certificate of a record says: times are taken for seconds, so a
\* record in milliseconds is dated a thousand times too far.
generateCertificatePdf(record) ==
  [owner |-> record.owner, quantity |-> record.receipt.quantity, unit |-> record.receipt.unit,
   custodian |-> record.receipt.custodian,
   timesTooFar |-> record.receipt.issuedAt]

----------------------------------------------------------------------------
(* Properties *)

\* The tokens of a warehouse that the chain has and the database keeps.
Held(w) == {id \in DOMAIN db \cap DOMAIN receipts : receipts[id].custodian = w}

\* The kilograms that the chain has of some tokens, told apart.
Kilograms(ids) == UNION {{id} \X (1..receipts[id].weight) : id \in ids}

\* A summary gives the number and the kilograms of the warehouse's tokens.
SummaryTrue(w) ==
  \A summary \in handleWarehouseSummary(w) :
    /\ summary.totalTokens = Cardinality(Held(w))
    /\ summary.totalWeight = Cardinality(Kilograms(Held(w)))
    /\ summary.unit = "kg"

\* A certificate gives the token's owner, weight and custodian, and dates that are
\* a thousand times too far.
CertificateTrue(id) ==
  generateCertificatePdf(db[id]) =
    [owner |-> receipts[id].owner, quantity |-> receipts[id].weight, unit |-> "kg",
     custodian |-> receipts[id].custodian, timesTooFar |-> 1000]

(***************************************************************************)
(* A store that agrees with the chain on every live token, and has none    *)
(* else, is reported as it is: whatever was filed before, in whatever      *)
(* order the store lists it and however many records are added up, the     *)
(* summary of every warehouse and the certificate of every token are       *)
(* true.                                                                   *)
(***************************************************************************)
ReadersTrue ==
  Repaired /\ DOMAIN db \subseteq DOMAIN receipts =>
    /\ \A w \in Party : SummaryTrue(w)
    /\ \A id \in DOMAIN db : CertificateTrue(id)

(***************************************************************************)
(* However records were filed, under the wrong warehouse, in other units   *)
(* of weight (of which a summary makes one sum) or with times in another   *)
(* scale: once chain and requests are quiet, every live token's certifi-   *)
(* cate comes to give its owner, weight and custodian, with dates a thou-  *)
(* sand times too far on all of them alike, and the summary of every ware- *)
(* house comes to give the number and the kilograms that the chain has of  *)
(* its tokens recorded, and both keep to it.  The summary only if no       *)
(* record of a token that is gone is left in the warehouse: that depends   *)
(* on the text of the chain's errors, and with the deployed contract's     *)
(* such a record stays (ReconcileGone) and goes on being counted.          *)
(***************************************************************************)
Padded(w) == \E id \in DOMAIN db \ DOMAIN receipts : db[id].receipt.custodian = w
ReadersSettle ==
  /\ \A w \in Party : <>[](Padded(w) \/ SummaryTrue(w))
  /\ \A id \in Id : <>[](id \in DOMAIN db \cap DOMAIN receipts => CertificateTrue(id))
=============================================================================

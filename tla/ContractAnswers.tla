-------------------------- MODULE ContractAnswers ---------------------------
(***************************************************************************)
(* What the receipt contracts answer to the calls that the SDK makes, and  *)
(* what they keep of them, as far as the calls can tell: the administrator,*)
(* the registry, and one receipt, which may not be issued yet.  The checks *)
(* stand in the order of the code, which is the same in both contracts.    *)
(* MaizeReceipt and SesameReceipt have the whole of their storage.         *)
(*                                                                         *)
(* A transaction's signer is the address that its call names first; `who'  *)
(* is the other address and `kg' the weight.  Goods have the contract's    *)
(* commodity and weights whose product fits u32.                           *)
(***************************************************************************)
EXTENDS Naturals

CONSTANT None

Unissued == [at |-> "unissued", owner |-> None, custodian |-> None, kg |-> 0, locked |-> FALSE]
Retired == [Unissued EXCEPT !.at = "gone"]
Issued(owner, custodian, kg) ==
  [at |-> "live", owner |-> owner, custodian |-> custodian, kg |-> kg, locked |-> FALSE]

Live(k) == k.receipt.at = "live"

\* ContractError, numbered alike in both contracts.
Discriminant == [AlreadyInitialized |-> 1, Unauthorized |-> 2, TokenNotFound |-> 3,
                 TokenLocked |-> 4, InvalidCommodity |-> 5, InvalidWeight |-> 6]

----------------------------------------------------------------------------
(* Ok, or the first objection, of contract k *)

initAnswer(k) == IF k.admin = None THEN "Ok" ELSE "AlreadyInitialized"

\* add_custodian and remove_custodian: without an administrator for nobody.
custodianAnswer(k, admin) == IF k.admin = admin THEN "Ok" ELSE "Unauthorized"

mintAnswer(k, custodian, kg) ==
  IF custodian \notin k.custodians THEN "Unauthorized"
  ELSE IF kg = 0 THEN "InvalidWeight" ELSE "Ok"

transferAnswer(k, from) ==
  IF ~Live(k) THEN "TokenNotFound"
  ELSE IF k.receipt.owner # from THEN "Unauthorized"
  ELSE IF k.receipt.locked THEN "TokenLocked" ELSE "Ok"

\* Mutant: burn looks the caller up in the registry.
burnAnswer_registered(k, custodian) ==
  IF ~Live(k) THEN "TokenNotFound"
  ELSE IF k.receipt.locked THEN "TokenLocked"
  ELSE IF custodian \notin k.custodians THEN "Unauthorized" ELSE "Ok"

burnAnswer(k, custodian) ==
  IF ~Live(k) THEN "TokenNotFound"
  ELSE IF k.receipt.locked THEN "TokenLocked"
  ELSE IF k.receipt.custodian # custodian THEN "Unauthorized" ELSE "Ok"

\* The caller is not compared with anyone.
splitAnswer(k, kg) ==
  IF ~Live(k) THEN "TokenNotFound"
  ELSE IF k.receipt.locked THEN "TokenLocked"
  ELSE IF kg = 0 \/ kg >= k.receipt.kg THEN "InvalidWeight" ELSE "Ok"

Answer(k, tx) ==
  CASE tx.fn = "init" -> initAnswer(k)
    [] tx.fn \in {"add_custodian", "remove_custodian"} -> custodianAnswer(k, tx.signer)
    [] tx.fn = "mint" -> mintAnswer(k, tx.signer, tx.kg)
    [] tx.fn = "transfer" -> transferAnswer(k, tx.signer)
    [] tx.fn = "burn" -> burnAnswer(k, tx.signer)
    [] tx.fn = "split" -> splitAnswer(k, tx.kg)

----------------------------------------------------------------------------
(* What contract k becomes by a call to which it has no objection *)

\* A mint of the next receipt issues it; later ones issue others.
Minted(k, custodian, owner, kg) ==
  IF k.receipt.at = "unissued" THEN [k EXCEPT !.receipt = Issued(owner, custodian, kg)] ELSE k

\* Mutant: the receipt's entries are left in the store.
Dissolved_kept(k) == k

\* burn and split remove the receipt's entries.
Dissolved(k) == [k EXCEPT !.receipt = Retired]

After(k, tx) ==
  CASE tx.fn = "init" -> [k EXCEPT !.admin = tx.signer]
    [] tx.fn = "add_custodian" -> [k EXCEPT !.custodians = @ \cup {tx.who}]
    [] tx.fn = "remove_custodian" -> [k EXCEPT !.custodians = @ \ {tx.who}]
    [] tx.fn = "mint" -> Minted(k, tx.signer, tx.who, tx.kg)
    [] tx.fn = "transfer" -> [k EXCEPT !.receipt.owner = tx.who]
    [] tx.fn \in {"burn", "split"} -> Dissolved(k)

\* What the administrator may do to the receipt: lock it if it is not locked,
\* and unlock it if it is.
Relocked(k) == [k EXCEPT !.receipt.locked = ~@]
MayRelock(k) == k.admin # None /\ Live(k)
=============================================================================

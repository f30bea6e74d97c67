----------------------------- MODULE Reconcile ------------------------------
(***************************************************************************)
(* The reconciliation job (apps/api/src/jobs/reconcile.job.ts): passes     *)
(* over the token database that repair it from the chain.  The scheduler   *)
(* starts a pass every quarter of an hour whether or not the last one has  *)
(* ended, so several passes may be in flight; requests file and remove     *)
(* records meanwhile.  The JavaScript runs from one await to the next      *)
(* without interruption: an action is one such stretch, or the RPC server  *)
(* dealing with a query.                                                   *)
(***************************************************************************)
EXTENDS ChainQueries, ContractStorage, Sequences

SequencesOf == INSTANCE SequencesExt

CONSTANTS Pass,        \* the passes that may be in flight together
          Unit,        \* the units requests file weights in, "kg" among them
          TimeScale,   \* and times: parts of a second, 1000 among them
          None         \* undefined

ASSUME ReconcileAssumption == "kg" \in Unit /\ 1000 \in TimeScale /\ None \notin Party

VARIABLES db,          \* the store: a function on the ids that have a record
          pass,        \* where each pass stands
          requested,   \* what requests did about an id
          undisturbed  \* history: passes since whose start nobody else acted

vars == <<receipts, issued, height, failures, db, pass, requested, undisturbed>>

----------------------------------------------------------------------------
(* Records and their correction *)

\* The fields of a receipt that can be told apart.  The commodity, the grade and
\* the warehouse are, like the custodian, fixed at the mint, and so is the time
\* of the deposit: a record differs from the chain in the scale it is written in.
TokenReceipt == [quantity : Weight, custodian : Party, unit : Unit, issuedAt : TimeScale]
TokenRecord == [owner : Party, receipt : TokenReceipt]

\* Mutant: the quantity is stored in tonnes.
mapMetadataToReceipt_tonnes(meta) ==
  [quantity |-> meta.weight \div 1000, custodian |-> meta.custodian,
   unit |-> "kg", issuedAt |-> 1000]

mapMetadataToReceipt(meta) ==
  [quantity |-> meta.weight, custodian |-> meta.custodian, unit |-> "kg", issuedAt |-> 1000]

\* Mutant: the custodian is not compared.
receiptsEqual_quantity(a, b) == a.quantity = b.quantity

receiptsEqual(a, b) ==
  /\ a.quantity = b.quantity
  /\ a.custodian = b.custodian
  /\ a.unit = b.unit
  /\ a.issuedAt = b.issuedAt

\* The record after both corrections; metadata that could not be had corrects nothing.
Corrected(record, chainOwner, meta) ==
  [owner |-> chainOwner,
   receipt |->
     IF meta.ok /\ ~receiptsEqual(record.receipt, mapMetadataToReceipt(meta.value))
     THEN mapMetadataToReceipt(meta.value)
     ELSE record.receipt]

----------------------------------------------------------------------------
(* A pass *)

Idle == [at |-> "idle", todo |-> <<>>, id |-> None, dbRecord |-> None,
         chainOwner |-> None, answer |-> None]

Asking(todo, store, k) ==
  [Idle EXCEPT !.at = "asksOwner", !.id = todo[k], !.dbRecord = store[todo[k]],
               !.todo = SubSeq(todo, k + 1, Len(todo))]

NextInStore(todo, store) == SequencesOf!SelectInSeq(todo, LAMBDA id : id \in DOMAIN store)

\* Mutant: the list is left one token early.
GoOn_short(p, todo, store) ==
  LET k == NextInStore(todo, store)
  IN  pass' = [pass EXCEPT ![p] =
                 IF k = 0 \/ Len(todo) = 1 THEN Idle ELSE Asking(todo, store, k)]

\* The loop goes on: the next listed id that still has a record, if there is
\* one, has it read and its owner asked for.
GoOn(p, todo, store) ==
  LET k == NextInStore(todo, store)
  IN  pass' = [pass EXCEPT ![p] = IF k = 0 THEN Idle ELSE Asking(todo, store, k)]

\* The schedule fires; the store lists its ids in some order.
Start(p) ==
  /\ pass[p] = Idle
  /\ \E order \in SequencesOf!SetToSeqs(DOMAIN db) : GoOn(p, order, db)
  /\ undisturbed' = undisturbed \cup {p}
  /\ UNCHANGED <<chain, failures, db, requested>>

\* The RPC server simulates the query a pass is waiting on.
Answered(p, asks, answered, answers) ==
  /\ pass[p].at = asks
  /\ \E answer \in answers :
       pass' = [pass EXCEPT ![p].at = answered, ![p].answer = answer]
  /\ UNCHANGED <<chain, db, requested>>

AnswerOwner(p) ==
  /\ Answered(p, "asksOwner", "hasOwner", queryOwner(pass[p].id))
  /\ UNCHANGED <<failures, undisturbed>>

AnswerToken(p) ==
  /\ Answered(p, "asksToken", "hasToken", queryToken(pass[p].id))
  /\ UNCHANGED <<failures, undisturbed>>

Timeout(p) ==
  /\ failures < MaxFailures
  /\ failures' = failures + 1
  /\ undisturbed' = {}
  /\ \/ Answered(p, "asksOwner", "hasOwner", {Failed("RPC timeout")})
     \/ Answered(p, "asksToken", "hasToken", {Failed("RPC timeout")})

\* queryOwner returned an owner: the metadata is asked for.
OwnerKnown(p) ==
  /\ pass[p].at = "hasOwner"
  /\ pass[p].answer.ok
  /\ pass' = [pass EXCEPT ![p].at = "asksToken", ![p].answer = None,
                          ![p].chainOwner = pass[p].answer.value]
  /\ UNCHANGED <<chain, failures, db, requested, undisturbed>>

\* queryOwner threw: a token that is not on the chain loses its record,
\* any other error is noted and the pass goes on.
OwnerUnknown(p) ==
  /\ pass[p].at = "hasOwner"
  /\ ~pass[p].answer.ok
  /\ db' = IF isTokenNotFoundError(pass[p].answer.error) THEN Remove(db, pass[p].id) ELSE db
  /\ GoOn(p, pass[p].todo, db')
  /\ undisturbed' = IF db' = db THEN undisturbed ELSE undisturbed \cap {p}
  /\ UNCHANGED <<chain, failures, requested>>

\* queryToken returned or threw: a changed record is stored, whole.
Persist(p) ==
  LET record == Corrected(pass[p].dbRecord, pass[p].chainOwner, pass[p].answer)
  IN  /\ pass[p].at = "hasToken"
      /\ db' = IF record # pass[p].dbRecord THEN Put(db, pass[p].id, record) ELSE db
      /\ GoOn(p, pass[p].todo, db')
      /\ undisturbed' = IF db' = db THEN undisturbed ELSE undisturbed \cap {p}
      /\ UNCHANGED <<chain, failures, requested>>

----------------------------------------------------------------------------
(* The rest of the world *)

ChainActs ==
  /\ ChainMoves
  /\ undisturbed' = {}
  /\ UNCHANGED <<failures, db, pass, requested>>

\* A request files a record of a token it saw issued, accurate or not.
FileRecord(id) ==
  /\ id \in issued
  /\ requested[id] = "nothing"
  /\ requested' = [requested EXCEPT ![id] = "filed"]
  /\ \E record \in TokenRecord : db' = Put(db, id, record)
  /\ undisturbed' = {}
  /\ UNCHANGED <<chain, failures, pass>>

\* A request removes a record.
RemoveRecord(id) ==
  /\ id \in DOMAIN db
  /\ requested[id] = "filed"
  /\ requested' = [requested EXCEPT ![id] = "removed"]
  /\ db' = Remove(db, id)
  /\ undisturbed' = {}
  /\ UNCHANGED <<chain, failures, pass>>

----------------------------------------------------------------------------

Init ==
  /\ LedgerInit
  /\ height = 0
  /\ failures = 0
  /\ db = NoEntries
  /\ pass = [p \in Pass |-> Idle]
  /\ requested = [id \in Id |-> "nothing"]
  /\ undisturbed = {}

\* What the process and the RPC server do for a pass.
Work(p) ==
  \/ Start(p)
  \/ AnswerOwner(p)
  \/ AnswerToken(p)
  \/ OwnerKnown(p)
  \/ OwnerUnknown(p)
  \/ Persist(p)

Next ==
  \/ \E p \in Pass : Work(p) \/ Timeout(p)
  \/ ChainActs
  \/ \E id \in Id : FileRecord(id) \/ RemoveRecord(id)

Spec == Init /\ [][Next]_vars

\* The schedule keeps firing, and every query is dealt with sooner or later.
FairSpec == Spec /\ \A p \in Pass : WF_vars(Work(p))

----------------------------------------------------------------------------
(* Properties *)

TypeOK ==
  /\ LedgerTypeOK
  /\ height \in 0..MaxHeight
  /\ failures \in 0..MaxFailures
  /\ DOMAIN db \subseteq issued
  /\ db \in [DOMAIN db -> TokenRecord]
  /\ \A p \in Pass :
       pass[p] # Idle => pass[p].id \in issued /\ pass[p].dbRecord \in TokenRecord
  /\ requested \in [Id -> {"nothing", "filed", "removed"}]
  /\ undisturbed \subseteq Pass

\* A record says of a token that is on the chain what the chain says.
InSync(id) ==
  /\ db[id].owner = receipts[id].owner
  /\ db[id].receipt = mapMetadataToReceipt(receipts[id])

Repaired == \A id \in DOMAIN db \cap DOMAIN receipts : InSync(id)

(***************************************************************************)
(* One pass is enough: when a pass ends that no request, no ledger         *)
(* operation, no failed query and no other pass interfered with, every     *)
(* record of a live token says what the chain says.                        *)
(***************************************************************************)
PassRepairs(p) ==
  (p \in undisturbed' /\ pass[p] # Idle /\ pass'[p] = Idle) => Repaired'
OnePassSuffices == [][\A p \in Pass : PassRepairs(p)]_vars

(***************************************************************************)
(* A pass takes away only records of tokens that are gone, whatever the    *)
(* queries it makes, the failures among them and the other passes: a live  *)
(* token never loses its record to the job.                                *)
(***************************************************************************)
LiveKept == (pass' # pass) => (DOMAIN db \ DOMAIN db') \cap DOMAIN receipts = {}
LiveNeverForgotten == [][LiveKept]_vars

(***************************************************************************)
(* Once the chain and the requests are quiet and the outages over, the     *)
(* database is repaired and stays so, although passes overlap and may      *)
(* store what they learnt long ago.                                        *)
(***************************************************************************)
Convergence == <>[]Repaired

(***************************************************************************)
(* "If a chain query returns "token not found" [...] the DB record is      *)
(* removed" (lines 21-22): no record of a burned or divided token is left  *)
(* for good.                                                               *)
(***************************************************************************)
GoneForgotten == <>[](DOMAIN db \subseteq DOMAIN receipts)

(***************************************************************************)
(* "Removed mid-iteration by a concurrent request - skip silently" (line   *)
(* 130): a record that a request removed is not brought back by a pass.    *)
(***************************************************************************)
RemovedStaysRemoved == \A id \in DOMAIN db : requested[id] # "removed"
=============================================================================

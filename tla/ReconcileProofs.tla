-------------------------- MODULE ReconcileProofs ---------------------------
(***************************************************************************)
(* Theorems about the reconciliation job, for every set of tokens, parties *)
(* and passes, however many passes overlap, and whatever the texts of the  *)
(* chain's errors; and about the summaries and certificates made from the  *)
(* records, however many there are.                                        *)
(***************************************************************************)
EXTENDS RecordReaders, ReceiptLedgerProofs

----------------------------------------------------------------------------
(* The inductive invariant *)

OwnerAnswer == [ok : {TRUE}, value : Party] \cup [ok : {FALSE}, error : Errors]
TokenAnswer == [ok : {TRUE}, value : Receipt] \cup [ok : {FALSE}, error : Errors]

\* The places of a pass that has come to a step.
Step(at, owners, answers) ==
  [at : {at}, todo : Seq(Id), id : Id, dbRecord : TokenRecord,
   chainOwner : owners, answer : answers]

Place ==
  {Idle} \cup Step("asksOwner", {None}, {None}) \cup Step("hasOwner", {None}, OwnerAnswer)
    \cup Step("asksToken", Party, {None}) \cup Step("hasToken", Party, TokenAnswer)

\* What a store may hold.
Store(store) == DOMAIN store \subseteq issued /\ store \in [DOMAIN store -> TokenRecord]

Typed ==
  /\ LedgerTypeOK
  /\ IsFiniteSet(issued)
  /\ height \in 0..MaxHeight
  /\ failures \in 0..MaxFailures
  /\ Store(db)
  /\ pass \in [Pass -> Place]
  /\ requested \in [Id -> {"nothing", "filed", "removed"}]
  /\ undisturbed \subseteq Pass

Listed(i, todo) == \E k \in DOMAIN todo : todo[k] = i

Agrees(record, receipt) ==
  record.owner = receipt.owner /\ record.receipt = mapMetadataToReceipt(receipt)

\* What any pass knows for good: a token said not to be there will never be.
Stands(place) ==
  place # Idle =>
    /\ place.id \in issued
    /\ (/\ place.at = "hasOwner"
        /\ ~place.answer.ok
        /\ isTokenNotFoundError(place.answer.error)) => place.id \notin DOMAIN receipts

\* What a pass that nobody interfered with knows: its record is the store's, its
\* answers are the chain's, and whatever needs repair is ahead of it.
Follows(place, store) ==
  place # Idle =>
    /\ place.id \in DOMAIN store
    /\ place.dbRecord = store[place.id]
    /\ \A i \in DOMAIN store \cap DOMAIN receipts :
         Agrees(store[i], receipts[i]) \/ i = place.id \/ Listed(i, place.todo)
    /\ place.at = "hasOwner" => place.answer \in queryOwner(place.id)
    /\ place.at \in {"asksToken", "hasToken"} =>
         place.id \in DOMAIN receipts /\ place.chainOwner = receipts[place.id].owner
    /\ place.at = "hasToken" => place.answer \in queryToken(place.id)

IInv ==
  /\ Typed
  /\ \A p \in Pass : Stands(pass[p])
  /\ \A p \in undisturbed : Follows(pass[p], db)

----------------------------------------------------------------------------
(* Lists and stores *)

\* What is proved of recursion and of sets of numbers; no state matters there.
Numbers == INSTANCE TokenIdsProofs WITH
             start <- db, day <- db, date <- db, counter <- db,
             Starts <- {}, Contracts <- {}, Days <- 0, LastSecondDay <- 0

\* The instance meets the assumption of its module.
LEMMA NumbersAssumption ==
  {} \subseteq [era : Nat, counter : Nat] /\ 0 \in Nat /\ 0 \in 0..Numbers!LastWholeDay
  BY SMT DEF Numbers!LastWholeDay

\* The next listed id that the store holds comes after ids that it does not hold.
LEMMA NextFound ==
  ASSUME NEW S, NEW todo \in Seq(S), NEW store, NEW k, k = NextInStore(todo, store)
  PROVE  \/ k = 0 /\ \A j \in 1..Len(todo) : todo[j] \notin DOMAIN store
         \/ /\ k \in 1..Len(todo)
            /\ todo[k] \in DOMAIN store
            /\ \A j \in 1..Len(todo) : todo[j] \in DOMAIN store => k <= j
<1> DEFINE I == {j \in 1..Len(todo) : todo[j] \in DOMAIN store}
<1>1. k = IF I # {} THEN SequencesOf!Min(I) ELSE 0
  BY DEF NextInStore, SequencesOf!SelectInSeq
<1>2. CASE I = {}
  BY <1>1, <1>2
<1>3. CASE I # {}
  <2>1. I \in SUBSET Nat
    OBVIOUS
  <2>2. \E x \in I : \A y \in I : x <= y
    BY <1>3, <2>1, NumbersAssumption, Numbers!LeastExists, Zenon
  <2>3. k \in I /\ \A y \in I : k <= y
    BY <1>1, <1>3, <2>2 DEF SequencesOf!Min
  <2> QED
    BY <2>3
<1> QED
  BY <1>2, <1>3

\* The store lists every id it holds, once.
LEMMA ListedOnce ==
  ASSUME NEW S, IsFiniteSet(S), NEW order \in SequencesOf!SetToSeqs(S)
  PROVE  /\ Cardinality(S) \in Nat
         /\ order \in Bijection(1..Cardinality(S), S)
<1> DEFINE n == Cardinality(S)
<1>1. n \in Nat
  BY FS_CardinalityType
<1> HIDE DEF n
<1>2. SequencesOf!Cardinality(S) = Cardinality(S)
  BY DEF SequencesOf!Cardinality, Cardinality
<1>3. order \in [1..n -> S] /\ \A i, j \in 1..n : i # j => order[i] # order[j]
  BY <1>2 DEF SequencesOf!SetToSeqs, n
<1>4. order \in Injection(1..n, S)
  BY <1>3 DEF Injection, IsInjective
<1>5. IsFiniteSet(1..n) /\ Cardinality(1..n) = n
  BY <1>1, FS_Interval
<1>6. order \in Surjection(1..n, S)
  BY <1>4, <1>5, FS_Injection DEF n
<1> QED
  BY <1>1, <1>4, <1>6 DEF Bijection, n

LEMMA AllListed ==
  ASSUME NEW S, IsFiniteSet(S), NEW order \in SequencesOf!SetToSeqs(S)
  PROVE  order \in Seq(S) /\ \A i \in S : Listed(i, order)
<1> DEFINE n == Cardinality(S)
<1>1. n \in Nat /\ order \in Bijection(1..n, S)
  BY ListedOnce
<1> HIDE DEF n
<1>2. order \in [1..n -> S] /\ \A i \in S : \E k \in 1..n : order[k] = i
  BY <1>1 DEF Bijection, Injection, Surjection
<1> QED
  BY <1>1, <1>2 DEF Listed

\* A store that gains, changes or loses a record.
LEMMA Stored ==
  ASSUME Typed, NEW id \in issued, NEW record \in TokenRecord
  PROVE  /\ Store(Put(db, id, record)) /\ Store(Remove(db, id))
         /\ DOMAIN Put(db, id, record) = DOMAIN db \cup {id}
         /\ Put(db, id, record)[id] = record
         /\ \A i \in DOMAIN db : i # id => Put(db, id, record)[i] = db[i]
         /\ DOMAIN Remove(db, id) = DOMAIN db \ {id}
         /\ \A i \in DOMAIN Remove(db, id) : Remove(db, id)[i] = db[i]
  BY DEF Typed, Store, Put, Remove, Restrict

----------------------------------------------------------------------------
(* A pass goes from place to place *)

\* A place with another step, owner and answer.
Later(at, place, chainOwner, answer) ==
  [at |-> at, todo |-> place.todo, id |-> place.id, dbRecord |-> place.dbRecord,
   chainOwner |-> chainOwner, answer |-> answer]

\* A pass is its fields.
LEMMA Fields ==
  ASSUME NEW place \in Place
  PROVE  place = Later(place.at, place, place.chainOwner, place.answer)
  BY DEF Place, Step, Idle, Later

\* A pass with another place and answer, written out.
LEMMA TwoChanged ==
  ASSUME NEW place \in Place, NEW at, NEW answer
  PROVE  [place EXCEPT !.at = at, !.answer = answer]
           = Later(at, place, place.chainOwner, answer)
<1> DEFINE r == Later(place.at, place, place.chainOwner, place.answer)
           q == Later(at, place, place.chainOwner, place.answer)
<1>1. [r EXCEPT !.at = at] = q
  BY DEF Later
<1>2. [q EXCEPT !.answer = answer] = Later(at, place, place.chainOwner, answer)
  BY DEF Later
<1>3. place = r
  BY Fields
<1> HIDE DEF r, q
<1>4. [place EXCEPT !.at = at, !.answer = answer]
        = [[place EXCEPT !.at = at] EXCEPT !.answer = answer]
  BY Zenon
<1> QED
  BY <1>1, <1>2, <1>3, <1>4, Zenon

\* A pass with another place, answer and owner, written out.
LEMMA ThreeChanged ==
  ASSUME NEW place \in Place, NEW at, NEW answer, NEW owner
  PROVE  [place EXCEPT !.at = at, !.answer = answer, !.chainOwner = owner]
           = Later(at, place, owner, answer)
<1> DEFINE q == Later(at, place, place.chainOwner, answer)
<1>1. [q EXCEPT !.chainOwner = owner] = Later(at, place, owner, answer)
  BY DEF Later
<1>2. [place EXCEPT !.at = at, !.answer = answer] = q
  BY TwoChanged
<1> HIDE DEF q
<1>3. [place EXCEPT !.at = at, !.answer = answer, !.chainOwner = owner]
        = [[place EXCEPT !.at = at, !.answer = answer] EXCEPT !.chainOwner = owner]
  BY Zenon
<1> QED
  BY <1>1, <1>2, <1>3, Zenon

\* A pass that asks for the owner of its k-th token, written out.
LEMMA Asked ==
  ASSUME NEW todo, NEW store, NEW k
  PROVE  Asking(todo, store, k) =
           [at |-> "asksOwner", todo |-> SubSeq(todo, k + 1, Len(todo)), id |-> todo[k],
            dbRecord |-> store[todo[k]], chainOwner |-> None, answer |-> None]
<1> DEFINE P(at, list, id, record) ==
             [at |-> at, todo |-> list, id |-> id, dbRecord |-> record,
              chainOwner |-> None, answer |-> None]
           rest == SubSeq(todo, k + 1, Len(todo))
           a == P("idle", <<>>, None, None)
           b == P("asksOwner", <<>>, None, None)
           c == P("asksOwner", <<>>, todo[k], None)
           d == P("asksOwner", <<>>, todo[k], store[todo[k]])
           e == P("asksOwner", rest, todo[k], store[todo[k]])
<1> HIDE DEF rest
<1>1. [a EXCEPT !.at = "asksOwner"] = b
  OBVIOUS
<1>2. [b EXCEPT !.id = todo[k]] = c
  OBVIOUS
<1>3. [c EXCEPT !.dbRecord = store[todo[k]]] = d
  OBVIOUS
<1>4. [d EXCEPT !.todo = rest] = e
  OBVIOUS
<1>5. Idle = a
  BY DEF Idle
<1> HIDE DEF a, b, c, d, e
<1>6. Asking(todo, store, k) =
        [[[[Idle EXCEPT !.at = "asksOwner"] EXCEPT !.id = todo[k]]
            EXCEPT !.dbRecord = store[todo[k]]] EXCEPT !.todo = rest]
  BY Zenon DEF Asking, rest
<1>7. Asking(todo, store, k) = e
  BY <1>1, <1>2, <1>3, <1>4, <1>5, <1>6, Zenon
<1> QED
  BY <1>7 DEF e, rest

\* Where the loop goes on: at a listed id that has a record, with every later one
\* still listed, or nowhere when no listed id has a record.
LEMMA LoopGoesOn ==
  ASSUME pass \in [Pass -> Place], NEW p \in Pass, NEW todo \in Seq(Id), NEW store,
         store \in [DOMAIN store -> TokenRecord], GoOn(p, todo, store)
  PROVE  \E place \in Place :
           /\ pass' = [pass EXCEPT ![p] = place]
           /\ place = Idle \/ place \in Step("asksOwner", {None}, {None})
           /\ place # Idle => /\ place.id \in DOMAIN store
                              /\ place.dbRecord = store[place.id]
           /\ \A i \in DOMAIN store :
                Listed(i, todo) => /\ place # Idle
                                   /\ i = place.id \/ Listed(i, place.todo)
<1> DEFINE k == NextInStore(todo, store)
<1> HIDE DEF k
<1>1. \/ k = 0 /\ \A j \in 1..Len(todo) : todo[j] \notin DOMAIN store
      \/ /\ k \in 1..Len(todo)
         /\ todo[k] \in DOMAIN store
         /\ \A j \in 1..Len(todo) : todo[j] \in DOMAIN store => k <= j
  BY NextFound DEF k
<1>2. pass' = [pass EXCEPT ![p] = IF k = 0 THEN Idle ELSE Asking(todo, store, k)]
  BY DEF GoOn, k
<1>3. CASE k = 0
  <2>1. \A i \in DOMAIN store : ~Listed(i, todo)
    BY <1>1, <1>3 DEF Listed
  <2> QED
    BY <1>2, <1>3, <2>1 DEF Place
<1>4. CASE k \in 1..Len(todo) /\ todo[k] \in DOMAIN store
           /\ \A j \in 1..Len(todo) : todo[j] \in DOMAIN store => k <= j
  <2> DEFINE place == [at |-> "asksOwner", todo |-> SubSeq(todo, k + 1, Len(todo)),
                       id |-> todo[k], dbRecord |-> store[todo[k]],
                       chainOwner |-> None, answer |-> None]
  <2> DEFINE n == Len(todo)
  <2>1. n \in Nat /\ k \in Nat /\ k # 0 /\ k <= n
    BY <1>4
  <2>2. Asking(todo, store, k) = place
    BY Asked
  <2>3. place \in Step("asksOwner", {None}, {None}) /\ place # Idle
    BY <1>4 DEF Step, Idle
  <2>4. ASSUME NEW i \in DOMAIN store, Listed(i, todo)
        PROVE  i = place.id \/ Listed(i, place.todo)
    <3>1. PICK j \in 1..Len(todo) : todo[j] = i
      BY <2>4 DEF Listed
    <3>2. CASE j = k
      BY <3>1, <3>2
    <3>3. CASE j # k
      <4>1. n \in Nat /\ k \in 1..n /\ j \in 1..n /\ k < j
        BY <1>4, <2>1, <2>4, <3>1, <3>3
      <4>2. place.todo = SubSeq(todo, k + 1, n)
        OBVIOUS
      <4>3. Len(place.todo) = n - k /\ \A m \in 1..(n - k) : place.todo[m] = todo[k + m]
        <5> HIDE DEF place
        <5>1. todo \in Seq(Id) /\ k + 1 \in 1..(n + 1) /\ n \in 0..n
          BY <2>1
        <5> QED
          BY <2>1, <4>2, <5>1
      <4> HIDE DEF place, n
      <4>4. j - k \in 1..(n - k) /\ k + (j - k) = j
        BY <4>1
      <4>5. place.todo[j - k] = todo[j]
        BY <4>3, <4>4
      <4>6. DOMAIN place.todo = 1..(n - k)
        BY <2>1, <4>2, <4>3 DEF n
      <4> QED
        BY <3>1, <4>4, <4>5, <4>6 DEF Listed
    <3> QED
      BY <3>2, <3>3
  <2>5. place.id = todo[k] /\ place.dbRecord = store[todo[k]]
    OBVIOUS
  <2> HIDE DEF place
  <2>6. pass' = [pass EXCEPT ![p] = place]
    BY <1>2, <2>1, <2>2
  <2> QED
    BY <1>4, <2>3, <2>4, <2>6, <2>5 DEF Place
<1> QED
  BY <1>1, <1>3, <1>4

(***************************************************************************)
(* A pass moves while the ledger stands still.  What the other passes know *)
(* of the store is only kept when the store is.                            *)
(***************************************************************************)
LEMMA Moves ==
  ASSUME IInv, NEW p \in Pass, NEW place \in Place,
         pass' = [pass EXCEPT ![p] = place],
         UNCHANGED <<chain, requested>>,
         failures' \in 0..MaxFailures,
         Store(db'),
         Stands(place),
         undisturbed' \subseteq undisturbed \cup {p},
         db' = db \/ undisturbed' \subseteq {p},
         p \in undisturbed' => Follows(place, db')
  PROVE  IInv'
<1>1. Typed'
  BY DEF IInv, Typed, chain, LedgerTypeOK, Store
<1>2. pass'[p] = place /\ \A q \in Pass \ {p} : pass'[q] = pass[q]
  BY DEF IInv, Typed
<1>3. receipts' = receipts /\ issued' = issued
  BY DEF chain
<1>4. \A q \in Pass : Stands(pass[q])'
  BY <1>2, <1>3 DEF IInv, Stands
<1>5. ASSUME NEW q \in undisturbed'
      PROVE  Follows(pass[q], db)'
  <2>1. CASE q = p
    BY <1>2, <1>3, <2>1 DEF Follows, queryOwner, queryToken
  <2>2. CASE q # p
    <3>1. q \in undisturbed /\ db' = db /\ q \in Pass
      BY <1>5, <2>2 DEF IInv, Typed
    <3> QED
      BY <1>2, <1>3, <2>2, <3>1 DEF IInv, Follows, queryOwner, queryToken
  <2> QED
    BY <2>1, <2>2
<1> QED
  BY <1>1, <1>4, <1>5 DEF IInv

\* The world around the passes: it may change the ledger and the store, and
\* leaves no pass undisturbed.
LEMMA Outside ==
  ASSUME IInv, LedgerTypeOK', Lasts, IsFiniteSet(issued)',
         height' \in 0..MaxHeight, Store(db)',
         requested' \in [Id -> {"nothing", "filed", "removed"}],
         undisturbed' = {}, UNCHANGED <<failures, pass>>
  PROVE  IInv'
<1>1. Typed'
  BY DEF IInv, Typed
<1>2. \A p \in Pass : Stands(pass[p])'
  BY DEF IInv, Stands, Lasts
<1> QED
  BY <1>1, <1>2 DEF IInv

----------------------------------------------------------------------------
(* The steps of a pass *)

\* The store stands still, and no pass comes to its end.
NoneEnds == db' = db /\ \A q \in Pass : pass'[q] = Idle => pass[q] = Idle

\* Starting a pass: whatever order the store is listed in, GoOn asks about a
\* record the store holds, or the pass ends having listed nothing.
LEMMA StartKeeps ==
  ASSUME IInv, NEW p \in Pass, Start(p)
  PROVE  IInv' /\ NoneEnds
<1>1. PICK order \in SequencesOf!SetToSeqs(DOMAIN db) : GoOn(p, order, db)
  BY DEF Start
<1>2. IsFiniteSet(DOMAIN db) /\ DOMAIN db \subseteq Id
  BY FS_Subset DEF IInv, Typed, Store, LedgerTypeOK
<1>3. order \in Seq(DOMAIN db) /\ \A i \in DOMAIN db : Listed(i, order)
  BY <1>2, AllListed
<1>4. order \in Seq(Id)
  BY <1>2, <1>3
<1>5. PICK place \in Place :
        /\ pass' = [pass EXCEPT ![p] = place]
        /\ place = Idle \/ place \in Step("asksOwner", {None}, {None})
        /\ place # Idle => place.id \in DOMAIN db /\ place.dbRecord = db[place.id]
        /\ \A i \in DOMAIN db :
             Listed(i, order) => place # Idle /\ (i = place.id \/ Listed(i, place.todo))
  BY <1>1, <1>4, LoopGoesOn DEF IInv, Typed, Store
<1>6. place # Idle => place.at = "asksOwner"
  BY <1>5 DEF Step
<1>7. Stands(place) /\ Follows(place, db)
  BY <1>3, <1>5, <1>6 DEF Stands, Follows, IInv, Typed, Store
<1>8. UNCHANGED <<chain, failures, db, requested>> /\ undisturbed' = undisturbed \cup {p}
  BY DEF Start
<1>9. failures' \in 0..MaxFailures /\ Store(db')
  BY <1>8 DEF IInv, Typed, Store
<1>10. NoneEnds
  BY <1>5, <1>8 DEF NoneEnds, IInv, Typed, Start
<1> QED
  BY <1>5, <1>7, <1>8, <1>9, <1>10, Moves

\* What the places of a pass that waits for an answer are made of.
LEMMA Waits ==
  ASSUME IInv, NEW p \in Pass
  PROVE  /\ pass[p] \in Place
         /\ pass[p].at # "idle" => pass[p] # Idle
         /\ pass[p].at = "asksOwner" => pass[p] \in Step("asksOwner", {None}, {None})
         /\ pass[p].at = "hasOwner" => pass[p] \in Step("hasOwner", {None}, OwnerAnswer)
         /\ pass[p].at = "asksToken" => pass[p] \in Step("asksToken", Party, {None})
         /\ pass[p].at = "hasToken" => pass[p] \in Step("hasToken", Party, TokenAnswer)
  BY DEF IInv, Typed, Place, Step, Idle

\* An answer of the server moves one pass, and only its place and answer.
LEMMA AnsweredMoves ==
  ASSUME IInv, NEW p \in Pass, NEW asks, NEW answered, NEW answers,
         asks # "idle", Answered(p, asks, answered, answers)
  PROVE  \E answer \in answers :
           pass' = [pass EXCEPT ![p] = Later(answered, pass[p], pass[p].chainOwner, answer)]
<1>1. PICK answer \in answers :
        pass' = [pass EXCEPT ![p].at = answered, ![p].answer = answer]
  BY DEF Answered
<1>2. pass' = [pass EXCEPT ![p] = [pass[p] EXCEPT !.at = answered, !.answer = answer]]
  BY <1>1
<1>3. pass[p] \in Place
  BY Waits
<1>4. [pass[p] EXCEPT !.at = answered, !.answer = answer]
        = Later(answered, pass[p], pass[p].chainOwner, answer)
  BY <1>3, TwoChanged, Zenon
<1> QED
  BY <1>2, <1>4

\* The owner query answers with a party or an error.
LEMMA OwnerAnswers ==
  ASSUME Typed, NEW id
  PROVE  queryOwner(id) \subseteq OwnerAnswer
<1>1. id \in DOMAIN receipts => receipts[id].owner \in Party
  BY DEF Typed, LedgerTypeOK, Receipt
<1>2. \A owner \in Party : Found(owner) \in OwnerAnswer
  BY DEF Found, OwnerAnswer
<1>3. \A text \in GoneTexts : Failed(text) \in OwnerAnswer
  BY DEF Failed, Errors, OwnerAnswer
<1> QED
  BY <1>1, <1>2, <1>3 DEF queryOwner, Gone

\* The token query answers with a receipt or an error.
LEMMA TokenAnswers ==
  ASSUME Typed, NEW id
  PROVE  queryToken(id) \subseteq TokenAnswer
<1>1. id \in DOMAIN receipts => receipts[id] \in Receipt
  BY DEF Typed, LedgerTypeOK
<1>2. \A receipt \in Receipt : Found(receipt) \in TokenAnswer
  BY DEF Found, TokenAnswer
<1>3. \A text \in GoneTexts : Failed(text) \in TokenAnswer
  BY DEF Failed, Errors, TokenAnswer
<1> QED
  BY <1>1, <1>2, <1>3 DEF queryToken, Gone

\* An owner's answer that is no owner means that the token is not there.
LEMMA NoOwner ==
  ASSUME NEW id, NEW answer \in queryOwner(id)
  PROVE  ~answer.ok <=> id \notin DOMAIN receipts
  BY DEF queryOwner, Gone, Found, Failed

\* The answer about the owner is one the ledger gave while the pass was waiting.
LEMMA AnswerOwnerKeeps ==
  ASSUME IInv, NEW p \in Pass, AnswerOwner(p)
  PROVE  IInv' /\ NoneEnds
<1>1. PICK answer \in queryOwner(pass[p].id) :
        pass' = [pass EXCEPT ![p] = Later("hasOwner", pass[p], pass[p].chainOwner, answer)]
  BY AnsweredMoves DEF AnswerOwner
<1>2. pass[p].at = "asksOwner"
  BY DEF AnswerOwner, Answered
<1> DEFINE place == Later("hasOwner", pass[p], pass[p].chainOwner, answer)
<1>3. pass[p] \in Step("asksOwner", {None}, {None}) /\ pass[p] # Idle
  BY <1>2, Waits
<1>4. answer \in OwnerAnswer
  BY OwnerAnswers DEF IInv
<1>5. place \in Step("hasOwner", {None}, OwnerAnswer)
  BY <1>3, <1>4 DEF Step, Later
<1>6. place.at = "hasOwner" /\ place.id = pass[p].id /\ place.answer = answer
      /\ place.todo = pass[p].todo /\ place.dbRecord = pass[p].dbRecord
  BY DEF Later
<1> HIDE DEF place
<1>7. Stands(place)
  BY <1>3, <1>6, NoOwner DEF IInv, Stands
<1>8. p \in undisturbed => Follows(place, db)
  BY <1>3, <1>6 DEF IInv, Follows
<1>9. UNCHANGED <<chain, failures, db, requested, undisturbed>>
  BY DEF AnswerOwner, Answered
<1>10. failures' \in 0..MaxFailures /\ Store(db')
  BY <1>9 DEF IInv, Typed, Store
<1>11. place # Idle
  BY <1>6 DEF Idle
<1>12. NoneEnds
  BY <1>1, <1>9, <1>11 DEF NoneEnds, IInv, Typed, place
<1> QED
  BY <1>1, <1>5, <1>7, <1>8, <1>9, <1>10, <1>12, Moves DEF Place, place

\* So is the answer about the metadata.
LEMMA AnswerTokenKeeps ==
  ASSUME IInv, NEW p \in Pass, AnswerToken(p)
  PROVE  IInv' /\ NoneEnds
<1>1. PICK answer \in queryToken(pass[p].id) :
        pass' = [pass EXCEPT ![p] = Later("hasToken", pass[p], pass[p].chainOwner, answer)]
  BY AnsweredMoves DEF AnswerToken
<1>2. pass[p].at = "asksToken"
  BY DEF AnswerToken, Answered
<1> DEFINE place == Later("hasToken", pass[p], pass[p].chainOwner, answer)
<1>3. pass[p] \in Step("asksToken", Party, {None}) /\ pass[p] # Idle
  BY <1>2, Waits
<1>4. answer \in TokenAnswer
  BY TokenAnswers DEF IInv
<1>5. place \in Step("hasToken", Party, TokenAnswer)
  BY <1>3, <1>4 DEF Step, Later
<1>6. place.at = "hasToken" /\ place.id = pass[p].id /\ place.answer = answer
      /\ place.todo = pass[p].todo /\ place.dbRecord = pass[p].dbRecord
      /\ place.chainOwner = pass[p].chainOwner
  BY DEF Later
<1> HIDE DEF place
<1>7. Stands(place)
  BY <1>3, <1>6 DEF IInv, Stands
<1>8. p \in undisturbed => Follows(place, db)
  BY <1>2, <1>3, <1>6 DEF IInv, Follows
<1>9. UNCHANGED <<chain, failures, db, requested, undisturbed>>
  BY DEF AnswerToken, Answered
<1>10. failures' \in 0..MaxFailures /\ Store(db')
  BY <1>9 DEF IInv, Typed, Store
<1>11. place # Idle
  BY <1>6 DEF Idle
<1>12. NoneEnds
  BY <1>1, <1>9, <1>11 DEF NoneEnds, IInv, Typed, place
<1> QED
  BY <1>1, <1>5, <1>7, <1>8, <1>9, <1>10, <1>12, Moves DEF Place, place

\* A query that fails is no sign of a burned token.
LEMMA TimeoutKeeps ==
  ASSUME IInv, NEW p \in Pass, Timeout(p)
  PROVE  IInv' /\ NoneEnds
<1> DEFINE answer == Failed("RPC timeout")
           place(answered) == Later(answered, pass[p], pass[p].chainOwner, answer)
<1>1. answer \in OwnerAnswer /\ answer \in TokenAnswer
      /\ ~isTokenNotFoundError(answer.error)
  BY DEF Failed, OwnerAnswer, TokenAnswer, Errors, isTokenNotFoundError
<1>2. UNCHANGED <<chain, requested, db>> /\ undisturbed' = {}
  BY DEF Timeout, Answered
<1>3. failures \in 0..MaxFailures /\ failures < MaxFailures /\ failures' = failures + 1
  BY DEF Timeout, IInv, Typed
<1>4. failures' \in 0..MaxFailures
  BY <1>3, ChainAssumption
<1>5. failures' \in 0..MaxFailures /\ Store(db') /\ undisturbed' = {}
      /\ UNCHANGED <<chain, requested, db>>
  BY <1>2, <1>4 DEF IInv, Typed, Store
<1>6. CASE Answered(p, "asksOwner", "hasOwner", {Failed("RPC timeout")})
  <2>1. pass' = [pass EXCEPT ![p] = place("hasOwner")]
    BY <1>6, AnsweredMoves
  <2>2. pass[p] \in Step("asksOwner", {None}, {None}) /\ pass[p] # Idle
    BY <1>6, Waits DEF Answered
  <2>3. place("hasOwner") \in Place
    BY <1>1, <2>2 DEF Step, Later, Place
  <2>4. Stands(place("hasOwner"))
    BY <1>1, <2>2 DEF IInv, Stands, Later
  <2>5. NoneEnds
    <3>1. place("hasOwner") # Idle
      BY DEF Later, Idle
    <3> QED
      BY <1>5, <2>1, <3>1 DEF NoneEnds, IInv, Typed
  <2> QED
    BY <1>5, <2>1, <2>3, <2>4, <2>5, Moves
<1>7. CASE Answered(p, "asksToken", "hasToken", {Failed("RPC timeout")})
  <2>1. pass' = [pass EXCEPT ![p] = place("hasToken")]
    BY <1>7, AnsweredMoves
  <2>2. pass[p] \in Step("asksToken", Party, {None}) /\ pass[p] # Idle
    BY <1>7, Waits DEF Answered
  <2>3. place("hasToken") \in Place
    BY <1>1, <2>2 DEF Step, Later, Place
  <2>4. Stands(place("hasToken"))
    BY <2>2 DEF IInv, Stands, Later
  <2>5. NoneEnds
    <3>1. place("hasToken") # Idle
      BY DEF Later, Idle
    <3> QED
      BY <1>5, <2>1, <3>1 DEF NoneEnds, IInv, Typed
  <2> QED
    BY <1>5, <2>1, <2>3, <2>4, <2>5, Moves
<1> QED
  BY <1>6, <1>7 DEF Timeout

\* A pass that knows the owner asks for the metadata; the store is untouched.
LEMMA OwnerKnownKeeps ==
  ASSUME IInv, NEW p \in Pass, OwnerKnown(p)
  PROVE  IInv' /\ NoneEnds
<1> DEFINE place == Later("asksToken", pass[p], pass[p].answer.value, None)
<1>1. pass[p] \in Step("hasOwner", {None}, OwnerAnswer) /\ pass[p] # Idle
      /\ pass[p].at = "hasOwner" /\ pass[p].answer.ok
  BY Waits DEF OwnerKnown
<1>2. pass[p].answer.value \in Party
  BY <1>1 DEF Step, OwnerAnswer
<1>3. pass' = [pass EXCEPT ![p] = [pass[p] EXCEPT !.at = "asksToken", !.answer = None,
                                    !.chainOwner = pass[p].answer.value]]
  BY DEF OwnerKnown
<1>4. pass[p] \in Place
  BY Waits
<1>5. \A owner : [pass[p] EXCEPT !.at = "asksToken", !.answer = None, !.chainOwner = owner]
                    = Later("asksToken", pass[p], owner, None)
  BY <1>4, ThreeChanged, ZenonT(60)
<1>6. pass' = [pass EXCEPT ![p] = place]
  BY <1>3, <1>5
<1>7. place \in Step("asksToken", Party, {None})
  BY <1>1, <1>2 DEF Step, Later
<1>8. place.at = "asksToken" /\ place.id = pass[p].id /\ place.todo = pass[p].todo
      /\ place.dbRecord = pass[p].dbRecord /\ place.chainOwner = pass[p].answer.value
  BY DEF Later
<1> HIDE DEF place
<1>9. Stands(place)
  BY <1>1, <1>8 DEF IInv, Stands
<1>10. ASSUME p \in undisturbed
      PROVE  Follows(place, db)
  <2>1. pass[p].answer \in queryOwner(pass[p].id)
    BY <1>1, <1>10 DEF IInv, Follows
  <2>2. pass[p].id \in DOMAIN receipts /\ pass[p].answer = Found(receipts[pass[p].id].owner)
    BY <1>1, <2>1, NoOwner DEF queryOwner
  <2>3. pass[p].answer.value = receipts[pass[p].id].owner
    BY <2>2 DEF Found
  <2> QED
    BY <1>1, <1>8, <1>10, <2>2, <2>3 DEF IInv, Follows
<1>11. UNCHANGED <<chain, failures, db, requested, undisturbed>>
  BY DEF OwnerKnown
<1>12. failures' \in 0..MaxFailures /\ Store(db')
  BY <1>11 DEF IInv, Typed, Store
<1>13. place # Idle
  BY <1>8 DEF Idle
<1>14. NoneEnds
  BY <1>6, <1>11, <1>13 DEF NoneEnds, IInv, Typed
<1> QED
  BY <1>6, <1>7, <1>9, <1>10, <1>11, <1>12, <1>14, Moves DEF Place

\* The end of a step that may have repaired one record: the loop goes on over
\* the store it leaves.
LEMMA LoopKeeps ==
  ASSUME IInv, NEW p \in Pass, pass[p] # Idle,
         GoOn(p, pass[p].todo, db'), Store(db'),
         UNCHANGED <<chain, failures, requested>>,
         undisturbed' = IF db' = db THEN undisturbed ELSE undisturbed \cap {p},
         p \in undisturbed =>
           \A i \in DOMAIN db' \cap DOMAIN receipts :
             Agrees(db'[i], receipts[i]) \/ Listed(i, pass[p].todo)
  PROVE  IInv' /\ PassRepairs(p)
<1>1. pass[p].todo \in Seq(Id)
  BY Waits DEF Place, Step
<1>2. db' \in [DOMAIN db' -> TokenRecord] /\ DOMAIN db' \subseteq issued
  BY DEF Store
<1>3. PICK place \in Place :
        /\ pass' = [pass EXCEPT ![p] = place]
        /\ place = Idle \/ place \in Step("asksOwner", {None}, {None})
        /\ place # Idle => place.id \in DOMAIN db' /\ place.dbRecord = db'[place.id]
        /\ \A i \in DOMAIN db' :
             Listed(i, pass[p].todo) => place # Idle /\ (i = place.id \/ Listed(i, place.todo))
  BY <1>1, <1>2, LoopGoesOn DEF IInv, Typed
<1>4. place # Idle => place.at = "asksOwner"
  BY <1>3 DEF Step
<1>5. Stands(place)
  BY <1>2, <1>3, <1>4 DEF Stands
<1>6. p \in undisturbed' => Follows(place, db')
  BY <1>3, <1>4 DEF Follows
<1>7. failures' \in 0..MaxFailures
  BY DEF IInv, Typed
<1>8. undisturbed' \subseteq undisturbed \cup {p} /\ (db' = db \/ undisturbed' \subseteq {p})
  OBVIOUS
<1>9. IInv'
  BY <1>3, <1>5, <1>6, <1>7, <1>8, Moves
<1>10. ASSUME p \in undisturbed', pass'[p] = Idle
       PROVE  Repaired'
  <2>1. place = Idle /\ p \in undisturbed
    BY <1>3, <1>10 DEF IInv, Typed
  <2>2. \A i \in DOMAIN db' \cap DOMAIN receipts : Agrees(db'[i], receipts[i])
    BY <1>3, <2>1
  <2>3. receipts' = receipts
    BY DEF chain
  <2> QED
    BY <2>2, <2>3 DEF Repaired, InSync, Agrees
<1> QED
  BY <1>9, <1>10 DEF PassRepairs

\* A pass removes a record only after an answer that the token is gone.
LEMMA OwnerUnknownKeeps ==
  ASSUME IInv, NEW p \in Pass, OwnerUnknown(p)
  PROVE  IInv' /\ PassRepairs(p) /\ LiveKept
<1> DEFINE id == pass[p].id
           gone == isTokenNotFoundError(pass[p].answer.error)
<1>1. pass[p] \in Step("hasOwner", {None}, OwnerAnswer) /\ pass[p] # Idle
      /\ pass[p].at = "hasOwner" /\ ~pass[p].answer.ok
  BY Waits DEF OwnerUnknown
<1>2. id \in issued /\ (gone => id \notin DOMAIN receipts)
  BY <1>1 DEF IInv, Stands
<1>3. db' = (IF gone THEN Remove(db, id) ELSE db)
      /\ GoOn(p, pass[p].todo, db')
      /\ undisturbed' = (IF db' = db THEN undisturbed ELSE undisturbed \cap {p})
      /\ UNCHANGED <<chain, failures, requested>>
  BY DEF OwnerUnknown
<1>4. Store(db) /\ Store(Remove(db, id)) /\ DOMAIN Remove(db, id) = DOMAIN db \ {id}
      /\ \A i \in DOMAIN Remove(db, id) : Remove(db, id)[i] = db[i]
  <2>1. TokenRecord # {}
    BY <1>1 DEF Step
  <2> QED
    BY <1>2, <2>1, Stored DEF IInv, Typed
<1> HIDE DEF gone
<1>5. Store(db') /\ DOMAIN db \ DOMAIN db' \subseteq {id} /\ DOMAIN db' \subseteq DOMAIN db
      /\ (~gone => db' = db) /\ \A i \in DOMAIN db' : db'[i] = db[i]
  BY <1>3, <1>4
<1>6. ASSUME p \in undisturbed, NEW i \in DOMAIN db' \cap DOMAIN receipts
      PROVE  Agrees(db'[i], receipts[i]) \/ Listed(i, pass[p].todo)
  <2>1. pass[p].answer \in queryOwner(id)
    BY <1>1, <1>6 DEF IInv, Follows
  <2>2. i # id
    BY <1>1, <2>1, NoOwner
  <2>3. i \in DOMAIN db \cap DOMAIN receipts /\ db'[i] = db[i]
    BY <1>5
  <2> QED
    BY <1>1, <1>6, <2>2, <2>3 DEF IInv, Follows
<1>7. IInv' /\ PassRepairs(p)
  BY <1>1, <1>3, <1>5, <1>6, LoopKeeps
<1>8. LiveKept
  BY <1>2, <1>5 DEF LiveKept
<1> QED
  BY <1>7, <1>8

\* A receipt on the chain, mapped, is a receipt a record can hold, and one that is
\* equal to it is the same.
LEMMA Mapped ==
  ASSUME NEW receipt \in Receipt
  PROVE  /\ mapMetadataToReceipt(receipt) \in TokenReceipt
         /\ \A r \in TokenReceipt :
              receiptsEqual(r, mapMetadataToReceipt(receipt)) => r = mapMetadataToReceipt(receipt)
  BY ReconcileAssumption DEF Receipt, TokenReceipt, mapMetadataToReceipt, receiptsEqual

\* A corrected record is a record, and with the metadata agrees with the chain.
LEMMA Correction ==
  ASSUME NEW record \in TokenRecord, NEW owner \in Party, NEW meta \in TokenAnswer
  PROVE  /\ Corrected(record, owner, meta) \in TokenRecord
         /\ (meta.ok /\ meta.value.owner = owner) =>
              Agrees(Corrected(record, owner, meta), meta.value)
<1> DEFINE ok == meta.ok
           fresh == mapMetadataToReceipt(meta.value)
           same == receiptsEqual(record.receipt, fresh)
           corrected == Corrected(record, owner, meta)
<1>1. record.receipt \in TokenReceipt
  BY DEF TokenRecord
<1>2. ok \in BOOLEAN /\ same \in BOOLEAN
  BY DEF TokenAnswer, receiptsEqual
<1>3. ok => fresh \in TokenReceipt /\ (same => record.receipt = fresh)
  <2>1. ok => meta.value \in Receipt
    BY DEF TokenAnswer
  <2> QED
    BY <1>1, <2>1, Mapped
<1>4. corrected = [owner |-> owner, receipt |-> IF ok /\ ~same THEN fresh ELSE record.receipt]
  BY DEF Corrected
<1> HIDE DEF ok, fresh, same, corrected
<1>5. corrected.owner = owner
      /\ corrected.receipt = IF ok /\ ~same THEN fresh ELSE record.receipt
  BY <1>4
<1>6. corrected.receipt \in TokenReceipt /\ (ok => corrected.receipt = fresh)
  BY <1>1, <1>2, <1>3, <1>5
<1>7. corrected \in TokenRecord
  BY <1>4, <1>5, <1>6 DEF TokenRecord
<1> QED
  BY <1>5, <1>6, <1>7 DEF Agrees, ok, fresh, corrected

\* A pass stores what the ledger said, or removes a record of a token that is gone.
LEMMA PersistKeeps ==
  ASSUME IInv, NEW p \in Pass, Persist(p)
  PROVE  IInv' /\ PassRepairs(p) /\ LiveKept
<1> DEFINE id == pass[p].id
           record == Corrected(pass[p].dbRecord, pass[p].chainOwner, pass[p].answer)
<1>1. pass[p] \in Step("hasToken", Party, TokenAnswer) /\ pass[p] # Idle
      /\ pass[p].at = "hasToken"
  BY Waits DEF Persist
<1>2. pass[p].dbRecord \in TokenRecord /\ pass[p].chainOwner \in Party
      /\ pass[p].answer \in TokenAnswer
  BY <1>1 DEF Step
<1>3. record \in TokenRecord
      /\ ((pass[p].answer.ok /\ pass[p].answer.value.owner = pass[p].chainOwner) =>
            Agrees(record, pass[p].answer.value))
  BY <1>2, Correction
<1>4. db' = (IF record # pass[p].dbRecord THEN Put(db, id, record) ELSE db)
      /\ GoOn(p, pass[p].todo, db')
      /\ undisturbed' = (IF db' = db THEN undisturbed ELSE undisturbed \cap {p})
      /\ UNCHANGED <<chain, failures, requested>>
  BY DEF Persist
<1> HIDE DEF record
<1>5. id \in issued
  BY <1>1 DEF IInv, Stands
<1>6. /\ Store(db) /\ Store(Put(db, id, record)) /\ DOMAIN Put(db, id, record) = DOMAIN db \cup {id}
      /\ Put(db, id, record)[id] = record
      /\ \A i \in DOMAIN db : i # id => Put(db, id, record)[i] = db[i]
  BY <1>3, <1>5, Stored DEF IInv, Typed
<1>7. Store(db') /\ DOMAIN db \subseteq DOMAIN db' /\ DOMAIN db' \subseteq DOMAIN db \cup {id}
      /\ \A i \in DOMAIN db : i # id => db'[i] = db[i]
  BY <1>4, <1>6
<1>8. ASSUME p \in undisturbed, NEW i \in DOMAIN db' \cap DOMAIN receipts
      PROVE  Agrees(db'[i], receipts[i]) \/ Listed(i, pass[p].todo)
  <2>1. /\ id \in DOMAIN db /\ pass[p].dbRecord = db[id]
        /\ id \in DOMAIN receipts /\ pass[p].chainOwner = receipts[id].owner
        /\ pass[p].answer \in queryToken(id)
    BY <1>1, <1>8 DEF IInv, Follows
  <2>2. CASE i = id
    <3>1. pass[p].answer = [ok |-> TRUE, value |-> receipts[id]]
      BY <2>1 DEF queryToken, Found
    <3>2. pass[p].answer.ok /\ pass[p].answer.value = receipts[id]
      BY <3>1
    <3>3. Agrees(record, receipts[id])
      BY <1>3, <2>1, <3>2
    <3>4. db'[id] = record
      BY <1>4, <1>6, <2>1
    <3> QED
      BY <2>2, <3>3, <3>4
  <2>3. CASE i # id
    <3>1. i \in DOMAIN db \cap DOMAIN receipts /\ db'[i] = db[i]
      BY <1>7, <2>3
    <3> QED
      BY <1>1, <1>8, <2>3, <3>1 DEF IInv, Follows
  <2> QED
    BY <2>2, <2>3
<1>9. IInv' /\ PassRepairs(p)
  BY <1>1, <1>4, <1>7, <1>8, LoopKeeps
<1> QED
  BY <1>7, <1>9 DEF LiveKept

----------------------------------------------------------------------------
(* The steps of the rest of the world *)

\* An operation on the ledger disturbs every pass that is under way.
LEMMA ChainActsKeeps ==
  ASSUME IInv, ChainActs
  PROVE  IInv'
<1>1. LedgerNext /\ height < MaxHeight /\ height' = height + 1
  BY DEF ChainActs, ChainMoves
<1>2. LedgerTypeOK' /\ Lasts /\ IsFiniteSet(issued)'
  BY <1>1, Operation DEF IInv, Typed
<1>3. height' \in 0..MaxHeight
  BY <1>1, ChainAssumption DEF IInv, Typed
<1>4. undisturbed' = {} /\ UNCHANGED <<failures, db, pass, requested>>
  BY DEF ChainActs
<1>5. Store(db)'
  BY <1>2, <1>4 DEF IInv, Typed, Store, Lasts
<1>6. requested' \in [Id -> {"nothing", "filed", "removed"}]
  BY <1>4 DEF IInv, Typed
<1> QED
  BY <1>2, <1>3, <1>4, <1>5, <1>6, Outside

\* A request leaves the ledger as it is.
LEMMA RequestKeeps ==
  ASSUME IInv, UNCHANGED <<chain, failures, pass>>, undisturbed' = {}, Store(db'),
         requested' \in [Id -> {"nothing", "filed", "removed"}]
  PROVE  IInv'
<1>1. LedgerTypeOK' /\ Lasts /\ IsFiniteSet(issued)'
  BY Rest DEF IInv, Typed, chain, ledger
<1>2. height' \in 0..MaxHeight
  BY DEF IInv, Typed, chain
<1>3. Store(db)'
  BY DEF Store, chain
<1> QED
  BY <1>1, <1>2, <1>3, Outside

\* A request may file any record of an issued token.
LEMMA FileRecordKeeps ==
  ASSUME IInv, NEW id \in Id, FileRecord(id)
  PROVE  IInv'
<1>1. PICK record \in TokenRecord : db' = Put(db, id, record)
  BY DEF FileRecord
<1>2. Store(db')
  BY <1>1, Stored DEF IInv, FileRecord
<1>3. requested' \in [Id -> {"nothing", "filed", "removed"}]
  BY DEF IInv, Typed, FileRecord
<1> QED
  BY <1>2, <1>3, RequestKeeps DEF FileRecord

\* A request may remove one.
LEMMA RemoveRecordKeeps ==
  ASSUME IInv, NEW id \in Id, RemoveRecord(id)
  PROVE  IInv'
<1>1. db[id] \in TokenRecord /\ id \in issued
  BY DEF IInv, Typed, Store, RemoveRecord
<1>2. Store(db')
  BY <1>1, Stored DEF IInv, RemoveRecord
<1>3. requested' \in [Id -> {"nothing", "filed", "removed"}]
  BY DEF IInv, Typed, RemoveRecord
<1> QED
  BY <1>2, <1>3, RequestKeeps DEF RemoveRecord

----------------------------------------------------------------------------
(* The theorems *)

\* Before the first pass the store is empty and the ledger has no receipts.
LEMMA InitHolds ==
  ASSUME Init
  PROVE  IInv
<1>1. LedgerTypeOK /\ IsFiniteSet(issued)
  BY Deployment DEF Init
<1>2. Typed
  BY <1>1, ChainAssumption DEF Init, Typed, Store, NoEntries, Place
<1>3. \A p \in Pass : Stands(pass[p])
  BY DEF Init, Stands
<1>4. undisturbed = {}
  BY DEF Init
<1> QED
  BY <1>2, <1>3, <1>4 DEF IInv

\* Every step keeps the invariant, and does what the two action properties ask.
LEMMA StepHolds ==
  ASSUME IInv, [Next]_vars
  PROVE  IInv' /\ (\A p \in Pass : PassRepairs(p)) /\ LiveKept
<1> DEFINE Holds == IInv' /\ (\A p \in Pass : PassRepairs(p)) /\ LiveKept
<1>1. ASSUME IInv', NoneEnds
      PROVE  Holds
  BY <1>1 DEF NoneEnds, PassRepairs, LiveKept
<1>2. ASSUME NEW p \in Pass, IInv', PassRepairs(p), LiveKept,
             \A q \in Pass \ {p} : pass'[q] = pass[q]
      PROVE  Holds
  BY <1>2 DEF PassRepairs
<1>3. ASSUME IInv', UNCHANGED pass
      PROVE  Holds
  BY <1>3 DEF PassRepairs, LiveKept
<1>4. Holds => IInv' /\ (\A p \in Pass : PassRepairs(p)) /\ LiveKept
  OBVIOUS
<1> HIDE DEF Holds
<1>5. ASSUME NEW p \in Pass, Work(p) \/ Timeout(p)
      PROVE  Holds
  <2>1. CASE Start(p)
    BY <1>1, <2>1, StartKeeps
  <2>2. CASE AnswerOwner(p)
    BY <1>1, <2>2, AnswerOwnerKeeps
  <2>3. CASE AnswerToken(p)
    BY <1>1, <2>3, AnswerTokenKeeps
  <2>4. CASE OwnerKnown(p)
    BY <1>1, <2>4, OwnerKnownKeeps
  <2>5. CASE OwnerUnknown(p)
    <3>1. \A q \in Pass \ {p} : pass'[q] = pass[q]
      BY <2>5 DEF OwnerUnknown, GoOn, IInv, Typed
    <3> QED
      BY <1>2, <2>5, <3>1, OwnerUnknownKeeps
  <2>6. CASE Persist(p)
    <3>1. \A q \in Pass \ {p} : pass'[q] = pass[q]
      BY <2>6 DEF Persist, GoOn, IInv, Typed
    <3> QED
      BY <1>2, <2>6, <3>1, PersistKeeps
  <2>7. CASE Timeout(p)
    BY <1>1, <2>7, TimeoutKeeps
  <2> QED
    BY <1>5, <2>1, <2>2, <2>3, <2>4, <2>5, <2>6, <2>7 DEF Work
<1>6. ASSUME ChainActs
      PROVE  Holds
  BY <1>3, <1>6, ChainActsKeeps DEF ChainActs
<1>7. ASSUME NEW id \in Id, FileRecord(id) \/ RemoveRecord(id)
      PROVE  Holds
  BY <1>3, <1>7, FileRecordKeeps, RemoveRecordKeeps DEF FileRecord, RemoveRecord
<1>8. ASSUME UNCHANGED vars
      PROVE  Holds
  <2>1. Typed'
    BY <1>8 DEF IInv, Typed, vars, LedgerTypeOK, Store
  <2>2. IInv'
    BY <1>8, <2>1 DEF IInv, vars, Stands, Follows, queryOwner, queryToken
  <2> QED
    BY <1>3, <1>8, <2>2 DEF vars
<1>9. Holds
  BY <1>5, <1>6, <1>7, <1>8 DEF Next
<1> QED
  BY <1>9, <1>4

(***************************************************************************)
(* The invariant holds throughout.                                         *)
(***************************************************************************)
THEOREM Invariance == Spec => []IInv
<1>1. Init => IInv
  BY InitHolds
<1>2. IInv /\ [Next]_vars => IInv'
  BY StepHolds
<1> QED
  BY <1>1, <1>2, PTL DEF Spec

(***************************************************************************)
(* The job's state and the store are well typed, however the passes        *)
(* overlap: a store only ever holds records of tokens that were issued.    *)
(***************************************************************************)
THEOREM TypeCorrect == Spec => []TypeOK
<1>1. IInv => TypeOK
  BY DEF IInv, Typed, Store, Stands, TypeOK, Place, Step
<1> QED
  BY <1>1, Invariance, PTL

(***************************************************************************)
(* A live token never loses its record to the job: what a query once said  *)
(* is gone stays gone, however late a pass acts on it.                     *)
(***************************************************************************)
THEOREM OnlyGoneForgotten == Spec => LiveNeverForgotten
<1>1. IInv /\ [Next]_vars => [LiveKept]_vars
  BY StepHolds
<1> QED
  BY <1>1, Invariance, PTL DEF Spec, LiveNeverForgotten

(***************************************************************************)
(* One undisturbed pass repairs the whole store, whatever it held before   *)
(* and in whatever order it lists its ids.                                 *)
(***************************************************************************)
THEOREM PassSuffices == Spec => OnePassSuffices
<1>1. IInv /\ [Next]_vars => [\A p \in Pass : PassRepairs(p)]_vars
  BY StepHolds
<1> QED
  BY <1>1, Invariance, PTL DEF Spec, OnePassSuffices

----------------------------------------------------------------------------
(* The readers of the records *)

Stats == [totalWeight : Nat, unit : Unit, minted : Nat]

\* The loop has a value after each turn, and turns as it is written.
LEMMA AggregationLoop ==
  ASSUME NEW tokens \in Seq(TokenRecord)
  PROVE  /\ Aggregation(tokens) \in [0..Len(tokens) -> Stats]
         /\ Aggregation(tokens)[0] = EmptyStats
         /\ \A k \in 1..Len(tokens) :
              Aggregation(tokens)[k] = Aggregated(Aggregation(tokens)[k - 1], tokens[k])
<1> DEFINE n == Len(tokens)
           turn == [x \in (1..n) \X Stats |-> Aggregated(x[2], tokens[x[1]])]
           Holds(g) ==
             g = [k \in 0..n |-> IF k = 0 THEN EmptyStats ELSE Aggregated(g[k - 1], tokens[k])]
<1>1. n \in Nat /\ \A k \in 1..n : tokens[k] \in TokenRecord
  OBVIOUS
<1> HIDE DEF n
<1>2. EmptyStats \in Stats
  BY ReconcileAssumption DEF EmptyStats, Stats
<1>3. \A k \in 1..n, stats \in Stats : Aggregated(stats, tokens[k]) \in Stats
  <2> SUFFICES ASSUME NEW k \in 1..n, NEW stats \in Stats
               PROVE  Aggregated(stats, tokens[k]) \in Stats
    OBVIOUS
  <2>1. tokens[k].receipt.quantity \in Nat /\ tokens[k].receipt.unit \in Unit
    BY <1>1, WeightAssumption DEF TokenRecord, TokenReceipt
  <2>2. stats.totalWeight \in Nat /\ stats.minted \in Nat
    BY DEF Stats
  <2>3. /\ stats.totalWeight + tokens[k].receipt.quantity \in Nat
        /\ stats.minted + 1 \in Nat
    BY <2>1, <2>2
  <2> QED
    BY <2>1, <2>3, Zenon DEF Aggregated, Stats
<1>4. turn \in [(1..n) \X Stats -> Stats]
  BY <1>3
<1>5. \A k \in 1..n, stats \in Stats : turn[<<k, stats>>] = Aggregated(stats, tokens[k])
  OBVIOUS
<1> HIDE DEF turn
<1>6. PICK f \in [0..n -> Stats] :
        f[0] = EmptyStats /\ \A k \in 1..n : f[k] = turn[<<k, f[k - 1]>>]
  <2>1. \E f \in [0..n -> Stats] : Numbers!Loops(f, n, EmptyStats, turn)
    BY <1>1, <1>2, <1>4, NumbersAssumption, Numbers!Loop, Zenon
  <2> QED
    BY <2>1 DEF Numbers!Loops
<1>7. \A k \in 1..n : f[k] = Aggregated(f[k - 1], tokens[k])
  <2>1. \A k \in 1..n : k - 1 \in 0..n
    BY <1>1
  <2> QED
    BY <1>5, <1>6, <2>1
<1>8. Holds(f)
  <2>1. \A k \in 0..n :
          f[k] = IF k = 0 THEN EmptyStats ELSE Aggregated(f[k - 1], tokens[k])
    <3>1. \A k \in 0..n : k = 0 \/ k \in 1..n
      BY <1>1
    <3> QED
      BY <1>6, <1>7, <3>1, Zenon
  <2> QED
    BY <2>1
<1>9. Aggregation(tokens) = CHOOSE g : Holds(g)
  BY DEF Aggregation, n
<1>10. Holds(Aggregation(tokens))
  BY <1>8, <1>9, Zenon
<1> HIDE DEF Holds
<1>11. ASSUME NEW g, Holds(g)
       PROVE  g = f
  <2> DEFINE S == {k \in 0..n : g[k] = f[k]}
  <2>1. 0 \in S
    <3>1. 0 \in 0..n
      BY <1>1
    <3> QED
      BY <1>6, <1>11, <3>1 DEF Holds
  <2>2. ASSUME NEW k \in 1..n, k - 1 \in S
        PROVE  k \in S
    <3>1. k \in 0..n /\ k # 0 /\ g[k - 1] = f[k - 1]
      BY <1>1, <2>2
    <3>2. g[k] = Aggregated(g[k - 1], tokens[k])
      BY <1>11, <3>1 DEF Holds
    <3> QED
      BY <1>7, <3>1, <3>2
  <2>3. \A k \in 0..n : k \in S
    <3> HIDE DEF S
    <3> QED
      BY <1>1, <2>1, <2>2, NumbersAssumption, Numbers!Turns, Zenon
  <2>4. g = [k \in 0..n |-> g[k]] /\ f = [k \in 0..n |-> f[k]]
    BY <1>11 DEF Holds
  <2> QED
    BY <2>3, <2>4, Zenon
<1>12. Aggregation(tokens) = f
  BY <1>10, <1>11, Zenon
<1> QED
  BY <1>6, <1>7, <1>12, Zenon DEF n

\* Another token brings kilograms of its own.
LEMMA KilogramsAdded ==
  ASSUME NEW ids, IsFiniteSet(Kilograms(ids)), NEW id, id \notin ids,
         receipts[id].weight \in Nat
  PROVE  /\ IsFiniteSet(Kilograms(ids \cup {id}))
         /\ Cardinality(Kilograms(ids \cup {id})) =
              Cardinality(Kilograms(ids)) + receipts[id].weight
<1>0. PICK w \in Nat : receipts[id].weight = w
  OBVIOUS
<1> DEFINE more == {id} \X (1..w)
<1>1. IsFiniteSet(more) /\ Cardinality(more) = w
  <2>1. IsFiniteSet(1..w) /\ Cardinality(1..w) = w
    BY <1>0, FS_Interval
  <2>2. IsFiniteSet({id}) /\ Cardinality({id}) = 1
    BY FS_Singleton
  <2>3. IsFiniteSet(more) /\ Cardinality(more) = Cardinality({id}) * Cardinality(1..w)
    BY <2>1, <2>2, FS_Product
  <2> QED
    BY <2>1, <2>2, <2>3
<1>2. Kilograms(ids \cup {id}) = Kilograms(ids) \cup more
  BY <1>0 DEF Kilograms
<1>3. Kilograms(ids) \cap more = {}
  BY DEF Kilograms
<1> HIDE DEF more
<1>4. /\ IsFiniteSet(Kilograms(ids) \cup more)
      /\ Cardinality(Kilograms(ids) \cup more) =
           Cardinality(Kilograms(ids)) + Cardinality(more) - Cardinality({})
  BY <1>1, <1>3, FS_Union
<1>5. PICK c \in Nat : Cardinality(Kilograms(ids)) = c
  BY FS_CardinalityType
<1>6. Cardinality({}) = 0 /\ c + w - 0 = c + w
  BY <1>0, <1>5, FS_EmptySet
<1> QED
  BY <1>0, <1>1, <1>2, <1>4, <1>5, <1>6, Zenon

\* The fields of a record that agrees with the chain.
LEMMA AsOnChain ==
  ASSUME NEW id, InSync(id)
  PROVE  /\ db[id].owner = receipts[id].owner
         /\ db[id].receipt.quantity = receipts[id].weight
         /\ db[id].receipt.custodian = receipts[id].custodian
         /\ db[id].receipt.unit = "kg"
         /\ db[id].receipt.issuedAt = 1000
<1> DEFINE meta == mapMetadataToReceipt(receipts[id])
<1>1. /\ meta.quantity = receipts[id].weight /\ meta.unit = "kg"
      /\ meta.custodian = receipts[id].custodian /\ meta.issuedAt = 1000
  BY DEF mapMetadataToReceipt
<1>2. db[id].owner = receipts[id].owner /\ db[id].receipt = meta
  BY DEF InSync
<1> HIDE DEF meta
<1> QED
  BY <1>1, <1>2, Zenon

\* The records of a warehouse, in agreement with the chain, add up to what it has.
LEMMA AddsUp ==
  ASSUME Typed, Repaired, NEW ids, ids \subseteq DOMAIN db \cap DOMAIN receipts,
         IsFiniteSet(ids), NEW order \in Bijection(1..Cardinality(ids), ids),
         NEW tokens, tokens = [k \in DOMAIN order |-> db[order[k]]]
  PROVE  /\ Len(tokens) = Cardinality(ids)
         /\ aggregateWarehouseStats(tokens).totalWeight = Cardinality(Kilograms(ids))
         /\ aggregateWarehouseStats(tokens).unit = "kg"
<1> DEFINE n == Cardinality(ids)
           stats == Aggregation(tokens)
           first(k) == {order[i] : i \in 1..k}
           S == {k \in 0..n : /\ IsFiniteSet(Kilograms(first(k)))
                              /\ stats[k].totalWeight = Cardinality(Kilograms(first(k)))
                              /\ stats[k].unit = "kg"}
<1>1. n \in Nat
  BY FS_CardinalityType
<1>2. /\ order \in [1..n -> ids]
      /\ \A i, j \in 1..n : order[i] = order[j] => i = j
      /\ \A id \in ids : \E i \in 1..n : order[i] = id
  BY DEF Bijection, Injection, IsInjective, Surjection
<1> HIDE DEF n
<1>3. tokens = [k \in 1..n |-> db[order[k]]]
  BY <1>2
<1>4. tokens \in Seq(TokenRecord) /\ Len(tokens) = n
  <2>1. \A k \in 1..n : db[order[k]] \in TokenRecord
    BY <1>2 DEF Typed, Store
  <2> QED
    BY <1>1, <1>3, <2>1
<1>5. /\ stats[0] = EmptyStats
      /\ \A k \in 1..n : stats[k] = Aggregated(stats[k - 1], tokens[k])
  BY <1>4, AggregationLoop
<1>6. \A id \in ids : /\ db[id].receipt.quantity = receipts[id].weight
                      /\ db[id].receipt.unit = "kg"
                      /\ receipts[id].weight \in Nat
  <2> SUFFICES ASSUME NEW id \in ids
               PROVE  /\ db[id].receipt.quantity = receipts[id].weight
                      /\ db[id].receipt.unit = "kg"
                      /\ receipts[id].weight \in Nat
    OBVIOUS
  <2>1. receipts[id].weight \in Nat
    BY WeightAssumption DEF Typed, LedgerTypeOK, Receipt
  <2>2. InSync(id)
    BY DEF Repaired
  <2>3. db[id].receipt.quantity = receipts[id].weight /\ db[id].receipt.unit = "kg"
    BY <2>2, AsOnChain
  <2> QED
    BY <2>1, <2>3
<1> HIDE DEF stats
<1>7. 0 \in S
  <2>1. Kilograms(first(0)) = {} /\ 0 \in 0..n
    BY <1>1 DEF Kilograms
  <2>2. IsFiniteSet({}) /\ Cardinality({}) = 0
    BY FS_EmptySet
  <2>3. stats[0].totalWeight = 0 /\ stats[0].unit = "kg"
    BY <1>5 DEF EmptyStats
  <2> HIDE DEF first
  <2> QED
    BY <2>1, <2>2, <2>3, Zenon
<1>8. ASSUME NEW k \in 1..n, k - 1 \in S
      PROVE  k \in S
  <2> DEFINE id == order[k]
             before == first(k - 1)
  <2>1. k - 1 \in 0..n /\ k \in 0..n /\ id \in ids
    BY <1>1, <1>2
  <2>2. first(k) = before \cup {id} /\ id \notin before
    BY <1>1, <1>2
  <2>3. /\ IsFiniteSet(Kilograms(before))
        /\ stats[k - 1].totalWeight = Cardinality(Kilograms(before))
    BY <1>8
  <2>4. tokens[k] = db[id]
    BY <1>3
  <2>5. /\ stats[k].totalWeight = Cardinality(Kilograms(before)) + receipts[id].weight
        /\ stats[k].unit = "kg"
    <3>1. stats[k] = Aggregated(stats[k - 1], db[id])
      BY <1>5, <2>4
    <3> QED
      BY <1>6, <2>1, <2>3, <3>1 DEF Aggregated
  <2> HIDE DEF id, before
  <2>6. /\ IsFiniteSet(Kilograms(before \cup {id}))
        /\ Cardinality(Kilograms(before \cup {id})) =
             Cardinality(Kilograms(before)) + receipts[id].weight
    BY <1>6, <2>1, <2>2, <2>3, KilogramsAdded
  <2> HIDE DEF first
  <2> QED
    BY <2>1, <2>2, <2>5, <2>6
<1>9. \A k \in 0..n : k \in S
  <2> HIDE DEF S
  <2> QED
    BY <1>1, <1>7, <1>8, NumbersAssumption, Numbers!Turns, Zenon
<1>10. first(n) = ids /\ n \in 0..n
  BY <1>1, <1>2
<1> HIDE DEF first
<1> QED
  BY <1>4, <1>9, <1>10 DEF aggregateWarehouseStats, stats, n

\* What is read of a repaired store is true.
LEMMA ReadersTell == Typed => ReadersTrue
<1> SUFFICES ASSUME Typed, Repaired, DOMAIN db \subseteq DOMAIN receipts
             PROVE  /\ \A w \in Party : SummaryTrue(w)
                    /\ \A id \in DOMAIN db : CertificateTrue(id)
  BY DEF ReadersTrue
<1>1. \A id \in DOMAIN db : InSync(id)
  BY DEF Repaired
<1>2. ASSUME NEW w \in Party, NEW summary \in handleWarehouseSummary(w)
      PROVE  /\ summary.totalTokens = Cardinality(Held(w))
             /\ summary.totalWeight = Cardinality(Kilograms(Held(w)))
             /\ summary.unit = "kg"
  <2> DEFINE ids == {id \in DOMAIN db : db[id].receipt.custodian = w}
  <2>1. ids = Held(w)
    <3>1. \A id \in DOMAIN db : db[id].receipt.custodian = receipts[id].custodian
      <4> SUFFICES ASSUME NEW id \in DOMAIN db
                   PROVE  db[id].receipt.custodian = receipts[id].custodian
        OBVIOUS
      <4> QED
        <5>1. InSync(id)
          BY <1>1
        <5> QED
          BY <5>1, AsOnChain
    <3> QED
      BY <3>1 DEF Held
  <2>2. IsFiniteSet(Held(w))
    <3>1. Held(w) \subseteq issued
      BY DEF Held, Typed, Store
    <3> QED
      BY <3>1, FS_Subset DEF Typed
  <2>3. w # None
    BY ReconcileAssumption
  <2>4. PICK tokens \in getTokensByWarehouse(w) :
          /\ summary.totalTokens = Len(tokens)
          /\ summary.totalWeight = aggregateWarehouseStats(tokens).totalWeight
          /\ summary.unit = aggregateWarehouseStats(tokens).unit
    BY <2>3 DEF handleWarehouseSummary
  <2>5. PICK order \in SequencesOf!SetToSeqs(ids) :
          tokens = [k \in DOMAIN order |-> db[order[k]]]
    BY DEF getTokensByWarehouse
  <2> HIDE DEF ids
  <2>6. order \in Bijection(1..Cardinality(Held(w)), Held(w))
    BY <2>1, <2>2, <2>5, ListedOnce
  <2>7. Held(w) \subseteq DOMAIN db \cap DOMAIN receipts
    BY DEF Held
  <2> QED
    BY <2>2, <2>4, <2>5, <2>6, <2>7, AddsUp
<1>3. ASSUME NEW id \in DOMAIN db
      PROVE  CertificateTrue(id)
  <2>1. /\ db[id].owner = receipts[id].owner
        /\ db[id].receipt.quantity = receipts[id].weight
        /\ db[id].receipt.custodian = receipts[id].custodian
        /\ db[id].receipt.unit = "kg"
        /\ db[id].receipt.issuedAt = 1000
    BY <1>1, AsOnChain
  <2> QED
    BY <2>1 DEF CertificateTrue, generateCertificatePdf
<1> QED
  BY <1>2, <1>3 DEF SummaryTrue

(***************************************************************************)
(* The summary of every warehouse and the certificate of every token are   *)
(* true of a store that agrees with the chain and records nothing gone,    *)
(* for any number of records, of any weights, in any order.                *)
(***************************************************************************)
THEOREM ReadersAreTold == Spec => []ReadersTrue
<1>1. IInv => ReadersTrue
  BY ReadersTell DEF IInv
<1> QED
  BY <1>1, Invariance, PTL

(***************************************************************************)
(* So they are when a pass ends that nothing interfered with and that left *)
(* no record of a token that is gone, whatever had been filed.             *)
(***************************************************************************)
THEOREM PassMakesReadersTrue ==
  Spec => [][\A p \in Pass :
               /\ p \in undisturbed' /\ pass[p] # Idle /\ pass'[p] = Idle
               /\ (DOMAIN db \subseteq DOMAIN receipts)'
               => /\ \A w \in Party : SummaryTrue(w)'
                  /\ \A id \in DOMAIN db' : CertificateTrue(id)']_vars
<1> DEFINE Told ==
             \A p \in Pass :
               /\ p \in undisturbed' /\ pass[p] # Idle /\ pass'[p] = Idle
               /\ (DOMAIN db \subseteq DOMAIN receipts)'
               => /\ \A w \in Party : SummaryTrue(w)'
                  /\ \A id \in DOMAIN db' : CertificateTrue(id)'
<1>1. IInv /\ ReadersTrue' /\ [Next]_vars => [Told]_vars
  BY StepHolds DEF PassRepairs, ReadersTrue
<1> QED
  BY <1>1, Invariance, ReadersAreTold, PTL DEF Spec
=============================================================================

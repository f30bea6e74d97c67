------------------------ MODULE SesameReceiptProofs -------------------------
(***************************************************************************)
(* Theorems about the sesame receipt contract, for every set of accounts,  *)
(* every bound of its integers and every sequence of ledger times.         *)
(*                                                                         *)
(* Each invocation is first brought down to one of five kinds of step      *)
(* (StepCases); that the invariant is kept and that the ledger is          *)
(* implemented is then proved of the kinds.                                *)
(***************************************************************************)
EXTENDS SesameReceipt, TLAPS

(***************************************************************************)
(* The inductive invariant: a receipt has an owner exactly when it has     *)
(* metadata, is found under its own id and is listed; the k-th id carries  *)
(* the number k, so the next is new; and nothing exists before init, which *)
(* resets the counter without looking at it.                               *)
(***************************************************************************)
StorageCoherent ==
  /\ DOMAIN owner = Live
  /\ Live \subseteq Issued
  /\ \A id \in Live : tokenMeta[id].token_id = id

IdsDense ==
  /\ Len(allTokens) = counter
  /\ \A k \in 1..counter : allTokens[k].n = k

NothingBeforeInit ==
  admin = None => DOMAIN custodian = {} /\ counter = 0 /\ Live = {} /\ allTokens = <<>>

IInv == TypeOK /\ StorageCoherent /\ IdsDense /\ NothingBeforeInit

----------------------------------------------------------------------------
(* The kinds of step *)

\* The receipts and the counter stay; without an administrator the custodians do.
Kept ==
  /\ UNCHANGED tokens
  /\ admin' \in Address \cup {None}
  /\ DOMAIN custodian' \subseteq Address /\ custodian' \in [DOMAIN custodian' -> {TRUE}]
  /\ admin' = None => admin = None /\ custodian' = custodian
  /\ now' \in Timestamps /\ outcome' \in Answers

Accepted == UNCHANGED <<admin, custodian, now>> /\ outcome' = "Ok" /\ admin # None

Deposited(id, meta, f) ==
  /\ Accepted
  /\ id.n = counter + 1 /\ counter + 1 <= MaxU64
  /\ meta.token_id = id /\ ~meta.is_locked
  /\ counter' = counter + 1
  /\ tokenMeta' = Put(tokenMeta, id, meta)
  /\ owner' = Put(owner, id, f)
  /\ allTokens' = Append(allTokens, id)

\* A receipt is locked or unlocked, or an unlocked one changes hands.
Changed(id, meta, t) ==
  /\ Accepted
  /\ meta.token_id = id
  /\ meta.custodian = tokenMeta[id].custodian
  /\ meta.total_weight_kg = tokenMeta[id].total_weight_kg
  /\ \/ t = owner[id] /\ meta.is_locked = ~tokenMeta[id].is_locked
     \/ meta.is_locked = FALSE /\ tokenMeta[id].is_locked = FALSE
  /\ tokenMeta' = [tokenMeta EXCEPT ![id] = meta]
  /\ owner' = [owner EXCEPT ![id] = t]
  /\ UNCHANGED <<counter, allTokens>>

Burned(id) ==
  /\ Accepted
  /\ tokenMeta[id].is_locked = FALSE
  /\ tokenMeta' = [x \in Live \ {id} |-> tokenMeta[x]]
  /\ owner' = [x \in Live \ {id} |-> owner[x]]
  /\ UNCHANGED <<counter, allTokens>>

ChildOf(c, id, new, weight) ==
  /\ c.token_id = new
  /\ c.total_weight_kg = weight
  /\ c.custodian = tokenMeta[id].custodian
  /\ c.is_locked = FALSE

Divided(id, w, a, b, ca, cb) ==
  /\ Accepted
  /\ tokenMeta[id].is_locked = FALSE
  /\ a # b /\ a.n = counter + 1 /\ b.n = counter + 2 /\ counter + 2 <= MaxU64
  /\ tokenMeta[id].total_weight_kg - w \in 1..MaxU32
  /\ ChildOf(ca, id, a, w)
  /\ ChildOf(cb, id, b, tokenMeta[id].total_weight_kg - w)
  /\ counter' = counter + 2
  /\ tokenMeta' = [x \in (Live \ {id}) \cup {a, b} |->
                     IF x = a THEN ca ELSE IF x = b THEN cb ELSE tokenMeta[x]]
  /\ owner' = [x \in (Live \ {id}) \cup {a, b} |->
                 IF x = a THEN owner[id] ELSE IF x = b THEN owner[id] ELSE owner[x]]
  /\ allTokens' = Append(Append(allTokens, a), b)

AnyStep ==
  \/ Kept
  \/ \E id \in Id \ Issued, meta \in TokenMetadata, f \in Address :
       Deposited(id, meta, f)
  \/ \E id \in Live, meta \in TokenMetadata, t \in Address : Changed(id, meta, t)
  \/ \E id \in Live : Burned(id)
  \/ \E id \in Live, w \in 1..MaxU32, a, b \in Id \ Issued, ca, cb \in TokenMetadata :
       Divided(id, w, a, b, ca, cb)

----------------------------------------------------------------------------
(* What the invariant gives a step *)

\* An id appended to the list of ids is listed, and no other.
LEMMA RangeAppend ==
  ASSUME NEW s \in Seq(Id), NEW id \in Id
  PROVE  Append(s, id) \in Seq(Id) /\ Range(Append(s, id)) = Range(s) \cup {id}
<1>1. /\ Append(s, id)[Len(s) + 1] = id /\ \A i \in 1..Len(s) : Append(s, id)[i] = s[i]
      /\ DOMAIN Append(s, id) = 1..(Len(s) + 1) /\ DOMAIN s = 1..Len(s)
  OBVIOUS
<1>2. Append(s, id) \in Seq(Id)
  OBVIOUS
<1> QED
  BY <1>1, <1>2 DEF Range

\* A split lists the ids of its two children.
LEMMA DividedLists ==
  ASSUME IInv, NEW id \in Live, NEW w \in 1..MaxU32, NEW a \in Id \ Issued,
         NEW b \in Id \ Issued, NEW ca, NEW cb, Divided(id, w, a, b, ca, cb)
  PROVE  allTokens' \in Seq(Id) /\ Issued' = Issued \cup {a, b}
<1> DEFINE s == Append(allTokens, a)
<1>1. s \in Seq(Id) /\ Range(s) = Issued \cup {a}
  BY RangeAppend DEF IInv, TypeOK, Issued
<1>2. allTokens' = Append(s, b)
  BY DEF Divided
<1> HIDE DEF s
<1>3. Append(s, b) \in Seq(Id) /\ Range(Append(s, b)) = Range(s) \cup {b}
  BY <1>1, RangeAppend
<1> QED
  BY <1>1, <1>2, <1>3 DEF Issued

\* The next ids are well formed and were never issued.
LEMMA FreshId ==
  ASSUME IInv, NEW n \in 1..MaxU64, n > counter
  PROVE  /\ NewId(n) \in Id \ Issued
         /\ NewId(n).n = n
<1>1. NewId(n) \in Id /\ NewId(n).n = n
  BY DEF IInv, TypeOK, NewId, Id
<1>2. \A i \in Issued : i.n <= counter
  BY DEF IInv, TypeOK, IdsDense, Issued, Range
<1>3. counter \in Nat
  BY SesameAssumption DEF IInv, TypeOK
<1>4. NewId(n) \notin Issued
  BY <1>1, <1>2, <1>3
<1> QED
  BY <1>1, <1>4

\* A live receipt as the two maps hold it; where there is one there is an
\* administrator.
LEMMA LiveReceipt ==
  ASSUME IInv, NEW id \in Live
  PROVE  /\ tokenMeta[id] \in TokenMetadata /\ tokenMeta[id].token_id = id
         /\ tokenMeta[id].is_locked \in BOOLEAN /\ tokenMeta[id].custodian \in Address
         /\ tokenMeta[id].total_weight_kg \in 1..MaxU32
         /\ owner[id] \in Address /\ id \in Id /\ id \in Issued /\ admin # None
<1>1. /\ tokenMeta[id] \in TokenMetadata /\ tokenMeta[id].token_id = id
      /\ owner[id] \in Address /\ id \in Id /\ id \in Issued /\ admin # None
  BY DEF IInv, TypeOK, StorageCoherent, NothingBeforeInit
<1> QED
  BY <1>1 DEF TokenMetadata

----------------------------------------------------------------------------
(* The invocations *)

\* A refused invocation writes nothing.
LEMMA RefuseStep ==
  ASSUME IInv, NEW answer \in Answers, Refuse(answer)
  PROVE  AnyStep
<1>1. UNCHANGED <<admin, custodian, tokens, now>> /\ outcome' \in Answers
  BY DEF Refuse, storage
<1> QED
  BY <1>1 DEF AnyStep, Kept, IInv, TypeOK

\* init resets a counter that was 0.
LEMMA InitialiseStep ==
  ASSUME IInv, NEW a \in Address, Initialise(a)
  PROVE  AnyStep
<1>1. CASE Refuse(InitOutcome)
  BY <1>1, RefuseStep DEF InitOutcome, Answers
<1>2. CASE Accept(InitOutcome) /\ ~Refuse(InitOutcome)
  <2>1. admin = None
    BY <1>2 DEF Accept, InitOutcome
  <2>2. counter = 0
    BY <2>1 DEF IInv, NothingBeforeInit
  <2>3. UNCHANGED <<tokens, custodian, now>> /\ admin' = a /\ outcome' = "Ok"
    BY <1>2, <2>2 DEF Initialise, Accept, tokens
  <2> QED
    BY <2>3, SesameAssumption DEF AnyStep, Kept, IInv, TypeOK, Answers
<1> QED
  BY <1>1, <1>2 DEF Initialise

\* Who passes the administrator check is the administrator, and there is one.
LEMMA AdminGate ==
  ASSUME NEW s \in Address, NEW a \in Address
  PROVE  /\ AdminOutcome(s, a) \in Answers
         /\ AdminOutcome(s, a) = "Ok" => admin = a /\ admin # None
  BY SesameAssumption DEF AdminOutcome, Answers

\* Registering and removing a custodian touch no receipt.
LEMMA CustodianStep ==
  ASSUME IInv, NEW s \in Address, NEW a \in Address, NEW c \in Address,
         AddCustodian(s, a, c) \/ RemoveCustodian(s, a, c)
  PROVE  AnyStep
<1>1. CASE Refuse(AdminOutcome(s, a))
  BY <1>1, RefuseStep, AdminGate
<1>2. CASE ~Refuse(AdminOutcome(s, a))
  <2>1. /\ UNCHANGED <<admin, tokens, now>> /\ outcome' = "Ok"
        /\ custodian' \in {Put(custodian, c, TRUE), Remove(custodian, c)}
        /\ AdminOutcome(s, a) = "Ok"
    BY <1>2 DEF AddCustodian, RemoveCustodian, Accept
  <2>2. admin' # None /\ admin' \in Address
    BY <2>1, AdminGate
  <2>3. custodian \in [DOMAIN custodian -> {TRUE}] /\ DOMAIN custodian \subseteq Address
    BY DEF IInv, TypeOK
  <2>4. \/ custodian' \in [DOMAIN custodian \cup {c} -> {TRUE}]
        \/ custodian' \in [DOMAIN custodian \ {c} -> {TRUE}]
    <3>1. Put(custodian, c, TRUE) \in [DOMAIN custodian \cup {c} -> {TRUE}]
      BY <2>3 DEF Put
    <3>2. Remove(custodian, c) \in [DOMAIN custodian \ {c} -> {TRUE}]
      BY <2>3 DEF Remove, Restrict
    <3> QED
      BY <2>1, <3>1, <3>2
  <2>5. DOMAIN custodian' \subseteq Address /\ custodian' \in [DOMAIN custodian' -> {TRUE}]
    BY <2>3, <2>4
  <2> QED
    BY <2>1, <2>2, <2>5 DEF AnyStep, Kept, IInv, TypeOK, Answers
<1> QED
  BY <1>1, <1>2

\* An accepted mint puts one receipt under an id never issued.
LEMMA MintStep ==
  ASSUME IInv, NEW s \in Address, NEW c \in Address, NEW f \in Address,
         NEW m \in Commodity, NEW d \in Deposits,
         Mint(s, c, f, m, d.bags, d.perBag)
  PROVE  AnyStep
<1> DEFINE answer == MintOutcome(s, c, m, d.bags, d.perBag)
           id == NewId(counter + 1)
           weight == checked_mul(d.bags, d.perBag)
           meta == [token_id |-> id, commodity |-> m,
                    bag_count |-> d.bags, weight_per_bag_kg |-> d.perBag,
                    total_weight_kg |-> weight, custodian |-> c, deposit_ts |-> now,
                    is_locked |-> FALSE, parent_token_id |-> None]
<1>1. CASE Refuse(answer)
  <2>1. answer \in Answers
    BY DEF MintOutcome, Answers
  <2> QED
    BY <1>1, <2>1, RefuseStep
<1>2. CASE ~Refuse(answer)
  <2>1. /\ answer = "Ok" /\ outcome' = "Ok" /\ UNCHANGED <<admin, custodian, now>>
        /\ counter' = counter + 1
        /\ tokenMeta' = Put(tokenMeta, id, meta) /\ owner' = Put(owner, id, f)
        /\ allTokens' = Append(allTokens, id)
    BY <1>2 DEF Mint, Accept
  <2>2. /\ c \in DOMAIN custodian /\ m = "SESAME" /\ d.bags # 0 /\ d.perBag # 0
        /\ ~(counter + 1 > MaxU64) /\ weight # None
    BY <2>1 DEF MintOutcome
  <2>3. counter \in Nat /\ counter + 1 <= MaxU64 /\ counter + 1 \in 1..MaxU64
    BY <2>2, SesameAssumption DEF IInv, TypeOK
  <2>4. d.bags \in 1..MaxU32 /\ d.perBag \in 1..MaxU32
    BY <2>2, SesameAssumption
  <2>5. d.bags * d.perBag \in Nat /\ d.bags * d.perBag > 0
    BY <2>4, SesameAssumption
  <2>6. weight \in 1..MaxU32
    BY <2>2, <2>5, SesameAssumption DEF checked_mul
  <2>7. id \in Id \ Issued /\ id.n = counter + 1
    BY <2>3, FreshId
  <2>8. admin # None
    BY <2>2 DEF IInv, NothingBeforeInit
  <2> HIDE DEF id, weight
  <2>9. meta \in TokenMetadata /\ meta.token_id = id /\ ~meta.is_locked
    BY <2>2, <2>4, <2>6, <2>7, SesameAssumption DEF TokenMetadata, IInv, TypeOK
  <2> HIDE DEF meta
  <2>10. Deposited(id, meta, f)
    BY <2>1, <2>3, <2>7, <2>8, <2>9 DEF Deposited, Accepted
  <2> QED
    BY <2>7, <2>9, <2>10 DEF AnyStep
<1> QED
  BY <1>1, <1>2

\* lock and unlock turn one flag over.
LEMMA PledgeStep ==
  ASSUME IInv, NEW s \in Address, NEW a \in Address, NEW id \in Named,
         Lock(s, a, id) \/ Unlock(s, a, id)
  PROVE  AnyStep
<1>1. LockOutcome(s, a, id) \in Answers /\ UnlockOutcome(s, a, id) \in Answers
  BY AdminGate DEF LockOutcome, UnlockOutcome, Answers
<1>2. CASE Refuse(LockOutcome(s, a, id)) \/ Refuse(UnlockOutcome(s, a, id))
  BY <1>1, <1>2, RefuseStep
<1>3. CASE ~Refuse(LockOutcome(s, a, id)) /\ ~Refuse(UnlockOutcome(s, a, id))
  <2>1. id \in Live
    BY <1>3, AdminGate DEF Lock, Unlock, Accept, LockOutcome, UnlockOutcome
  <2> DEFINE flag == ~tokenMeta[id].is_locked
             meta == [tokenMeta[id] EXCEPT !.is_locked = flag]
  <2>2. /\ outcome' = "Ok" /\ UNCHANGED <<admin, custodian, now, counter, owner, allTokens>>
        /\ \/ tokenMeta' = [tokenMeta EXCEPT ![id].is_locked = TRUE]
              /\ tokenMeta[id].is_locked = FALSE
           \/ tokenMeta' = [tokenMeta EXCEPT ![id].is_locked = FALSE]
              /\ tokenMeta[id].is_locked = TRUE
    <3>1. tokenMeta[id].is_locked \in BOOLEAN
      BY <2>1, LiveReceipt
    <3>2. CASE Lock(s, a, id)
      BY <1>3, <2>1, <3>1, <3>2 DEF Lock, Accept, LockOutcome
    <3>3. CASE Unlock(s, a, id)
      BY <1>3, <2>1, <3>1, <3>3 DEF Unlock, Accept, UnlockOutcome
    <3> QED
      BY <3>2, <3>3
  <2>3. tokenMeta' = [tokenMeta EXCEPT ![id].is_locked = flag] /\ flag \in BOOLEAN
    BY <2>2
  <2> HIDE DEF flag
  <2>4. tokenMeta' = [tokenMeta EXCEPT ![id] = meta]
    BY <2>1, <2>3 DEF IInv, TypeOK
  <2>5. tokenMeta[id] \in TokenMetadata /\ tokenMeta[id].token_id = id /\ owner[id] \in Address
        /\ admin # None
    BY <2>1, LiveReceipt
  <2>6. /\ meta \in TokenMetadata /\ meta.token_id = id /\ meta.is_locked = flag
        /\ meta.custodian = tokenMeta[id].custodian
        /\ meta.total_weight_kg = tokenMeta[id].total_weight_kg
    BY <2>3, <2>5 DEF TokenMetadata
  <2>7. owner' = [owner EXCEPT ![id] = owner[id]]
    BY <2>1, <2>2 DEF IInv, TypeOK, StorageCoherent
  <2> HIDE DEF meta
  <2>8. Changed(id, meta, owner[id])
    BY <2>2, <2>4, <2>5, <2>6, <2>7 DEF Changed, Accepted, flag
  <2> QED
    BY <2>1, <2>5, <2>6, <2>8 DEF AnyStep
<1> QED
  BY <1>2, <1>3

\* An accepted transfer changes one owner of an unlocked receipt.
LEMMA TransferStep ==
  ASSUME IInv, NEW s \in Address, NEW f \in Address, NEW t \in Address,
         NEW id \in Named, Transfer(s, id, f, t)
  PROVE  AnyStep
<1>1. CASE Refuse(TransferOutcome(s, id, f))
  <2>1. TransferOutcome(s, id, f) \in Answers
    BY DEF TransferOutcome, Answers
  <2> QED
    BY <1>1, <2>1, RefuseStep
<1>2. CASE ~Refuse(TransferOutcome(s, id, f))
  <2>1. /\ id \in Live /\ id \in DOMAIN owner /\ ~tokenMeta[id].is_locked
        /\ owner' = Put(owner, id, t) /\ outcome' = "Ok"
        /\ UNCHANGED <<admin, custodian, now, counter, tokenMeta, allTokens>>
    BY <1>2 DEF Transfer, Accept, TransferOutcome
  <2>2. /\ tokenMeta[id] \in TokenMetadata /\ tokenMeta[id].token_id = id
        /\ tokenMeta[id].is_locked = FALSE /\ admin # None
    BY <2>1, LiveReceipt
  <2>3. owner' = [owner EXCEPT ![id] = t]
    BY <2>1 DEF Put, IInv, TypeOK
  <2>4. tokenMeta' = [tokenMeta EXCEPT ![id] = tokenMeta[id]]
    BY <2>1 DEF IInv, TypeOK
  <2>5. Changed(id, tokenMeta[id], t)
    BY <2>1, <2>2, <2>3, <2>4 DEF Changed, Accepted
  <2> QED
    BY <2>1, <2>2, <2>5 DEF AnyStep
<1> QED
  BY <1>1, <1>2

\* An accepted burn takes an unlocked receipt from both maps.
LEMMA BurnStep ==
  ASSUME IInv, NEW s \in Address, NEW c \in Address, NEW id \in Named, Burn(s, c, id)
  PROVE  AnyStep
<1>1. CASE Refuse(BurnOutcome(s, c, id))
  <2>1. BurnOutcome(s, c, id) \in Answers
    BY DEF BurnOutcome, Answers
  <2> QED
    BY <1>1, <2>1, RefuseStep
<1>2. CASE ~Refuse(BurnOutcome(s, c, id))
  <2>1. /\ id \in Live /\ ~tokenMeta[id].is_locked /\ outcome' = "Ok"
        /\ tokenMeta' = Remove(tokenMeta, id) /\ owner' = Remove(owner, id)
        /\ UNCHANGED <<admin, custodian, now, counter, allTokens>>
    BY <1>2 DEF Burn, Accept, BurnOutcome
  <2>2. tokenMeta[id].is_locked = FALSE /\ admin # None
    BY <2>1, LiveReceipt
  <2>3. tokenMeta' = [x \in Live \ {id} |-> tokenMeta[x]]
    BY <2>1 DEF Remove, Restrict, Live
  <2>4. owner' = [x \in Live \ {id} |-> owner[x]]
    BY <2>1 DEF Remove, Restrict, IInv, StorageCoherent
  <2>5. Burned(id)
    BY <2>1, <2>2, <2>3, <2>4 DEF Burned, Accepted
  <2> QED
    BY <2>1, <2>5 DEF AnyStep
<1> QED
  BY <1>1, <1>2

\* A child of a live receipt is well formed.
LEMMA ChildIsOne ==
  ASSUME IInv, NEW id \in Live, NEW n \in 1..MaxU64, NewId(n) \in Id, NEW w \in 1..MaxU32
  PROVE  Child(id, n, w) \in TokenMetadata /\ ChildOf(Child(id, n, w), id, NewId(n), w)
<1>1. tokenMeta[id] \in TokenMetadata /\ tokenMeta[id].token_id = id /\ id \in Id
  BY LiveReceipt
<1>2. tokenMeta[id].bag_count \div 2 \in 0..MaxU32
  <2>1. tokenMeta[id].bag_count \in 0..MaxU32
    BY <1>1 DEF TokenMetadata
  <2> QED
    BY <2>1, SesameAssumption
<1> QED
  BY <1>1, <1>2 DEF Child, ChildOf, TokenMetadata

\* An accepted split replaces an unlocked receipt by two that share its weight.
LEMMA SplitStep ==
  ASSUME IInv, NEW id \in Named, NEW w \in 0..MaxU32, Split(id, w)
  PROVE  AnyStep
<1> DEFINE a == NewId(counter + 1)
           b == NewId(counter + 2)
           rest == tokenMeta[id].total_weight_kg - w
           ca == Child(id, counter + 1, w)
           cb == Child(id, counter + 2, rest)
<1>1. CASE Refuse(SplitOutcome(id, w))
  <2>1. SplitOutcome(id, w) \in Answers
    BY DEF SplitOutcome, Answers
  <2> QED
    BY <1>1, <2>1, RefuseStep
<1>2. CASE ~Refuse(SplitOutcome(id, w))
  <2>1. /\ SplitOutcome(id, w) = "Ok" /\ outcome' = "Ok"
        /\ UNCHANGED <<admin, custodian, now>>
        /\ counter' = counter + 2
        /\ tokenMeta' = Remove(Put(Put(tokenMeta, a, ca), b, cb), id)
        /\ owner' = Remove(Put(Put(owner, a, owner[id]), b, owner[id]), id)
        /\ allTokens' = allTokens \o <<a, b>>
    BY <1>2 DEF Split, Accept, Remainder, Listed
  <2>2. /\ id \in Live /\ ~tokenMeta[id].is_locked
        /\ ~(w = 0 \/ w >= tokenMeta[id].total_weight_kg) /\ ~(counter + 2 > MaxU64)
    BY <2>1 DEF SplitOutcome
  <2>3. /\ tokenMeta[id].is_locked = FALSE /\ tokenMeta[id].total_weight_kg \in 1..MaxU32
        /\ owner[id] \in Address /\ id \in Issued /\ admin # None
    BY <2>2, LiveReceipt
  <2>4. w \in 1..MaxU32 /\ rest \in 1..MaxU32
    BY <2>2, <2>3, SesameAssumption
  <2>5. counter \in Nat /\ counter + 2 <= MaxU64
        /\ counter + 1 \in 1..MaxU64 /\ counter + 2 \in 1..MaxU64
    BY <2>2, SesameAssumption DEF IInv, TypeOK
  <2>6. /\ a \in Id \ Issued /\ a.n = counter + 1
        /\ b \in Id \ Issued /\ b.n = counter + 2
    BY <2>5, FreshId
  <2>7. a # b /\ a # id /\ b # id
    BY <2>3, <2>5, <2>6
  <2>8. /\ ca \in TokenMetadata /\ ChildOf(ca, id, a, w)
        /\ cb \in TokenMetadata /\ ChildOf(cb, id, b, rest)
    BY <2>2, <2>4, <2>5, <2>6, ChildIsOne
  <2> HIDE DEF a, b, ca, cb
  <2>9. /\ tokenMeta \in [Live -> TokenMetadata] /\ owner \in [Live -> Address]
        /\ allTokens \in Seq(Id)
    BY DEF IInv, TypeOK, StorageCoherent
  <2>10. tokenMeta' = [x \in (Live \ {id}) \cup {a, b} |->
                         IF x = a THEN ca ELSE IF x = b THEN cb ELSE tokenMeta[x]]
    BY <2>1, <2>7, <2>9 DEF Remove, Restrict, Put
  <2>11. owner' = [x \in (Live \ {id}) \cup {a, b} |->
                     IF x = a THEN owner[id] ELSE IF x = b THEN owner[id] ELSE owner[x]]
    BY <2>1, <2>7, <2>9 DEF Remove, Restrict, Put
  <2>12. allTokens' = Append(Append(allTokens, a), b)
    BY <2>1, <2>6, <2>9
  <2>13. Divided(id, w, a, b, ca, cb)
    BY <2>1, <2>3, <2>4, <2>5, <2>6, <2>7, <2>8, <2>10, <2>11, <2>12 DEF Divided, Accepted
  <2> QED
    BY <2>2, <2>4, <2>6, <2>8, <2>13 DEF AnyStep
<1> QED
  BY <1>1, <1>2

\* Every step from a state of the invariant is one of the kinds.
LEMMA StepCases == IInv /\ [Next]_vars => AnyStep
<1> SUFFICES ASSUME IInv, [Next]_vars
             PROVE  AnyStep
  OBVIOUS
<1>1. CASE UNCHANGED vars
  BY <1>1 DEF vars, tokens, AnyStep, Kept, IInv, TypeOK
<1>2. CASE LedgerCloses
  BY <1>2 DEF LedgerCloses, storage, AnyStep, Kept, IInv, TypeOK
<1>3. CASE \E s, a, c \in Address : AddCustodian(s, a, c) \/ RemoveCustodian(s, a, c)
  BY <1>3, CustodianStep
<1>4. CASE \E s, c, f \in Address, m \in Commodity, d \in Deposits :
             Mint(s, c, f, m, d.bags, d.perBag)
  BY <1>4, MintStep
<1>5. CASE \E s, a \in Address, id \in Named : Lock(s, a, id) \/ Unlock(s, a, id)
  BY <1>5, PledgeStep
<1>6. CASE \E s, f, t \in Address, id \in Named : Transfer(s, id, f, t)
  BY <1>6, TransferStep
<1>7. CASE \E s, c \in Address, id \in Named : Burn(s, c, id)
  BY <1>7, BurnStep
<1>8. CASE \E id \in Named, w \in 0..MaxU32 : Split(id, w)
  BY <1>8, SplitStep
<1>9. CASE \E a \in Address : Initialise(a)
  BY <1>9, InitialiseStep
<1> QED
  BY <1>1, <1>2, <1>3, <1>4, <1>5, <1>6, <1>7, <1>8, <1>9 DEF Next
----------------------------------------------------------------------------
(* The invariant *)

\* The inductive invariant holds of the empty storage ...
LEMMA InitIInv == Init => IInv
<1> SUFFICES ASSUME Init
             PROVE  IInv
  OBVIOUS
<1>1. /\ DOMAIN custodian = {} /\ DOMAIN owner = {} /\ Live = {}
      /\ custodian = [k \in {} |-> {}] /\ owner = [k \in {} |-> {}]
      /\ tokenMeta = [k \in {} |-> {}]
  BY DEF Init, NoEntries, Live
<1>2. TypeOK
  BY <1>1, SesameAssumption DEF Init, TypeOK, Answers
<1>3. StorageCoherent /\ IdsDense /\ NothingBeforeInit
  BY <1>1 DEF Init, StorageCoherent, IdsDense, NothingBeforeInit
<1> QED
  BY <1>2, <1>3 DEF IInv

\* ... and each kind of step keeps it: one that leaves the receipts alone, ...
LEMMA KeptKeeps == IInv /\ Kept => IInv'
<1> SUFFICES ASSUME IInv, Kept
             PROVE  IInv'
  OBVIOUS
<1>1. UNCHANGED <<counter, tokenMeta, owner, allTokens>> /\ Live' = Live /\ Issued' = Issued
  BY DEF Kept, tokens, Live, Issued
<1>2. TypeOK'
  BY <1>1 DEF Kept, IInv, TypeOK
<1>3. StorageCoherent' /\ IdsDense'
  BY <1>1 DEF IInv, StorageCoherent, IdsDense
<1>4. NothingBeforeInit'
  BY <1>1 DEF Kept, IInv, NothingBeforeInit
<1> QED
  BY <1>2, <1>3, <1>4 DEF IInv

\* ... a new receipt, ...
LEMMA DepositedKeeps ==
  ASSUME IInv, NEW id \in Id \ Issued, NEW meta \in TokenMetadata, NEW f \in Address,
         Deposited(id, meta, f)
  PROVE  IInv'
<1>1. /\ tokenMeta \in [Live -> TokenMetadata] /\ owner \in [Live -> Address]
      /\ allTokens \in Seq(Id) /\ counter \in Nat
  BY SesameAssumption DEF IInv, TypeOK, StorageCoherent
<1>2. /\ tokenMeta' \in [Live \cup {id} -> TokenMetadata] /\ tokenMeta'[id] = meta
      /\ \A x \in Live \ {id} : tokenMeta'[x] = tokenMeta[x]
      /\ Live' = Live \cup {id}
  BY <1>1 DEF Deposited, Put, Live
<1>3. owner' \in [Live \cup {id} -> Address]
  BY <1>1 DEF Deposited, Put
<1>4. allTokens' \in Seq(Id) /\ Issued' = Issued \cup {id}
  BY <1>1, RangeAppend DEF Deposited, Issued
<1>5. TypeOK'
  <2>1. counter' \in 0..MaxU64
    BY <1>1, SesameAssumption DEF Deposited
  <2>2. UNCHANGED <<admin, custodian, now>> /\ outcome' \in Answers
    BY DEF Deposited, Accepted, Answers
  <2>3. Live' \subseteq Id
    BY <1>2 DEF IInv, TypeOK
  <2> QED
    BY <1>2, <1>3, <1>4, <2>1, <2>2, <2>3 DEF IInv, TypeOK
<1>6. StorageCoherent'
  BY <1>2, <1>3, <1>4 DEF Deposited, IInv, StorageCoherent
<1>7. IdsDense'
  BY <1>1 DEF Deposited, IInv, IdsDense
<1>8. NothingBeforeInit'
  BY DEF Deposited, Accepted, NothingBeforeInit
<1> QED
  BY <1>5, <1>6, <1>7, <1>8 DEF IInv

\* ... one that is pledged, released or moved, ...
LEMMA ChangedKeeps ==
  ASSUME IInv, NEW id \in Live, NEW meta \in TokenMetadata, NEW t \in Address,
         Changed(id, meta, t)
  PROVE  IInv'
<1>1. tokenMeta \in [Live -> TokenMetadata] /\ owner \in [Live -> Address]
  BY DEF IInv, TypeOK, StorageCoherent
<1>2. /\ tokenMeta' \in [Live -> TokenMetadata] /\ tokenMeta'[id] = meta
      /\ \A x \in Live \ {id} : tokenMeta'[x] = tokenMeta[x]
      /\ Live' = Live
  BY <1>1 DEF Changed, Live
<1>3. owner' \in [Live -> Address]
  BY <1>1 DEF Changed
<1>4. UNCHANGED <<counter, allTokens>> /\ Issued' = Issued
  BY DEF Changed, Issued
<1>5. TypeOK'
  BY <1>2, <1>3, <1>4 DEF Changed, Accepted, IInv, TypeOK, Answers
<1>6. StorageCoherent' /\ IdsDense'
  BY <1>2, <1>3, <1>4 DEF Changed, IInv, StorageCoherent, IdsDense
<1>7. NothingBeforeInit'
  BY DEF Changed, Accepted, NothingBeforeInit
<1> QED
  BY <1>5, <1>6, <1>7 DEF IInv

\* ... one that is redeemed ...
LEMMA BurnedKeeps ==
  ASSUME IInv, NEW id \in Live, Burned(id)
  PROVE  IInv'
<1>1. tokenMeta \in [Live -> TokenMetadata] /\ owner \in [Live -> Address]
  BY DEF IInv, TypeOK, StorageCoherent
<1>2. /\ tokenMeta' \in [Live \ {id} -> TokenMetadata]
      /\ \A x \in Live \ {id} : tokenMeta'[x] = tokenMeta[x]
      /\ Live' = Live \ {id}
  BY <1>1 DEF Burned, Live
<1>3. owner' \in [Live \ {id} -> Address]
  BY <1>1 DEF Burned
<1>4. UNCHANGED <<counter, allTokens>> /\ Issued' = Issued
  BY DEF Burned, Issued
<1>5. TypeOK'
  BY <1>2, <1>3, <1>4 DEF Burned, Accepted, IInv, TypeOK, Answers
<1>6. StorageCoherent' /\ IdsDense'
  BY <1>2, <1>3, <1>4 DEF IInv, StorageCoherent, IdsDense
<1>7. NothingBeforeInit'
  BY DEF Burned, Accepted, NothingBeforeInit
<1> QED
  BY <1>5, <1>6, <1>7 DEF IInv

\* ... and one that becomes two.
LEMMA DividedKeeps ==
  ASSUME IInv, NEW id \in Live, NEW w \in 1..MaxU32, NEW a \in Id \ Issued,
         NEW b \in Id \ Issued, NEW ca \in TokenMetadata, NEW cb \in TokenMetadata,
         Divided(id, w, a, b, ca, cb)
  PROVE  IInv'
<1>1. /\ tokenMeta \in [Live -> TokenMetadata] /\ owner \in [Live -> Address]
      /\ allTokens \in Seq(Id) /\ counter \in Nat /\ owner[id] \in Address
  BY SesameAssumption DEF IInv, TypeOK, StorageCoherent
<1>2. a # b /\ a \notin Live /\ b \notin Live
  BY DEF Divided, IInv, StorageCoherent
<1>3. /\ tokenMeta' \in [(Live \ {id}) \cup {a, b} -> TokenMetadata]
      /\ tokenMeta'[a] = ca /\ tokenMeta'[b] = cb
      /\ \A x \in Live \ {id} : tokenMeta'[x] = tokenMeta[x]
      /\ Live' = (Live \ {id}) \cup {a, b}
  BY <1>1, <1>2 DEF Divided, Live
<1>4. owner' \in [(Live \ {id}) \cup {a, b} -> Address]
  BY <1>1, <1>2 DEF Divided
<1>5. allTokens' \in Seq(Id) /\ Issued' = Issued \cup {a, b}
  BY DividedLists
<1>6. TypeOK'
  <2>1. counter' \in 0..MaxU64
    BY <1>1, SesameAssumption DEF Divided
  <2>2. UNCHANGED <<admin, custodian, now>> /\ outcome' \in Answers
    BY DEF Divided, Accepted, Answers
  <2>3. Live' \subseteq Id
    BY <1>3 DEF IInv, TypeOK
  <2> QED
    BY <1>3, <1>4, <1>5, <2>1, <2>2, <2>3 DEF IInv, TypeOK
<1>7. StorageCoherent'
  <2>1. ca.token_id = a /\ cb.token_id = b
    BY DEF Divided, ChildOf
  <2> QED
    BY <1>2, <1>3, <1>4, <1>5, <2>1 DEF IInv, StorageCoherent
<1>8. IdsDense'
  <2>1. /\ counter' = counter + 2 /\ a.n = counter + 1 /\ b.n = counter + 2
        /\ allTokens' = Append(Append(allTokens, a), b)
        /\ Len(allTokens) = counter /\ \A k \in 1..counter : allTokens[k].n = k
    BY DEF Divided, IInv, IdsDense
  <2>2. /\ Len(allTokens') = counter'
        /\ \A k \in 1..counter : allTokens'[k] = allTokens[k]
        /\ allTokens'[counter + 1] = a /\ allTokens'[counter + 2] = b
    BY <1>1, <2>1
  <2> QED
    BY <1>1, <2>1, <2>2 DEF IdsDense
<1>9. NothingBeforeInit'
  BY DEF Divided, Accepted, NothingBeforeInit
<1> QED
  BY <1>6, <1>7, <1>8, <1>9 DEF IInv

\* Each kind of step keeps the invariant.
LEMMA StepIInv == IInv /\ [Next]_vars => IInv'
<1> SUFFICES ASSUME IInv, AnyStep
             PROVE  IInv'
  BY StepCases
<1> QED
  BY KeptKeeps, DepositedKeeps, ChangedKeeps, BurnedKeeps, DividedKeeps DEF AnyStep

\* In every reachable state the inductive invariant holds.
THEOREM Invariance == Spec => []IInv
  BY InitIInv, StepIInv, PTL DEF Spec

\* Every storage entry keeps its type and its integers their width.
THEOREM TypeCorrect == Spec => []TypeOK
<1>1. IInv => TypeOK
  BY DEF IInv
<1> QED
  BY <1>1, Invariance, PTL

\* get_owner and get_token_metadata agree on which ids are live, a live id is
\* listed, and the k-th id issued carries the number k.
THEOREM QueriesAgreeAlways == Spec => []QueriesAgree
<1>1. IInv => QueriesAgree
  <2> SUFFICES ASSUME IInv
               PROVE  QueriesAgree
    OBVIOUS
  <2>1. ASSUME NEW id \in Named
        PROVE  (get_owner(id) = None) <=> (get_token_metadata(id) = None)
    <3>1. CASE id \in Live
      BY <3>1, LiveReceipt, SesameAssumption, AbsentAssumption
         DEF get_owner, get_token_metadata, IInv, StorageCoherent
    <3>2. CASE id \notin Live
      BY <3>2 DEF get_owner, get_token_metadata, IInv, StorageCoherent
    <3> QED
      BY <3>1, <3>2
  <2> QED
    BY <2>1 DEF QueriesAgree, IInv, StorageCoherent, IdsDense
<1> QED
  BY <1>1, Invariance, PTL
----------------------------------------------------------------------------
(* Refinement *)

View(id) ==
  [owner |-> owner[id], custodian |-> tokenMeta[id].custodian,
   weight |-> tokenMeta[id].total_weight_kg, frozen |-> tokenMeta[id].is_locked]

\* The mapped receipts, entry by entry.
LEMMA ReceiptsView ==
  /\ Receipts = [id \in Live |-> View(id)]
  /\ DOMAIN Receipts = Live
  /\ Receipts' = [id \in Live' |-> View(id)']
  BY DEF Receipts, View

\* A live receipt is mapped to a receipt of the ledger.
LEMMA ViewType ==
  ASSUME IInv, NEW id \in Live
  PROVE  /\ View(id) \in Ledger!Receipt
         /\ View(id).frozen = tokenMeta[id].is_locked
         /\ View(id).weight = tokenMeta[id].total_weight_kg
         /\ View(id).custodian = tokenMeta[id].custodian
         /\ View(id).owner = owner[id]
  BY LiveReceipt DEF View, Ledger!Receipt

\* A receipt of another weight, another owner or the other state, written out.
LEMMA OneField ==
  ASSUME NEW r \in Ledger!Receipt, NEW v
  PROVE  /\ [r EXCEPT !.weight = v] =
              [owner |-> r.owner, custodian |-> r.custodian, weight |-> v, frozen |-> r.frozen]
         /\ [r EXCEPT !.owner = v] =
              [owner |-> v, custodian |-> r.custodian, weight |-> r.weight, frozen |-> r.frozen]
         /\ [r EXCEPT !.frozen = v] =
              [owner |-> r.owner, custodian |-> r.custodian, weight |-> r.weight, frozen |-> v]
<1>1. r = [owner |-> r.owner, custodian |-> r.custodian,
           weight |-> r.weight, frozen |-> r.frozen]
  BY DEF Ledger!Receipt
<1>2. DOMAIN r = {"owner", "custodian", "weight", "frozen"}
  BY <1>1
<1> QED
  BY <1>1, <1>2

\* Two entries agree when the two maps agree on them.
LEMMA SameView ==
  ASSUME NEW x, tokenMeta'[x] = tokenMeta[x], owner'[x] = owner[x]
  PROVE  View(x)' = View(x)
  BY DEF View

\* A new receipt is a deposit.
LEMMA DepositedRefines ==
  ASSUME IInv, NEW id \in Id \ Issued, NEW meta \in TokenMetadata, NEW f \in Address,
         Deposited(id, meta, f)
  PROVE  Ledger!Deposit(id)
<1>1. id \notin Live /\ DOMAIN owner = Live /\ allTokens \in Seq(Id)
  BY DEF IInv, TypeOK, StorageCoherent
<1>2. /\ tokenMeta'[id] = meta /\ owner'[id] = f /\ meta.is_locked = FALSE
      /\ \A x \in Live : tokenMeta'[x] = tokenMeta[x] /\ owner'[x] = owner[x]
      /\ Live' = Live \cup {id}
  BY <1>1 DEF Deposited, Put, Live, TokenMetadata
<1>3. Issued' = Issued \cup {id}
  BY <1>1, RangeAppend DEF Deposited, Issued
<1> DEFINE r == View(id)'
<1>4. r \in Ledger!Receipt /\ ~r.frozen
  BY <1>2 DEF View, Ledger!Receipt, TokenMetadata
<1>5. \A x \in Live : View(x)' = View(x)
  BY <1>2, SameView
<1>6. Receipts' = [x \in DOMAIN Receipts \cup {id} |-> IF x = id THEN r ELSE Receipts[x]]
  BY <1>2, <1>5, ReceiptsView
<1> HIDE DEF r
<1> QED
  BY <1>3, <1>4, <1>6 DEF Ledger!Deposit

\* A pledge freezes, a release unfreezes, a transfer assigns.
LEMMA ChangedRefines ==
  ASSUME IInv, NEW id \in Live, NEW meta \in TokenMetadata, NEW t \in Address,
         Changed(id, meta, t)
  PROVE  Ledger!Assign(id, t) \/ Ledger!Freeze(id) \/ Ledger!Release(id)
<1> DEFINE r == View(id)
<1>1. tokenMeta \in [Live -> TokenMetadata] /\ owner \in [Live -> Address]
  BY DEF IInv, TypeOK, StorageCoherent
<1>2. /\ tokenMeta'[id] = meta /\ owner'[id] = t
      /\ \A x \in Live \ {id} : tokenMeta'[x] = tokenMeta[x] /\ owner'[x] = owner[x]
      /\ Live' = Live /\ Issued' = Issued
  BY <1>1 DEF Changed, Live, Issued
<1>3. /\ r \in Ledger!Receipt /\ r.frozen = tokenMeta[id].is_locked
      /\ r.weight = tokenMeta[id].total_weight_kg
      /\ r.custodian = tokenMeta[id].custodian /\ r.owner = owner[id]
  BY ViewType
<1>4. View(id)' = [owner |-> t, custodian |-> r.custodian,
                   weight |-> r.weight, frozen |-> meta.is_locked]
  BY <1>2, <1>3 DEF View, Changed
<1>5. /\ Receipts[id] = r /\ DOMAIN Receipts = Live
      /\ Receipts = [x \in Live |-> View(x)]
      /\ Receipts' = [x \in Live |-> IF x = id THEN View(id)' ELSE View(x)]
  BY <1>2, SameView, ReceiptsView
<1> HIDE DEF r
<1>6. CASE meta.is_locked = FALSE /\ tokenMeta[id].is_locked = FALSE
  <2>1. View(id)' = [r EXCEPT !.owner = t]
    BY <1>3, <1>4, <1>6, OneField, ZenonT(60)
  <2>2. Receipts' = [Receipts EXCEPT ![id] = [r EXCEPT !.owner = t]]
    BY <1>5, <2>1
  <2>3. Receipts' = [Receipts EXCEPT ![id].owner = t]
    BY <1>5, <2>2
  <2> QED
    BY <1>2, <1>3, <1>5, <1>6, <2>3 DEF Ledger!Assign, Ledger!Free
<1>7. CASE t = owner[id] /\ meta.is_locked = ~tokenMeta[id].is_locked
  <2> DEFINE flag == meta.is_locked
  <2>1. t = r.owner
    BY <1>3, <1>7
  <2>2. View(id)' = [owner |-> r.owner, custodian |-> r.custodian,
                     weight |-> r.weight, frozen |-> flag]
    BY <1>4, <2>1
  <2> HIDE DEF flag
  <2>3. View(id)' = [r EXCEPT !.frozen = flag]
    BY <1>3, <2>2, OneField
  <2>4. Receipts' = [Receipts EXCEPT ![id] = [r EXCEPT !.frozen = flag]]
    BY <1>5, <2>3
  <2>5. Receipts' = [Receipts EXCEPT ![id].frozen = flag]
    BY <1>5, <2>4
  <2>6. flag = ~tokenMeta[id].is_locked
    BY <1>7 DEF flag
  <2>7. CASE tokenMeta[id].is_locked
    <3>1. flag = FALSE
      BY <2>6, <2>7
    <3> QED
      BY <1>2, <1>3, <1>5, <2>5, <2>7, <3>1 DEF Ledger!Release
  <2>8. CASE ~tokenMeta[id].is_locked
    <3>1. flag = TRUE
      BY <2>6, <2>8
    <3> QED
      BY <1>2, <1>3, <1>5, <2>5, <2>8, <3>1 DEF Ledger!Freeze, Ledger!Free
  <2> QED
    BY <2>7, <2>8
<1> QED
  BY <1>6, <1>7 DEF Changed

\* A burn redeems.
LEMMA BurnedRefines ==
  ASSUME IInv, NEW id \in Live, Burned(id)
  PROVE  Ledger!Redeem(id)
<1>1. /\ Live' = Live \ {id} /\ Issued' = Issued
      /\ \A x \in Live' : tokenMeta'[x] = tokenMeta[x] /\ owner'[x] = owner[x]
  BY DEF Burned, Live, Issued
<1>2. Receipts' = [x \in DOMAIN Receipts \ {id} |-> Receipts[x]]
  BY <1>1, SameView, ReceiptsView
<1>3. Ledger!Free(id)
  BY ReceiptsView, ViewType DEF Burned, Ledger!Free
<1> QED
  BY <1>1, <1>2, <1>3 DEF Ledger!Redeem

\* A split divides.
LEMMA DividedRefines ==
  ASSUME IInv, NEW id \in Live, NEW w \in 1..MaxU32, NEW a \in Id \ Issued,
         NEW b \in Id \ Issued, NEW ca \in TokenMetadata, NEW cb \in TokenMetadata,
         Divided(id, w, a, b, ca, cb)
  PROVE  Ledger!Divide(id, a, b)
<1> DEFINE r == View(id)
<1>1. a # b /\ a \notin Live /\ b \notin Live /\ allTokens \in Seq(Id)
  BY DEF Divided, IInv, TypeOK, StorageCoherent
<1>2. /\ tokenMeta'[a] = ca /\ tokenMeta'[b] = cb
      /\ owner'[a] = owner[id] /\ owner'[b] = owner[id]
      /\ \A x \in Live \ {id} : tokenMeta'[x] = tokenMeta[x] /\ owner'[x] = owner[x]
      /\ Live' = (Live \ {id}) \cup {a, b}
  BY <1>1 DEF Divided, Live
<1>3. Issued' = Issued \cup {a, b}
  BY DividedLists
<1>4. /\ r \in Ledger!Receipt /\ r.frozen = FALSE
      /\ r.weight = tokenMeta[id].total_weight_kg
      /\ r.custodian = tokenMeta[id].custodian /\ r.owner = owner[id]
      /\ r.weight - w \in 1..MaxU32
  BY ViewType DEF Divided
<1>5. /\ View(a)' = [owner |-> r.owner, custodian |-> r.custodian,
                     weight |-> w, frozen |-> r.frozen]
      /\ View(b)' = [owner |-> r.owner, custodian |-> r.custodian,
                     weight |-> r.weight - w, frozen |-> r.frozen]
  BY <1>2, <1>4 DEF Divided, ChildOf, View
<1> HIDE DEF r
<1>6. View(a)' = [r EXCEPT !.weight = w] /\ View(b)' = [r EXCEPT !.weight = r.weight - w]
  BY <1>4, <1>5, OneField
<1>7. /\ Receipts[id] = r /\ DOMAIN Receipts = Live
      /\ \A x \in Live \ {id} : View(x)' = Receipts[x]
  BY <1>2, SameView, ReceiptsView DEF r
<1>8. Receipts' = [x \in (DOMAIN Receipts \ {id}) \cup {a, b} |->
                     IF x = a THEN [Receipts[id] EXCEPT !.weight = w]
                     ELSE IF x = b THEN [Receipts[id] EXCEPT !.weight = @ - w]
                     ELSE Receipts[x]]
  <2>1. Receipts' = [x \in (Live \ {id}) \cup {a, b} |-> View(x)']
    BY <1>2, ReceiptsView
  <2> QED
    BY <1>1, <1>6, <1>7, <2>1
<1> QED
  BY <1>1, <1>3, <1>4, <1>7, <1>8 DEF Ledger!Divide, Ledger!Free

\* Each kind of step is a step of the ledger, or leaves the ledger alone.
LEMMA StepRefines ==
  IInv /\ AnyStep => [Ledger!LedgerNext]_(Ledger!ledger)
<1> SUFFICES ASSUME IInv, AnyStep
             PROVE  Ledger!LedgerNext \/ UNCHANGED <<Receipts, Issued>>
  BY DEF Ledger!ledger
<1>1. CASE Kept
  BY <1>1 DEF Kept, tokens, Receipts, Live, Issued
<1>2. ASSUME NEW id \in Id \ Issued, NEW meta \in TokenMetadata,
             NEW f \in Address, Deposited(id, meta, f)
      PROVE  Ledger!LedgerNext
  BY <1>2, DepositedRefines DEF Ledger!LedgerNext
<1>3. ASSUME NEW id \in Live, NEW meta \in TokenMetadata, NEW t \in Address,
             Changed(id, meta, t)
      PROVE  Ledger!LedgerNext
  BY <1>3, ChangedRefines, ReceiptsView DEF Ledger!LedgerNext
<1>4. ASSUME NEW id \in Live, Burned(id)
      PROVE  Ledger!LedgerNext
  BY <1>4, BurnedRefines, ReceiptsView DEF Ledger!LedgerNext
<1>5. ASSUME NEW id \in Live, NEW w \in 1..MaxU32, NEW a \in Id \ Issued,
             NEW b \in Id \ Issued, NEW ca \in TokenMetadata, NEW cb \in TokenMetadata,
             Divided(id, w, a, b, ca, cb)
      PROVE  Ledger!LedgerNext
  <2>1. Ledger!Divide(id, a, b)
    BY <1>5, DividedRefines
  <2> QED
    BY <2>1, ReceiptsView DEF Ledger!LedgerNext
<1> QED
  BY <1>1, <1>2, <1>3, <1>4, <1>5 DEF AnyStep

\* The contract implements the abstract ledger of receipts.
THEOREM Refinement == Spec => ImplementsLedger
<1>1. Init => Ledger!LedgerInit
  BY DEF Init, NoEntries, Ledger!LedgerInit, Receipts, Live, Issued, Range
<1>2. IInv /\ [Next]_vars => [Ledger!LedgerNext]_(Ledger!ledger)
  BY StepCases, StepRefines
<1> QED
  BY <1>1, <1>2, Invariance, PTL DEF Spec, ImplementsLedger, Ledger!LedgerSpec

(***************************************************************************)
(* What the API may hence rely on: the contract's state keeps the promises *)
(* that are proved of every ledger.                                        *)
(***************************************************************************)
Promised == INSTANCE ReceiptLedgerProofs WITH
              Party <- Address, Weight <- 1..MaxU32,
              receipts <- Receipts, issued <- Issued

\* The contract's weights are a ledger's.
LEMMA WeightsPositive == 1..MaxU32 \subseteq Nat \ {0}
  BY SesameAssumption

\* The two instances of the ledger are one.
LEMMA SameLedger ==
  /\ Ledger!LedgerInit => Promised!LedgerInit
  /\ [Ledger!LedgerNext]_(Ledger!ledger) => [Promised!LedgerNext]_(Promised!ledger)
<1>1. Ledger!LedgerInit => Promised!LedgerInit
  BY DEF Ledger!LedgerInit, Promised!LedgerInit
<1>2. Ledger!LedgerNext => Promised!LedgerNext
  BY DEF Ledger!LedgerNext, Promised!LedgerNext, Ledger!Deposit, Promised!Deposit,
         Ledger!Receipt, Promised!Receipt, Ledger!Assign, Promised!Assign, Ledger!Free,
         Promised!Free, Ledger!Freeze, Promised!Freeze, Ledger!Release, Promised!Release,
         Ledger!Divide, Promised!Divide, Ledger!Redeem, Promised!Redeem
<1> QED
  BY <1>1, <1>2 DEF Ledger!ledger, Promised!ledger

(***************************************************************************)
(* What the reconciler and the verifier read of a sesame receipt lasts: a  *)
(* used id never comes back to life, and as long as a receipt lives it     *)
(* keeps the weight and the custodian it had.                              *)
(***************************************************************************)
THEOREM ReadersMayRely == Spec => [][Promised!Lasts]_(Promised!ledger)
  BY Refinement, SameLedger, WeightsPositive, Promised!ReceiptsLast, PTL
  DEF ImplementsLedger, Ledger!LedgerSpec, Promised!LedgerSpec

(***************************************************************************)
(* "A locked token blocks transfer, burn, and split to protect lender      *)
(* collateral" (docs/TOKEN_STANDARD.md), of the sesame contract: a pledged *)
(* receipt stays, with its owner and its goods, until it is unlocked.      *)
(***************************************************************************)
THEOREM PledgesHold == Spec => [][Promised!PledgeBinds]_(Promised!ledger)
  BY Refinement, SameLedger, WeightsPositive, Promised!PledgesBind, PTL
  DEF ImplementsLedger, Ledger!LedgerSpec, Promised!LedgerSpec

(***************************************************************************)
(* No sequence of calls makes sesame receipts for goods that were not      *)
(* deposited: a receipt is new by a mint, or one of the two that a split   *)
(* divides the weight of its token between.                                *)
(***************************************************************************)
THEOREM GoodsHold == Spec => [][Promised!GoodsBalance]_(Promised!ledger)
  BY Refinement, SameLedger, WeightsPositive, Promised!GoodsBalanced, PTL
  DEF ImplementsLedger, Ledger!LedgerSpec, Promised!LedgerSpec
=============================================================================

------------------------- MODULE MaizeReceiptProofs -------------------------
(***************************************************************************)
(* Theorems about the maize receipt contract, for every set of accounts,   *)
(* every bound of its integers and every sequence of ledger times.         *)
(***************************************************************************)
EXTENDS MaizeReceipt, TLAPS

(***************************************************************************)
(* The inductive invariant.  No part is inductive alone: that a new id is  *)
(* not in use needs the numbers of the issued ids to stop at the counter   *)
(* (IdsDense) and the live ids to be issued (StorageCoherent); that they   *)
(* do survives init's reset of the counter because nothing was issued      *)
(* before it (NothingBeforeInit).                                          *)
(***************************************************************************)
IInv == TypeOK /\ StorageCoherent /\ IdsDense /\ NothingBeforeInit

----------------------------------------------------------------------------
(* Lemmas about lists and ids *)

\* Appending one or two ids adds them to the range and nothing else.
LEMMA RangeAppend ==
  ASSUME NEW S, NEW s \in Seq(S), NEW e \in S
  PROVE  Range(Append(s, e)) = Range(s) \cup {e}
<1>1. \A i \in 1..Len(s) : Append(s, e)[i] = s[i]
  OBVIOUS
<1>2. Append(s, e)[Len(s) + 1] = e /\ DOMAIN Append(s, e) = 1..(Len(s) + 1)
  OBVIOUS
<1>3. QED
  BY <1>1, <1>2 DEF Range

\* Two ids appended together are two ids appended one after the other.
LEMMA RangeAppendTwo ==
  ASSUME NEW S, NEW s \in Seq(S), NEW a \in S, NEW b \in S
  PROVE  /\ s \o <<a, b>> = Append(Append(s, a), b)
         /\ Range(s \o <<a, b>>) = Range(s) \cup {a, b}
<1> DEFINE t == Append(s, a)
<1>1. s \o <<a, b>> = Append(t, b)
  OBVIOUS
<1>2. t \in Seq(S) /\ Range(t) = Range(s) \cup {a}
  BY RangeAppend
<1> HIDE DEF t
<1>3. Range(Append(t, b)) = Range(t) \cup {b}
  BY <1>2, RangeAppend
<1>4. QED
  BY <1>1, <1>2, <1>3 DEF t

\* A sequence is the beginning of itself with one or two elements appended.
LEMMA PrefixOfAppend ==
  ASSUME NEW S, NEW s \in Seq(S), NEW a \in S, NEW b \in S
  PROVE  /\ SubSeq(s, 1, Len(s)) = s
         /\ SubSeq(Append(s, a), 1, Len(s)) = s
         /\ SubSeq(Append(Append(s, a), b), 1, Len(s)) = s
<1> DEFINE t == Append(s, a)
           u == Append(t, b)
<1>1. /\ t \in Seq(S) /\ Len(t) = Len(s) + 1
      /\ \A i \in 1..Len(s) : t[i] = s[i]
  OBVIOUS
<1>2. /\ u \in Seq(S) /\ Len(u) = Len(s) + 2
      /\ \A i \in 1..Len(s) : u[i] = s[i]
  OBVIOUS
<1> HIDE DEF t, u
<1>3. ASSUME NEW q \in Seq(S), Len(q) >= Len(s), \A i \in 1..Len(s) : q[i] = s[i]
      PROVE  SubSeq(q, 1, Len(s)) = s
  <2>1. SubSeq(q, 1, Len(s)) = [i \in 1..Len(s) |-> q[i]]
    BY <1>3
  <2>2. s = [i \in 1..Len(s) |-> s[i]]
    OBVIOUS
  <2>3. QED
    BY <1>3, <2>1, <2>2
<1>4. SubSeq(s, 1, Len(s)) = s
  BY <1>3
<1>5. SubSeq(t, 1, Len(s)) = s
  BY <1>1, <1>3
<1>6. SubSeq(u, 1, Len(s)) = s
  BY <1>2, <1>3
<1>7. QED
  BY <1>4, <1>5, <1>6 DEF t, u

\* The next ids are well formed and were never issued.
LEMMA FreshId ==
  ASSUME IInv, NEW n \in 1..MaxU64, n > counter
  PROVE  /\ NewId(n) \in Id
         /\ NewId(n) \notin Issued
         /\ NewId(n).n = n /\ NewId(n).year = year_from_timestamp(now)
<1>1. NewId(n) \in Id /\ NewId(n).n = n /\ NewId(n).year = year_from_timestamp(now)
  BY DEF IInv, TypeOK, NewId, Id, Years
<1>2. \A i \in Issued : i.n <= counter
  BY DEF IInv, TypeOK, IdsDense, Issued, Range
<1>3. QED
  BY <1>1, <1>2, MaizeAssumption DEF IInv, TypeOK

----------------------------------------------------------------------------
(* The steps, one lemma each.  A refused call changes outcome only. *)

\* A refused call keeps the invariant: it writes nothing.
LEMMA RefuseKeeps ==
  ASSUME IInv, NEW answer \in Answers, Refuse(answer)
  PROVE  IInv'
  BY DEF IInv, TypeOK, StorageCoherent, IdsDense, NothingBeforeInit, Refuse,
         storage, Live, Issued

\* Steps that leave every receipt and the counter alone.
LEMMA TokensUnchangedKeeps ==
  ASSUME IInv, UNCHANGED tokens, admin' # None,
         admin' \in Address \cup {None}, custodians' \subseteq Address,
         now' \in Timestamps, outcome' \in Answers
  PROVE  IInv'
  BY DEF IInv, TypeOK, StorageCoherent, IdsDense, NothingBeforeInit, tokens,
         Live, Issued

\* init keeps the invariant: the counter it resets was 0 (NothingBeforeInit).
LEMMA InitialiseKeeps ==
  ASSUME IInv, NEW a \in Address, Initialise(a)
  PROVE  IInv'
<1>1. CASE Refuse(InitOutcome)
  BY <1>1, RefuseKeeps DEF InitOutcome, Answers
<1>2. CASE Accept(InitOutcome) /\ ~Refuse(InitOutcome)
  <2>1. admin = None
    BY <1>2 DEF Accept, InitOutcome
  <2>2. counter = 0
    BY <2>1 DEF IInv, NothingBeforeInit
  <2>3. UNCHANGED tokens /\ admin' = a /\ custodians' = custodians
        /\ now' = now /\ outcome' = "Ok"
    BY <1>2, <2>2 DEF Initialise, Accept, tokens
  <2>4. QED
    BY <2>3, TokensUnchangedKeeps, MaizeAssumption
       DEF IInv, TypeOK, Answers
<1>3. QED
  BY <1>1, <1>2 DEF Initialise

\* Who passes the administrator check is the administrator, and there is one.
LEMMA AdminGate ==
  ASSUME IInv, NEW s \in Address, NEW a \in Address
  PROVE  /\ AdminOutcome(s, a) \in Answers
         /\ AdminOutcome(s, a) = "Ok" => admin = a /\ admin # None
  BY MaizeAssumption DEF AdminOutcome, Answers

\* Registering and removing a custodian keep the invariant.
LEMMA CustodianKeeps ==
  ASSUME IInv, NEW s \in Address, NEW a \in Address, NEW c \in Address,
         AddCustodian(s, a, c) \/ RemoveCustodian(s, a, c)
  PROVE  IInv'
<1>1. CASE Refuse(AdminOutcome(s, a))
  BY <1>1, RefuseKeeps, AdminGate
<1>2. CASE Accept(AdminOutcome(s, a)) /\ ~Refuse(AdminOutcome(s, a))
  <2>1. /\ UNCHANGED <<admin, tokens, now>>
        /\ custodians' \in {custodians \cup {c}, custodians \ {c}}
        /\ outcome' = "Ok"
    BY <1>2 DEF AddCustodian, RemoveCustodian, Accept
  <2>2. admin' # None /\ admin' \in Address
    BY <1>2, <2>1, AdminGate DEF Accept
  <2>3. QED
    BY <2>1, <2>2, TokensUnchangedKeeps DEF IInv, TypeOK, Answers
<1>3. QED
  BY <1>1, <1>2 DEF AddCustodian, RemoveCustodian

\* What an accepted mint does: one well-formed receipt, without a parent, under
\* an id that was never issued.
LEMMA MintEffect ==
  ASSUME IInv, NEW s \in Address, NEW c \in Address, NEW f \in Address,
         NEW m \in Commodity, NEW d \in Deposits,
         Mint(s, c, f, m, d.bags, d.perBag),
         ~Refuse(MintOutcome(s, c, m, d.bags, d.perBag))
  PROVE  \E id \in Id \ Issued, meta \in TokenMetadata :
           /\ c \in custodians /\ counter + 1 <= MaxU64
           /\ id.n = counter + 1 /\ id.year = year_from_timestamp(now)
           /\ meta.token_id = id /\ meta.parent_token_id = None /\ ~meta.is_locked
           /\ meta.deposit_ts = now
           /\ counter' = counter + 1
           /\ tokenMeta' = Put(tokenMeta, id, meta)
           /\ owner' = Put(owner, id, f)
           /\ allTokens' = Append(allTokens, id)
           /\ Live' = Live \cup {id} /\ id \notin Live
           /\ DOMAIN owner' = Live'
           /\ Issued' = Issued \cup {id}
           /\ UNCHANGED <<admin, custodians, now>>
           /\ outcome' = "Ok"
<1> DEFINE answer == MintOutcome(s, c, m, d.bags, d.perBag)
           id == NewId(counter + 1)
           meta == Minted(c, m, d.bags, d.perBag)
<1>1. /\ c \in custodians /\ m \in AcceptedCommodity
      /\ d.bags # 0 /\ d.perBag # 0 /\ counter + 1 <= MaxU64
      /\ checked_mul(d.bags, d.perBag) # None
  <2>1. answer = "Ok"
    BY DEF Mint, Accept
  <2>2. QED
    BY <2>1, MaizeAssumption DEF MintOutcome, IInv, TypeOK
<1>2. /\ counter' = counter + 1
      /\ tokenMeta' = Put(tokenMeta, id, meta)
      /\ owner' = Put(owner, id, f)
      /\ allTokens' = Append(allTokens, id)
      /\ UNCHANGED <<admin, custodians, now>>
      /\ outcome' = "Ok"
  BY DEF Mint, Accept
<1>3. /\ id \in Id /\ id \notin Issued
      /\ id.n = counter + 1 /\ id.year = year_from_timestamp(now)
  BY <1>1, FreshId, MaizeAssumption DEF IInv, TypeOK
<1>4. /\ meta \in TokenMetadata /\ meta.token_id = id
      /\ meta.parent_token_id = None /\ ~meta.is_locked /\ meta.deposit_ts = now
  <2>1. d.bags \in 1..MaxU32 /\ d.perBag \in 1..MaxU32
    BY <1>1, MaizeAssumption
  <2>2. d.bags * d.perBag \in Nat /\ d.bags * d.perBag > 0
    BY <2>1, MaizeAssumption
  <2>3. checked_mul(d.bags, d.perBag) \in 1..MaxU32
    BY <1>1, <2>2, MaizeAssumption DEF checked_mul
  <2>4. QED
    BY <1>1, <1>3, <2>1, <2>3, MaizeAssumption
       DEF Minted, TokenMetadata, IInv, TypeOK
<1>5. Issued' = Issued \cup {id}
  BY <1>2, <1>3, RangeAppend DEF IInv, TypeOK, Issued
<1> HIDE DEF id, meta
<1>6. Live' = Live \cup {id} /\ id \notin Live /\ DOMAIN owner' = Live'
  BY <1>2, <1>3 DEF Put, Live, IInv, StorageCoherent
<1>7. QED
  BY <1>1, <1>2, <1>3, <1>4, <1>5, <1>6

\* mint keeps the invariant.
LEMMA MintKeeps ==
  ASSUME IInv, NEW s \in Address, NEW c \in Address, NEW f \in Address,
         NEW m \in Commodity, NEW d \in Deposits,
         Mint(s, c, f, m, d.bags, d.perBag)
  PROVE  IInv'
<1> DEFINE answer == MintOutcome(s, c, m, d.bags, d.perBag)
<1>1. answer \in Answers
  BY DEF MintOutcome, Answers
<1>2. CASE Refuse(answer)
  BY <1>1, <1>2, RefuseKeeps
<1>3. CASE ~Refuse(answer)
  <2>1. PICK id \in Id \ Issued, meta \in TokenMetadata :
          /\ c \in custodians /\ counter + 1 <= MaxU64
          /\ id.n = counter + 1
          /\ meta.token_id = id
          /\ counter' = counter + 1
          /\ tokenMeta' = Put(tokenMeta, id, meta)
          /\ owner' = Put(owner, id, f)
          /\ allTokens' = Append(allTokens, id)
          /\ Live' = Live \cup {id} /\ id \notin Live
          /\ DOMAIN owner' = Live'
          /\ Issued' = Issued \cup {id}
          /\ UNCHANGED <<admin, custodians, now>>
          /\ outcome' = "Ok"
    BY <1>3, MintEffect
  <2>2. TypeOK'
    <3>1. tokenMeta' \in [Live' -> TokenMetadata] /\ Live' \subseteq Id
      BY <2>1 DEF Put, IInv, TypeOK, Live
    <3>2. owner' \in [DOMAIN owner' -> Address]
      BY <2>1 DEF Put, IInv, TypeOK
    <3>3. allTokens' \in Seq(Id) /\ counter' \in 0..MaxU64
      BY <2>1, MaizeAssumption DEF IInv, TypeOK
    <3>4. QED
      BY <2>1, <3>1, <3>2, <3>3 DEF IInv, TypeOK, Answers
  <2>3. StorageCoherent'
    <3>1. Live' \subseteq Issued'
      BY <2>1 DEF IInv, StorageCoherent
    <3>2. tokenMeta'[id] = meta /\ \A x \in Live : tokenMeta'[x] = tokenMeta[x]
      BY <2>1 DEF Put, Live
    <3>3. \A x \in Live' : tokenMeta'[x].token_id = x
      BY <2>1, <3>2 DEF IInv, StorageCoherent
    <3>4. QED
      BY <2>1, <3>1, <3>3 DEF StorageCoherent
  <2>4. IdsDense'
    BY <2>1 DEF IInv, TypeOK, IdsDense
  <2>5. NothingBeforeInit'
    BY <2>1 DEF IInv, NothingBeforeInit
  <2>6. QED
    BY <2>2, <2>3, <2>4, <2>5 DEF IInv
<1>4. QED
  BY <1>2, <1>3

\* Lock and unlock turn one flag of one receipt over.
LEMMA PledgeEffect ==
  ASSUME IInv, NEW s \in Address, NEW a \in Address, NEW id \in Named,
         Lock(s, a, id) \/ Unlock(s, a, id),
         ~Refuse(LockOutcome(s, a, id)), ~Refuse(UnlockOutcome(s, a, id))
  PROVE  /\ id \in Live /\ Live' = Live
         /\ tokenMeta' = [tokenMeta EXCEPT
                            ![id].is_locked = ~tokenMeta[id].is_locked]
         /\ UNCHANGED <<admin, custodians, counter, owner, allTokens, now>>
         /\ outcome' = "Ok"
<1>1. id \in Live
  BY AdminGate DEF Lock, Unlock, Accept, LockOutcome, UnlockOutcome
<1>2. tokenMeta[id].is_locked \in BOOLEAN
  BY <1>1 DEF IInv, TypeOK, TokenMetadata
<1>3. CASE Lock(s, a, id)
  <2>1. tokenMeta' = [tokenMeta EXCEPT ![id].is_locked = TRUE]
    BY <1>3 DEF Lock
  <2>2. tokenMeta[id].is_locked = FALSE
    BY <1>1, <1>2, <1>3 DEF Lock, Accept, LockOutcome
  <2>3. QED
    BY <1>1, <1>3, <2>1, <2>2 DEF Lock, Accept, Live
<1>4. CASE Unlock(s, a, id)
  <2>1. tokenMeta' = [tokenMeta EXCEPT ![id].is_locked = FALSE]
    BY <1>4 DEF Unlock
  <2>2. tokenMeta[id].is_locked = TRUE
    BY <1>1, <1>2, <1>4 DEF Unlock, Accept, UnlockOutcome
  <2>3. QED
    BY <1>1, <1>4, <2>1, <2>2 DEF Unlock, Accept, Live
<1>5. QED
  BY <1>3, <1>4

\* lock and unlock keep the invariant.
LEMMA PledgeKeeps ==
  ASSUME IInv, NEW s \in Address, NEW a \in Address, NEW id \in Named,
         Lock(s, a, id) \/ Unlock(s, a, id)
  PROVE  IInv'
<1>1. LockOutcome(s, a, id) \in Answers /\ UnlockOutcome(s, a, id) \in Answers
  BY AdminGate DEF LockOutcome, UnlockOutcome, Answers
<1>2. CASE Refuse(LockOutcome(s, a, id)) \/ Refuse(UnlockOutcome(s, a, id))
  BY <1>1, <1>2, RefuseKeeps
<1>3. CASE ~Refuse(LockOutcome(s, a, id)) /\ ~Refuse(UnlockOutcome(s, a, id))
  <2> DEFINE flag == ~tokenMeta[id].is_locked
  <2>1. /\ id \in Live /\ Live' = Live
        /\ tokenMeta' = [tokenMeta EXCEPT ![id].is_locked = flag]
        /\ UNCHANGED <<admin, custodians, counter, owner, allTokens, now>>
        /\ outcome' = "Ok"
    BY <1>3, PledgeEffect
  <2>2. /\ tokenMeta' \in [Live -> TokenMetadata]
        /\ \A x \in Live : tokenMeta'[x].token_id = tokenMeta[x].token_id
    <3> flag \in BOOLEAN
      OBVIOUS
    <3> HIDE DEF flag
    <3>1. \A x \in Live : x # id => tokenMeta'[x] = tokenMeta[x]
      BY <2>1 DEF IInv, TypeOK, Live
    <3>2. tokenMeta'[id] = [tokenMeta[id] EXCEPT !.is_locked = flag]
      BY <2>1 DEF IInv, TypeOK, Live
    <3>3. tokenMeta[id] \in TokenMetadata
      BY <2>1 DEF IInv, TypeOK
    <3>4. /\ tokenMeta'[id] \in TokenMetadata
          /\ tokenMeta'[id].token_id = tokenMeta[id].token_id
      BY <3>2, <3>3 DEF TokenMetadata
    <3>5. tokenMeta' = [x \in Live |-> tokenMeta'[x]]
      BY <2>1 DEF IInv, TypeOK, Live
    <3>6. \A x \in Live : tokenMeta'[x] \in TokenMetadata
      BY <3>1, <3>4 DEF IInv, TypeOK
    <3>7. QED
      BY <3>1, <3>4, <3>5, <3>6
  <2> HIDE DEF flag
  <2>3. TypeOK'
    BY <2>1, <2>2 DEF IInv, TypeOK, Answers
  <2>4. StorageCoherent' /\ IdsDense' /\ NothingBeforeInit'
    BY <2>1, <2>2
       DEF IInv, StorageCoherent, IdsDense, NothingBeforeInit, Issued
  <2>5. QED
    BY <2>3, <2>4 DEF IInv
<1>4. QED
  BY <1>2, <1>3

\* What an accepted transfer does: one entry of the owners of an unlocked receipt.
LEMMA TransferEffect ==
  ASSUME IInv, NEW s \in Address, NEW f \in Address, NEW t \in Address,
         NEW id \in Named, Transfer(s, id, f, t),
         ~Refuse(TransferOutcome(s, id, f))
  PROVE  /\ id \in Live /\ ~tokenMeta[id].is_locked
         /\ owner' = [owner EXCEPT ![id] = t]
         /\ UNCHANGED <<admin, custodians, counter, tokenMeta, allTokens, now>>
         /\ outcome' = "Ok"
<1>1. /\ id \in Live /\ id \in DOMAIN owner /\ ~tokenMeta[id].is_locked
      /\ owner' = Put(owner, id, t)
  BY DEF Transfer, Accept, TransferOutcome
<1>2. Put(owner, id, t) = [owner EXCEPT ![id] = t]
  BY <1>1 DEF Put, IInv, TypeOK
<1>3. QED
  BY <1>1, <1>2 DEF Transfer, Accept

\* transfer keeps the invariant.
LEMMA TransferKeeps ==
  ASSUME IInv, NEW s \in Address, NEW f \in Address, NEW t \in Address,
         NEW id \in Named, Transfer(s, id, f, t)
  PROVE  IInv'
<1>1. TransferOutcome(s, id, f) \in Answers
  BY DEF TransferOutcome, Answers
<1>2. CASE Refuse(TransferOutcome(s, id, f))
  BY <1>1, <1>2, RefuseKeeps
<1>3. CASE ~Refuse(TransferOutcome(s, id, f))
  <2>1. /\ owner' = [owner EXCEPT ![id] = t]
        /\ UNCHANGED <<admin, custodians, counter, tokenMeta, allTokens, now>>
        /\ outcome' = "Ok"
    BY <1>3, TransferEffect
  <2>2. DOMAIN owner' = DOMAIN owner /\ owner' \in [DOMAIN owner -> Address]
    BY <2>1 DEF IInv, TypeOK
  <2>3. QED
    BY <2>1, <2>2 DEF IInv, TypeOK, StorageCoherent, IdsDense, NothingBeforeInit,
                      Live, Issued, Answers
<1>4. QED
  BY <1>2, <1>3

\* What an accepted burn does: an unlocked receipt leaves both maps.
LEMMA BurnEffect ==
  ASSUME IInv, NEW s \in Address, NEW c \in Address, NEW id \in Named,
         Burn(s, c, id), ~Refuse(BurnOutcome(s, c, id))
  PROVE  /\ id \in Live /\ ~tokenMeta[id].is_locked
         /\ Live' = Live \ {id} /\ DOMAIN owner' = Live'
         /\ tokenMeta' = [x \in Live' |-> tokenMeta[x]]
         /\ owner' = [x \in Live' |-> owner[x]]
         /\ UNCHANGED <<admin, custodians, counter, allTokens, now>>
         /\ outcome' = "Ok"
<1>1. /\ id \in Live /\ ~tokenMeta[id].is_locked
      /\ tokenMeta' = Remove(tokenMeta, id)
      /\ owner' = Remove(owner, id)
  BY DEF Burn, Accept, BurnOutcome
<1>2. QED
  BY <1>1 DEF Burn, Accept, Remove, Restrict, Live, IInv, StorageCoherent

\* burn keeps the invariant.
LEMMA BurnKeeps ==
  ASSUME IInv, NEW s \in Address, NEW c \in Address, NEW id \in Named,
         Burn(s, c, id)
  PROVE  IInv'
<1>1. BurnOutcome(s, c, id) \in Answers
  BY DEF BurnOutcome, Answers
<1>2. CASE Refuse(BurnOutcome(s, c, id))
  BY <1>1, <1>2, RefuseKeeps
<1>3. CASE ~Refuse(BurnOutcome(s, c, id))
  <2>1. /\ Live' = Live \ {id} /\ DOMAIN owner' = Live'
        /\ tokenMeta' = [x \in Live' |-> tokenMeta[x]]
        /\ owner' = [x \in Live' |-> owner[x]]
        /\ UNCHANGED <<admin, custodians, counter, allTokens, now>>
        /\ outcome' = "Ok" /\ id \in Live
    BY <1>3, BurnEffect
  <2>2. TypeOK'
    BY <2>1 DEF IInv, TypeOK, StorageCoherent, Answers
  <2>3. StorageCoherent' /\ IdsDense' /\ NothingBeforeInit'
    BY <2>1 DEF IInv, StorageCoherent, IdsDense, NothingBeforeInit, Issued
  <2>4. QED
    BY <2>2, <2>3 DEF IInv
<1>4. QED
  BY <1>2, <1>3

\* Everything an accepted split does, stated without Put and Remove: the
\* invariance, the weight and the refinement proofs all start from it.
LEMMA SplitEffect ==
  ASSUME IInv, NEW id \in Named, NEW w \in 0..MaxU32,
         Split(id, w), ~Refuse(SplitOutcome(id, w)),
         NEW a, a = NewId(counter + 1), NEW b, b = NewId(counter + 2)
  PROVE  /\ id \in Live /\ ~tokenMeta[id].is_locked
         /\ w > 0 /\ w < tokenMeta[id].total_weight_kg
         /\ counter' = counter + 2 /\ counter + 2 <= MaxU64
         /\ a \in Id \ Issued /\ b \in Id \ Issued /\ a # b
         /\ a.n = counter + 1 /\ b.n = counter + 2
         /\ a.year = year_from_timestamp(now) /\ b.year = a.year
         /\ Live' = (Live \ {id}) \cup {a, b}
         /\ DOMAIN owner' = Live'
         /\ tokenMeta' = [x \in Live' |->
              IF x = a THEN Child(id, counter + 1, w)
              ELSE IF x = b
                THEN Child(id, counter + 2, tokenMeta[id].total_weight_kg - w)
              ELSE tokenMeta[x]]
         /\ owner' = [x \in Live' |->
              IF x \in {a, b} THEN owner[id] ELSE owner[x]]
         /\ allTokens' = Append(Append(allTokens, a), b)
         /\ Issued' = Issued \cup {a, b}
         /\ UNCHANGED <<admin, custodians, now>>
         /\ outcome' = "Ok"
<1> DEFINE ca == Child(id, counter + 1, w)
           cb == Child(id, counter + 2, tokenMeta[id].total_weight_kg - w)
<1>1. SplitOutcome(id, w) = "Ok"
  BY DEF Split, Accept
<1>2. /\ id \in Live /\ ~tokenMeta[id].is_locked /\ id \in DOMAIN owner
      /\ ~(w = 0 \/ w >= tokenMeta[id].total_weight_kg)
      /\ ~(counter + 2 > MaxU64)
  BY <1>1 DEF SplitOutcome
<1>3. tokenMeta[id] \in TokenMetadata /\ counter \in Nat
  BY <1>2, MaizeAssumption DEF IInv, TypeOK
<1>4. /\ w > 0 /\ w < tokenMeta[id].total_weight_kg
      /\ counter + 2 <= MaxU64
  BY <1>2, <1>3, MaizeAssumption DEF TokenMetadata
<1>5. /\ counter' = counter + 2
      /\ tokenMeta' = Remove(Put(Put(tokenMeta, a, ca), b, cb), id)
      /\ owner' = Remove(Put(Put(owner, a, owner[id]), b, owner[id]), id)
      /\ allTokens' = allTokens \o <<a, b>>
      /\ UNCHANGED <<admin, custodians, now>>
      /\ outcome' = "Ok"
  BY DEF Split, Accept
<1>6. /\ a \in Id \ Issued /\ a.n = counter + 1
      /\ b \in Id \ Issued /\ b.n = counter + 2
      /\ a.year = year_from_timestamp(now) /\ b.year = a.year
  BY <1>3, <1>4, FreshId, MaizeAssumption
<1>7. a # b
  BY <1>3, <1>6
<1>8. a # id /\ b # id /\ DOMAIN owner = Live
  BY <1>2, <1>6 DEF IInv, StorageCoherent
<1> HIDE DEF ca, cb
<1>9. /\ Live' = (Live \ {id}) \cup {a, b}
      /\ tokenMeta' = [x \in Live' |->
           IF x = a THEN ca ELSE IF x = b THEN cb ELSE tokenMeta[x]]
  BY <1>5, <1>7, <1>8 DEF Put, Remove, Restrict, Live
<1>10. /\ DOMAIN owner' = (Live \ {id}) \cup {a, b}
       /\ owner' = [x \in (Live \ {id}) \cup {a, b} |->
            IF x \in {a, b} THEN owner[id] ELSE owner[x]]
  BY <1>5, <1>7, <1>8 DEF Put, Remove, Restrict
<1>11. /\ allTokens' = Append(Append(allTokens, a), b)
       /\ Issued' = Issued \cup {a, b}
  BY <1>5, <1>6, RangeAppendTwo DEF IInv, TypeOK, Issued
<1>12. QED
  BY <1>2, <1>4, <1>5, <1>6, <1>7, <1>9, <1>10, <1>11 DEF ca, cb

\* A child of a live receipt is well formed and names its parent.
LEMMA ChildType ==
  ASSUME IInv, NEW id \in Live, NEW n \in 1..MaxU64, NewId(n) \in Id,
         NEW w \in 1..MaxU32
  PROVE  /\ Child(id, n, w) \in TokenMetadata
         /\ Child(id, n, w).token_id = NewId(n)
         /\ Child(id, n, w).total_weight_kg = w
         /\ Child(id, n, w).parent_token_id = id
         /\ Child(id, n, w).deposit_ts = tokenMeta[id].deposit_ts
         /\ Child(id, n, w).custodian = tokenMeta[id].custodian
         /\ ~Child(id, n, w).is_locked
<1>1. tokenMeta[id] \in TokenMetadata /\ tokenMeta[id].token_id = id /\ id \in Id
  BY DEF IInv, TypeOK, StorageCoherent
<1>2. tokenMeta[id].bag_count \div 2 \in 0..MaxU32
  <2>1. tokenMeta[id].bag_count \in 0..MaxU32
    BY <1>1 DEF TokenMetadata
  <2>2. QED
    BY <2>1, MaizeAssumption
<1>3. QED
  BY <1>1, <1>2 DEF Child, TokenMetadata

\* split keeps the invariant.
LEMMA SplitKeeps ==
  ASSUME IInv, NEW id \in Named, NEW w \in 0..MaxU32, Split(id, w)
  PROVE  IInv'
<1>1. SplitOutcome(id, w) \in Answers
  BY DEF SplitOutcome, Answers
<1>2. CASE Refuse(SplitOutcome(id, w))
  BY <1>1, <1>2, RefuseKeeps
<1>3. CASE ~Refuse(SplitOutcome(id, w))
  <2> DEFINE a == NewId(counter + 1)
             b == NewId(counter + 2)
             rest == tokenMeta[id].total_weight_kg - w
             ca == Child(id, counter + 1, w)
             cb == Child(id, counter + 2, rest)
  <2>1. /\ id \in Live /\ w > 0 /\ w < tokenMeta[id].total_weight_kg
        /\ counter' = counter + 2 /\ counter + 2 <= MaxU64
        /\ a \in Id \ Issued /\ b \in Id \ Issued /\ a # b
        /\ a.n = counter + 1 /\ b.n = counter + 2
        /\ Live' = (Live \ {id}) \cup {a, b}
        /\ DOMAIN owner' = Live'
        /\ tokenMeta' = [x \in Live' |->
             IF x = a THEN ca ELSE IF x = b THEN cb ELSE tokenMeta[x]]
        /\ owner' = [x \in Live' |->
             IF x \in {a, b} THEN owner[id] ELSE owner[x]]
        /\ allTokens' = Append(Append(allTokens, a), b)
        /\ Issued' = Issued \cup {a, b}
        /\ UNCHANGED <<admin, custodians, now>>
        /\ outcome' = "Ok"
    BY <1>3, SplitEffect
  <2>2. /\ tokenMeta[id] \in TokenMetadata /\ counter \in Nat
        /\ owner \in [Live -> Address] /\ Live \subseteq Issued
        /\ allTokens \in Seq(Id)
    BY <2>1, MaizeAssumption DEF IInv, TypeOK, StorageCoherent
  <2>3. w \in 1..MaxU32 /\ rest \in 1..MaxU32
    <3>1. tokenMeta[id].total_weight_kg \in 1..MaxU32
      BY <2>2 DEF TokenMetadata
    <3>2. QED
      BY <2>1, <3>1, MaizeAssumption
  <2>4. /\ ca \in TokenMetadata /\ ca.token_id = a
        /\ cb \in TokenMetadata /\ cb.token_id = b
    BY <2>1, <2>2, <2>3, ChildType, MaizeAssumption
  <2> HIDE DEF a, b, ca, cb, rest
  <2>5. TypeOK'
    <3>1. tokenMeta' \in [Live' -> TokenMetadata] /\ Live' \subseteq Id
      BY <2>1, <2>4 DEF IInv, TypeOK
    <3>2. owner' \in [DOMAIN owner' -> Address]
      BY <2>1, <2>2
    <3>3. allTokens' \in Seq(Id) /\ counter' \in 0..MaxU64
      BY <2>1, <2>2, MaizeAssumption
    <3>4. QED
      BY <2>1, <3>1, <3>2, <3>3 DEF IInv, TypeOK, Answers
  <2>6. StorageCoherent'
    <3>1. \A x \in Live' : tokenMeta'[x].token_id = x
      BY <2>1, <2>4 DEF IInv, StorageCoherent
    <3>2. QED
      BY <2>1, <2>2, <3>1 DEF StorageCoherent
  <2>7. IdsDense'
    <3>1. Len(allTokens') = counter'
      BY <2>1, <2>2 DEF IInv, IdsDense
    <3>2. \A k \in 1..counter : allTokens'[k] = allTokens[k]
      BY <2>1, <2>2 DEF IInv, IdsDense
    <3>3. allTokens'[counter + 1] = a /\ allTokens'[counter + 2] = b
      BY <2>1, <2>2 DEF IInv, IdsDense
    <3>4. QED
      BY <2>1, <2>2, <3>1, <3>2, <3>3 DEF IInv, IdsDense
  <2>8. NothingBeforeInit'
    BY <2>1 DEF IInv, NothingBeforeInit
  <2>9. QED
    BY <2>5, <2>6, <2>7, <2>8 DEF IInv
<1>4. QED
  BY <1>2, <1>3

----------------------------------------------------------------------------
(* The invariant *)

\* The inductive invariant holds of the empty storage ...
LEMMA InitIInv == Init => IInv
  BY MaizeAssumption
     DEF Init, NoEntries, IInv, TypeOK, StorageCoherent, IdsDense, NothingBeforeInit,
         Live, Issued, Range, Answers

\* ... and every invocation, accepted or refused, keeps it.
LEMMA StepIInv == IInv /\ [Next]_vars => IInv'
<1> SUFFICES ASSUME IInv, [Next]_vars PROVE IInv'
  OBVIOUS
<1>1. CASE UNCHANGED vars
  BY <1>1 DEF vars, IInv, TypeOK, StorageCoherent, IdsDense, NothingBeforeInit,
              Live, Issued
<1>2. CASE \E a \in Address : Initialise(a)
  BY <1>2, InitialiseKeeps
<1>3. CASE \E s, a, c \in Address : AddCustodian(s, a, c) \/ RemoveCustodian(s, a, c)
  BY <1>3, CustodianKeeps
<1>4. CASE \E s, c, f \in Address, m \in Commodity, d \in Deposits :
             Mint(s, c, f, m, d.bags, d.perBag)
  BY <1>4, MintKeeps
<1>5. CASE \E s, a \in Address, id \in Named : Lock(s, a, id) \/ Unlock(s, a, id)
  BY <1>5, PledgeKeeps
<1>6. CASE \E s, f, t \in Address, id \in Named : Transfer(s, id, f, t)
  BY <1>6, TransferKeeps
<1>7. CASE \E s, c \in Address, id \in Named : Burn(s, c, id)
  BY <1>7, BurnKeeps
<1>8. CASE \E id \in Named, w \in 0..MaxU32 : Split(id, w)
  BY <1>8, SplitKeeps
<1>9. CASE LedgerCloses
  BY <1>9 DEF LedgerCloses, IInv, TypeOK, StorageCoherent, IdsDense,
              NothingBeforeInit, storage, Live, Issued
<1>10. QED
  BY <1>1, <1>2, <1>3, <1>4, <1>5, <1>6, <1>7, <1>8, <1>9 DEF Next

\* In every reachable state the inductive invariant holds.
THEOREM Invariance == Spec => []IInv
  BY InitIInv, StepIInv, PTL DEF Spec

\* Every storage entry keeps its type and its integers their width.
THEOREM TypeCorrect == Spec => []TypeOK
<1>1. IInv => TypeOK
  BY DEF IInv
<1>2. QED
  BY <1>1, Invariance, PTL

\* TokenMeta, Owner and AllTokens agree after every sequence of calls.
THEOREM Coherence == Spec => []StorageCoherent
<1>1. IInv => StorageCoherent
  BY DEF IInv
<1>2. QED
  BY <1>1, Invariance, PTL

\* The k-th id issued carries the number k.
THEOREM DenseIds == Spec => []IdsDense
<1>1. IInv => IdsDense
  BY DEF IInv
<1>2. QED
  BY <1>1, Invariance, PTL

\* Before init there is no custodian, no receipt and no number used up.
THEOREM EmptyBeforeInit == Spec => []NothingBeforeInit
<1>1. IInv => NothingBeforeInit
  BY DEF IInv
<1>2. QED
  BY <1>1, Invariance, PTL

----------------------------------------------------------------------------
(* What a step may do to the receipts *)

Kept == UNCHANGED <<tokenMeta, owner, allTokens>>

Deposited(id, meta, f) ==
  /\ id.year = year_from_timestamp(now)
  /\ meta.parent_token_id = None /\ meta.deposit_ts = now /\ ~meta.is_locked
  /\ tokenMeta' = Put(tokenMeta, id, meta)
  /\ owner' = Put(owner, id, f)
  /\ allTokens' = Append(allTokens, id)
  /\ Live' = Live \cup {id} /\ id \notin Live
  /\ Issued' = Issued \cup {id}

Pledged(id) ==
  /\ Live' = Live
  /\ tokenMeta' = [tokenMeta EXCEPT ![id].is_locked = ~tokenMeta[id].is_locked]
  /\ UNCHANGED <<owner, allTokens>>

Moved(id, t) ==
  /\ ~tokenMeta[id].is_locked
  /\ owner' = [owner EXCEPT ![id] = t]
  /\ UNCHANGED <<tokenMeta, allTokens>>

Burned(id) ==
  /\ ~tokenMeta[id].is_locked
  /\ Live' = Live \ {id}
  /\ tokenMeta' = [x \in Live' |-> tokenMeta[x]]
  /\ owner' = [x \in Live' |-> owner[x]]
  /\ UNCHANGED allTokens

Divided(id, w, a, b) ==
  /\ ~tokenMeta[id].is_locked
  /\ w \in 1..MaxU32 /\ tokenMeta[id].total_weight_kg - w \in 1..MaxU32
  /\ a # b
  /\ \A c \in {a, b} : c.n > counter /\ c.year = year_from_timestamp(now)
  /\ Live' = (Live \ {id}) \cup {a, b}
  /\ \E ca, cb \in TokenMetadata :
       /\ ca.total_weight_kg = w
       /\ cb.total_weight_kg = tokenMeta[id].total_weight_kg - w
       /\ \A c \in {ca, cb} :
            /\ c.parent_token_id = id
            /\ c.deposit_ts = tokenMeta[id].deposit_ts
            /\ c.custodian = tokenMeta[id].custodian
            /\ ~c.is_locked
       /\ tokenMeta' = [x \in Live' |->
            IF x = a THEN ca ELSE IF x = b THEN cb ELSE tokenMeta[x]]
  /\ owner' = [x \in Live' |-> IF x \in {a, b} THEN owner[id] ELSE owner[x]]
  /\ allTokens' = Append(Append(allTokens, a), b)
  /\ Issued' = Issued \cup {a, b}

AnyStep ==
  \/ Kept
  \/ \E id \in Id \ Issued, meta \in TokenMetadata, f \in Address :
       Deposited(id, meta, f)
  \/ \E id \in Live : Pledged(id)
  \/ \E id \in Live, t \in Address : Moved(id, t)
  \/ \E id \in Live : Burned(id)
  \/ \E id \in Live, w \in 1..MaxU32, a, b \in Id \ Issued : Divided(id, w, a, b)

\* An accepted split is a Divided step.
LEMMA SplitDivides ==
  ASSUME IInv, NEW id \in Named, NEW w \in 0..MaxU32, Split(id, w),
         ~Refuse(SplitOutcome(id, w))
  PROVE  /\ id \in Live /\ w \in 1..MaxU32
         /\ \E a, b \in Id \ Issued : Divided(id, w, a, b)
<1> DEFINE a == NewId(counter + 1)
           b == NewId(counter + 2)
           rest == tokenMeta[id].total_weight_kg - w
           ca == Child(id, counter + 1, w)
           cb == Child(id, counter + 2, rest)
<1>1. /\ id \in Live /\ ~tokenMeta[id].is_locked
      /\ w > 0 /\ w < tokenMeta[id].total_weight_kg
      /\ counter + 2 <= MaxU64
      /\ a \in Id \ Issued /\ b \in Id \ Issued /\ a # b
      /\ a.n = counter + 1 /\ b.n = counter + 2
      /\ a.year = year_from_timestamp(now) /\ b.year = a.year
      /\ Live' = (Live \ {id}) \cup {a, b}
      /\ tokenMeta' = [x \in Live' |->
           IF x = a THEN ca ELSE IF x = b THEN cb ELSE tokenMeta[x]]
      /\ owner' = [x \in Live' |-> IF x \in {a, b} THEN owner[id] ELSE owner[x]]
      /\ allTokens' = Append(Append(allTokens, a), b)
      /\ Issued' = Issued \cup {a, b}
  BY SplitEffect
<1>2. counter \in Nat /\ tokenMeta[id].total_weight_kg \in 1..MaxU32
  BY <1>1, MaizeAssumption DEF IInv, TypeOK, TokenMetadata
<1>3. w \in 1..MaxU32 /\ rest \in 1..MaxU32
  BY <1>1, <1>2, MaizeAssumption
<1>4. /\ ca \in TokenMetadata /\ ca.total_weight_kg = w
      /\ cb \in TokenMetadata /\ cb.total_weight_kg = rest
      /\ \A c \in {ca, cb} :
           /\ c.parent_token_id = id
           /\ c.deposit_ts = tokenMeta[id].deposit_ts
           /\ c.custodian = tokenMeta[id].custodian
           /\ ~c.is_locked
  BY <1>1, <1>2, <1>3, ChildType, MaizeAssumption
<1> HIDE DEF a, b, ca, cb
<1>5. \A c \in {a, b} : c.n > counter /\ c.year = year_from_timestamp(now)
  <2>1. /\ a.n = counter + 1 /\ b.n = counter + 2
        /\ a.year = year_from_timestamp(now) /\ b.year = a.year
    BY <1>1
  <2>2. QED
    BY <1>2, <2>1
<1>6. \E x, y \in TokenMetadata :
        /\ x.total_weight_kg = w /\ y.total_weight_kg = rest
        /\ \A c \in {x, y} :
             /\ c.parent_token_id = id
             /\ c.deposit_ts = tokenMeta[id].deposit_ts
             /\ c.custodian = tokenMeta[id].custodian
             /\ ~c.is_locked
        /\ tokenMeta' = [z \in Live' |->
             IF z = a THEN x ELSE IF z = b THEN y ELSE tokenMeta[z]]
  BY <1>1, <1>4, Zenon
<1>7. Divided(id, w, a, b)
  BY <1>1, <1>3, <1>5, <1>6, Zenon DEF Divided
<1>8. QED
  BY <1>1, <1>3, <1>7

\* Every step from a state of the invariant is one of six kinds.
LEMMA StepCases == IInv /\ [Next]_vars => AnyStep
<1> SUFFICES ASSUME IInv, [Next]_vars PROVE AnyStep
  OBVIOUS
<1>1. CASE UNCHANGED vars
  BY <1>1 DEF vars, AnyStep, Kept
<1>2. ASSUME NEW answer, Refuse(answer) PROVE AnyStep
  BY <1>2 DEF Refuse, storage, AnyStep, Kept
<1>3. CASE \E a \in Address : Initialise(a)
  BY <1>2, <1>3 DEF Initialise, AnyStep, Kept
<1>4. CASE \E s, a, c \in Address : AddCustodian(s, a, c) \/ RemoveCustodian(s, a, c)
  BY <1>2, <1>4 DEF AddCustodian, RemoveCustodian, tokens, AnyStep, Kept
<1>5. ASSUME NEW s \in Address, NEW c \in Address, NEW f \in Address,
             NEW m \in Commodity, NEW d \in Deposits,
             Mint(s, c, f, m, d.bags, d.perBag)
      PROVE  AnyStep
  <2>1. CASE Refuse(MintOutcome(s, c, m, d.bags, d.perBag))
    BY <1>2, <2>1
  <2>2. CASE ~Refuse(MintOutcome(s, c, m, d.bags, d.perBag))
    <3>1. \E id \in Id \ Issued, meta \in TokenMetadata : Deposited(id, meta, f)
      BY <1>5, <2>2, MintEffect DEF Deposited
    <3>2. QED
      BY <3>1 DEF AnyStep
  <2>3. QED
    BY <2>1, <2>2
<1>6. ASSUME NEW s \in Address, NEW a \in Address, NEW id \in Named,
             Lock(s, a, id) \/ Unlock(s, a, id)
      PROVE  AnyStep
  <2>1. CASE Refuse(LockOutcome(s, a, id)) \/ Refuse(UnlockOutcome(s, a, id))
    BY <1>2, <2>1
  <2>2. CASE ~Refuse(LockOutcome(s, a, id)) /\ ~Refuse(UnlockOutcome(s, a, id))
    BY <1>6, <2>2, PledgeEffect DEF AnyStep, Pledged
  <2>3. QED
    BY <2>1, <2>2
<1>7. ASSUME NEW s \in Address, NEW f \in Address, NEW t \in Address,
             NEW id \in Named, Transfer(s, id, f, t)
      PROVE  AnyStep
  BY <1>2, <1>7, TransferEffect DEF AnyStep, Moved
<1>8. ASSUME NEW s \in Address, NEW c \in Address, NEW id \in Named, Burn(s, c, id)
      PROVE  AnyStep
  BY <1>2, <1>8, BurnEffect DEF AnyStep, Burned
<1>9. ASSUME NEW id \in Named, NEW w \in 0..MaxU32, Split(id, w) PROVE AnyStep
  BY <1>2, <1>9, SplitDivides DEF AnyStep
<1>10. CASE LedgerCloses
  BY <1>10 DEF LedgerCloses, storage, AnyStep, Kept
<1>11. QED
  BY <1>1, <1>3, <1>4, <1>5, <1>6, <1>7, <1>8, <1>9, <1>10 DEF Next

----------------------------------------------------------------------------
(* Action properties *)

\* Each kind of step conserves weight.
LEMMA StepWeight == IInv /\ AnyStep => WeightStep
<1> SUFFICES ASSUME IInv, AnyStep PROVE WeightStep
  OBVIOUS
<1>1. CASE Kept
  BY <1>1 DEF Kept, WeightStep, Live
<1>2. ASSUME NEW id \in Id \ Issued, NEW meta \in TokenMetadata,
             NEW f \in Address, Deposited(id, meta, f)
      PROVE  WeightStep
  <2>1. /\ Live' = Live \cup {id} /\ id \notin Live
        /\ tokenMeta'[id] = meta /\ meta.parent_token_id = None
        /\ \A x \in Live : tokenMeta'[x] = tokenMeta[x]
    BY <1>2 DEF Deposited, Put, Live
  <2>2. QED
    BY <2>1 DEF WeightStep
<1>3. ASSUME NEW id \in Live, Pledged(id) PROVE WeightStep
  <2>1. \A x \in Live : tokenMeta[x] \in TokenMetadata
    BY DEF IInv, TypeOK
  <2>2. /\ Live' = Live
        /\ \A x \in Live : tokenMeta'[x].total_weight_kg = tokenMeta[x].total_weight_kg
    BY <1>3, <2>1 DEF Pledged, Live, TokenMetadata
  <2>3. QED
    BY <2>2 DEF WeightStep
<1>4. ASSUME NEW id \in Live, NEW t \in Address, Moved(id, t) PROVE WeightStep
  BY <1>4 DEF Moved, WeightStep, Live
<1>5. ASSUME NEW id \in Live, Burned(id) PROVE WeightStep
  BY <1>5 DEF Burned, WeightStep
<1>6. ASSUME NEW id \in Live, NEW w \in 1..MaxU32, NEW a \in Id \ Issued,
             NEW b \in Id \ Issued, Divided(id, w, a, b)
      PROVE  WeightStep
  <2>1. a \notin Live /\ b \notin Live /\ a # b
    BY <1>6 DEF IInv, StorageCoherent, Divided
  <2>2. Live' = (Live \ {id}) \cup {a, b}
    BY <1>6 DEF Divided
  <2>3. /\ tokenMeta'[a].parent_token_id = id
        /\ tokenMeta'[b].parent_token_id = id
        /\ tokenMeta'[a].total_weight_kg = w
        /\ tokenMeta'[b].total_weight_kg = tokenMeta[id].total_weight_kg - w
        /\ \A x \in Live \ {id} : tokenMeta'[x] = tokenMeta[x]
    BY <1>6, <2>1, <2>2 DEF Divided
  <2>4. w + (tokenMeta[id].total_weight_kg - w) = tokenMeta[id].total_weight_kg
    BY MaizeAssumption DEF IInv, TypeOK, TokenMetadata
  <2>5. Live \ Live' = {id} /\ Live' \ Live = {a, b} /\ Live \cap Live' = Live \ {id}
    BY <2>1, <2>2
  <2>6. QED
    BY <2>1, <2>3, <2>4, <2>5 DEF WeightStep
<1>7. QED
  BY <1>1, <1>2, <1>3, <1>4, <1>5, <1>6 DEF AnyStep

\* No step makes or loses weight: a receipt's weight never changes, and two
\* children weigh what their parent weighed.
THEOREM WeightConservation == Spec => WeightConserved
<1>1. IInv /\ [Next]_vars => [WeightStep]_vars
  BY StepCases, StepWeight
<1>2. QED
  BY <1>1, Invariance, PTL DEF Spec, WeightConserved

\* Each kind of step leaves a locked receipt in place.
LEMMA StepCollateral == IInv /\ AnyStep => CollateralStep
<1> SUFFICES ASSUME IInv, AnyStep, NEW x \in Live, tokenMeta[x].is_locked
             PROVE  /\ x \in Live'
                    /\ owner'[x] = owner[x]
                    /\ tokenMeta'[x] = [tokenMeta[x] EXCEPT
                                          !.is_locked = tokenMeta'[x].is_locked]
  BY DEF CollateralStep
<1>1. /\ tokenMeta[x] \in TokenMetadata /\ x \in Issued
      /\ tokenMeta[x] = [tokenMeta[x] EXCEPT !.is_locked = tokenMeta[x].is_locked]
  BY DEF IInv, TypeOK, StorageCoherent, TokenMetadata
<1>2. CASE Kept
  BY <1>1, <1>2 DEF Kept, Live
<1>3. ASSUME NEW id \in Id \ Issued, NEW meta \in TokenMetadata,
             NEW f \in Address, Deposited(id, meta, f)
      PROVE  x \in Live' /\ owner'[x] = owner[x] /\ tokenMeta'[x] = tokenMeta[x]
  BY <1>1, <1>3 DEF Deposited, Put, Live, IInv, StorageCoherent
<1>4. ASSUME NEW id \in Live, Pledged(id)
      PROVE  /\ x \in Live' /\ owner'[x] = owner[x]
             /\ tokenMeta'[x] = [tokenMeta[x] EXCEPT
                                   !.is_locked = tokenMeta'[x].is_locked]
  <2>1. CASE x = id
    <3>1. tokenMeta'[x] = [tokenMeta[x] EXCEPT !.is_locked = ~tokenMeta[x].is_locked]
      BY <1>4, <2>1 DEF Pledged, Live, IInv, TypeOK
    <3>2. tokenMeta'[x].is_locked = ~tokenMeta[x].is_locked
      BY <1>1, <3>1 DEF TokenMetadata
    <3>3. QED
      BY <1>4, <3>1, <3>2 DEF Pledged
  <2>2. CASE x # id
    BY <1>1, <1>4, <2>2 DEF Pledged, Live, IInv, TypeOK
  <2>3. QED
    BY <2>1, <2>2
<1>5. ASSUME NEW id \in Live, NEW t \in Address, Moved(id, t)
      PROVE  x \in Live' /\ owner'[x] = owner[x] /\ tokenMeta'[x] = tokenMeta[x]
  BY <1>5 DEF Moved, Live, IInv, TypeOK, StorageCoherent
<1>6. ASSUME NEW id \in Live, Burned(id)
      PROVE  x \in Live' /\ owner'[x] = owner[x] /\ tokenMeta'[x] = tokenMeta[x]
  BY <1>6 DEF Burned
<1>7. ASSUME NEW id \in Live, NEW w \in 1..MaxU32, NEW a \in Id \ Issued,
             NEW b \in Id \ Issued, Divided(id, w, a, b)
      PROVE  x \in Live' /\ owner'[x] = owner[x] /\ tokenMeta'[x] = tokenMeta[x]
  <2>1. x # id /\ x # a /\ x # b /\ x \in Live'
    BY <1>1, <1>7 DEF Divided
  <2>2. QED
    BY <1>7, <2>1 DEF Divided
<1>8. QED
  BY <1>1, <1>2, <1>3, <1>4, <1>5, <1>6, <1>7 DEF AnyStep

\* A locked receipt keeps its owner and its metadata until it is unlocked.
THEOREM CollateralProtection == Spec => CollateralFrozen
<1>1. IInv /\ [Next]_vars => [CollateralStep]_vars
  BY StepCases, StepCollateral
<1>2. QED
  BY <1>1, Invariance, PTL DEF Spec, CollateralFrozen

\* Each kind of step leaves retired ids retired.
LEMMA StepRetired == IInv /\ AnyStep => RetiredStep
<1> SUFFICES ASSUME IInv, AnyStep PROVE RetiredStep
  OBVIOUS
<1>1. /\ allTokens \in Seq(Id) /\ Live \subseteq Issued
      /\ SubSeq(allTokens, 1, Len(allTokens)) = allTokens
  BY PrefixOfAppend DEF IInv, TypeOK, StorageCoherent
<1>2. CASE UNCHANGED allTokens /\ Live' \subseteq Live
  BY <1>1, <1>2 DEF RetiredStep
<1>3. ASSUME NEW id \in Id \ Issued, NEW meta \in TokenMetadata,
             NEW f \in Address, Deposited(id, meta, f)
      PROVE  RetiredStep
  BY <1>1, <1>3, PrefixOfAppend DEF RetiredStep, Deposited
<1>4. ASSUME NEW id \in Live, NEW w \in 1..MaxU32, NEW a \in Id \ Issued,
             NEW b \in Id \ Issued, Divided(id, w, a, b)
      PROVE  RetiredStep
  BY <1>1, <1>4, PrefixOfAppend DEF RetiredStep, Divided
<1>5. CASE Kept
  BY <1>2, <1>5 DEF Kept, Live
<1>6. ASSUME NEW id \in Live, Pledged(id) PROVE RetiredStep
  BY <1>2, <1>6 DEF Pledged
<1>7. ASSUME NEW id \in Live, NEW t \in Address, Moved(id, t) PROVE RetiredStep
  BY <1>2, <1>7 DEF Moved, Live
<1>8. ASSUME NEW id \in Live, Burned(id) PROVE RetiredStep
  BY <1>2, <1>8 DEF Burned
<1>9. QED
  BY <1>3, <1>4, <1>5, <1>6, <1>7, <1>8 DEF AnyStep

\* An id that was burned or split is never live again.
THEOREM RetirementIsFinal == Spec => RetiredForever
<1>1. IInv /\ [Next]_vars => [RetiredStep]_vars
  BY StepCases, StepRetired
<1>2. QED
  BY <1>1, Invariance, PTL DEF Spec, RetiredForever

----------------------------------------------------------------------------
(* Refinement *)

View(id) ==
  [owner |-> owner[id], custodian |-> tokenMeta[id].custodian,
   weight |-> tokenMeta[id].total_weight_kg, frozen |-> tokenMeta[id].is_locked]

\* The mapped receipts, and what an entry that did not change is mapped to.
LEMMA ReceiptsView ==
  /\ Receipts = [id \in Live |-> View(id)]
  /\ DOMAIN Receipts = Live
  /\ Receipts' = [id \in Live' |-> View(id)']
  BY DEF Receipts, View

\* A live receipt is mapped to a receipt of the ledger.
LEMMA ViewType ==
  ASSUME IInv, NEW id \in Live
  PROVE  View(id) \in Ledger!Receipt
  BY DEF View, Ledger!Receipt, IInv, TypeOK, StorageCoherent, TokenMetadata

\* A receipt of another weight, written out.
LEMMA Reweighed ==
  ASSUME NEW r \in Ledger!Receipt, NEW w
  PROVE  [r EXCEPT !.weight = w] =
           [owner |-> r.owner, custodian |-> r.custodian,
            weight |-> w, frozen |-> r.frozen]
<1>1. r = [owner |-> r.owner, custodian |-> r.custodian,
           weight |-> r.weight, frozen |-> r.frozen]
  BY DEF Ledger!Receipt
<1>2. DOMAIN r = {"owner", "custodian", "weight", "frozen"}
  BY <1>1
<1>3. QED
  BY <1>1, <1>2

\* Each kind of step is a step of the ledger, or leaves the ledger alone.
LEMMA StepRefines ==
  IInv /\ IInv' /\ AnyStep => [Ledger!LedgerNext]_(Ledger!ledger)
<1> SUFFICES ASSUME IInv, IInv', AnyStep
             PROVE  Ledger!LedgerNext \/ UNCHANGED <<Receipts, Issued>>
  BY DEF Ledger!ledger
<1>1. CASE Kept
  BY <1>1 DEF Kept, Receipts, Live, Issued
<1>2. ASSUME NEW id \in Id \ Issued, NEW meta \in TokenMetadata,
             NEW f \in Address, Deposited(id, meta, f)
      PROVE  Ledger!LedgerNext
  <2>1. /\ Live' = Live \cup {id} /\ id \notin Live
        /\ Issued' = Issued \cup {id}
        /\ tokenMeta'[id] = meta /\ owner'[id] = f /\ ~meta.is_locked
        /\ \A x \in Live : tokenMeta'[x] = tokenMeta[x] /\ owner'[x] = owner[x]
    BY <1>2 DEF Deposited, Put, Live, IInv, StorageCoherent
  <2> DEFINE r == View(id)'
  <2>2. r \in Ledger!Receipt /\ ~r.frozen
    BY <2>1 DEF View, Ledger!Receipt, TokenMetadata
  <2>3. Receipts' = [x \in Live \cup {id} |-> IF x = id THEN r ELSE Receipts[x]]
    BY <2>1, ReceiptsView DEF View
  <2> HIDE DEF r
  <2>4. Ledger!Deposit(id)
    BY <2>1, <2>2, <2>3, ReceiptsView DEF Ledger!Deposit
  <2>5. QED
    BY <2>4 DEF Ledger!LedgerNext
<1>3. ASSUME NEW id \in Live, Pledged(id) PROVE Ledger!LedgerNext
  <2>1. /\ tokenMeta[id] \in TokenMetadata /\ Live' = Live
        /\ \A x \in Live : x # id => tokenMeta'[x] = tokenMeta[x]
        /\ tokenMeta'[id] = [tokenMeta[id] EXCEPT
                               !.is_locked = ~tokenMeta[id].is_locked]
        /\ UNCHANGED <<owner, Issued>>
    BY <1>3 DEF Pledged, Live, Issued, IInv, TypeOK
  <2>2. /\ tokenMeta'[id].is_locked = ~tokenMeta[id].is_locked
        /\ tokenMeta'[id].custodian = tokenMeta[id].custodian
        /\ tokenMeta'[id].total_weight_kg = tokenMeta[id].total_weight_kg
    BY <2>1 DEF TokenMetadata
  <2>3. Receipts' = [Receipts EXCEPT ![id].frozen = ~Receipts[id].frozen]
    BY <2>1, <2>2, ReceiptsView DEF View
  <2>4. Receipts[id].frozen = tokenMeta[id].is_locked
        /\ tokenMeta[id].is_locked \in BOOLEAN
    BY <2>1, ReceiptsView DEF View, TokenMetadata
  <2>5. CASE tokenMeta[id].is_locked
    <3>1. Ledger!Release(id)
      BY <2>1, <2>3, <2>4, <2>5, ReceiptsView DEF Ledger!Release
    <3>2. QED
      BY <3>1, ReceiptsView DEF Ledger!LedgerNext
  <2>6. CASE ~tokenMeta[id].is_locked
    <3>1. Ledger!Freeze(id)
      BY <2>1, <2>3, <2>4, <2>6, ReceiptsView DEF Ledger!Freeze, Ledger!Free
    <3>2. QED
      BY <3>1, ReceiptsView DEF Ledger!LedgerNext
  <2>7. QED
    BY <2>5, <2>6
<1>4. ASSUME NEW id \in Live, NEW t \in Address, Moved(id, t)
      PROVE  Ledger!LedgerNext
  <2>1. /\ Live' = Live /\ Issued' = Issued /\ tokenMeta' = tokenMeta
        /\ owner'[id] = t /\ \A x \in Live : x # id => owner'[x] = owner[x]
        /\ ~Receipts[id].frozen
    BY <1>4, ReceiptsView
       DEF Moved, Live, Issued, IInv, TypeOK, StorageCoherent, View
  <2>2. Receipts' = [Receipts EXCEPT ![id].owner = t]
    BY <2>1, ReceiptsView DEF View
  <2>3. Ledger!Assign(id, t)
    BY <2>1, <2>2, ReceiptsView DEF Ledger!Assign, Ledger!Free
  <2>4. QED
    BY <2>3, ReceiptsView DEF Ledger!LedgerNext
<1>5. ASSUME NEW id \in Live, Burned(id) PROVE Ledger!LedgerNext
  <2>1. /\ Live' = Live \ {id} /\ Issued' = Issued /\ ~Receipts[id].frozen
        /\ \A x \in Live' : tokenMeta'[x] = tokenMeta[x] /\ owner'[x] = owner[x]
    BY <1>5, ReceiptsView DEF Burned, Issued, View
  <2>2. Receipts' = [x \in Live \ {id} |-> Receipts[x]]
    BY <2>1, ReceiptsView DEF View
  <2>3. Ledger!Redeem(id)
    BY <2>1, <2>2, ReceiptsView DEF Ledger!Redeem, Ledger!Free
  <2>4. QED
    BY <2>3, ReceiptsView DEF Ledger!LedgerNext
<1>6. ASSUME NEW id \in Live, NEW w \in 1..MaxU32, NEW a \in Id \ Issued,
             NEW b \in Id \ Issued, Divided(id, w, a, b)
      PROVE  Ledger!LedgerNext
  <2> DEFINE rest == tokenMeta[id].total_weight_kg - w
  <2>1. /\ Live' = (Live \ {id}) \cup {a, b} /\ Issued' = Issued \cup {a, b}
        /\ a # b /\ a \notin Live /\ b \notin Live /\ id \notin {a, b}
        /\ rest \in 1..MaxU32 /\ ~tokenMeta[id].is_locked
        /\ \A c \in {a, b} :
             /\ owner'[c] = owner[id]
             /\ tokenMeta'[c].custodian = tokenMeta[id].custodian
             /\ ~tokenMeta'[c].is_locked
        /\ tokenMeta'[a].total_weight_kg = w
        /\ tokenMeta'[b].total_weight_kg = rest
        /\ \A x \in Live \ {id} : tokenMeta'[x] = tokenMeta[x] /\ owner'[x] = owner[x]
    BY <1>6 DEF Divided, IInv, StorageCoherent
  <2>2. /\ tokenMeta[id].is_locked = FALSE
        /\ tokenMeta'[a].is_locked = FALSE /\ tokenMeta'[b].is_locked = FALSE
    BY <2>1 DEF IInv, TypeOK, TokenMetadata
  <2>3. /\ View(a)' = [View(id) EXCEPT !.weight = w]
        /\ View(b)' = [View(id) EXCEPT !.weight = @ - w]
    <3>1. /\ owner'[a] = owner[id] /\ owner'[b] = owner[id]
          /\ tokenMeta'[a].custodian = tokenMeta[id].custodian
          /\ tokenMeta'[b].custodian = tokenMeta[id].custodian
      BY <2>1
    <3>2. View(a)' = [owner |-> owner[id], custodian |-> tokenMeta[id].custodian,
                      weight |-> w, frozen |-> FALSE]
      BY <2>1, <2>2, <3>1 DEF View
    <3>3. View(b)' = [owner |-> owner[id], custodian |-> tokenMeta[id].custodian,
                      weight |-> rest, frozen |-> FALSE]
      BY <2>1, <2>2, <3>1 DEF View
    <3>4. /\ View(id).owner = owner[id] /\ View(id).frozen = FALSE
          /\ View(id).custodian = tokenMeta[id].custodian
          /\ View(id).weight = tokenMeta[id].total_weight_kg
      BY <2>2 DEF View
    <3>5. View(id) \in Ledger!Receipt
      BY ViewType
    <3>6. [View(id) EXCEPT !.weight = w] =
            [owner |-> View(id).owner, custodian |-> View(id).custodian,
             weight |-> w, frozen |-> View(id).frozen]
      BY <3>5, Reweighed
    <3>7. [View(id) EXCEPT !.weight = View(id).weight - w] =
            [owner |-> View(id).owner, custodian |-> View(id).custodian,
             weight |-> View(id).weight - w, frozen |-> View(id).frozen]
      BY <3>5, Reweighed
    <3>8. View(a)' = [View(id) EXCEPT !.weight = w]
      BY <3>2, <3>4, <3>6
    <3>9. View(b)' = [View(id) EXCEPT !.weight = View(id).weight - w]
      BY <3>3, <3>4, <3>7
    <3>10. QED
      BY <3>8, <3>9
  <2>4. Receipts' = [x \in (Live \ {id}) \cup {a, b} |->
                       IF x = a THEN [Receipts[id] EXCEPT !.weight = w]
                       ELSE IF x = b THEN [Receipts[id] EXCEPT !.weight = @ - w]
                       ELSE Receipts[x]]
    <3>1. \A x \in Live \ {id} : View(x)' = Receipts[x]
      BY <2>1, ReceiptsView DEF View
    <3>2. Receipts[id] = View(id)
      BY ReceiptsView
    <3>3. QED
      BY <2>1, <2>3, <3>1, <3>2, ReceiptsView
  <2>5. ~Receipts[id].frozen /\ Receipts[id].weight - w \in 1..MaxU32
    BY <2>1, ReceiptsView DEF View
  <2>6. Ledger!Divide(id, a, b)
    BY <2>1, <2>4, <2>5, ReceiptsView DEF Ledger!Divide, Ledger!Free
  <2>7. QED
    BY <2>6, ReceiptsView DEF Ledger!LedgerNext
<1>7. QED
  BY <1>1, <1>2, <1>3, <1>4, <1>5, <1>6 DEF AnyStep

\* The contract implements the abstract ledger of receipts.
THEOREM Refinement == Spec => ImplementsLedger
<1>1. Init => Ledger!LedgerInit
  BY DEF Init, NoEntries, Ledger!LedgerInit, Receipts, Live, Issued, Range
<1>2. IInv /\ IInv' /\ [Next]_vars => [Ledger!LedgerNext]_(Ledger!ledger)
  BY StepCases, StepRefines
<1>3. QED
  BY <1>1, <1>2, Invariance, PTL DEF Spec, ImplementsLedger, Ledger!LedgerSpec

----------------------------------------------------------------------------
(* The years of ids *)

\* What is proved of the calendar and of recursion, no state of which matters here.
Calendar == INSTANCE TokenIdsProofs WITH
              start <- now, day <- now, date <- now, counter <- counter,
              Starts <- {}, Contracts <- {}, Days <- 0, LastSecondDay <- 0

\* The instance meets the assumption of its module.
LEMMA CalendarAssumption ==
  {} \subseteq [era : Nat, counter : Nat] /\ 0 \in Nat /\ 0 \in 0..Calendar!LastWholeDay
  BY SMT DEF Calendar!LastWholeDay

\* Years are numbers and do not run backwards.
LEMMA YearMonotone ==
  ASSUME NEW s \in Nat, NEW t \in Nat, s <= t
  PROVE  /\ year_from_timestamp(s) \in Nat
         /\ year_from_timestamp(s) <= year_from_timestamp(t)
<1>1. \A z : Calendar!year_from_timestamp(z) = year_from_timestamp(z)
  BY SMT DEF year_from_timestamp, year_of_day, SecondsPerDay,
             Calendar!year_from_timestamp, Calendar!year_of_day, Calendar!SecondsPerDay
<1>2. /\ Calendar!year_from_timestamp(s) \in Nat
      /\ Calendar!year_from_timestamp(s) <= Calendar!year_from_timestamp(t)
  BY CalendarAssumption, Calendar!YearMonotone, SMTT(60)
<1>3. QED
  BY <1>1, <1>2, Zenon

----------------------------------------------------------------------------
(* Provenance *)

\* No live id is dated after the ledger's year.  Lineage needs it for the
\* children of a split, which are dated by the ledger's year.
Dated == \A id \in Live : id.year <= year_from_timestamp(now)

\* What Lineage says of one live receipt.
Descends(id) ==
  LET meta == tokenMeta[id]  parent == meta.parent_token_id
  IN  /\ meta.deposit_ts <= now
      /\ year_from_timestamp(meta.deposit_ts) <= id.year
      /\ parent = None => id.year = year_from_timestamp(meta.deposit_ts)
      /\ parent # None =>
           /\ parent \in Issued \ Live
           /\ parent.n < id.n /\ parent.year <= id.year

\* The times and years of a well-formed state are numbers.
LEMMA Times ==
  ASSUME IInv
  PROVE  /\ now \in Nat /\ year_from_timestamp(now) \in Nat /\ counter \in Nat
         /\ \A id \in Issued : id.year \in Nat /\ id.n \in Nat /\ id.n <= counter /\ id # None
         /\ \A id \in Live :
              /\ tokenMeta[id].deposit_ts \in Nat
              /\ year_from_timestamp(tokenMeta[id].deposit_ts) \in Nat
<1>1. \A t \in Timestamps : t \in Nat /\ year_from_timestamp(t) \in Nat
  BY YearMonotone, MaizeAssumption
<1>2. \A id \in Issued : id \in Id /\ id.n <= counter
  BY DEF IInv, TypeOK, IdsDense, Issued, Range
<1>3. \A id \in Id : id.year \in Nat /\ id.n \in Nat /\ id # None
  BY <1>1, AbsentAssumption, MaizeAssumption DEF Id, Years
<1>4. \A id \in Live : tokenMeta[id].deposit_ts \in Timestamps
  BY DEF IInv, TypeOK, TokenMetadata
<1>5. now \in Timestamps /\ counter \in Nat
  BY MaizeAssumption DEF IInv, TypeOK
<1>6. QED
  BY <1>1, <1>2, <1>3, <1>4, <1>5

\* An invocation takes no time; a ledger closes later than the one before it.
LEMMA TimePasses ==
  ASSUME IInv, [Next]_vars
  PROVE  now' \in Timestamps /\ now <= now'
<1>1. now \in Timestamps /\ now \in Nat
  BY MaizeAssumption DEF IInv, TypeOK
<1>2. now' = now \/ LedgerCloses
  BY DEF Next, vars, Refuse, Accept, Initialise, AddCustodian, RemoveCustodian,
         Mint, Lock, Unlock, Transfer, Burn, Split
<1>3. LedgerCloses => now' \in Timestamps /\ now' > now /\ now' \in Nat
  BY MaizeAssumption DEF LedgerCloses
<1>4. QED
  BY <1>1, <1>2, <1>3

\* Time passes, no used id comes back to life, a receipt that stays keeps its
\* deposit and its parent, and a new one descends as it should.
LEMMA LineageKept ==
  ASSUME IInv, Lineage, Dated, now' \in Timestamps, now <= now',
         Issued \subseteq Issued', Live' \cap Issued \subseteq Live,
         \A id \in Live' \cap Live :
           /\ tokenMeta'[id].deposit_ts = tokenMeta[id].deposit_ts
           /\ tokenMeta'[id].parent_token_id = tokenMeta[id].parent_token_id,
         \A id \in Live' \ Live :
           Descends(id)' /\ id.year <= year_from_timestamp(now')
  PROVE  Lineage' /\ Dated'
<1>1. /\ now' \in Nat /\ year_from_timestamp(now) <= year_from_timestamp(now')
      /\ year_from_timestamp(now') \in Nat
  BY Times, YearMonotone, MaizeAssumption
<1>2. ASSUME NEW id \in Live' \cap Live
      PROVE  Descends(id)' /\ id.year <= year_from_timestamp(now')
  <2>1. Descends(id) /\ id.year <= year_from_timestamp(now)
    BY <1>2 DEF Lineage, Descends, Dated
  <2>2. id.year \in Nat /\ tokenMeta[id].deposit_ts \in Nat
    BY <1>2, Times DEF IInv, StorageCoherent
  <2>3. tokenMeta'[id].deposit_ts <= now'
    BY <1>1, <1>2, <2>1, <2>2, Times DEF Descends
  <2>4. id.year <= year_from_timestamp(now')
    BY <1>1, <2>1, <2>2, Times
  <2>5. QED
    BY <1>2, <2>1, <2>3, <2>4 DEF Descends
<1>3. \A id \in Live' : Descends(id)' /\ id.year <= year_from_timestamp(now')
  BY <1>2
<1>4. QED
  BY <1>3 DEF Lineage, Descends, Dated

\* Each kind of step keeps the provenance of the receipts.
LEMMA StepLineage == IInv /\ Lineage /\ Dated /\ [Next]_vars => Lineage' /\ Dated'
<1> SUFFICES ASSUME IInv, Lineage, Dated, [Next]_vars PROVE Lineage' /\ Dated'
  OBVIOUS
<1> DEFINE goal == Lineage' /\ Dated'
<1>1. now' \in Timestamps /\ now <= now' /\ now \in Nat /\ now' \in Nat
  BY TimePasses, Times, MaizeAssumption
<1>2. /\ Live \subseteq Issued
      /\ \A id \in Live : tokenMeta[id] \in TokenMetadata
  BY DEF IInv, TypeOK, StorageCoherent
<1>3. ASSUME Issued \subseteq Issued', Live' \subseteq Live,
             \A id \in Live' :
               /\ tokenMeta'[id].deposit_ts = tokenMeta[id].deposit_ts
               /\ tokenMeta'[id].parent_token_id = tokenMeta[id].parent_token_id
      PROVE  goal
  BY <1>1, <1>3, LineageKept
<1>4. CASE Kept
  BY <1>3, <1>4 DEF Kept, Live, Issued
<1>5. ASSUME NEW id \in Id \ Issued, NEW meta \in TokenMetadata,
             NEW f \in Address, Deposited(id, meta, f)
      PROVE  goal
  <2>1. /\ Live' = Live \cup {id} /\ id \notin Live /\ Issued' = Issued \cup {id}
        /\ tokenMeta'[id] = meta /\ \A x \in Live : tokenMeta'[x] = tokenMeta[x]
        /\ meta.parent_token_id = None /\ meta.deposit_ts = now
        /\ id.year = year_from_timestamp(now)
    BY <1>5 DEF Deposited, Put, Live
  <2>2. year_from_timestamp(now) <= id.year /\ id.year \in Nat
    BY <2>1, Times
  <2>3. Descends(id)'
    BY <1>1, <2>1, <2>2 DEF Descends
  <2>4. id.year <= year_from_timestamp(now')
    BY <1>1, <2>1, YearMonotone
  <2>5. QED
    BY <1>1, <2>1, <2>3, <2>4, LineageKept
<1>6. ASSUME NEW id \in Live, Pledged(id) PROVE goal
  <2>1. /\ Live' = Live /\ Issued' = Issued
        /\ \A x \in Live :
             /\ tokenMeta'[x].deposit_ts = tokenMeta[x].deposit_ts
             /\ tokenMeta'[x].parent_token_id = tokenMeta[x].parent_token_id
    BY <1>2, <1>6 DEF Pledged, Live, Issued, TokenMetadata
  <2>2. QED
    BY <1>3, <2>1
<1>7. ASSUME NEW id \in Live, NEW t \in Address, Moved(id, t) PROVE goal
  BY <1>3, <1>7 DEF Moved, Live, Issued
<1>8. ASSUME NEW id \in Live, Burned(id) PROVE goal
  BY <1>3, <1>8 DEF Burned, Issued
<1>9. ASSUME NEW id \in Live, NEW w \in 1..MaxU32, NEW a \in Id \ Issued,
             NEW b \in Id \ Issued, Divided(id, w, a, b)
      PROVE  goal
  <2>1. a \notin Live /\ b \notin Live /\ a # id /\ b # id
    BY <1>2
  <2>2. /\ Live' = (Live \ {id}) \cup {a, b} /\ Issued' = Issued \cup {a, b}
        /\ \A x \in Live \ {id} : tokenMeta'[x] = tokenMeta[x]
        /\ \A c \in {a, b} :
             /\ c.n > counter /\ c.year = year_from_timestamp(now)
             /\ tokenMeta'[c].parent_token_id = id
             /\ tokenMeta'[c].deposit_ts = tokenMeta[id].deposit_ts
    BY <1>9, <2>1 DEF Divided
  <2>3. /\ Descends(id) /\ id.year <= year_from_timestamp(now)
        /\ id \in Issued' \ Live' /\ id # None
    BY <1>2, <2>1, <2>2, Times DEF Lineage, Descends, Dated
  <2>4. ASSUME NEW c \in {a, b}
        PROVE  Descends(c)' /\ c.year <= year_from_timestamp(now')
    <3> DEFINE deposit == tokenMeta[id].deposit_ts
               deposited == year_from_timestamp(deposit)
    <3>1. /\ deposit \in Nat /\ deposited \in Nat /\ id.year \in Nat
          /\ id.n \in Nat /\ id.n <= counter /\ counter \in Nat
          /\ year_from_timestamp(now) \in Nat
      BY <1>2, Times
    <3>2. year_from_timestamp(now) <= year_from_timestamp(now')
      BY <1>1, YearMonotone
    <3>3. c.n > counter /\ c.year = year_from_timestamp(now) /\ c \in Id
      BY <2>2
    <3>4. deposit <= now /\ deposited <= id.year
      BY <2>3 DEF Descends
    <3>5. /\ tokenMeta'[c].parent_token_id = id
          /\ tokenMeta'[c].deposit_ts = deposit
      BY <2>2
    <3> HIDE DEF deposit
    <3>6. deposit <= now' /\ deposited <= c.year /\ id.year <= c.year
      BY <1>1, <2>3, <3>1, <3>3, <3>4
    <3>7. id.n < c.n
      BY <3>1, <3>3 DEF Id
    <3>8. Descends(c)'
      BY <2>3, <3>5, <3>6, <3>7 DEF Descends
    <3>9. QED
      BY <3>2, <3>3, <3>8
  <2>5. QED
    BY <1>1, <1>2, <2>2, <2>4, LineageKept
<1>10. QED
  BY <1>4, <1>5, <1>6, <1>7, <1>8, <1>9, StepCases DEF AnyStep

\* Before the first mint there is no receipt to ask about.
LEMMA InitLineage == Init => Lineage /\ Dated
  BY DEF Init, Lineage, Dated, Live, NoEntries

(***************************************************************************)
(* Every live receipt's id is dated between its deposit and the ledger's   *)
(* time, and a receipt that came from a split names a parent that was      *)
(* issued before it and is retired, after any number of splits, transfers  *)
(* and years.  (split, which copies the deposit and dates the children.)   *)
(***************************************************************************)
THEOREM Provenance == Spec => []Lineage
  BY InitIInv, StepIInv, InitLineage, StepLineage, PTL DEF Spec

----------------------------------------------------------------------------
(* Balances *)

\* The turn of the loop that looks at the k-th id issued.
Turn(wallet, k, list) ==
  IF allTokens[k] \in DOMAIN owner /\ owner[allTokens[k]] = wallet
  THEN Append(list, allTokens[k]) ELSE list

\* The loop of query_balance has a value after each turn, and turns as it is written.
LEMMA PushedLoop ==
  ASSUME allTokens \in Seq(Id), NEW wallet
  PROVE  /\ Pushed(wallet) \in [0..Len(allTokens) -> Seq(Id)]
         /\ Pushed(wallet)[0] = <<>>
         /\ \A k \in 1..Len(allTokens) :
              Pushed(wallet)[k] = Turn(wallet, k, Pushed(wallet)[k - 1])
<1> DEFINE n == Len(allTokens)
           turn == [x \in (1..n) \X Seq(Id) |-> Turn(wallet, x[1], x[2])]
           Holds(g) == g = [k \in 0..n |-> IF k = 0 THEN <<>> ELSE Turn(wallet, k, g[k - 1])]
<1>1. n \in Nat /\ \A k \in 1..n : allTokens[k] \in Id
  OBVIOUS
<1> HIDE DEF n
<1>2. \A k \in 1..n, list \in Seq(Id) : Turn(wallet, k, list) \in Seq(Id)
  BY <1>1 DEF Turn
<1>3. turn \in [(1..n) \X Seq(Id) -> Seq(Id)]
  BY <1>2
<1>4. \A k \in 1..n, list \in Seq(Id) : turn[<<k, list>>] = Turn(wallet, k, list)
  OBVIOUS
<1> HIDE DEF turn
<1>5. PICK f \in [0..n -> Seq(Id)] :
        f[0] = <<>> /\ \A k \in 1..n : f[k] = turn[<<k, f[k - 1]>>]
  <2> DEFINE V == Seq(Id)
             base == <<>>
  <2>1. n \in Nat /\ base \in V /\ turn \in [(1..n) \X V -> V]
    BY <1>1, <1>3
  <2> HIDE DEF V, base
  <2>2. \E f \in [0..n -> V] : Calendar!Loops(f, n, base, turn)
    BY <2>1, CalendarAssumption, Calendar!Loop, Zenon
  <2> QED
    BY <2>2 DEF V, base, Calendar!Loops
<1>6. \A k \in 1..n : f[k] = Turn(wallet, k, f[k - 1])
  <2>1. \A k \in 1..n : k - 1 \in 0..n
    BY <1>1
  <2> QED
    BY <1>4, <1>5, <2>1
<1>7. Holds(f)
  <2>1. \A k \in 0..n : f[k] = IF k = 0 THEN <<>> ELSE Turn(wallet, k, f[k - 1])
    <3>1. \A k \in 0..n : k = 0 \/ k \in 1..n
      BY <1>1
    <3> QED
      BY <1>5, <1>6, <3>1, Zenon
  <2> QED
    BY <2>1
<1>8. Pushed(wallet) = CHOOSE g : Holds(g)
  BY DEF Pushed, Turn, n
<1>9. Holds(Pushed(wallet))
  BY <1>7, <1>8, Zenon
<1> HIDE DEF Holds
<1>10. ASSUME NEW g, Holds(g)
       PROVE  g = f
  <2> DEFINE S == {k \in 0..n : g[k] = f[k]}
  <2>1. 0 \in S
    <3>1. 0 \in 0..n
      BY <1>1
    <3> QED
      BY <1>5, <1>10, <3>1 DEF Holds
  <2>2. ASSUME NEW k \in 1..n, k - 1 \in S
        PROVE  k \in S
    <3>1. k \in 0..n /\ k # 0 /\ g[k - 1] = f[k - 1]
      BY <1>1, <2>2
    <3>2. g[k] = Turn(wallet, k, g[k - 1])
      BY <1>10, <3>1 DEF Holds
    <3> QED
      BY <1>6, <3>1, <3>2
  <2>3. \A k \in 0..n : k \in S
    <3> HIDE DEF S
    <3> QED
      BY <1>1, <2>1, <2>2, CalendarAssumption, Calendar!Turns, Zenon
  <2>4. g = [k \in 0..n |-> g[k]] /\ f = [k \in 0..n |-> f[k]]
    BY <1>10 DEF Holds
  <2> QED
    BY <2>3, <2>4, Zenon
<1>11. Pushed(wallet) = f
  BY <1>9, <1>10, Zenon
<1> QED
  BY <1>5, <1>6, <1>11, Zenon DEF n

\* A live receipt of the wallet.
Held(wallet, id) == id \in DOMAIN owner /\ owner[id] = wallet

\* After k turns the list has the wallet's receipts among the first k issued, in order.
Listed(wallet, k) ==
  LET list == Pushed(wallet)[k]
  IN  /\ \A id : id \in Range(list) <=> id \in Issued /\ id.n <= k /\ Held(wallet, id)
      /\ \A i, j \in DOMAIN list : i < j => list[i].n < list[j].n

\* So it has after the last.
LEMMA ListedThroughout ==
  ASSUME IInv, NEW wallet
  PROVE  \A k \in 0..Len(allTokens) : Listed(wallet, k)
<1> DEFINE n == Len(allTokens)
           p == Pushed(wallet)
           S == {k \in 0..n : Listed(wallet, k)}
<1>1. allTokens \in Seq(Id) /\ n \in Nat
  BY DEF IInv, TypeOK
<1>2. \A k \in 1..n : allTokens[k] \in Id /\ allTokens[k] \in Issued /\ allTokens[k].n = k
  BY <1>1 DEF IInv, IdsDense, Issued, Range
<1>3. \A id \in Issued : id.n \in 1..n /\ id = allTokens[id.n]
  BY <1>1, <1>2 DEF Issued, Range
<1>4. /\ p \in [0..n -> Seq(Id)] /\ p[0] = <<>>
      /\ \A k \in 1..n : p[k] = Turn(wallet, k, p[k - 1])
  BY <1>1, PushedLoop
<1>5. \A k \in 0..n : Listed(wallet, k) <=>
        /\ \A id : id \in Range(p[k]) <=> id \in Issued /\ id.n <= k /\ Held(wallet, id)
        /\ \A i, j \in DOMAIN p[k] : i < j => p[k][i].n < p[k][j].n
  BY DEF Listed
<1> HIDE DEF n, p
<1>6. Listed(wallet, 0)
  <2>1. 0 \in 0..n /\ Range(p[0]) = {} /\ DOMAIN p[0] = {}
    BY <1>1, <1>4 DEF Range
  <2>2. \A id \in Issued : ~(id.n <= 0)
    BY <1>1, <1>3
  <2> QED
    BY <1>5, <2>1, <2>2
<1>7. ASSUME NEW k \in 1..n, k - 1 \in S
      PROVE  Listed(wallet, k)
  <2> DEFINE s == p[k - 1]
             e == allTokens[k]
  <2>1. k - 1 \in 0..n
    BY <1>1
  <2>2. s \in Seq(Id) /\ e \in Id /\ e \in Issued /\ e.n = k
    BY <1>2, <1>4, <2>1
  <2>3. Listed(wallet, k - 1)
    BY <1>7
  <2>4. /\ \A id : id \in Range(s) <=> id \in Issued /\ id.n <= k - 1 /\ Held(wallet, id)
        /\ \A i, j \in DOMAIN s : i < j => s[i].n < s[j].n
    BY <1>5, <2>1, <2>3
  <2>5. \A id \in Issued : id.n <= k <=> id.n <= k - 1 \/ id = e
    BY <1>1, <1>3, <2>1, <2>2
  <2>6. p[k] = IF Held(wallet, e) THEN Append(s, e) ELSE s
    BY <1>4, <2>1 DEF Turn, Held
  <2> HIDE DEF s, e
  <2>7. CASE Held(wallet, e)
    <3>1. p[k] = Append(s, e) /\ Range(p[k]) = Range(s) \cup {e}
      BY <2>2, <2>6, <2>7, RangeAppend
    <3>2. \A id : id \in Range(p[k]) <=> id \in Issued /\ id.n <= k /\ Held(wallet, id)
      BY <2>2, <2>4, <2>5, <2>7, <3>1
    <3>3. ASSUME NEW i \in DOMAIN p[k], NEW j \in DOMAIN p[k], i < j
          PROVE  p[k][i].n < p[k][j].n
      <4>1. /\ i \in 1..Len(s) /\ p[k][i] = s[i]
            /\ \/ j \in 1..Len(s) /\ p[k][j] = s[j]
               \/ j = Len(s) + 1 /\ p[k][j] = e
        <5>1. /\ DOMAIN Append(s, e) = 1..(Len(s) + 1) /\ Append(s, e)[Len(s) + 1] = e
              /\ \A x \in 1..Len(s) : Append(s, e)[x] = s[x]
          BY <2>2
        <5>2. Len(s) \in Nat /\ i \in 1..(Len(s) + 1) /\ j \in 1..(Len(s) + 1)
          BY <2>2, <3>1, <5>1
        <5>3. i \in 1..Len(s) /\ (j \in 1..Len(s) \/ j = Len(s) + 1)
          BY <3>3, <5>2
        <5> QED
          BY <3>1, <5>1, <5>3, Zenon
      <4>2. s[i] \in Range(s) /\ i \in DOMAIN s
        BY <2>2, <4>1 DEF Range
      <4>3. s[i].n \in 1..n /\ s[i].n <= k - 1
        BY <1>3, <2>4, <4>2
      <4>4. s[i].n < e.n
        BY <1>1, <2>1, <2>2, <4>3
      <4>5. j \in 1..Len(s) => j \in DOMAIN s
        BY <2>2
      <4> QED
        BY <2>4, <3>3, <4>1, <4>2, <4>4, <4>5
    <3> QED
      BY <1>5, <3>2, <3>3
  <2>8. CASE ~Held(wallet, e)
    <3>1. p[k] = s
      BY <2>6, <2>8
    <3>2. \A id : id \in Range(p[k]) <=> id \in Issued /\ id.n <= k /\ Held(wallet, id)
      BY <2>4, <2>5, <2>8, <3>1
    <3> QED
      BY <1>5, <2>4, <3>1, <3>2
  <2> QED
    BY <2>7, <2>8
<1>8. \A k \in 0..n : k \in S
  <2>1. 0 \in S /\ \A k \in 1..n : k - 1 \in S => k \in S
    BY <1>1, <1>6, <1>7
  <2> HIDE DEF S
  <2> QED
    BY <1>1, <2>1, CalendarAssumption, Calendar!Turns, Zenon
<1> QED
  BY <1>8 DEF n

\* Every live receipt is in one wallet's list, which has no other.
LEMMA Partition == IInv => BalancesPartitionLive
<1> SUFFICES ASSUME IInv, NEW w \in Address
             PROVE  LET list == query_balance(w)
                    IN  /\ Range(list) = {id \in Live : owner[id] = w}
                        /\ \A j, k \in DOMAIN list : j < k => list[j].n < list[k].n
  BY DEF BalancesPartitionLive
<1> DEFINE n == Len(allTokens)
           list == Pushed(w)[n]
<1>1. n \in 0..Len(allTokens)
  BY DEF IInv, TypeOK
<1>2. /\ \A id : id \in Range(list) <=> id \in Issued /\ id.n <= n /\ Held(w, id)
      /\ \A j, k \in DOMAIN list : j < k => list[j].n < list[k].n
  BY <1>1, ListedThroughout DEF Listed
<1>3. \A id \in Issued : id.n <= n
  BY DEF IInv, TypeOK, IdsDense, Issued, Range
<1>4. \A id : id \in Issued /\ Held(w, id) <=> id \in Live /\ owner[id] = w
  BY DEF IInv, StorageCoherent, Held
<1> HIDE DEF list
<1>5. Range(list) = {id \in Live : owner[id] = w}
  BY <1>2, <1>3, <1>4
<1> QED
  BY <1>2, <1>5 DEF query_balance, list

(***************************************************************************)
(* query_balance over all wallets lists every live receipt, in one wallet, *)
(* once and in the order of issue, and no retired one, after any number of *)
(* mints, transfers, splits and burns.  (query_balance's loop over the ids *)
(* ever issued, which skips the ones without an owner.)                    *)
(***************************************************************************)
THEOREM BalancesPartition == Spec => []BalancesPartitionLive
  BY Invariance, Partition, PTL
=============================================================================

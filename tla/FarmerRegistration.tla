------------------------- MODULE FarmerRegistration -------------------------
(***************************************************************************)
(* Registration of farmers                                                 *)
(* (apps/api/src/services/farmerRegistration.service.ts) and signing for   *)
(* them (farmerWalletSigner.service.ts).  A request looks for the phone    *)
(* number in the repository, makes a key pair, encrypts it under the       *)
(* secret in the process's environment, derives the PIN's hash and creates *)
(* a farmer, with awaits in between.  The repository has findByPhone and   *)
(* create and promises nothing about the two together; it may reject       *)
(* either, create also after having stored the farmer.  The process may be *)
(* restarted, with another secret, and loses the requests it has; what it  *)
(* had asked the repository to create may still be stored.                 *)
(***************************************************************************)
EXTENDS Naturals, Sequences, FiniteSets

CONSTANTS Request,     \* the requests, each made once; retries are requests too
          Number,      \* phone numbers, without formatting or prefix
          Secret,      \* values of FARMER_KEY_ENCRYPTION_SECRET that are a key
          MaxRestarts, \* bound: restarts in a behaviour
          None

VARIABLES farmers,  \* the repository: farmers in the order of their creation
          request,  \* where each request stands
          secret,   \* the process's secret, None if it is not a key
          restarts  \* restarts so far

vars == <<farmers, request, secret, restarts>>

----------------------------------------------------------------------------
(* The wallet signer *)

\* A key pair is named for the request that made it.
encryptPrivateKey(keypair) == [under |-> secret, key |-> keypair]

\* The key pair in a blob; None if decryption throws.
decryptPrivateKey(blob) == IF secret # None /\ blob.under = secret THEN blob.key ELSE None

\* The key pair a farmer's transaction is signed with, or None.
signAsFarmer(farmer) == decryptPrivateKey(farmer.encryptedPrivateKey)

----------------------------------------------------------------------------
(* A registration *)

\* What a request may say: a number with or without its plus sign and its
\* punctuation, or something that is not a number; a PIN that is one or not.
Input == [number : Number \cup {None}, plus : BOOLEAN, spaced : BOOLEAN, pinOK : BOOLEAN]

Waiting == [at |-> "waiting"]
Answer(status, phone) == [at |-> "answered", status |-> status, phone |-> phone]

\* A farmer is told the phone and the public key; of is history, the secret the
\* process has when it says so.
Created(farmer) ==
  [at |-> "answered", status |-> 201, phone |-> farmer.phone,
   publicKey |-> farmer.publicKey, of |-> secret]

\* The handler rethrows what is no RegistrationError.
Thrown == [at |-> "thrown"]

\* Nobody hears of the request again.
Lost == [at |-> "lost"]

\* Mutant: the punctuation stays.
normalizePhone_verbatim(input) == <<input.plus, input.number, input.spaced>>

\* The punctuation goes, a leading plus sign stays.
normalizePhone(input) == <<input.plus, input.number>>

Move(r, place) == request' = [request EXCEPT ![r] = place]

\* The input is checked, phone first, and the repository asked for the phone.
Receive(r, input) ==
  /\ request[r] = Waiting
  /\ Move(r, IF input.number = None \/ ~input.pinOK THEN Answer(400, None)
             ELSE [at |-> "finding", phone |-> normalizePhone(input), said |-> input])
  /\ UNCHANGED farmers

\* The repository looks the phone up; saw is history, the farmers there are now.
FindByPhone(r) ==
  /\ request[r].at = "finding"
  /\ Move(r, [at |-> "found", phone |-> request[r].phone, said |-> request[r].said,
              saw |-> Len(farmers),
              taken |-> \E k \in DOMAIN farmers : farmers[k].phone = request[r].phone])
  /\ UNCHANGED farmers

\* Mutant: a phone that is taken does not stop the registration.
Decide_always(r) ==
  /\ request[r].at = "found"
  /\ secret # None
  /\ Move(r, [at |-> "hashing", phone |-> request[r].phone, said |-> request[r].said,
              saw |-> request[r].saw, blob |-> encryptPrivateKey(r)])
  /\ UNCHANGED farmers

\* Mutant: without a secret a wallet is sealed under a key made up for it.
Decide_madeUp(r) ==
  /\ request[r].at = "found"
  /\ Move(r, IF request[r].taken THEN Answer(409, request[r].phone)
             ELSE [at |-> "hashing", phone |-> request[r].phone, said |-> request[r].said,
                   saw |-> request[r].saw, blob |-> encryptPrivateKey(r)])
  /\ UNCHANGED farmers

\* The answer is acted on: a conflict, or a key pair, encrypted before the PIN's
\* hash is begun, which takes a secret that is a key.
Decide(r) ==
  /\ request[r].at = "found"
  /\ Move(r, IF request[r].taken THEN Answer(409, request[r].phone)
             ELSE IF secret = None THEN Thrown
             ELSE [at |-> "hashing", phone |-> request[r].phone, said |-> request[r].said,
                   saw |-> request[r].saw, blob |-> encryptPrivateKey(r)])
  /\ UNCHANGED farmers

\* The farmer a request has made; said and saw are history.
Farmer(r) ==
  [id |-> r, phone |-> request[r].phone, publicKey |-> r,
   encryptedPrivateKey |-> request[r].blob, said |-> request[r].said, saw |-> request[r].saw]

\* Mutant: the creation is not awaited and may be lost.
Hashed_detached(r) ==
  /\ request[r].at = "hashing"
  /\ Move(r, Created(Farmer(r)))
  /\ UNCHANGED farmers

\* scrypt is done: the repository is asked to create the farmer.
Hashed(r) ==
  /\ request[r].at = "hashing"
  /\ Move(r, [request[r] EXCEPT !.at = "creating"])
  /\ UNCHANGED farmers

\* The repository creates the farmer, and says so or rejects all the same.
Create(r) ==
  /\ request[r].at \in {"creating", "orphaned"}
  /\ farmers' = Append(farmers, Farmer(r))
  /\ \E after \in IF request[r].at = "orphaned" THEN {Lost}
                  ELSE {Created(Farmer(r)), Thrown} : Move(r, after)

\* The repository rejects what it was asked, or scrypt fails.
Reject(r) ==
  /\ request[r].at \in {"finding", "hashing", "creating"}
  /\ Move(r, Thrown)
  /\ UNCHANGED farmers

----------------------------------------------------------------------------

InMemory(r) == request[r].at \in {"finding", "found", "hashing", "creating"}

\* The process ends and is started anew.
Restart ==
  /\ restarts < MaxRestarts
  /\ restarts' = restarts + 1
  /\ secret' \in Secret \cup {None}
  /\ request' = [r \in Request |->
                   IF request[r].at = "creating" THEN [request[r] EXCEPT !.at = "orphaned"]
                   ELSE IF InMemory(r) THEN Lost ELSE request[r]]
  /\ UNCHANGED farmers

Init ==
  /\ farmers = <<>>
  /\ request = [r \in Request |-> Waiting]
  /\ secret \in Secret \cup {None}
  /\ restarts = 0

Next ==
  \/ /\ \E r \in Request :
          \/ \E input \in Input : Receive(r, input)
          \/ FindByPhone(r)
          \/ Decide(r)
          \/ Hashed(r)
          \/ Create(r)
          \/ Reject(r)
     /\ UNCHANGED <<secret, restarts>>
  \/ Restart

Spec == Init /\ [][Next]_vars

----------------------------------------------------------------------------
(* Properties *)

Answered(r, status) == request[r].at = "answered" /\ request[r].status = status

\* The number a farmer typed, sign and digits.
Dialled(f) == <<f.said.plus, f.said.number>>

(***************************************************************************)
(* A second farmer with a number ever comes only from registrations that   *)
(* overlapped: a farmer that was there when the phone was looked up is not *)
(* joined by another who typed the same sign and digits, however spaced.   *)
(* So one who retries after an error or a crash gets no second wallet,     *)
(* unless the first one was still on its way to the repository.            *)
(***************************************************************************)
SecondOnlyByOverlap ==
  \A i, j \in DOMAIN farmers :
    (i < j /\ Dialled(farmers[i]) = Dialled(farmers[j])) => farmers[j].saw < i

(***************************************************************************)
(* The answers tell what is stored, whatever failed: "created" means one   *)
(* farmer, a refusal means none and "exists" that another has the phone;   *)
(* a farmer whose request was not told so is one whose request threw or    *)
(* was lost after create was called.                                       *)
(***************************************************************************)
Farmers(r) == Cardinality({k \in DOMAIN farmers : farmers[k].id = r})
AnswersTell ==
  \A r \in Request :
    /\ Farmers(r) <= 1
    /\ Answered(r, 201) => Farmers(r) = 1
    /\ Farmers(r) = 1 => Answered(r, 201) \/ request[r] \in {Thrown, Lost}
    /\ Answered(r, 409) => \E k \in DOMAIN farmers : farmers[k].phone = request[r].phone

(***************************************************************************)
(* Whoever was told "created" is signed for with the key they were told,   *)
(* as long as the process has the secret it had when it said so, and again *)
(* once that secret is back; under another one signing fails.  So the      *)
(* secret a wallet was sealed under, before the PIN was hashed and the     *)
(* repository asked, is still the process's when the farmer is told:       *)
(* nobody is told of a wallet that was sealed in an earlier process, or    *)
(* without a secret, and cannot be used.                                   *)
(***************************************************************************)
SignsForTheTold ==
  \A r \in Request, k \in DOMAIN farmers :
    (Answered(r, 201) /\ farmers[k].id = r) =>
      signAsFarmer(farmers[k]) =
        IF secret = request[r].of THEN request[r].publicKey ELSE None
=============================================================================

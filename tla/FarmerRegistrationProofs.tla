---------------------- MODULE FarmerRegistrationProofs ----------------------
(***************************************************************************)
(* Theorems about the registration of farmers and the signing for them,    *)
(* for every set of requests, numbers and secrets, any number of restarts  *)
(* and every failure of the repository.                                    *)
(***************************************************************************)
EXTENDS FarmerRegistration, FiniteSetTheorems, TLAPS

----------------------------------------------------------------------------
(* The inductive invariant *)

Phone == {normalizePhone(input) : input \in Input}
Blob == [under : Secret \ {None}, key : Request]
FarmerRecord ==
  [id : Request, phone : Phone, publicKey : Request, encryptedPrivateKey : Blob,
   said : Input, saw : Nat]

Place ==
  {Waiting, Thrown, Lost}
    \cup [at : {"answered"}, status : {400, 409}, phone : Phone \cup {None}]
    \cup [at : {"answered"}, status : {201}, phone : Phone, publicKey : Request, of : Secret \ {None}]
    \cup [at : {"finding"}, phone : Phone, said : Input]
    \cup [at : {"found"}, phone : Phone, said : Input, saw : Nat, taken : BOOLEAN]
    \cup [at : {"hashing", "creating", "orphaned"}, phone : Phone, said : Input,
          saw : Nat, blob : Blob]

Typed ==
  /\ farmers \in Seq(FarmerRecord)
  /\ request \in [Request -> Place]
  /\ secret \in Secret \cup {None}

\* The request has made its farmer, who is not in the repository yet.
Underway(place) == place.at \in {"hashing", "creating", "orphaned"}

\* The look up found nobody with the phone, and that was acted on or will be.
Clear(place) == Underway(place) \/ (place.at = "found" /\ ~place.taken)

HasFarmer(r) == \E k \in DOMAIN farmers : farmers[k].id = r
Registered(phone) == \E k \in DOMAIN farmers : farmers[k].phone = phone

\* What the place of a request in progress says of the repository: a look up
\* that found nothing is right about the farmers there were then.
Progress(r) ==
  LET place == request[r]
  IN  /\ (place.at \in {"finding", "found"} \/ Underway(place)) =>
           place.phone = normalizePhone(place.said)
      /\ (place.at = "found" /\ place.taken) => Registered(place.phone)
      /\ Clear(place) =>
           /\ place.saw <= Len(farmers)
           /\ \A k \in 1..place.saw : farmers[k].phone # place.phone
      /\ Underway(place) => place.blob.key = r
      /\ InMemory(r) /\ Underway(place) => place.blob.under = secret

\* What the end of a request says of the repository.
Ending(r) ==
  /\ Answered(r, 409) => Registered(request[r].phone)
  /\ Answered(r, 201) => HasFarmer(r)
  /\ HasFarmer(r) => Answered(r, 201) \/ request[r] \in {Thrown, Lost}

\* What a farmer was told is what was sealed for them.
Told ==
  \A r \in Request, k \in DOMAIN farmers :
    (Answered(r, 201) /\ farmers[k].id = r) =>
      /\ request[r].publicKey = farmers[k].publicKey
      /\ request[r].of = farmers[k].encryptedPrivateKey.under

Recorded ==
  /\ \A k \in DOMAIN farmers :
       /\ farmers[k].phone = Dialled(farmers[k])
       /\ farmers[k].encryptedPrivateKey.key = farmers[k].publicKey
  /\ \A j, k \in DOMAIN farmers : farmers[j].id = farmers[k].id => j = k

(***************************************************************************)
(* SecondOnlyByOverlap is not inductive: that a creation keeps it follows  *)
(* from what the request's look up saw (Progress), which stays true as     *)
(* farmers are only ever added.  AnswersTell needs that a request creates  *)
(* once, hence that one in progress has no farmer (Ending).                *)
(* SignsForTheTold needs that a wallet in memory is sealed under the       *)
(* secret of the process (Progress), which a restart makes true by losing  *)
(* what was in memory; a creation it leaves behind is told to nobody.      *)
(***************************************************************************)
IInv ==
  /\ Typed
  /\ \A r \in Request : Progress(r) /\ Ending(r)
  /\ Recorded
  /\ Told
  /\ SecondOnlyByOverlap

----------------------------------------------------------------------------
(* The steps *)

\* A request whose place does not change keeps what its place says when nobody
\* else's farmer, or none, is added.
LEMMA OthersKeep ==
  ASSUME IInv, NEW r \in Request, request'[r] = request[r],
         \/ farmers' = farmers
         \/ \E f \in FarmerRecord : farmers' = Append(farmers, f) /\ f.id # r,
         secret' = secret \/ ~InMemory(r)
  PROVE  Progress(r)' /\ Ending(r)'
<1>1. /\ farmers \in Seq(FarmerRecord) /\ farmers' \in Seq(FarmerRecord)
      /\ Len(farmers) <= Len(farmers')
      /\ \A k \in DOMAIN farmers : k \in DOMAIN farmers' /\ farmers'[k] = farmers[k]
      /\ \A k \in DOMAIN farmers' : k \in DOMAIN farmers \/ farmers'[k].id # r
  BY DEF IInv, Typed
<1>2. HasFarmer(r)' <=> HasFarmer(r)
  BY <1>1 DEF HasFarmer
<1>3. \A phone : Registered(phone) => Registered(phone)'
  BY <1>1 DEF Registered
<1>4. Progress(r) /\ Ending(r) /\ request[r] \in Place
  BY DEF IInv, Typed
<1>5. Ending(r)'
  BY <1>2, <1>3, <1>4 DEF Ending, Answered
<1>6. ASSUME Clear(request[r])
      PROVE  /\ request[r].saw <= Len(farmers')
             /\ \A k \in 1..request[r].saw : farmers'[k].phone # request[r].phone
  <2>1. request[r].saw \in Nat
    BY <1>4, <1>6 DEF Place, Clear, Underway, Waiting, Thrown, Lost
  <2>2. QED
    BY <1>1, <1>4, <1>6, <2>1 DEF Progress
<1>7. Progress(r)'
  BY <1>3, <1>4, <1>6 DEF Progress, Clear, Underway, InMemory
<1>8. QED
  BY <1>5, <1>7

\* A step that moves one request and leaves the repository alone.
LEMMA MoveKeeps ==
  ASSUME IInv, NEW r \in Request, NEW place \in Place, Move(r, place),
         UNCHANGED <<farmers, secret>>, Progress(r)', Ending(r)', ~Answered(r, 201)'
  PROVE  IInv'
<1>1. Typed'
  BY DEF IInv, Typed, Move
<1>2. ASSUME NEW s \in Request PROVE Progress(s)' /\ Ending(s)'
  <2>1. CASE s = r
    BY <2>1
  <2>2. CASE s # r
    <3>1. request'[s] = request[s]
      BY <2>2 DEF IInv, Typed, Move
    <3>2. QED
      BY <3>1, OthersKeep
  <2>3. QED
    BY <2>1, <2>2
<1>3. Recorded' /\ SecondOnlyByOverlap'
  BY DEF IInv, Recorded, SecondOnlyByOverlap, Dialled
<1>4. Told'
  <2>1. \A s \in Request : s = r \/ request'[s] = request[s]
    BY DEF IInv, Typed, Move
  <2>2. QED
    BY <2>1 DEF IInv, Told, Answered
<1>5. QED
  BY <1>1, <1>2, <1>3, <1>4 DEF IInv

\* A request that arrives is refused or begins its look up.
LEMMA ReceiveKeeps ==
  ASSUME IInv, NEW r \in Request, NEW input \in Input, Receive(r, input),
         UNCHANGED secret
  PROVE  IInv'
<1> DEFINE place == IF input.number = None \/ ~input.pinOK THEN Answer(400, None)
                    ELSE [at |-> "finding", phone |-> normalizePhone(input), said |-> input]
<1>1. Move(r, place) /\ UNCHANGED farmers /\ request[r] = Waiting
  BY DEF Receive
<1>2. place \in Place
  BY DEF Place, Phone, Answer
<1>3. request'[r] = place
  BY <1>1 DEF IInv, Typed, Move
<1>4. Progress(r)'
  BY <1>3 DEF Progress, Clear, Underway, Answer
<1>5. ~HasFarmer(r)
  BY <1>1 DEF IInv, Ending, Answered, Waiting, Thrown, Lost
<1>6. Ending(r)'
  BY <1>1, <1>3, <1>5 DEF Ending, Answered, Answer, HasFarmer
<1>7. ~Answered(r, 201)'
  BY <1>3 DEF Answered, Answer
<1> HIDE DEF place
<1>8. QED
  BY <1>1, <1>2, <1>4, <1>6, <1>7, MoveKeeps

\* A look up that finds nobody is right about the farmers there are now.
LEMMA FindByPhoneKeeps ==
  ASSUME IInv, NEW r \in Request, FindByPhone(r), UNCHANGED secret
  PROVE  IInv'
<1> DEFINE here == request[r]
           taken == Registered(here.phone)
           place == [at |-> "found", phone |-> here.phone, said |-> here.said,
                     saw |-> Len(farmers), taken |-> taken]
<1>1. /\ Move(r, place) /\ UNCHANGED farmers
      /\ here \in Place /\ here.at = "finding"
  BY DEF FindByPhone, Registered, IInv, Typed
<1>2. here.phone \in Phone /\ here.said \in Input /\ taken \in BOOLEAN /\ Len(farmers) \in Nat
  BY <1>1 DEF Place, Waiting, Thrown, Lost, IInv, Typed, Registered
<1>3. here.phone = normalizePhone(here.said) /\ ~HasFarmer(r)
  BY <1>1 DEF IInv, Progress, Ending, Answered, Waiting, Thrown, Lost
<1>4. /\ \A phone : Registered(phone) <=> Registered(phone)'
      /\ ~taken => \A k \in 1..Len(farmers) : farmers[k].phone # here.phone
  BY <1>1 DEF Registered, IInv, Typed
<1> HIDE DEF taken
<1>5. place \in Place
  BY <1>2 DEF Place
<1>6. request'[r] = place
  BY <1>1 DEF IInv, Typed, Move
<1>7. Progress(r)'
  <2>1. taken => Registered(here.phone)
    BY DEF taken
  <2>2. QED
    BY <1>1, <1>2, <1>3, <1>4, <1>6, <2>1 DEF Progress, Clear, Underway
<1>8. Ending(r)'
  BY <1>1, <1>3, <1>6 DEF Ending, Answered, HasFarmer
<1>9. ~Answered(r, 201)'
  BY <1>6 DEF Answered
<1> HIDE DEF place
<1>10. QED
  BY <1>1, <1>5, <1>7, <1>8, <1>9, MoveKeeps

\* A request that found the phone free is given its own key pair, sealed under
\* a secret that is one.
LEMMA DecideKeeps ==
  ASSUME IInv, NEW r \in Request, Decide(r), UNCHANGED secret
  PROVE  IInv'
<1> DEFINE here == request[r]
           place == IF here.taken THEN Answer(409, here.phone)
                    ELSE IF secret = None THEN Thrown
                    ELSE [at |-> "hashing", phone |-> here.phone, said |-> here.said,
                          saw |-> here.saw, blob |-> encryptPrivateKey(r)]
<1>1. /\ Move(r, place) /\ UNCHANGED farmers
      /\ here \in [at : {"found"}, phone : Phone, said : Input, saw : Nat, taken : BOOLEAN]
  BY DEF Decide, IInv, Typed, Place, Waiting, Thrown, Lost
<1>2. /\ secret # None => encryptPrivateKey(r) \in Blob
      /\ encryptPrivateKey(r).key = r /\ encryptPrivateKey(r).under = secret
  BY DEF encryptPrivateKey, Blob, IInv, Typed
<1>3. place \in Place
  BY <1>1, <1>2 DEF Place, Answer
<1>4. request'[r] = place
  BY <1>1 DEF IInv, Typed, Move
<1>5. Progress(r) /\ ~HasFarmer(r)
  BY <1>1 DEF IInv, Ending, Answered, Waiting, Thrown, Lost
<1>6. \A phone : Registered(phone) => Registered(phone)'
  BY <1>1 DEF Registered
<1>7. CASE here.taken
  <2>1. request'[r] = Answer(409, here.phone) /\ Registered(here.phone)
    BY <1>1, <1>4, <1>5, <1>7 DEF Progress
  <2>2. Progress(r)'
    BY <2>1 DEF Progress, Clear, Underway, Answer
  <2>3. Ending(r)'
    BY <1>1, <1>5, <1>6, <2>1 DEF Ending, Answered, Answer, HasFarmer, Registered
  <2>4. ~Answered(r, 201)'
    BY <2>1 DEF Answered, Answer
  <2> HIDE DEF place
  <2>5. QED
    BY <1>1, <1>3, <2>2, <2>3, <2>4, MoveKeeps
<1>8. CASE ~here.taken /\ secret = None
  <2>1. request'[r] = Thrown
    BY <1>4, <1>8
  <2>2. Progress(r)' /\ Ending(r)' /\ ~Answered(r, 201)'
    BY <2>1 DEF Progress, Clear, Underway, Ending, Answered, Thrown
  <2> HIDE DEF place
  <2>3. QED
    BY <1>1, <1>3, <2>2, MoveKeeps
<1>9. CASE ~here.taken /\ secret # None
  <2>1. request'[r] = [at |-> "hashing", phone |-> here.phone, said |-> here.said,
                       saw |-> here.saw, blob |-> encryptPrivateKey(r)]
    BY <1>4, <1>9
  <2>2. Progress(r)'
    BY <1>1, <1>2, <1>5, <1>9, <2>1 DEF Progress, Clear, Underway, InMemory
  <2>3. Ending(r)' /\ ~Answered(r, 201)'
    BY <1>1, <1>5, <2>1 DEF Ending, Answered, HasFarmer
  <2> HIDE DEF place
  <2>4. QED
    BY <1>1, <1>3, <2>2, <2>3, MoveKeeps
<1>10. QED
  BY <1>7, <1>8, <1>9

\* The PIN's hash is there: only the step changes.
LEMMA HashedKeeps ==
  ASSUME IInv, NEW r \in Request, Hashed(r), UNCHANGED secret
  PROVE  IInv'
<1> DEFINE here == request[r]
           place == [at |-> "creating", phone |-> here.phone, said |-> here.said,
                     saw |-> here.saw, blob |-> here.blob]
<1>1. /\ here \in [at : {"hashing", "creating", "orphaned"}, phone : Phone,
                   said : Input, saw : Nat, blob : Blob]
      /\ here.at = "hashing"
  BY DEF Hashed, IInv, Typed, Place, Waiting, Thrown, Lost
<1>2. place \in Place
  BY <1>1 DEF Place
<1>3. Move(r, place) /\ UNCHANGED farmers
  BY <1>1 DEF Hashed
<1>4. request'[r] = place
  BY <1>3 DEF IInv, Typed, Move
<1>5. Progress(r) /\ ~HasFarmer(r)
  BY <1>1 DEF IInv, Ending, Answered, Waiting, Thrown, Lost
<1>6. Progress(r)' /\ Ending(r)' /\ ~Answered(r, 201)'
  BY <1>1, <1>3, <1>4, <1>5
     DEF Progress, Clear, Underway, InMemory, Ending, Answered, HasFarmer
<1> HIDE DEF place
<1>7. QED
  BY <1>2, <1>3, <1>6, MoveKeeps

\* A rejected request throws; it has no farmer.
LEMMA RejectKeeps ==
  ASSUME IInv, NEW r \in Request, Reject(r), UNCHANGED secret
  PROVE  IInv'
<1>1. Move(r, Thrown) /\ UNCHANGED farmers /\ Thrown \in Place
  BY DEF Reject, Place
<1>2. request'[r] = Thrown
  BY <1>1 DEF IInv, Typed, Move
<1>3. Progress(r)' /\ Ending(r)' /\ ~Answered(r, 201)'
  BY <1>2 DEF Progress, Clear, Underway, Ending, Answered, Thrown
<1>4. QED
  BY <1>1, <1>3, MoveKeeps

\* A new farmer is joined only to farmers with other phones, or to some that
\* came after the look up.
LEMMA CreateKeeps ==
  ASSUME IInv, NEW r \in Request, Create(r), UNCHANGED secret
  PROVE  IInv'
<1> DEFINE here == request[r]
           new == Farmer(r)
           n == Len(farmers)
<1>1. here \in [at : {"hashing", "creating", "orphaned"}, phone : Phone,
                said : Input, saw : Nat, blob : Blob]
  BY DEF Create, IInv, Typed, Place, Waiting, Thrown, Lost
<1>2. /\ Progress(r) /\ ~HasFarmer(r)
      /\ Underway(here) /\ Clear(here)
  BY <1>1 DEF IInv, Underway, Clear, Ending, Answered, Waiting, Thrown, Lost
<1>3. PICK after \in {Created(new), Thrown, Lost} :
        /\ Move(r, after)
        /\ after = Created(new) => here.at = "creating"
  BY DEF Create, Created, Lost, Thrown
<1>4. /\ new \in FarmerRecord /\ new.id = r /\ new.saw = here.saw
      /\ new.phone = here.phone /\ Dialled(new) = here.phone
      /\ new.encryptedPrivateKey.key = new.publicKey
      /\ new.encryptedPrivateKey = here.blob
  BY <1>1, <1>2 DEF Farmer, FarmerRecord, Blob, Progress, Dialled, normalizePhone
<1>5. farmers \in Seq(FarmerRecord) /\ farmers' = Append(farmers, new)
  BY DEF Create, IInv, Typed
<1> HIDE DEF new
<1>6. /\ farmers' \in Seq(FarmerRecord) /\ n \in Nat /\ Len(farmers') = n + 1
      /\ DOMAIN farmers = 1..n /\ DOMAIN farmers' = 1..(n + 1)
      /\ \A k \in 1..n : farmers'[k] = farmers[k]
      /\ farmers'[n + 1] = new
  BY <1>4, <1>5
<1>7. request'[r] = after /\ after \in Place
  <2>1. after = Created(new) => here.blob.under = secret /\ secret \in Secret \ {None}
    BY <1>1, <1>2, <1>3 DEF Progress, InMemory, Blob
  <2>2. after = Created(new) => after \in Place
    BY <1>1, <1>4, <2>1 DEF Created, Place, FarmerRecord
  <2>3. QED
    BY <1>3, <2>2 DEF IInv, Typed, Move, Place
<1>8. Typed'
  BY <1>3, <1>6, <1>7 DEF IInv, Typed, Move
<1>9. ASSUME NEW s \in Request PROVE Progress(s)' /\ Ending(s)'
  <2>1. CASE s = r
    <3>1. Progress(r)'
      BY <1>3, <1>7 DEF Progress, Clear, Underway, Created, Thrown, Lost
    <3>2. HasFarmer(r)'
      BY <1>4, <1>6 DEF HasFarmer
    <3>3. Ending(r)'
      BY <1>3, <1>7, <3>2 DEF Ending, Answered, Created, Thrown, Lost
    <3>4. QED
      BY <2>1, <3>1, <3>3
  <2>2. CASE s # r
    <3>1. request'[s] = request[s]
      BY <1>3, <2>2 DEF IInv, Typed, Move
    <3>2. QED
      BY <1>4, <1>5, <2>2, <3>1, OthersKeep
  <2>3. QED
    BY <2>1, <2>2
<1>10. Recorded'
  <2>1. \A k \in 1..n : farmers[k].id # r
    BY <1>2, <1>6 DEF HasFarmer
  <2>2. ASSUME NEW k \in 1..(n + 1)
        PROVE  /\ farmers'[k].phone = Dialled(farmers'[k])
               /\ farmers'[k].encryptedPrivateKey.key = farmers'[k].publicKey
    BY <1>4, <1>6 DEF IInv, Recorded
  <2>3. ASSUME NEW j \in 1..(n + 1), NEW k \in 1..(n + 1),
               farmers'[j].id = farmers'[k].id
        PROVE  j = k
    BY <1>4, <1>6, <2>1, <2>3 DEF IInv, Recorded
  <2>4. QED
    BY <1>6, <2>2, <2>3 DEF Recorded, Dialled
<1>11. SecondOnlyByOverlap'
  <2>1. SUFFICES ASSUME NEW i \in 1..(n + 1), NEW j \in 1..(n + 1), i < j,
                        Dialled(farmers'[i]) = Dialled(farmers'[j])
                 PROVE  farmers'[j].saw < i
    BY <1>6 DEF SecondOnlyByOverlap, Dialled
  <2>2. i \in 1..n /\ farmers'[i] = farmers[i]
    BY <1>6, <2>1
  <2>3. CASE j = n + 1
    <3>1. farmers[i].phone = here.phone
      BY <1>4, <1>6, <2>1, <2>2, <2>3 DEF IInv, Recorded
    <3>2. i \notin 1..here.saw
      BY <1>2, <3>1 DEF Progress
    <3>3. QED
      BY <1>1, <1>4, <1>6, <2>2, <2>3, <3>2
  <2>4. CASE j # n + 1
    BY <1>6, <2>1, <2>2, <2>4 DEF IInv, SecondOnlyByOverlap
  <2>5. QED
    BY <2>3, <2>4
<1>12. Told'
  <2>1. SUFFICES ASSUME NEW s \in Request, NEW k \in 1..(n + 1),
                        request'[s].at = "answered", request'[s].status = 201,
                        farmers'[k].id = s
                 PROVE  /\ request'[s].publicKey = farmers'[k].publicKey
                        /\ request'[s].of = farmers'[k].encryptedPrivateKey.under
    BY <1>6 DEF Told, Answered
  <2>2. CASE s = r
    <3>1. k = n + 1
      BY <1>2, <1>6, <2>1, <2>2 DEF HasFarmer
    <3>2. request'[r] = Created(new) /\ here.at = "creating"
      BY <1>3, <1>7, <2>1, <2>2 DEF Thrown, Lost
    <3>3. here.blob.under = secret
      BY <1>2, <3>2 DEF Progress, InMemory
    <3>4. QED
      BY <1>4, <1>6, <2>2, <3>1, <3>2, <3>3 DEF Created
  <2>3. CASE s # r
    <3>1. request'[s] = request[s] /\ k \in 1..n /\ farmers'[k] = farmers[k]
      BY <1>3, <1>4, <1>6, <2>1, <2>3 DEF IInv, Typed, Move
    <3>2. QED
      BY <1>6, <2>1, <3>1 DEF IInv, Told, Answered
  <2>4. QED
    BY <2>2, <2>3
<1>13. QED
  BY <1>8, <1>9, <1>10, <1>11, <1>12 DEF IInv

\* A restart loses requests in memory; one that was being stored may still be.
LEMMA RestartKeeps ==
  ASSUME IInv, Restart
  PROVE  IInv'
<1>1. /\ UNCHANGED farmers /\ secret' \in Secret \cup {None}
      /\ \A r \in Request :
           request'[r] = IF request[r].at = "creating"
                         THEN [request[r] EXCEPT !.at = "orphaned"]
                         ELSE IF InMemory(r) THEN Lost ELSE request[r]
  BY DEF Restart
<1>2. ASSUME NEW r \in Request
      PROVE  request'[r] \in Place /\ Progress(r)' /\ Ending(r)'
  <2>1. Progress(r) /\ Ending(r) /\ request[r] \in Place
    BY DEF IInv, Typed
  <2>2. CASE request[r].at = "creating"
    <3> DEFINE here == request[r]
               place == [at |-> "orphaned", phone |-> here.phone, said |-> here.said,
                         saw |-> here.saw, blob |-> here.blob]
    <3>1. here \in [at : {"hashing", "creating", "orphaned"}, phone : Phone,
                    said : Input, saw : Nat, blob : Blob]
      BY <2>1, <2>2 DEF Place, Waiting, Thrown, Lost
    <3>2. request'[r] = place /\ place \in Place
      BY <1>1, <2>2, <3>1 DEF Place
    <3>3. ~HasFarmer(r)
      BY <2>1, <2>2 DEF Ending, Answered, Thrown, Lost
    <3>4. QED
      BY <1>1, <2>1, <2>2, <3>1, <3>2, <3>3
         DEF Progress, Clear, Underway, InMemory, Ending, Answered, HasFarmer
  <2>3. CASE request[r].at # "creating" /\ InMemory(r)
    <3>1. request'[r] = Lost
      BY <1>1, <2>3
    <3>2. QED
      BY <3>1 DEF Place, Progress, Clear, Underway, Ending, Answered, Lost
  <2>4. CASE request[r].at # "creating" /\ ~InMemory(r)
    <3>1. request'[r] = request[r]
      BY <1>1, <2>4
    <3>2. QED
      BY <1>1, <2>1, <2>4, <3>1, OthersKeep
  <2>5. QED
    BY <2>2, <2>3, <2>4
<1>3. Typed'
  BY <1>1, <1>2 DEF Restart, IInv, Typed
<1>4. Recorded' /\ SecondOnlyByOverlap'
  BY <1>1 DEF IInv, Recorded, SecondOnlyByOverlap, Dialled
<1>5. Told'
  <2>1. ASSUME NEW r \in Request, Answered(r, 201)'
        PROVE  Answered(r, 201) /\ request'[r] = request[r]
    <3>1. request[r] \in Place /\ Lost.at # "answered"
      BY DEF IInv, Typed, Lost
    <3>2. request[r].at # "creating"
      <4>1. SUFFICES ASSUME request[r].at = "creating" PROVE FALSE
        OBVIOUS
      <4>2. request[r] \in [at : {"hashing", "creating", "orphaned"}, phone : Phone,
                             said : Input, saw : Nat, blob : Blob]
        BY <3>1, <4>1 DEF Place, Waiting, Thrown, Lost
      <4>3. request'[r].at = "orphaned"
        BY <1>1, <4>1, <4>2
      <4>4. QED
        BY <2>1, <4>3 DEF Answered
    <3>3. QED
      BY <1>1, <2>1, <3>1, <3>2 DEF Answered
  <2>2. QED
    BY <1>1, <2>1 DEF IInv, Told
<1>6. QED
  BY <1>2, <1>3, <1>4, <1>5 DEF IInv

----------------------------------------------------------------------------
(* Theorems *)

\* The inductive invariant holds in every state.
THEOREM Invariance == Spec => []IInv
<1>1. Init => IInv
  <2> SUFFICES ASSUME Init PROVE IInv
    OBVIOUS
  <2>1. Typed
    BY DEF Init, Typed, Place
  <2>2. ASSUME NEW r \in Request PROVE Progress(r) /\ Ending(r)
    BY DEF Init, Progress, Clear, Underway, Ending, Answered, HasFarmer, Waiting
  <2>3. Recorded /\ Told /\ SecondOnlyByOverlap
    BY DEF Init, Recorded, Told, SecondOnlyByOverlap
  <2>4. QED
    BY <2>1, <2>2, <2>3 DEF IInv
<1>2. IInv /\ [Next]_vars => IInv'
  <2> SUFFICES ASSUME IInv, [Next]_vars PROVE IInv'
    OBVIOUS
  <2>1. ASSUME NEW r \in Request, NEW input \in Input, Receive(r, input), UNCHANGED secret
        PROVE  IInv'
    BY <2>1, ReceiveKeeps
  <2>2. ASSUME NEW r \in Request, UNCHANGED secret,
               \/ FindByPhone(r) \/ Decide(r) \/ Hashed(r) \/ Create(r) \/ Reject(r)
        PROVE  IInv'
    BY <2>2, FindByPhoneKeeps, DecideKeeps, HashedKeeps, CreateKeeps, RejectKeeps
  <2>3. CASE Restart
    BY <2>3, RestartKeeps
  <2>4. CASE UNCHANGED vars
    <3>1. UNCHANGED <<farmers, request, secret>>
      BY <2>4 DEF vars
    <3>2. \A r \in Request : Progress(r)' /\ Ending(r)'
      BY <3>1, OthersKeep
    <3>3. Typed' /\ Recorded' /\ Told' /\ SecondOnlyByOverlap'
      BY <3>1 DEF IInv, Typed, Recorded, Told, Answered, SecondOnlyByOverlap, Dialled
    <3>4. QED
      BY <3>2, <3>3 DEF IInv
  <2>5. QED
    BY <2>1, <2>2, <2>3, <2>4 DEF Next
<1>3. QED
  BY <1>1, <1>2, PTL DEF Spec

\* A number gets a second farmer only from registrations that overlapped,
\* whatever failed and however often the process was restarted.
THEOREM DuplicatesOnlyByOverlap == Spec => []SecondOnlyByOverlap
<1>1. IInv => SecondOnlyByOverlap
  BY DEF IInv
<1>2. QED
  BY <1>1, Invariance, PTL

\* How many farmers a request has, in terms of whether it has one.
LEMMA CountFarmers ==
  ASSUME IInv, NEW r \in Request
  PROVE  /\ Farmers(r) \in {0, 1}
         /\ Farmers(r) = 1 <=> HasFarmer(r)
<1> DEFINE own == {k \in DOMAIN farmers : farmers[k].id = r}
<1>1. CASE HasFarmer(r)
  <2>1. PICK k \in DOMAIN farmers : farmers[k].id = r
    BY <1>1 DEF HasFarmer
  <2>2. own = {k}
    BY <2>1 DEF IInv, Recorded
  <2>3. Cardinality(own) = 1
    BY <2>2, FS_Singleton
  <2>4. QED
    BY <1>1, <2>3 DEF Farmers
<1>2. CASE ~HasFarmer(r)
  <2>1. own = {}
    BY <1>2 DEF HasFarmer
  <2>2. Cardinality(own) = 0
    BY <2>1, FS_EmptySet
  <2>3. QED
    BY <1>2, <2>2 DEF Farmers
<1>3. QED
  BY <1>1, <1>2

\* What requests are answered is what the repository holds.
THEOREM AnswersAreTrue == Spec => []AnswersTell
<1>1. IInv => AnswersTell
  <2> SUFFICES ASSUME IInv, NEW r \in Request
               PROVE  /\ Farmers(r) <= 1
                      /\ Answered(r, 201) => Farmers(r) = 1
                      /\ Farmers(r) = 1 => Answered(r, 201) \/ request[r] \in {Thrown, Lost}
                      /\ Answered(r, 409) =>
                           \E k \in DOMAIN farmers : farmers[k].phone = request[r].phone
    BY DEF AnswersTell
  <2>1. Ending(r)
    BY DEF IInv
  <2>2. QED
    BY <2>1, CountFarmers DEF Ending, Registered
<1>2. QED
  BY <1>1, Invariance, PTL

\* A farmer who was told "created" is signed for with the key they were told
\* whenever the process has the secret it had then, and with no other key.
THEOREM SignedAsTold == Spec => []SignsForTheTold
<1>1. IInv => SignsForTheTold
  <2> SUFFICES ASSUME IInv, NEW r \in Request, NEW k \in DOMAIN farmers,
                      Answered(r, 201), farmers[k].id = r
               PROVE  signAsFarmer(farmers[k]) =
                        IF secret = request[r].of THEN request[r].publicKey ELSE None
    BY DEF SignsForTheTold
  <2>1. /\ farmers[k] \in FarmerRecord
        /\ farmers[k].encryptedPrivateKey.key = farmers[k].publicKey
    BY DEF IInv, Typed, Recorded
  <2>2. farmers[k].encryptedPrivateKey.under # None
    BY <2>1 DEF FarmerRecord, Blob
  <2>3. /\ request[r].publicKey = farmers[k].publicKey
        /\ request[r].of = farmers[k].encryptedPrivateKey.under
    BY DEF IInv, Told
  <2>4. QED
    BY <2>1, <2>2, <2>3 DEF signAsFarmer, decryptPrivateKey
<1>2. QED
  BY <1>1, Invariance, PTL
=============================================================================

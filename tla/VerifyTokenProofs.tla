------------------------- MODULE VerifyTokenProofs --------------------------
(***************************************************************************)
(* Theorems about the verification of a token and about the outbound HTTP  *)
(* requests, for every ledger, every price and every deadline.             *)
(***************************************************************************)
EXTENDS VerifyToken, ReceiptLedgerProofs

----------------------------------------------------------------------------
(* A request over HTTP *)

Kinds == {"health", "price"}

Fetch(at, kind, elapsed, latency, came, answer) ==
  [at |-> at, kind |-> kind, elapsed |-> elapsed, latency |-> latency,
   came |-> came, answer |-> answer]

\* What is known of a request over HTTP: the server has sent what its place
\* says, it is not past its deadline, and its answer is the one deserved.
Known(at, kind, elapsed, latency, came, answer) ==
  /\ at \in {"idle", "headers", "body", "done"}
  /\ IF at = "idle" THEN kind = None ELSE kind \in Kinds /\ elapsed <= Deadline[kind]
  /\ at = "headers" => came = "nothing"
  /\ at = "body" => came = "headers"
  /\ elapsed \in Nat /\ latency \in Nat /\ latency <= elapsed
  /\ (at = "done" /\ kind = "price") =>
       /\ answer \in {"live", "fallback"}
       /\ answer = "live" <=> came = "body"
  /\ (at = "done" /\ kind = "health") =>
       /\ (answer # "503") <=> (came \in {"headers", "body", "bad body"})
       /\ (answer = "200 with version") <=> (came = "body")

IsFetch(f) == f = Fetch(f.at, f.kind, f.elapsed, f.latency, f.came, f.answer)

FetchKnown ==
  /\ IsFetch(fetch)
  /\ Known(fetch.at, fetch.kind, fetch.elapsed, fetch.latency, fetch.came, fetch.answer)

\* A fetch given by its fields is known when the fields are.
LEMMA Written ==
  ASSUME NEW at, NEW kind, NEW elapsed, NEW latency, NEW came, NEW answer,
         fetch' = Fetch(at, kind, elapsed, latency, came, answer),
         Known(at, kind, elapsed, latency, came, answer)
  PROVE  FetchKnown' /\ fetch'.at = at /\ fetch'.kind = kind
<1>1. /\ fetch'.at = at /\ fetch'.kind = kind /\ fetch'.elapsed = elapsed
      /\ fetch'.latency = latency /\ fetch'.came = came /\ fetch'.answer = answer
  BY DEF Fetch
<1> QED
  BY <1>1 DEF FetchKnown, IsFetch

\* What the requests' steps write, field by field.
LEMMA BegunFields ==
  ASSUME NEW f, IsFetch(f), NEW x, NEW y
  PROVE  [f EXCEPT !.at = x, !.kind = y]
           = Fetch(x, y, f.elapsed, f.latency, f.came, f.answer)
<1> DEFINE r0 == Fetch(f.at, f.kind, f.elapsed, f.latency, f.came, f.answer)
           r1 == Fetch(x, f.kind, f.elapsed, f.latency, f.came, f.answer)
           r2 == Fetch(x, y, f.elapsed, f.latency, f.came, f.answer)
<1>1. /\ [r0 EXCEPT !.at = x] = r1
      /\ [r1 EXCEPT !.kind = y] = r2
  BY DEF Fetch
<1>2. f = r0
  BY DEF IsFetch
<1> HIDE DEF r0, r1, r2
<1>3. [f EXCEPT !.at = x, !.kind = y] = r2
  BY <1>1, <1>2, Zenon
<1> QED
  BY <1>3 DEF r2

\* The fetch after each of its steps, written out.
LEMMA SkippedFields ==
  ASSUME NEW f, IsFetch(f), NEW x, NEW y, NEW z
  PROVE  [f EXCEPT !.kind = x, !.at = y, !.answer = z]
           = Fetch(y, x, f.elapsed, f.latency, f.came, z)
<1> DEFINE r0 == Fetch(f.at, f.kind, f.elapsed, f.latency, f.came, f.answer)
           r1 == Fetch(f.at, x, f.elapsed, f.latency, f.came, f.answer)
           r2 == Fetch(y, x, f.elapsed, f.latency, f.came, f.answer)
           r3 == Fetch(y, x, f.elapsed, f.latency, f.came, z)
<1>1. /\ [r0 EXCEPT !.kind = x] = r1
      /\ [r1 EXCEPT !.at = y] = r2
      /\ [r2 EXCEPT !.answer = z] = r3
  BY DEF Fetch
<1>2. f = r0
  BY DEF IsFetch
<1> HIDE DEF r0, r1, r2, r3
<1>3. [f EXCEPT !.kind = x, !.at = y, !.answer = z] = r3
  BY <1>1, <1>2, Zenon
<1> QED
  BY <1>3 DEF r3

\* ... after the headers.
LEMMA HeadersFields ==
  ASSUME NEW f, IsFetch(f), NEW x, NEW y, NEW z
  PROVE  [f EXCEPT !.at = x, !.came = y, !.latency = z]
           = Fetch(x, f.kind, f.elapsed, z, y, f.answer)
<1> DEFINE r0 == Fetch(f.at, f.kind, f.elapsed, f.latency, f.came, f.answer)
           r1 == Fetch(x, f.kind, f.elapsed, f.latency, f.came, f.answer)
           r2 == Fetch(x, f.kind, f.elapsed, f.latency, y, f.answer)
           r3 == Fetch(x, f.kind, f.elapsed, z, y, f.answer)
<1>1. /\ [r0 EXCEPT !.at = x] = r1
      /\ [r1 EXCEPT !.came = y] = r2
      /\ [r2 EXCEPT !.latency = z] = r3
  BY DEF Fetch
<1>2. f = r0
  BY DEF IsFetch
<1> HIDE DEF r0, r1, r2, r3
<1>3. [f EXCEPT !.at = x, !.came = y, !.latency = z] = r3
  BY <1>1, <1>2, Zenon
<1> QED
  BY <1>3 DEF r3

\* ... after an answer.
LEMMA DoneFields ==
  ASSUME NEW f, IsFetch(f), NEW x, NEW y, NEW z
  PROVE  [f EXCEPT !.at = x, !.came = y, !.answer = z]
           = Fetch(x, f.kind, f.elapsed, f.latency, y, z)
<1> DEFINE r0 == Fetch(f.at, f.kind, f.elapsed, f.latency, f.came, f.answer)
           r1 == Fetch(x, f.kind, f.elapsed, f.latency, f.came, f.answer)
           r2 == Fetch(x, f.kind, f.elapsed, f.latency, y, f.answer)
           r3 == Fetch(x, f.kind, f.elapsed, f.latency, y, z)
<1>1. /\ [r0 EXCEPT !.at = x] = r1
      /\ [r1 EXCEPT !.came = y] = r2
      /\ [r2 EXCEPT !.answer = z] = r3
  BY DEF Fetch
<1>2. f = r0
  BY DEF IsFetch
<1> HIDE DEF r0, r1, r2, r3
<1>3. [f EXCEPT !.at = x, !.came = y, !.answer = z] = r3
  BY <1>1, <1>2, Zenon
<1> QED
  BY <1>3 DEF r3

\* ... after a refusal, with its latency.
LEMMA UnreachableFields ==
  ASSUME NEW f, IsFetch(f), NEW x, NEW y, NEW z, NEW t
  PROVE  [f EXCEPT !.at = x, !.came = y, !.answer = z, !.latency = t]
           = Fetch(x, f.kind, f.elapsed, t, y, z)
<1> DEFINE r0 == Fetch(f.at, f.kind, f.elapsed, f.latency, f.came, f.answer)
           r1 == Fetch(x, f.kind, f.elapsed, f.latency, f.came, f.answer)
           r2 == Fetch(x, f.kind, f.elapsed, f.latency, y, f.answer)
           r3 == Fetch(x, f.kind, f.elapsed, f.latency, y, z)
           r4 == Fetch(x, f.kind, f.elapsed, t, y, z)
<1>1. /\ [r0 EXCEPT !.at = x] = r1
      /\ [r1 EXCEPT !.came = y] = r2
      /\ [r2 EXCEPT !.answer = z] = r3
      /\ [r3 EXCEPT !.latency = t] = r4
  BY DEF Fetch
<1>2. f = r0
  BY DEF IsFetch
<1> HIDE DEF r0, r1, r2, r3, r4
<1>3. [f EXCEPT !.at = x, !.came = y, !.answer = z, !.latency = t] = r4
  BY <1>1, <1>2, Zenon
<1> QED
  BY <1>3 DEF r4

\* ... after a tick.
LEMMA TickFields ==
  ASSUME NEW f, IsFetch(f), NEW x
  PROVE  [f EXCEPT !.elapsed = x]
           = Fetch(f.at, f.kind, x, f.latency, f.came, f.answer)
<1> DEFINE r0 == Fetch(f.at, f.kind, f.elapsed, f.latency, f.came, f.answer)
           r1 == Fetch(f.at, f.kind, x, f.latency, f.came, f.answer)
<1>1. /\ [r0 EXCEPT !.elapsed = x] = r1
  BY DEF Fetch
<1>2. f = r0
  BY DEF IsFetch
<1> HIDE DEF r0, r1
<1>3. [f EXCEPT !.elapsed = x] = r1
  BY <1>1, <1>2, Zenon
<1> QED
  BY <1>3 DEF r1

\* The deadlines are times, and a request that begins is before its own.
LEMMA BegunKnown ==
  /\ (handleStellarHealth \/ lookupPrice \/ fetch' = Idle) => FetchKnown'
  /\ lookupPrice => fetch'.kind = "price" /\ fetch'.at # "idle"
<1>1. \A kind \in Kinds : Deadline[kind] \in Nat /\ 0 <= Deadline[kind]
  BY TimedFetchAssumption DEF Kinds
<1>2. Idle = Fetch("idle", None, 0, 0, "nothing", None)
  BY DEF Idle, Fetch
<1>3. /\ IsFetch(Idle) /\ Idle.at = "idle" /\ Idle.kind = None /\ Idle.elapsed = 0
      /\ Idle.latency = 0 /\ Idle.came = "nothing" /\ Idle.answer = None
  BY <1>2 DEF IsFetch, Fetch
<1>4. ASSUME NEW kind
      PROVE  Begun(kind) = Fetch("headers", kind, 0, 0, "nothing", None)
  <2>1. Begun(kind) = Fetch("headers", kind, Idle.elapsed, Idle.latency, Idle.came, Idle.answer)
    BY <1>3, BegunFields, Zenon DEF Begun
  <2> QED
    BY <1>3, <2>1
<1>5. [Idle EXCEPT !.kind = "price", !.at = "done", !.answer = "fallback"]
        = Fetch("done", "price", 0, 0, "nothing", "fallback")
  <2> DEFINE G(x, y, z) == [Idle EXCEPT !.kind = x, !.at = y, !.answer = z]
             H(x, y, z) == Fetch(y, x, Idle.elapsed, Idle.latency, Idle.came, z)
  <2>1. \A x, y, z : G(x, y, z) = H(x, y, z)
    BY <1>3, SkippedFields, Zenon
  <2> HIDE DEF G, H
  <2>2. G("price", "done", "fallback") = H("price", "done", "fallback")
    BY <2>1
  <2> QED
    BY <1>3, <2>2 DEF G, H
<1>6. ASSUME fetch' = Idle
      PROVE  FetchKnown'
  <2>1. Known("idle", None, 0, 0, "nothing", None)
    BY DEF Known
  <2> QED
    BY <1>2, <1>6, <2>1, Written
<1>7. ASSUME NEW kind \in Kinds, fetch' = Begun(kind)
      PROVE  FetchKnown' /\ fetch'.kind = kind /\ fetch'.at # "idle"
  <2>1. Known("headers", kind, 0, 0, "nothing", None)
    BY <1>1 DEF Known
  <2>2. fetch' = Fetch("headers", kind, 0, 0, "nothing", None)
    BY <1>4, <1>7
  <2> QED
    BY <2>1, <2>2, Written
<1>8. ASSUME fetch' = [Idle EXCEPT !.kind = "price", !.at = "done", !.answer = "fallback"]
      PROVE  FetchKnown' /\ fetch'.kind = "price" /\ fetch'.at # "idle"
  <2>1. Known("done", "price", 0, 0, "nothing", "fallback")
    BY <1>1 DEF Known, Kinds
  <2>2. fetch' = Fetch("done", "price", 0, 0, "nothing", "fallback")
    BY <1>5, <1>8, Zenon
  <2> QED
    BY <2>1, <2>2, Written
<1>9. "health" \in Kinds /\ "price" \in Kinds
  BY DEF Kinds
<1>10. lookupPrice =>
        \/ fetch' = Begun("price")
        \/ fetch' = [Idle EXCEPT !.kind = "price", !.at = "done", !.answer = "fallback"]
  BY Zenon DEF lookupPrice
<1> QED
  BY <1>6, <1>7, <1>8, <1>9, <1>10 DEF handleStellarHealth

\* A request that ends has the answer that what came of it deserves.
LEMMA OverKnown ==
  ASSUME FetchKnown, Waiting, NEW came, NEW answer,
         NEW time \in Nat, time <= fetch.elapsed,
         fetch' = Fetch("done", fetch.kind, fetch.elapsed, time, came, answer),
         fetch.kind = "price" =>
           answer \in {"live", "fallback"} /\ (answer = "live" <=> came = "body"),
         fetch.kind = "health" =>
           /\ (answer # "503") <=> (came \in {"headers", "body", "bad body"})
           /\ (answer = "200 with version") <=> (came = "body")
  PROVE  FetchKnown' /\ fetch'.kind = fetch.kind /\ fetch'.at # "idle"
<1>1. /\ fetch.kind \in Kinds /\ fetch.elapsed <= Deadline[fetch.kind]
      /\ fetch.elapsed \in Nat /\ fetch.latency \in Nat /\ fetch.latency <= fetch.elapsed
  BY DEF FetchKnown, Known, Waiting
<1>2. Known("done", fetch.kind, fetch.elapsed, time, came, answer)
  BY <1>1 DEF Known
<1>3. FetchKnown' /\ fetch'.at = "done" /\ fetch'.kind = fetch.kind
  BY <1>2, Written, Zenon
<1> QED
  BY <1>3

\* A time is no longer than itself.
LEMMA NoLonger == \A n \in Nat : n <= n
OBVIOUS

\* A fetch that ends keeps what is known of it: when, and from what, it answered.
LEMMA EndsKnown ==
  ASSUME FetchKnown, Waiting, NEW came, Ends(came),
         fetch.at = "headers" => came \in {"nothing", "refusal"},
         fetch.at = "body" => came \in {"headers", "body", "bad body"}
  PROVE  FetchKnown' /\ fetch'.kind = fetch.kind /\ fetch'.at # "idle"
<1>1. IsFetch(fetch)
  BY DEF FetchKnown
<1>2. fetch.latency \in Nat /\ fetch.elapsed \in Nat /\ fetch.latency <= fetch.elapsed
  BY DEF FetchKnown, Known
<1>3. fetch.elapsed <= fetch.elapsed
  BY <1>2, NoLonger, Zenon
<1>4. ASSUME NEW answer, Done(came, answer)
      PROVE  fetch' = Fetch("done", fetch.kind, fetch.elapsed, fetch.latency, came, answer)
  <2>1. \A x, y, z : [fetch EXCEPT !.at = x, !.came = y, !.answer = z]
                       = Fetch(x, fetch.kind, fetch.elapsed, fetch.latency, y, z)
    BY <1>1, DoneFields, Zenon
  <2> QED
    BY <1>4, <2>1, Zenon DEF Done
<1>5. ASSUME Unreachable(came)
      PROVE  fetch' = Fetch("done", fetch.kind, fetch.elapsed, fetch.elapsed, came, "503")
  <2> DEFINE G(x, y, z, t) == [fetch EXCEPT !.at = x, !.came = y, !.answer = z, !.latency = t]
             H(x, y, z, t) == Fetch(x, fetch.kind, fetch.elapsed, t, y, z)
  <2>1. \A x, y, z, t : G(x, y, z, t) = H(x, y, z, t)
    BY <1>1, UnreachableFields, Zenon
  <2>2. fetch' = G("done", came, "503", fetch.elapsed)
    BY <1>5 DEF Unreachable
  <2> HIDE DEF G, H
  <2>3. fetch' = H("done", came, "503", fetch.elapsed)
    BY <2>1, <2>2
  <2> QED
    BY <2>3 DEF H
<1>6. CASE fetch.kind = "health"
  <2>1. probeHorizon(came)
    BY <1>6 DEF Ends
  <2>2. CASE came = "body"
    BY <1>4, <1>6, <2>1, <2>2, <1>2, <1>3, OverKnown DEF probeHorizon
  <2>3. CASE came # "body" /\ fetch.at = "body"
    <3>1. Done(came, "200") /\ came \in {"headers", "bad body"}
      BY <2>1, <2>3 DEF probeHorizon
    <3> QED
      BY <1>4, <1>6, <3>1, <1>2, <1>3, OverKnown
  <2>4. CASE came # "body" /\ fetch.at # "body"
    <3>1. Unreachable(came) /\ came \in {"nothing", "refusal"}
      BY <2>1, <2>4 DEF probeHorizon, Waiting
    <3> QED
      BY <1>5, <1>6, <3>1, <1>2, <1>3, OverKnown
  <2> QED
    BY <2>2, <2>3, <2>4
<1>7. CASE fetch.kind # "health"
  <2>1. Done(came, IF came = "body" THEN "live" ELSE "fallback")
    BY <1>7 DEF Ends, fetchLivePrice
  <2> QED
    BY <1>4, <1>7, <2>1, <1>2, <1>3, OverKnown
<1> QED
  BY <1>6, <1>7

(***************************************************************************)
(* Whatever a request over HTTP does, it was waiting, and stays the        *)
(* request it was.                                                         *)
(***************************************************************************)
LEMMA FetchStep ==
  ASSUME FetchKnown, FetchNext
  PROVE  FetchKnown' /\ Waiting /\ fetch'.kind = fetch.kind /\ fetch'.at # "idle"
<1>1. IsFetch(fetch)
  BY DEF FetchKnown
<1>2. CASE HeadersOk
  <2>1. fetch' = Fetch("body", fetch.kind, fetch.elapsed, fetch.elapsed, "headers", fetch.answer)
    <3>1. \A t : [fetch EXCEPT !.at = "body", !.came = "headers", !.latency = t]
                   = Fetch("body", fetch.kind, fetch.elapsed, t, "headers", fetch.answer)
      BY <1>1, HeadersFields, Zenon
    <3> QED
      BY <1>2, <3>1, Zenon DEF HeadersOk
  <2>2. Known("body", fetch.kind, fetch.elapsed, fetch.elapsed, "headers", fetch.answer)
    BY <1>2 DEF HeadersOk, FetchKnown, Known
  <2>3. Waiting
    BY <1>2 DEF HeadersOk, Waiting
  <2> QED
    BY <2>1, <2>2, <2>3, Written
<1>3. CASE ServerEnds
  <2>1. CASE fetch.at = "headers" /\ Ends("refusal")
    BY <2>1, EndsKnown DEF Waiting
  <2>2. ASSUME fetch.at = "body", NEW came \in {"body", "bad body"}, Ends(came)
        PROVE  FetchKnown' /\ Waiting /\ fetch'.kind = fetch.kind /\ fetch'.at # "idle"
    BY <2>2, EndsKnown DEF Waiting
  <2>3. CASE Waiting /\ Ends(fetch.came)
    BY <2>3, EndsKnown DEF FetchKnown, Known
  <2> QED
    BY <1>3, <2>1, <2>2, <2>3 DEF ServerEnds
<1>4. CASE Abort
  BY <1>4, EndsKnown DEF Abort, Due, FetchKnown, Known
<1>5. CASE Tick
  <2> DEFINE n == fetch.elapsed + 1
             g == Fetch(fetch.at, fetch.kind, n, fetch.latency, fetch.came, fetch.answer)
  <2>1. fetch' = g
    <3>1. \A t : [fetch EXCEPT !.elapsed = t] =
                   Fetch(fetch.at, fetch.kind, t, fetch.latency, fetch.came, fetch.answer)
      BY <1>1, TickFields, Zenon
    <3> QED
      BY <1>5, <3>1, Zenon DEF Tick
  <2>2. /\ fetch.kind \in Kinds /\ fetch.at \in {"headers", "body"} /\ Waiting
        /\ fetch.elapsed \in Nat /\ fetch.latency \in Nat /\ fetch.latency <= fetch.elapsed
        /\ fetch.at = "headers" => fetch.came = "nothing"
        /\ fetch.at = "body" => fetch.came = "headers"
    BY <1>5 DEF Tick, Waiting, FetchKnown, Known
  <2>3. Deadline[fetch.kind] \in Nat
    BY <2>2, TimedFetchAssumption DEF Kinds
  <2>4. ~(fetch.elapsed >= Deadline[fetch.kind])
    BY <1>5, <2>2 DEF Tick, Due
  <2>5. n \in Nat /\ fetch.latency <= n /\ n <= Deadline[fetch.kind]
    BY <2>2, <2>3, <2>4
  <2> HIDE DEF n
  <2>6. Known(fetch.at, fetch.kind, n, fetch.latency, fetch.came, fetch.answer)
    BY <2>2, <2>5 DEF Known
  <2>7. fetch.at # "idle"
    BY <2>2
  <2> QED
    BY <2>1, <2>2, <2>6, <2>7, Written
<1> QED
  BY <1>2, <1>3, <1>4, <1>5 DEF FetchNext

----------------------------------------------------------------------------
(* What a request saw of its token *)

Held == Receipt \cup {None}
MomentsOf(s) == {k \in DOMAIN s : s[k] # None}

\* The token's weight and custodian are the same whenever it is there.
OneToken(s) ==
  \A i, j \in MomentsOf(s) : s[i].weight = s[j].weight /\ s[i].custodian = s[j].custodian

OwnerTold(q, s) == \E i \in MomentsOf(s) : s[i].owner = q.owner

\* The owner was true at one moment, the metadata at that or a later one, and the
\* drift is that of the record that was read.
Told(q, s) ==
  /\ \E i, j \in MomentsOf(s) : i <= j /\ s[i].owner = q.owner /\ s[j] = q.meta
  /\ q.record \in TokenRecord \cup {None}
  /\ q.drift = detectDrift(q.record, q.meta, q.owner)

\* What is held of the token is appended to what was.
LEMMA Appended ==
  ASSUME NEW s \in Seq(Held), NEW x \in Held
  PROVE  /\ Append(s, x) \in Seq(Held)
         /\ Len(s) + 1 \in DOMAIN Append(s, x)
         /\ DOMAIN Append(s, x) = DOMAIN s \cup {Len(s) + 1}
         /\ Append(s, x)[Len(s) + 1] = x
         /\ Last(Append(s, x)) = x
         /\ \A k \in DOMAIN s : Append(s, x)[k] = s[k] /\ k <= Len(s) + 1
<1>1. /\ Append(s, x) \in Seq(Held)
      /\ Len(s) \in Nat /\ Len(Append(s, x)) = Len(s) + 1
      /\ DOMAIN s = 1 .. Len(s) /\ DOMAIN Append(s, x) = 1 .. (Len(s) + 1)
      /\ Append(s, x)[Len(s) + 1] = x
      /\ \A k \in 1 .. Len(s) : Append(s, x)[k] = s[k]
  OBVIOUS
<1>2. Last(Append(s, x)) = x
  BY <1>1 DEF Last
<1> QED
  BY <1>1, <1>2

\* More of the history takes nothing back.
LEMMA AppendTells ==
  ASSUME NEW s \in Seq(Held), NEW x \in Held, NEW q
  PROVE  /\ OwnerTold(q, s) => OwnerTold(q, Append(s, x))
         /\ Told(q, s) => Told(q, Append(s, x))
<1>1. \A k \in MomentsOf(s) : k \in MomentsOf(Append(s, x)) /\ Append(s, x)[k] = s[k]
  <2> DEFINE t == Append(s, x)
  <2>1. DOMAIN t = DOMAIN s \cup {Len(s) + 1} /\ \A k \in DOMAIN s : t[k] = s[k]
    BY Appended, Zenon
  <2> HIDE DEF t
  <2>2. \A k \in MomentsOf(s) : k \in MomentsOf(t) /\ t[k] = s[k]
    BY <2>1 DEF MomentsOf
  <2> QED
    BY <2>2 DEF t
<1>2. OwnerTold(q, s) => OwnerTold(q, Append(s, x))
  BY <1>1, Zenon DEF OwnerTold
<1>3. Told(q, s) => Told(q, Append(s, x))
  BY <1>1, Zenon DEF Told
<1> QED
  BY <1>2, <1>3

\* What the ledger holds of a token now is the last of the history.
LEMMA LastTells ==
  ASSUME NEW s \in Seq(Held), s # <<>>, Last(s) # None
  PROVE  /\ Len(s) \in MomentsOf(s) /\ s[Len(s)] = Last(s)
         /\ \A k \in MomentsOf(s) : k <= Len(s)
<1>1. Len(s) \in Nat /\ Len(s) \in DOMAIN s /\ DOMAIN s = 1 .. Len(s)
  <2>1. Len(s) \in Nat /\ DOMAIN s = 1 .. Len(s)
    OBVIOUS
  <2>2. Len(s) # 0
    OBVIOUS
  <2> QED
    BY <2>1, <2>2
<1>2. s[Len(s)] = Last(s)
  BY DEF Last
<1> QED
  BY <1>1, <1>2 DEF MomentsOf

\* A token that is gone now was not there all the time.
LEMMA LastMissing ==
  ASSUME NEW s \in Seq(Held), s # <<>>, Last(s) = None
  PROVE  MomentsOf(s) # DOMAIN s
<1>1. Len(s) \in DOMAIN s
  <2>1. Len(s) \in Nat /\ DOMAIN s = 1 .. Len(s)
    OBVIOUS
  <2>2. Len(s) # 0
    OBVIOUS
  <2> QED
    BY <2>1, <2>2
<1>2. s[Len(s)] = None
  BY DEF Last
<1> QED
  BY <1>1, <1>2 DEF MomentsOf

\* A history of one token goes on being one.
LEMMA OneTokenGoesOn ==
  ASSUME NEW s \in Seq(Held), s # <<>>, OneToken(s), NEW x \in Held,
         (x # None /\ MomentsOf(s) # {}) =>
           /\ Last(s) # None
           /\ Last(s).weight = x.weight /\ Last(s).custodian = x.custodian
  PROVE  OneToken(Append(s, x))
<1> DEFINE t == Append(s, x)
           n == Len(s) + 1
<1>1. ASSUME NEW k \in MomentsOf(t)
      PROVE  \/ k \in MomentsOf(s) /\ t[k] = s[k]
             \/ k = n /\ t[k] = x /\ x # None
  <2> HIDE DEF t, n
  <2>1. /\ DOMAIN t = DOMAIN s \cup {n} /\ t[n] = x
        /\ \A m \in DOMAIN s : t[m] = s[m]
    BY Appended, Zenon DEF t, n
  <2> QED
    BY <2>1 DEF MomentsOf
<1>2. ASSUME x # None, MomentsOf(s) # {}
      PROVE  \A k \in MomentsOf(s) : s[k].weight = x.weight /\ s[k].custodian = x.custodian
  <2>1. Last(s) # None /\ Last(s).weight = x.weight /\ Last(s).custodian = x.custodian
    BY <1>2
  <2>2. Len(s) \in MomentsOf(s) /\ s[Len(s)] = Last(s)
    BY <2>1, LastTells
  <2> QED
    BY <2>1, <2>2, Zenon DEF OneToken
<1> HIDE DEF t, n
<1>3. ASSUME NEW i \in MomentsOf(t), NEW j \in MomentsOf(t)
      PROVE  t[i].weight = t[j].weight /\ t[i].custodian = t[j].custodian
  <2>1. CASE i \in MomentsOf(s) /\ t[i] = s[i] /\ j \in MomentsOf(s) /\ t[j] = s[j]
    BY <2>1, Zenon DEF OneToken
  <2>2. CASE i \in MomentsOf(s) /\ t[i] = s[i] /\ t[j] = x /\ x # None
    BY <1>2, <2>2, Zenon
  <2>3. CASE t[i] = x /\ x # None /\ j \in MomentsOf(s) /\ t[j] = s[j]
    BY <1>2, <2>3, Zenon
  <2>4. CASE t[i] = x /\ t[j] = x
    BY <2>4
  <2> QED
    BY <1>1, <2>1, <2>2, <2>3, <2>4, Zenon
<1>4. OneToken(t)
  BY <1>3, Zenon DEF OneToken
<1> QED
  BY <1>4 DEF t

----------------------------------------------------------------------------
(* The inductive invariant *)

Typed ==
  /\ LedgerTypeOK
  /\ seen \in Seq(Held)
  /\ FetchKnown

\* A request in flight has followed its token, and holds what it was told of it.
InHand ==
  request # None =>
    /\ response = None
    /\ request.id \in Id
    /\ request.at \in {"asksOwner", "asksToken", "asksPrice"}
    /\ seen # <<>>
    /\ Last(seen) = OnChain(request.id)
    /\ OneToken(seen)
    /\ MomentsOf(seen) # {} => request.id \in issued
    /\ request.at = "asksToken" => OwnerTold(request, seen)
    /\ request.at = "asksPrice" =>
         /\ Told(request, seen)
         /\ fetch.kind = "price" /\ fetch.at # "idle"

\* A report stands by what was told; a refusal has its reason.
Answered ==
  response # None =>
    /\ response.status \in {200, 400, 404, 502}
    /\ response.status = 200 =>
         /\ OneToken(seen)
         /\ Told(response, seen)
         /\ fetch.at = "done" /\ fetch.kind = "price"
         /\ response.isFallback = (fetch.answer = "fallback")
         /\ \E p \in Prices(fetch.answer) :
              response.value = estimatedValue(response.meta.weight, p)
    /\ response.status = 404 => MomentsOf(seen) # DOMAIN seen
    /\ response.status = 502 => faulty = TRUE \/ MomentsOf(seen) # DOMAIN seen

IInv == Typed /\ InHand /\ Answered

\* What the ledger holds of a token is a receipt exactly if the token lives.
LEMMA OnChainHeld ==
  ASSUME LedgerTypeOK, NEW id
  PROVE  /\ OnChain(id) \in Held
         /\ id \in DOMAIN receipts => /\ OnChain(id) = receipts[id]
                                      /\ OnChain(id) # None
                                      /\ id \in issued
         /\ id \notin DOMAIN receipts => OnChain(id) = None
<1>1. CASE id \in DOMAIN receipts
  <2>1. receipts[id] \in Receipt
    BY <1>1 DEF LedgerTypeOK
  <2>2. None \notin Receipt
    BY VerifyAssumption
  <2> QED
    BY <1>1, <2>1, <2>2 DEF OnChain, Held, LedgerTypeOK
<1>2. CASE id \notin DOMAIN receipts
  BY <1>2 DEF OnChain, Held
<1> QED
  BY <1>1, <1>2

\* Where the contract and the request over HTTP stand still, what is known of them does.
LEMMA Still ==
  ASSUME UNCHANGED chain
  PROVE  /\ LedgerTypeOK => LedgerTypeOK'
         /\ UNCHANGED <<receipts, issued>>
         /\ \A id : OnChain(id)' = OnChain(id)
         /\ (FetchKnown /\ UNCHANGED fetch) => FetchKnown'
  BY DEF chain, LedgerTypeOK, OnChain, FetchKnown

\* A verification begins with what the ledger holds at that moment.
LEMMA ReceiveStep ==
  ASSUME IInv, NEW id \in Id \cup {Blank}, Receive(id)
  PROVE  IInv'
<1> DEFINE x == OnChain(id)
<1>1. UNCHANGED chain /\ fetch' = Idle /\ LedgerTypeOK
  BY DEF Receive, Begins, IInv, Typed
<1>2. LedgerTypeOK' /\ FetchKnown'
  BY <1>1, Still, BegunKnown
<1>3. x \in Held
  BY <1>1, OnChainHeld
<1>4. seen' = IF id = None THEN <<>> ELSE <<x>>
  BY DEF Receive, Begins
<1> HIDE DEF x
<1>5. seen' \in Seq(Held)
  BY <1>3, <1>4
<1>6. Typed'
  BY <1>2, <1>5 DEF Typed
<1>7. CASE id = Blank
  <2>1. request' = None /\ response' = [status |-> 400, id |-> id]
    BY <1>7 DEF Receive
  <2>2. InHand'
    BY <2>1 DEF InHand
  <2>3. response'.status = 400
    BY <2>1
  <2>4. Answered'
    BY <2>3 DEF Answered
  <2> QED
    BY <1>6, <2>2, <2>4 DEF IInv
<1>8. CASE id # Blank
  <2>1. request' = [at |-> "asksOwner", id |-> id] /\ response' = None
    BY <1>8 DEF Receive
  <2>2. id \in Id /\ id # None
    BY <1>8, VerifyAssumption
  <2>3. seen' = <<x>>
    BY <1>4, <2>2
  <2>4. seen' # <<>> /\ DOMAIN seen' = {1} /\ seen'[1] = x /\ Last(seen') = x
    BY <2>3 DEF Last
  <2>5. OneToken(seen')
    BY <2>4 DEF OneToken, MomentsOf
  <2>6. MomentsOf(seen') # {} => id \in issued'
    <3>1. x # None => id \in issued
      BY <1>1, OnChainHeld DEF x
    <3>2. issued' = issued
      BY <1>1, Still
    <3> QED
      BY <2>4, <3>1, <3>2 DEF MomentsOf
  <2>7. request'.at = "asksOwner" /\ request'.id = id
    BY <2>1
  <2>8. Last(seen') = OnChain(id)'
    BY <1>1, <2>4, Still, Zenon DEF x
  <2>9. InHand'
    <3>1. OnChain(request.id)' = OnChain(id)'
      BY <2>7 DEF OnChain
    <3> QED
      BY <2>1, <2>2, <2>4, <2>5, <2>6, <2>7, <2>8, <3>1 DEF InHand
  <2>10. Answered'
    BY <2>1 DEF Answered
  <2> QED
    BY <1>6, <2>9, <2>10 DEF IInv
<1> QED
  BY <1>7, <1>8

\* A health probe reads nothing of the ledger.
LEMMA ProbeStep ==
  ASSUME IInv, Probe
  PROVE  IInv'
<1>1. UNCHANGED chain /\ handleStellarHealth /\ request' = None /\ response' = None
  BY DEF Probe, Begins
<1>2. seen' = <<>>
  BY DEF Probe, Begins
<1>3. LedgerTypeOK' /\ FetchKnown'
  BY <1>1, Still, BegunKnown DEF IInv, Typed
<1>4. Typed'
  BY <1>2, <1>3 DEF Typed
<1> QED
  BY <1>1, <1>4 DEF IInv, InHand, Answered

----------------------------------------------------------------------------
(* The queries *)

\* A refusal with its reason.
LEMMA Refusing ==
  ASSUME IInv, request # None, NEW status \in {404, 502}, Respond(Refused(status)),
         UNCHANGED <<chain, seen, fetch>>,
         \/ MomentsOf(seen) # DOMAIN seen
         \/ status = 502 /\ faulty' = TRUE
  PROVE  IInv'
<1>1. request' = None /\ response' = [status |-> status, id |-> request.id]
  BY DEF Respond, Refused
<1>2. response'.status = status
  BY <1>1
<1>3. Typed'
  BY Still DEF IInv, Typed
<1>4. InHand'
  BY <1>1 DEF InHand
<1>5. Answered'
  BY <1>2 DEF Answered
<1> QED
  BY <1>3, <1>4, <1>5 DEF IInv

\* The owner was found: the token was there then.
LEMMA OwnerFound ==
  ASSUME IInv, At("asksOwner"), request.id \in DOMAIN receipts,
         request' = [at |-> "asksToken", id |-> request.id,
                     owner |-> receipts[request.id].owner],
         UNCHANGED <<chain, response, seen, fetch>>
  PROVE  IInv'
<1>1. LedgerTypeOK /\ request # None
  BY DEF IInv, Typed, At
<1>2. /\ response = None /\ request.id \in Id /\ seen # <<>>
      /\ Last(seen) = OnChain(request.id) /\ OneToken(seen) /\ seen \in Seq(Held)
      /\ MomentsOf(seen) # {} => request.id \in issued
  BY <1>1 DEF IInv, InHand, Typed
<1>3. OnChain(request.id) = receipts[request.id] /\ OnChain(request.id) # None
  BY <1>1, OnChainHeld
<1>4. Len(seen) \in MomentsOf(seen) /\ seen[Len(seen)] = receipts[request.id]
  BY <1>2, <1>3, LastTells
<1>5. request'.at = "asksToken" /\ request'.id = request.id
      /\ request'.owner = receipts[request.id].owner
  OBVIOUS
<1>6. OwnerTold(request', seen)
  BY <1>4, <1>5 DEF OwnerTold
<1>7. Typed'
  BY Still DEF IInv, Typed
<1>8. OnChain(request.id)' = OnChain(request.id)
  BY <1>5, Still, Zenon DEF OnChain
<1>9. issued' = issued
  BY Still
<1>10. InHand'
  BY <1>2, <1>5, <1>6, <1>8, <1>9 DEF InHand
<1>11. Answered'
  BY <1>2 DEF Answered
<1> QED
  BY <1>7, <1>10, <1>11 DEF IInv

\* The metadata was found too: it, the owner and the drift are of moments seen.
LEMMA TokenFound ==
  ASSUME IInv, At("asksToken"), request.id \in DOMAIN receipts,
         NEW record \in TokenRecord \cup {None},
         request' = [at |-> "asksPrice", id |-> request.id, owner |-> request.owner,
                     meta |-> receipts[request.id], record |-> record,
                     drift |-> detectDrift(record, receipts[request.id], request.owner)],
         lookupPrice, UNCHANGED <<chain, response, seen>>
  PROVE  IInv'
<1>1. LedgerTypeOK /\ request # None /\ request.at = "asksToken"
  BY DEF IInv, Typed, At
<1>2. /\ response = None /\ request.id \in Id /\ seen # <<>>
      /\ Last(seen) = OnChain(request.id) /\ OneToken(seen) /\ seen \in Seq(Held)
      /\ MomentsOf(seen) # {} => request.id \in issued
      /\ OwnerTold(request, seen)
  BY <1>1 DEF IInv, InHand, Typed
<1>3. OnChain(request.id) = receipts[request.id] /\ OnChain(request.id) # None
  BY <1>1, OnChainHeld
<1>4. /\ Len(seen) \in MomentsOf(seen) /\ seen[Len(seen)] = receipts[request.id]
      /\ \A k \in MomentsOf(seen) : k <= Len(seen)
  BY <1>2, <1>3, LastTells
<1> DEFINE meta == receipts[request.id]
           drift == detectDrift(record, meta, request.owner)
<1>5. /\ request'.at = "asksPrice" /\ request'.id = request.id
      /\ request'.owner = request.owner /\ request'.meta = meta
      /\ request'.record = record /\ request'.drift = drift
  <2> HIDE DEF drift, meta
  <2> QED
    BY DEF drift, meta
<1>6. Told(request', seen)
  <2> HIDE DEF drift, meta
  <2>1. seen[Len(seen)] = meta
    BY <1>4 DEF meta
  <2>2. PICK i \in MomentsOf(seen) : seen[i].owner = request.owner
    BY <1>2 DEF OwnerTold
  <2>3. \E k, j \in MomentsOf(seen) :
          k <= j /\ seen[k].owner = request'.owner /\ seen[j] = request'.meta
    BY <1>4, <1>5, <2>1, <2>2
  <2>4. request'.drift = detectDrift(request'.record, request'.meta, request'.owner)
    BY <1>5, Zenon DEF drift
  <2> QED
    BY <1>5, <2>3, <2>4 DEF Told
<1>7. FetchKnown' /\ fetch'.kind = "price" /\ fetch'.at # "idle"
  BY BegunKnown
<1>8. Typed'
  BY <1>7, Still DEF IInv, Typed
<1>9. OnChain(request.id)' = OnChain(request.id)
  BY <1>5, Still, Zenon DEF OnChain
<1>10. issued' = issued
  BY Still
<1> HIDE DEF drift, meta
<1>11. InHand'
  BY <1>2, <1>5, <1>6, <1>7, <1>9, <1>10 DEF InHand
<1>12. Answered'
  BY <1>2 DEF Answered
<1> QED
  BY <1>8, <1>11, <1>12 DEF IInv

\* A query that comes back without a value refuses the request.
LEMMA Failing ==
  ASSUME NEW error, OwnerReturns(Failed(error)) \/ TokenReturns(Failed(error))
  PROVE  /\ request # None /\ UNCHANGED fetch
         /\ \E status \in {404, 502} :
              /\ Respond(Refused(status))
              /\ status = 404 => isTokenNotFoundError(error)
<1>1. Failed(error).ok = FALSE /\ Failed(error).error = error
  BY DEF Failed
<1>2. CASE OwnerReturns(Failed(error))
  <2>1. CASE isTokenNotFoundError(error)
    <3>1. Respond(Refused(404)) /\ UNCHANGED fetch /\ request # None
      BY <1>1, <1>2, <2>1 DEF OwnerReturns, At
    <3> QED
      BY <2>1, <3>1
  <2>2. CASE ~isTokenNotFoundError(error)
    <3>1. Respond(Refused(502)) /\ UNCHANGED fetch /\ request # None
      BY <1>1, <1>2, <2>2 DEF OwnerReturns, At
    <3> QED
      BY <3>1
  <2> QED
    BY <2>1, <2>2
<1>3. CASE TokenReturns(Failed(error))
  <2>1. Respond(Refused(502)) /\ UNCHANGED fetch /\ request # None
    BY <1>1, <1>3 DEF TokenReturns, At
  <2> QED
    BY <2>1
<1> QED
  BY <1>2, <1>3

\* Either query answered, with or without a token.
LEMMA RpcAnswersStep ==
  ASSUME IInv, RpcAnswers
  PROVE  IInv'
<1>1. LedgerTypeOK /\ request # None /\ UNCHANGED <<chain, seen>>
  BY DEF RpcAnswers, Quiet, IInv, Typed
<1>2. CASE request.id \in DOMAIN receipts
  <2> DEFINE r == receipts[request.id]
  <2>1. queryOwner(request.id) = {Found(r.owner)} /\ queryToken(request.id) = {Found(r)}
    BY <1>2 DEF queryOwner, queryToken
  <2>2. \A value : Found(value).ok = TRUE /\ Found(value).value = value
    BY DEF Found
  <2>3. OwnerReturns(Found(r.owner)) \/ TokenReturns(Found(r))
    BY <2>1 DEF RpcAnswers
  <2> HIDE DEF r
  <2>4. ASSUME OwnerReturns(Found(r.owner))
        PROVE  IInv'
    <3>1. /\ At("asksOwner") /\ UNCHANGED fetch /\ UNCHANGED response
          /\ request' = [at |-> "asksToken", id |-> request.id, owner |-> r.owner]
      BY <2>2, <2>4 DEF OwnerReturns
    <3> QED
      BY <1>1, <1>2, <3>1, OwnerFound DEF r
  <2>5. ASSUME TokenReturns(Found(r))
        PROVE  IInv'
    <3>1. /\ At("asksToken") /\ lookupPrice /\ UNCHANGED response
          /\ \E record \in TokenRecord \cup {None} :
               request' = [at |-> "asksPrice", id |-> request.id, owner |-> request.owner,
                           meta |-> r, record |-> record,
                           drift |-> detectDrift(record, r, request.owner)]
      BY <2>2, <2>5 DEF TokenReturns
    <3> QED
      BY <1>1, <1>2, <3>1, TokenFound DEF r
  <2> QED
    BY <2>3, <2>4, <2>5
<1>3. CASE request.id \notin DOMAIN receipts
  <2>1. queryOwner(request.id) = Gone /\ queryToken(request.id) = Gone
    BY <1>3 DEF queryOwner, queryToken
  <2>2. PICK text \in GoneTexts : OwnerReturns(Failed(text)) \/ TokenReturns(Failed(text))
    BY <2>1 DEF RpcAnswers, Gone
  <2>3. MomentsOf(seen) # DOMAIN seen
    <3>1. OnChain(request.id) = None
      BY <1>1, <1>3, OnChainHeld
    <3>2. seen \in Seq(Held) /\ seen # <<>> /\ Last(seen) = OnChain(request.id)
      BY <1>1 DEF IInv, Typed, InHand
    <3> QED
      BY <3>1, <3>2, LastMissing
  <2> QED
    BY <1>1, <2>2, <2>3, Failing, Refusing, ZenonT(60)
<1> QED
  BY <1>2, <1>3

\* A query that failed; the fault is remembered.
LEMMA RpcFailsStep ==
  ASSUME IInv, RpcFails
  PROVE  IInv'
<1> DEFINE error == "RPC timeout"
<1>1. UNCHANGED <<chain, seen>> /\ faulty' = TRUE
  BY DEF RpcFails
<1>2. OwnerReturns(Failed(error)) \/ TokenReturns(Failed(error))
  BY DEF RpcFails
<1>3. ~isTokenNotFoundError(error)
  BY DEF isTokenNotFoundError
<1> HIDE DEF error
<1>4. request # None /\ UNCHANGED fetch /\ Respond(Refused(502))
  BY <1>2, <1>3, Failing
<1> QED
  BY <1>1, <1>4, Refusing

----------------------------------------------------------------------------
(* The price, the ledger and time *)

\* The price is there, and the report is made of what the request carries.
LEMMA PriceStep ==
  ASSUME IInv, PriceReturns
  PROVE  IInv'
<1>1. /\ request # None /\ request.at = "asksPrice" /\ fetch.at = "done"
      /\ UNCHANGED <<chain, seen, fetch, faulty>> /\ request' = None
  BY DEF PriceReturns, At, Quiet, Respond
<1>2. Told(request, seen) /\ fetch.kind = "price" /\ OneToken(seen)
  BY <1>1 DEF IInv, InHand
<1> DEFINE fallback == fetch.answer = "fallback"
<1>3. PICK price \in Prices(fetch.answer) :
        response' = [status |-> 200, id |-> request.id, owner |-> request.owner,
                     meta |-> request.meta, record |-> request.record,
                     drift |-> request.drift,
                     value |-> estimatedValue(request.meta.weight, price),
                     isFallback |-> fallback]
  BY DEF PriceReturns, Respond
<1> HIDE DEF fallback
<1>4. /\ response'.status = 200 /\ response'.owner = request.owner
      /\ response'.meta = request.meta /\ response'.record = request.record
      /\ response'.drift = request.drift /\ response'.isFallback = fallback
      /\ response'.value = estimatedValue(request.meta.weight, price)
  BY <1>3
<1>5. Told(response', seen)
  <2>1. PICK i, j \in MomentsOf(seen) :
          i <= j /\ seen[i].owner = request.owner /\ seen[j] = request.meta
    BY <1>2 DEF Told
  <2>2. detectDrift(response'.record, response'.meta, response'.owner) = request.drift
    BY <1>2, <1>4, Zenon DEF Told
  <2>3. response'.record \in TokenRecord \cup {None}
    BY <1>2, <1>4 DEF Told
  <2>4. seen[i].owner = response'.owner /\ seen[j] = response'.meta
    BY <1>4, <2>1, Zenon
  <2>5. \E k, l \in MomentsOf(seen) :
          k <= l /\ seen[k].owner = response'.owner /\ seen[l] = response'.meta
    BY <2>1, <2>4, Zenon
  <2>6. response'.drift = detectDrift(response'.record, response'.meta, response'.owner)
    BY <1>4, <2>2, Zenon
  <2> QED
    BY <2>3, <2>5, <2>6, Zenon DEF Told
<1>6. response'.value = estimatedValue(response'.meta.weight, price)
  BY <1>4, Zenon
<1>7. /\ fetch.at = "done" /\ fetch' = fetch /\ seen' = seen
      /\ Prices(fetch'.answer) = Prices(fetch.answer)
  BY <1>1
<1>8. Answered'
  <2>1. response'.isFallback = (fetch.answer = "fallback")
    BY <1>4 DEF fallback
  <2>2. \E p \in Prices(fetch'.answer) :
          response'.value = estimatedValue(response'.meta.weight, p)
    BY <1>6, <1>7, Zenon
  <2>3. \E p \in Prices(fetch.answer)' :
          response'.value = estimatedValue(response'.meta.weight, p)
    BY <2>2, <1>7 DEF Prices
  <2> HIDE DEF fallback
  <2> QED
    BY <1>2, <1>4, <1>5, <1>7, <2>1, <2>3 DEF Answered
<1>9. Typed'
  BY <1>1, Still DEF IInv, Typed
<1>10. InHand'
  BY <1>1 DEF InHand
<1> QED
  BY <1>8, <1>9, <1>10 DEF IInv

\* Whatever is done to the ledger, a request in flight keeps following its token.
LEMMA ChainStep ==
  ASSUME IInv, ChainActs
  PROVE  IInv'
<1> DEFINE id == request.id
           x == OnChain(request.id)'
<1>1. /\ UNCHANGED <<request, response, faulty, fetch>>
      /\ seen' = IF request = None \/ x = Last(seen) THEN seen ELSE Append(seen, x)
      /\ LedgerTypeOK /\ seen \in Seq(Held) /\ FetchKnown
  BY DEF ChainActs, IInv, Typed
<1>2. LedgerTypeOK' /\ Lasts
  BY Operation DEF ChainActs, ChainMoves, IInv, Typed
<1>3. FetchKnown'
  BY <1>1 DEF FetchKnown
<1>4. x = OnChain(id)'
  BY <1>1
<1>5. /\ x \in Held
      /\ x # None => id \in DOMAIN receipts' /\ x = receipts'[id] /\ id \in issued'
  <2>1. x = IF id \in DOMAIN receipts' THEN receipts'[id] ELSE None
    BY <1>1 DEF OnChain
  <2>2. /\ DOMAIN receipts' \subseteq issued'
        /\ \A i \in DOMAIN receipts' : receipts'[i] \in Receipt
    BY <1>2 DEF LedgerTypeOK
  <2> QED
    BY <2>1, <2>2 DEF Held
<1> HIDE DEF x
<1>6. seen' \in Seq(Held)
  BY <1>1, <1>5, Appended
<1>7. Typed'
  BY <1>2, <1>3, <1>6 DEF Typed
<1>8. CASE request = None
  <2>1. seen' = seen /\ request' = None
    BY <1>1, <1>8
  <2>2. InHand'
    BY <2>1 DEF InHand
  <2>3. Answered'
    BY <1>1, <2>1 DEF IInv, Answered, Prices
  <2> QED
    BY <1>7, <2>2, <2>3 DEF IInv
<1>9. CASE request # None
  <2>1. /\ response = None /\ id \in Id /\ seen # <<>>
        /\ id = request.id /\ Last(seen) = OnChain(id) /\ OneToken(seen)
        /\ MomentsOf(seen) # {} => id \in issued
    BY <1>9 DEF IInv, InHand
  <2> HIDE DEF id
  <2>2. Answered'
    BY <1>1, <2>1 DEF Answered
  <2>3. ASSUME x # None, id \in issued
        PROVE  /\ Last(seen) # None
               /\ Last(seen).weight = x.weight /\ Last(seen).custodian = x.custodian
    <3>1. /\ id \in DOMAIN receipts
          /\ receipts'[id].weight = receipts[id].weight
          /\ receipts'[id].custodian = receipts[id].custodian
      BY <1>2, <1>5, <2>3 DEF Lasts
    <3>2. Last(seen) = receipts[id] /\ Last(seen) # None
      BY <1>1, <2>1, <3>1, OnChainHeld
    <3> QED
      BY <1>5, <2>3, <3>1, <3>2
  <2>4. issued \subseteq issued'
    BY <1>2 DEF Lasts
  <2>5. OwnerTold(request, seen) => OwnerTold(request, seen')
    BY <1>1, <1>5, AppendTells
  <2>6. Told(request, seen) => Told(request, seen')
    BY <1>1, <1>5, AppendTells
  <2>7. OneToken(seen') /\ seen' # <<>> /\ Last(seen') = x
    <3>1. CASE x = Last(seen)
      BY <1>1, <2>1, <3>1
    <3>2. CASE x # Last(seen)
      <4>1. seen' = Append(seen, x)
        BY <1>1, <1>9, <3>2
      <4>2. OneToken(Append(seen, x))
        BY <1>1, <1>5, <2>1, <2>3, OneTokenGoesOn
      <4>3. Last(Append(seen, x)) = x /\ Append(seen, x) # <<>>
        BY <1>1, <1>5, Appended
      <4> QED
        BY <4>1, <4>2, <4>3
    <3> QED
      BY <3>1, <3>2
  <2>8. MomentsOf(seen') # {} => id \in issued'
    <3>1. CASE x # None
      BY <1>5, <3>1
    <3>2. CASE x = None
      <4>1. MomentsOf(seen') # {} => MomentsOf(seen) # {}
        <5>1. CASE seen' = seen
          BY <5>1
        <5>2. CASE seen' = Append(seen, x)
          <6>1. /\ DOMAIN seen' = DOMAIN seen \cup {Len(seen) + 1}
                /\ seen'[Len(seen) + 1] = x /\ \A k \in DOMAIN seen : seen'[k] = seen[k]
            BY <1>1, <1>5, <5>2, Appended
          <6> QED
            BY <3>2, <6>1 DEF MomentsOf
        <5> QED
          BY <1>1, <5>1, <5>2
      <4> QED
        BY <2>1, <2>4, <4>1
    <3> QED
      BY <3>1, <3>2
  <2>9. InHand'
    <3>1. request' = request /\ response' = response /\ fetch' = fetch
      BY <1>1
    <3>2. OnChain(request.id)' = x
      BY DEF x
    <3> QED
      BY <1>9, <2>1, <2>5, <2>6, <2>7, <2>8, <3>1, <3>2 DEF IInv, InHand
  <2> QED
    BY <1>7, <2>2, <2>9 DEF IInv
<1> QED
  BY <1>8, <1>9

\* A step of an outbound request touches nothing else.
LEMMA FetchesStep ==
  ASSUME IInv, Fetches
  PROVE  IInv'
<1>1. UNCHANGED <<chain, request, response, seen, faulty>> /\ FetchNext /\ FetchKnown
  BY DEF Fetches, handler, IInv, Typed
<1>2. FetchKnown' /\ Waiting /\ fetch'.kind = fetch.kind /\ fetch'.at # "idle"
  BY <1>1, FetchStep
<1>3. Typed'
  BY <1>1, <1>2, Still DEF IInv, Typed
<1>4. OnChain(request.id)' = OnChain(request.id)
  BY <1>1, Still, Zenon DEF OnChain
<1>5. issued' = issued
  BY <1>1, Still
<1>6. InHand'
  BY <1>1, <1>2, <1>4, <1>5 DEF IInv, InHand
<1>7. (response # None /\ response.status = 200) => fetch.at = "done"
  BY DEF IInv, Answered
<1>8. fetch.at # "done"
  BY <1>2 DEF Waiting
<1>9. Answered'
  <2>1. response # None => /\ response.status \in {400, 404, 502}
                           /\ response.status = 404 => MomentsOf(seen) # DOMAIN seen
                           /\ response.status = 502 =>
                                faulty = TRUE \/ MomentsOf(seen) # DOMAIN seen
    BY <1>7, <1>8 DEF IInv, Answered
  <2> QED
    BY <1>1, <2>1 DEF Answered
<1> QED
  BY <1>3, <1>6, <1>9 DEF IInv

\* Nothing happens.
LEMMA RestStep ==
  ASSUME IInv, UNCHANGED vars
  PROVE  IInv'
<1>1. UNCHANGED <<chain, request, response, seen, faulty, fetch, issued>>
  BY DEF vars, handler, chain
<1>2. Typed'
  BY <1>1, Still DEF IInv, Typed
<1>3. OnChain(request.id)' = OnChain(request.id)
  BY <1>1, Still, Zenon DEF OnChain
<1>4. InHand'
  BY <1>1, <1>3 DEF IInv, InHand
<1>5. Answered'
  BY <1>1 DEF IInv, Answered, Prices
<1> QED
  BY <1>2, <1>4, <1>5 DEF IInv

----------------------------------------------------------------------------
(* The theorems *)

(***************************************************************************)
(* Along every behaviour of the API, a request in flight has followed its  *)
(* token, and every answer stands by what the request was told.            *)
(***************************************************************************)
THEOREM Invariance == Spec => []IInv
<1>1. Init => IInv
  <2> SUFFICES ASSUME Init
               PROVE  IInv
    OBVIOUS
  <2>1. Known("idle", None, 0, 0, "nothing", None)
    BY DEF Known
  <2>2. fetch = Idle /\ Idle = Fetch("idle", None, 0, 0, "nothing", None)
    BY DEF Init, Idle, Fetch
  <2>3. /\ fetch.at = "idle" /\ fetch.kind = None /\ fetch.elapsed = 0
        /\ fetch.latency = 0 /\ fetch.came = "nothing" /\ fetch.answer = None
    BY <2>2 DEF Fetch
  <2>4. FetchKnown
    BY <2>1, <2>2, <2>3 DEF FetchKnown, IsFetch
  <2>5. seen \in Seq(Held) /\ LedgerTypeOK
    BY Deployment DEF Init
  <2> QED
    BY <2>4, <2>5 DEF Init, IInv, Typed, InHand, Answered
<1>2. IInv /\ [Next]_vars => IInv'
  <2> SUFFICES ASSUME IInv, [Next]_vars
               PROVE  IInv'
    OBVIOUS
  <2>1. CASE Next
    BY <2>1, ReceiveStep, RpcAnswersStep, RpcFailsStep, ProbeStep, PriceStep,
       ChainStep, FetchesStep DEF Next
  <2>2. CASE UNCHANGED vars
    BY <2>2, RestStep
  <2> QED
    BY <2>1, <2>2
<1> QED
  BY <1>1, <1>2, PTL DEF Spec

(* The state is what its type says. *)
THEOREM TypeCorrect == Spec => []TypeOK
<1>1. IInv => TypeOK
  BY DEF IInv, Typed, InHand, Answered, TypeOK, Held
<1> QED
  BY <1>1, Invariance, PTL

(***************************************************************************)
(* However the ledger was moved between the two queries, a report's owner, *)
(* weight and custodian were true at one moment, its lock with that weight *)
(* and custodian at that or a later one, and its value is that weight at a *)
(* price of the source it names.                                           *)
(***************************************************************************)
THEOREM TrueReports == Spec => []ReportWasTrue
<1>1. IInv => ReportWasTrue
  <2> SUFFICES ASSUME IInv, Answers(200)
               PROVE  /\ \E i, j \in Moments :
                           /\ i <= j
                           /\ seen[i] \in [owner : {response.owner},
                                           weight : {response.meta.weight},
                                           custodian : {response.meta.custodian},
                                           frozen : BOOLEAN]
                           /\ seen[j] \in [owner : Party, weight : {response.meta.weight},
                                           custodian : {response.meta.custodian},
                                           frozen : {response.meta.frozen}]
                      /\ \E p \in IF response.isFallback THEN {ReferencePrice}
                                  ELSE FeedPrices :
                           response.value = estimatedValue(response.meta.weight, p)
    BY DEF ReportWasTrue
  <2>1. /\ OneToken(seen) /\ Told(response, seen) /\ seen \in Seq(Held) /\ FetchKnown
        /\ fetch.at = "done" /\ fetch.kind = "price"
        /\ response.isFallback = (fetch.answer = "fallback")
        /\ \E p \in Prices(fetch.answer) :
             response.value = estimatedValue(response.meta.weight, p)
    BY DEF IInv, Answered, Typed, Answers
  <2>2. PICK i, j \in MomentsOf(seen) :
          i <= j /\ seen[i].owner = response.owner /\ seen[j] = response.meta
    BY <2>1 DEF Told
  <2>3. \A k \in MomentsOf(seen) : seen[k] \in Receipt
    <3>1. \A k \in DOMAIN seen : seen[k] \in Held
      BY <2>1
    <3> QED
      BY <3>1 DEF MomentsOf, Held
  <2>4. seen[i].weight = seen[j].weight /\ seen[i].custodian = seen[j].custodian
    BY <2>1, <2>2, Zenon DEF OneToken
  <2>5. seen[i] \in [owner : {response.owner}, weight : {response.meta.weight},
                     custodian : {response.meta.custodian}, frozen : BOOLEAN]
    <3> DEFINE r == seen[i]
               s == seen[j]
    <3>1. /\ r \in Receipt /\ r.weight = s.weight /\ r.custodian = s.custodian
          /\ r.owner = response.owner /\ s = response.meta
      BY <2>2, <2>3, <2>4
    <3> HIDE DEF r, s
    <3> QED
      BY <3>1 DEF Receipt, r
  <2>6. seen[j] \in [owner : Party, weight : {response.meta.weight},
                     custodian : {response.meta.custodian},
                     frozen : {response.meta.frozen}]
    <3> DEFINE s == seen[j]
    <3>1. s \in Receipt /\ s = response.meta
      BY <2>2, <2>3
    <3> HIDE DEF s
    <3> QED
      BY <3>1 DEF Receipt, s
  <2>7. \E k, l \in Moments :
          /\ k <= l
          /\ seen[k] \in [owner : {response.owner}, weight : {response.meta.weight},
                          custodian : {response.meta.custodian}, frozen : BOOLEAN]
          /\ seen[l] \in [owner : Party, weight : {response.meta.weight},
                          custodian : {response.meta.custodian},
                          frozen : {response.meta.frozen}]
    <3>1. i \in Moments /\ j \in Moments
      BY <2>2 DEF Moments, MomentsOf
    <3> QED
      BY <2>2, <2>5, <2>6, <3>1, Zenon
  <2>8. \E p \in IF response.isFallback THEN {ReferencePrice} ELSE FeedPrices :
          response.value = estimatedValue(response.meta.weight, p)
    <3> DEFINE V(p) == response.value = estimatedValue(response.meta.weight, p)
    <3>1. fetch.answer \in {"live", "fallback"}
      BY <2>1 DEF FetchKnown, Known
    <3>2. \E p \in Prices(fetch.answer) : V(p)
      BY <2>1
    <3> HIDE DEF V
    <3>3. \E p \in IF response.isFallback THEN {ReferencePrice} ELSE FeedPrices : V(p)
      BY <2>1, <3>1, <3>2 DEF Prices
    <3> QED
      BY <3>3 DEF V
  <2> QED
    BY <2>7, <2>8
<1> QED
  BY <1>1, Invariance, PTL

(* A report calls its price live exactly if the feed's whole answer came in time. *)
THEOREM LivePricesAreLive == Spec => []PriceTells
<1>1. IInv => PriceTells
  <2> SUFFICES ASSUME IInv, Answers(200)
               PROVE  response.isFallback <=> fetch.came # "body"
    BY DEF PriceTells
  <2>1. /\ FetchKnown /\ fetch.at = "done" /\ fetch.kind = "price"
        /\ response.isFallback = (fetch.answer = "fallback")
    BY DEF IInv, Answered, Typed, Answers
  <2>2. fetch.answer \in {"live", "fallback"} /\ (fetch.answer = "live" <=> fetch.came = "body")
    BY <2>1 DEF FetchKnown, Known
  <2> QED
    BY <2>1, <2>2
<1> QED
  BY <1>1, Invariance, PTL

(***************************************************************************)
(* A token called missing was missing at some moment of the request, and a *)
(* failure of the chain was one, or the token went missing in between.     *)
(***************************************************************************)
THEOREM RefusalsDeserved == Spec => []RefusalDeserved
<1>1. IInv => RefusalDeserved
  BY DEF IInv, Answered, RefusalDeserved, Answers, Moments, MomentsOf
<1> QED
  BY <1>1, Invariance, PTL

(* The drift of a token that kept still is that of its record to the ledger. *)
THEOREM DriftIsExact == Spec => []DriftExact
<1>1. ASSUME NEW record \in TokenRecord, record # None, NEW meta, NEW owner
      PROVE  detectDrift(record, meta, owner) = {} <=>
               record = [owner |-> owner, quantity |-> meta.weight,
                         custodian |-> meta.custodian]
  <2> DEFINE agree == /\ record.owner = owner /\ record.quantity = meta.weight
                      /\ record.custodian = meta.custodian
  <2>1. detectDrift(record, meta, owner) = {} <=> agree
    BY <1>1 DEF detectDrift
  <2>2. agree <=> record = [owner |-> owner, quantity |-> meta.weight,
                            custodian |-> meta.custodian]
    BY DEF TokenRecord
  <2> QED
    BY <2>1, <2>2
<1>2. IInv => DriftExact
  <2> SUFFICES ASSUME IInv, Answers(200), Len(seen) = 1, response.record # None
               PROVE  response.drift = {} <=>
                        response.record = [owner |-> seen[1].owner,
                                           quantity |-> seen[1].weight,
                                           custodian |-> seen[1].custodian]
    BY DEF DriftExact
  <2>1. Told(response, seen) /\ seen \in Seq(Held)
    BY DEF IInv, Answered, Typed, Answers
  <2>2. PICK i, j \in MomentsOf(seen) :
          i <= j /\ seen[i].owner = response.owner /\ seen[j] = response.meta
    BY <2>1 DEF Told
  <2>3. i = 1 /\ j = 1
    <3>1. DOMAIN seen = 1 .. 1
      BY <2>1
    <3> QED
      BY <3>1 DEF MomentsOf
  <2>4. seen[1].owner = response.owner /\ seen[1] = response.meta
    BY <2>2, <2>3
  <2>5. response.record \in TokenRecord
    BY <2>1 DEF Told
  <2>6. response.drift = detectDrift(response.record, response.meta, response.owner)
    BY <2>1 DEF Told
  <2>7. response.drift = {} <=>
          response.record = [owner |-> response.owner, quantity |-> response.meta.weight,
                             custodian |-> response.meta.custodian]
    <3> DEFINE D(r, meta, owner) == detectDrift(r, meta, owner)
               R(meta, owner) == [owner |-> owner, quantity |-> meta.weight,
                                  custodian |-> meta.custodian]
    <3>1. \A r, meta, owner : (r \in TokenRecord /\ r # None) =>
            (D(r, meta, owner) = {} <=> r = R(meta, owner))
      BY <1>1, Zenon
    <3> HIDE DEF D, R
    <3>2. D(response.record, response.meta, response.owner) = {} <=>
            response.record = R(response.meta, response.owner)
      BY <2>5, <3>1
    <3>3. detectDrift(response.record, response.meta, response.owner) = {} <=>
            response.record = [owner |-> response.owner, quantity |-> response.meta.weight,
                               custodian |-> response.meta.custodian]
      BY <3>2 DEF D, R
    <3> QED
      BY <2>6, <3>3, Zenon
  <2> QED
    BY <2>4, <2>7, Zenon
<1> QED
  BY <1>2, Invariance, PTL

(* Horizon is called reachable exactly if good headers came in time. *)
THEOREM HealthIsTold == Spec => []HealthTells
<1>1. IInv => HealthTells
  BY DEF IInv, Typed, FetchKnown, Known, HealthTells
<1> QED
  BY <1>1, Invariance, PTL
=============================================================================

----------------------------- MODULE TimedFetch -----------------------------
(***************************************************************************)
(* The API's outbound HTTP requests: the probe of Horizon behind           *)
(* GET /health/stellar (apps/api/src/routes/health.routes.ts) and the look *)
(* up of a price (apps/api/src/services/priceOracle.service.ts).  Each     *)
(* awaits the headers, then the body, and hands both to one abort signal   *)
(* that fires at a deadline; the server may answer at any time, break off, *)
(* or keep silent.  Time passes in seconds.  Requests share nothing, so    *)
(* one at a time is modelled; VerifyToken makes them.                      *)
(***************************************************************************)
EXTENDS Naturals

CONSTANTS Deadline,  \* AbortSignal.timeout of either kind of request
          None       \* undefined

ASSUME TimedFetchAssumption == Deadline \in [{"health", "price"} -> Nat \ {0}]

VARIABLES fetch   \* the request in flight, or the last one

----------------------------------------------------------------------------
(* A request *)

\* elapsed is the time since start; came is history, what the server has sent.
Idle == [at |-> "idle", kind |-> None, elapsed |-> 0, latency |-> 0,
         came |-> "nothing", answer |-> None]

Waiting == fetch.at \in {"headers", "body"}

Begun(kind) == [Idle EXCEPT !.at = "headers", !.kind = kind]

Done(came, answer) ==
  fetch' = [fetch EXCEPT !.at = "done", !.came = came, !.answer = answer]

\* The health handler's failure takes its own time, not the probe's.
Unreachable(came) ==
  fetch' = [fetch EXCEPT !.at = "done", !.came = came, !.answer = "503",
                         !.latency = fetch.elapsed]

\* Without a feed's address there is nothing to ask for.
lookupPrice ==
  fetch' \in {Begun("price"),
              [Idle EXCEPT !.kind = "price", !.at = "done", !.answer = "fallback"]}

handleStellarHealth == fetch' = Begun("health")

\* The headers are there, and good: the latency is taken before the body (and
\* of a price's not looked at).
HeadersOk ==
  /\ fetch.at = "headers"
  /\ fetch' = [fetch EXCEPT !.at = "body", !.came = "headers", !.latency = fetch.elapsed]

\* Mutant: a probe whose body fails is a failed probe.
probeHorizon_strict(came) ==
  IF came = "body" THEN Done(came, "200 with version") ELSE Unreachable(came)

\* How a probe ends: the body only serves for the version.
probeHorizon(came) ==
  IF came = "body" THEN Done(came, "200 with version")
  ELSE IF fetch.at = "body" THEN Done(came, "200")
  ELSE Unreachable(came)

\* Mutant: the price is taken from whatever body came.
fetchLivePrice_unchecked(came) ==
  Done(came, IF came \in {"body", "bad body"} THEN "live" ELSE "fallback")

\* How a look up ends: a price from the feed takes a whole, sensible body.
fetchLivePrice(came) ==
  Done(came, IF came = "body" THEN "live" ELSE "fallback")

Ends(came) == IF fetch.kind = "health" THEN probeHorizon(came) ELSE fetchLivePrice(came)

\* The server refuses, sends a body that is or is not as expected, or breaks off.
ServerEnds ==
  \/ fetch.at = "headers" /\ Ends("refusal")
  \/ fetch.at = "body" /\ \E came \in {"body", "bad body"} : Ends(came)
  \/ Waiting /\ Ends(fetch.came)

\* The abort signal covers the headers and the body.
Due == Waiting /\ fetch.elapsed >= Deadline[fetch.kind]

\* Mutant: a request that was aborted is made again.
Abort_retries == Due /\ fetch' = Begun(fetch.kind)

Abort == Due /\ Ends(fetch.came)

\* A timer that is due goes off before time passes.
Tick ==
  /\ Waiting
  /\ ~Due
  /\ fetch' = [fetch EXCEPT !.elapsed = @ + 1]

FetchNext == HeadersOk \/ ServerEnds \/ Abort \/ Tick

----------------------------------------------------------------------------
(* Properties *)

(***************************************************************************)
(* Horizon counts as reachable exactly if good headers came in time, how-  *)
(* ever the body fared, and its version is told exactly if the body came.  *)
(***************************************************************************)
HealthTells ==
  (fetch.at = "done" /\ fetch.kind = "health") =>
    /\ (fetch.answer # "503") <=> (fetch.came \in {"headers", "body", "bad body"})
    /\ (fetch.answer = "200 with version") <=> (fetch.came = "body")
=============================================================================

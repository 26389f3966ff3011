--------------------------- MODULE GraphqlRequest ---------------------------
(***************************************************************************)
(* makeGraphqlRequest of lib/mina/v1/fetch.ts: one call that races the     *)
(* endpoints in pairs.  Each request retries after network errors and is   *)
(* aborted by a timer; the timers of all requests of the call are kept in  *)
(* one list, and any request that gets an answer or fails clears them all. *)
(* Servers may answer, fail, or never be heard of again.                   *)
(***************************************************************************)
EXTENDS Integers, Sequences, FiniteSets

CONSTANTS Urls,        \* how many endpoints: the first one and its fallbacks
          MaxRetries,  \* attempts per endpoint
          BodyStalls   \* TRUE: a response whose headers came may never be read

ASSUME UrlAssumption ==
  Urls \in Nat \ {0} /\ MaxRetries \in Nat \ {0} /\ BodyStalls \in BOOLEAN

VARIABLES
  first,    \* i of the source, the first endpoint of the pair that is raced
  request,  \* per endpoint, what its makeRequest is doing
  attempt,  \* per endpoint, how many attempts were made
  timers,   \* the requests whose timer is running
  served,   \* history: the endpoints that have executed the query
  foreign,  \* history: a request of an earlier pair cleared the timers of this one
  outcome   \* how the call ended, or "pending"

requestVars == <<first, request, attempt, timers, served, foreign, outcome>>

Endpoints == 1..Urls
Pair(k) == {k, k + 1} \cap Endpoints
Resolved == {"data", "error"}
Rejected == {"aborted", "failed"}

\* makeRequest for a new pair: both start their first attempt with a timer.
Started(f, k, v) == [u \in Endpoints |-> IF u \in Pair(k) THEN v ELSE f[u]]

InitRequest ==
  /\ first = 1
  /\ request = Started([u \in Endpoints |-> "unused"], 1, "inFlight")
  /\ attempt = Started([u \in Endpoints |-> 0], 1, 1)
  /\ timers = Pair(1) /\ served = {} /\ foreign = FALSE
  /\ outcome = "pending"

-----------------------------------------------------------------------------
\* clearTimeouts, called by the request of u, leaves the timers in `left` only.
Clear(u, left) ==
  /\ timers' = left
  /\ foreign' = (foreign \/ u \notin Pair(first))

\* Mutant: every error of a pair leads to the next one.
TriesNextAfterAny(u, how) == first + 2 <= Urls /\ Cardinality(Pair(first)) = 2

\* Only a pair of which the first to settle was aborted is followed by another.
TriesNext(u, how) ==
  how = "aborted" /\ first + 2 <= Urls /\ Cardinality(Pair(first)) = 2

\* Mutant: Promise.any for Promise.race, so that one rejection decides nothing.
RejectOne(u, how) ==
  /\ request' = [request EXCEPT ![u] = how]
  /\ Clear(u, {})
  /\ outcome' = IF outcome = "pending" /\ \A v \in Pair(first) : request'[v] \in Rejected
               THEN "error" ELSE outcome
  /\ UNCHANGED <<first, attempt>>

\* The request of u rejects.  If it is the first of the pair to settle, the race
\* is lost: the next pair is started, or the call returns an error.
Reject(u, how) ==
  LET decides == outcome = "pending" /\ u \in Pair(first)
      next    == decides /\ TriesNext(u, how)
      now     == [request EXCEPT ![u] = how]
  IN  /\ request' = IF next THEN Started(now, first + 2, "inFlight") ELSE now
      /\ attempt' = IF next THEN Started(attempt, first + 2, 1) ELSE attempt
      /\ IF next THEN timers' = Pair(first + 2) /\ foreign' = FALSE ELSE Clear(u, {})
      /\ first' = IF next THEN first + 2 ELSE first
      /\ outcome' = IF ~decides \/ next THEN outcome
                    ELSE IF how = "aborted" THEN "timeout" ELSE "error"

\* The body was read: the first of the pair to get there decides the call.
Resolve(u, how) ==
  /\ request' = [request EXCEPT ![u] = how]
  /\ outcome' = IF outcome = "pending" /\ u \in Pair(first) THEN how ELSE outcome
  /\ UNCHANGED <<first, attempt, timers, served, foreign>>

-----------------------------------------------------------------------------
\* The node executes the query; its answer may still be lost.
Serve(u) ==
  /\ request[u] = "inFlight" /\ u \notin served
  /\ served' = served \cup {u}
  /\ UNCHANGED <<first, request, attempt, timers, foreign, outcome>>

\* fetch resolves: return checkResponseStatus(response), then the finally
Headers(u) ==
  /\ request[u] = "inFlight" /\ u \in served
  /\ request' = [request EXCEPT ![u] = "body"]
  /\ Clear(u, {})
  /\ UNCHANGED <<first, attempt, served, outcome>>

\* A network error: all timers are cleared, and the request retries or gives up.
NetworkError(u) ==
  /\ request[u] = "inFlight"
  /\ \/ /\ attempt[u] < MaxRetries
        /\ request' = [request EXCEPT ![u] = "backoff"]
        /\ Clear(u, {})
        /\ UNCHANGED <<first, attempt, outcome>>
     \/ /\ attempt[u] = MaxRetries
        /\ Reject(u, "failed")
  /\ UNCHANGED served

\* The timer fires and the request is told to stop ...
Fire(u) ==
  /\ request[u] = "inFlight" /\ u \in timers
  /\ request' = [request EXCEPT ![u] = "aborting"]
  /\ timers' = timers \ {u}
  /\ UNCHANGED <<first, attempt, served, foreign, outcome>>

\* ... and fetch rejects with an AbortError, which is not retried.
Abort(u) ==
  /\ request[u] = "aborting"
  /\ Reject(u, "aborted")
  /\ UNCHANGED served

\* Mutant: a retry has no timer of its own.
NoTimers(u) == {}

\* continue runs the finally, which clears every timer, before the next attempt
TimersAtRetry(u) == {u}

Retry(u) ==
  /\ request[u] = "backoff"
  /\ request' = [request EXCEPT ![u] = "inFlight"]
  /\ attempt' = [attempt EXCEPT ![u] = @ + 1]
  /\ Clear(u, TimersAtRetry(u))
  /\ UNCHANGED <<first, served, outcome>>

\* checkResponseStatus: data, or an HTTP status or GraphQL errors
Body(u) == request[u] = "body" /\ Resolve(u, "data")
ErrorBody(u) == request[u] = "body" /\ Resolve(u, "error")

\* The body cannot be read: outside the try, so there is no retry.
BodyFails(u) ==
  /\ request[u] = "body"
  /\ request' = [request EXCEPT ![u] = "failed"]
  /\ outcome' = IF outcome = "pending" /\ u \in Pair(first) THEN "error" ELSE outcome
  /\ UNCHANGED <<first, attempt, timers, served, foreign>>

Step(u) ==
  \/ Serve(u) \/ Headers(u) \/ NetworkError(u) \/ Fire(u) \/ Abort(u) \/ Retry(u)
  \/ Body(u) \/ ErrorBody(u) \/ BodyFails(u)

NextRequest == \E u \in Endpoints : Step(u)

RequestSpec == InitRequest /\ [][NextRequest]_requestVars

\* Timers fire, and bodies arrive or fail if they do not stall.  No server has
\* to answer.
FairRequestSpec ==
  /\ RequestSpec
  /\ \A u \in Endpoints :
       /\ WF_requestVars(Fire(u)) /\ WF_requestVars(Abort(u)) /\ WF_requestVars(Retry(u))
       /\ ~BodyStalls => WF_requestVars(Body(u) \/ ErrorBody(u) \/ BodyFails(u))

-----------------------------------------------------------------------------
\* Somebody watches the race: a request with a timer or about to be aborted, one
\* that will retry, or one whose body is on its way.  However the two requests
\* of a pair clear the timers of one another, they never leave the call alone.
SomebodyWatches ==
  outcome = "pending" /\ ~foreign =>
    \E u \in Pair(first) : u \in timers \/ request[u] \in {"aborting", "backoff", "body"}

\* What the call reports is what happened: data was sent by an endpoint that
\* executed the query; a timeout means that in every pair a request was aborted,
\* and the endpoints after a pair are asked for no other reason.
OutcomeHasCause ==
  /\ outcome = "data" => \E u \in served \cap Pair(first) : request[u] = "data"
  /\ outcome = "timeout" => first + 2 > Urls
  /\ \A k \in {j \in Endpoints : j % 2 = 1 /\ (j < first \/ (j = first /\ outcome = "timeout"))} :
       \E u \in Pair(k) : request[u] = "aborted"

\* A call that never returns has been left alone with requests that no timer
\* watches, of which none has failed: requests of earlier pairs cleared the
\* timers, or a body stalls.
ReturnsIfWatched ==
  \/ <>(outcome # "pending")
  \/ <>[](\A u \in Pair(first) : request[u] = "body" \/ (request[u] = "inFlight" /\ u \notin timers))

\* The timeout of the configuration bounds every call.
TimeoutEndsCall == <>(outcome # "pending")
=============================================================================

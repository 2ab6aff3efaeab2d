------------------------------ MODULE Admission ------------------------------
(***************************************************************************)
(* How the backend lets one user's requests in: the guard, the cached      *)
(* verification of the ID token, and the fixed-window rate limit in front  *)
(* of a handler (registration, prekeys, push token, directory lookup, blob *)
(* upload; a WebSocket handshake takes the same steps).                    *)
(*                                                                         *)
(* One surface of one user is modelled, with every request in flight.      *)
(* A Redis command that is not answered in time is given up, and may still *)
(* be executed later.  Time is counted in steps; the timeouts on Redis and *)
(* on Firebase are outcomes a call may have at any moment.                 *)
(***************************************************************************)
EXTENDS Naturals, Sequences, FiniteSets

CONSTANTS
  Tokens,    \* the user's ID tokens
  Expiry,    \* the exp of each
  Limit,     \* requests allowed in a window
  Span,      \* windowSeconds
  Lag,       \* bound on how late Redis executes a command
  MaxCalls,  \* bound on the requests in flight
  LastTime   \* bound on the clock

ASSUME AdmissionAssumption ==
  /\ Expiry \in [Tokens -> Nat] /\ {Lag, MaxCalls} \subseteq Nat
  /\ {Limit, Span, LastTime} \subseteq Nat \ {0}

VARIABLES
  time,     \* the clock
  revoked,  \* the tokens Firebase has revoked
  cache,    \* fbtoken: when each token's entry expires, 0 for no entry
  setting,  \* cache writes that were issued and not yet executed
  counter,  \* ratelimit: the count and when it expires
  calls,    \* the requests in flight
  passed    \* the requests Redis let through: when, and which of which window

admissionVars == <<time, revoked, cache, setting, counter, calls, passed>>

AdmissionInit ==
  /\ time = 1 /\ revoked = {} /\ cache = [t \in Tokens |-> 0] /\ setting = {}
  /\ counter = [n |-> 0, until |-> 0] /\ calls = << >>
  /\ passed = {}

At(i, stage) == i \in DOMAIN calls /\ calls[i].stage = stage
Goes(i, stage) == calls' = [calls EXCEPT ![i].stage = stage]
Ends(i) == calls' = [k \in 1..(Len(calls) - 1) |-> IF k < i THEN calls[k] ELSE calls[k + 1]]

----------------------------------------------------------------------------
(* A request with a bearer token; one without is refused at once. *)
Request(t) ==
  /\ Len(calls) < MaxCalls
  /\ calls' = Append(calls, [token |-> t, stage |-> "read"])
  /\ UNCHANGED <<time, revoked, cache, setting, counter, passed>>

(* readCache: a hit passes the guard; a miss, and a read that fails or is   *)
(* too slow, goes to Firebase.                                             *)
ReadCache(i) ==
  /\ At(i, "read")
  /\ \/ cache[calls[i].token] > time /\ Goes(i, "limit")
     \/ Goes(i, "firebase")
  /\ UNCHANGED <<time, revoked, cache, setting, counter, passed>>

(* verifyWithFirebase, with the revocation checked: 401, or 503 when it is  *)
(* out of reach, or on to the cache.                                       *)
VerifyWithFirebase(i) ==
  /\ At(i, "firebase")
  /\ \/ Ends(i)
     \/ Expiry[calls[i].token] > time /\ calls[i].token \notin revoked /\ Goes(i, "write")
  /\ UNCHANGED <<time, revoked, cache, setting, counter, passed>>

(* A mutant: the entry is written even when the token has just expired. *)
WriteCacheUnchecked(i) ==
  /\ At(i, "write")
  /\ LET t == calls[i].token
         left == IF Expiry[t] > time THEN Expiry[t] - time ELSE 0
     IN  setting' = setting \cup {[token |-> t, ttl |-> left, since |-> time]}
  /\ Goes(i, "limit")
  /\ UNCHANGED <<time, revoked, cache, counter, passed>>

(* A mutant: every entry gets the same time to live. *)
WriteCacheFixed(i) ==
  /\ At(i, "write")
  /\ LET t == calls[i].token
     IN  setting' = IF Expiry[t] > time
                    THEN setting \cup {[token |-> t, ttl |-> LastTime, since |-> time]}
                    ELSE setting
  /\ Goes(i, "limit")
  /\ UNCHANGED <<time, revoked, cache, counter, passed>>

(* writeCache: the command is issued with what is left of the token's life; *)
(* the request goes on when it is executed, or given up.                   *)
WriteCache(i) ==
  /\ At(i, "write")
  /\ LET t == calls[i].token
     IN  setting' = IF Expiry[t] > time
                    THEN setting \cup {[token |-> t, ttl |-> Expiry[t] - time, since |-> time]}
                    ELSE setting
  /\ Goes(i, "limit")
  /\ UNCHANGED <<time, revoked, cache, counter, passed>>

(* SETEX is executed, or never reaches Redis. *)
EntrySet(w) ==
  /\ w \in setting
  /\ setting' = setting \ {w}
  /\ cache' = [cache EXCEPT ![w.token] = time + w.ttl] \/ UNCHANGED cache
  /\ UNCHANGED <<time, revoked, counter, calls, passed>>

(* A mutant: the count is kept and never compared with the limit. *)
HitUnlimited(i) ==
  /\ At(i, "limit") /\ Ends(i)
  /\ LET count == IF counter.until > time THEN counter.n ELSE 0
     IN  /\ counter' = [n |-> count + 1,
                        until |-> IF count = 0 THEN time + Span ELSE counter.until]
         /\ passed' = passed \cup {[at |-> time, n |-> count + 1, until |-> counter'.until]}
  /\ UNCHANGED <<time, revoked, cache, setting>>

(* The limiter's script, atomic in Redis: below the limit the hit counts,  *)
(* and the first one of a window sets its end; at the limit it answers 429 *)
(* and changes nothing.                                                    *)
Hit(i) ==
  /\ At(i, "limit") /\ Ends(i)
  /\ LET count == IF counter.until > time THEN counter.n ELSE 0
     IN  IF count >= Limit THEN UNCHANGED <<counter, passed>>
         ELSE /\ counter' = [n |-> count + 1,
                             until |-> IF count = 0 THEN time + Span ELSE counter.until]
              /\ passed' = passed \cup {[at |-> time, n |-> count + 1, until |-> counter'.until]}
  /\ UNCHANGED <<time, revoked, cache, setting>>

(* Redis does not answer the limiter, which may have counted: the request   *)
(* is let in all the same.                                                 *)
FailsOpen(i) ==
  /\ At(i, "limit") /\ Ends(i)
  /\ LET count == IF counter.until > time THEN counter.n ELSE 0
     IN  \/ UNCHANGED counter
         \/ /\ count < Limit
            /\ counter' = [n |-> count + 1,
                           until |-> IF count = 0 THEN time + Span ELSE counter.until]
  /\ UNCHANGED <<time, revoked, cache, setting, passed>>

Revoke(t) ==
  /\ t \notin revoked
  /\ revoked' = revoked \cup {t}
  /\ UNCHANGED <<time, cache, setting, counter, calls, passed>>

Second ==
  /\ time < LastTime
  /\ \A w \in setting : time < w.since + Lag
  /\ time' = time + 1
  /\ UNCHANGED <<revoked, cache, setting, counter, calls, passed>>

AdmissionNext ==
  \/ \E t \in Tokens : Request(t) \/ Revoke(t)
  \/ \E i \in DOMAIN calls :
       ReadCache(i) \/ VerifyWithFirebase(i) \/ WriteCache(i) \/ Hit(i) \/ FailsOpen(i)
  \/ \E w \in setting : EntrySet(w)
  \/ Second

AdmissionSpec == AdmissionInit /\ [][AdmissionNext]_admissionVars

----------------------------------------------------------------------------
(* Properties. *)
AdmissionTypeOK ==
  /\ time \in 1..LastTime /\ revoked \subseteq Tokens
  /\ cache \in [Tokens -> Nat]
  /\ \A w \in setting : w.token \in Tokens /\ w.ttl \in Nat \ {0} /\ w.since \in 1..time
  /\ counter \in [n : 0..Limit, until : Nat]
  /\ calls \in Seq([token : Tokens, stage : {"read", "firebase", "write", "limit"}])
  /\ passed \subseteq [at : 1..LastTime, n : 1..Limit, until : Nat]

(* However requests and windows fall, and whatever Redis counts without   *)
(* being heard, Redis itself lets fewer requests through in any Span steps *)
(* in a row than two full windows do (rate-limiter.service.ts:60).  Those  *)
(* the limiter lets in when Redis does not answer are not counted: while   *)
(* it is out there is no bound.                                            *)
RateBounded ==
  \A s \in 1..LastTime :
    Cardinality({h \in passed : h.at \in s..(s + Span - 1)}) < 2 * Limit

(* A cached verdict outlives its token by no more than the write of it was *)
(* late, whatever is retried, slow or given up                             *)
(* (token-verification.service.ts:126).                                    *)
OutlivesByLagOnly == \A t \in Tokens : cache[t] <= Expiry[t] + Lag
=============================================================================

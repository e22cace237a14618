----------------------------- MODULE GatewayNonce -----------------------------
(***************************************************************************)
(* The signature check of gateway_api (security.py) and its nonce cache.   *)
(* A request of product_api may be delivered more than once, late, or      *)
(* damaged on the way.  The timestamp is compared with the whole seconds   *)
(* of the clock when the headers are in; the nonce is looked up and stored *)
(* with the exact clock when the body is in.  Times are ticks of the       *)
(* clock, Second of them to a second.                                      *)
(***************************************************************************)
EXTENDS Integers, Absent

CONSTANTS Messages,    \* signed requests, each with a nonce of its own
          Stamps,      \* timestamps they may carry (the sender's clock may be off)
          Deliveries,  \* deliveries that can be in progress at the same time
          Ttl,         \* gateway_nonce_ttl_seconds
          Skew,        \* gateway_clock_skew_seconds
          Second,
          BodyWait,    \* the longest wait for a body (of the server in front)
          MaxTime      \* bound: ticks of the clock

ASSUME NonceConstants ==
  /\ {Ttl, Skew, BodyWait, MaxTime} \subseteq Nat /\ Second \in Nat \ {0}
  /\ Stamps \subseteq Int /\ None \notin Messages /\ None \notin Int

\* The entry outlives the last moment at which the timestamp can still be accepted.
ASSUME TtlCoversSkew == Ttl >= 2 * Skew + Second + BodyWait

VARIABLES now,
          stamp,     \* Messages -> the timestamp, or None before it is signed
          cache,     \* Messages -> when the entry of its nonce expires, or None
          delivery,  \* Deliveries -> [msg, since, intact]
          accepted   \* Messages -> times accepted since the last restart that could
                     \* have made its nonce usable again

nonceVars == <<now, stamp, cache, delivery, accepted>>

NoDelivery == [msg |-> None, since |-> 0, intact |-> TRUE]

NonceInit ==
  /\ now = 0
  /\ stamp = [m \in Messages |-> None]
  /\ cache = [m \in Messages |-> None]
  /\ delivery = [d \in Deliveries |-> NoDelivery]
  /\ accepted = [m \in Messages |-> 0]

\* _sign_headers
Sign(m, s) ==
  /\ stamp[m] = None
  /\ stamp' = [stamp EXCEPT ![m] = s]
  /\ UNCHANGED <<now, cache, delivery, accepted>>

\* int(time.time())
Whole(t) == t - (t % Second)

InWindow(t, s) == Whole(t) - s <= Skew /\ s - Whole(t) <= Skew

\* The headers of a copy are in and its timestamp is not out of range.
Arrive(d, m, intact) ==
  /\ delivery[d].msg = None
  /\ stamp[m] # None /\ InWindow(now, stamp[m])
  /\ delivery' = [delivery EXCEPT ![d] = [msg |-> m, since |-> now, intact |-> intact]]
  /\ UNCHANGED <<now, stamp, cache, accepted>>

\* Mutant: an entry lives as long as a timestamp is accepted after its time.
ExpirySkew(t) == t + Skew

Expiry(t) == t + Ttl

\* _prune
Pruned(t) == [m \in Messages |-> IF cache[m] # None /\ cache[m] <= t THEN None ELSE cache[m]]

\* A damaged body or signature is refused before the nonce is looked at.
RefuseDamaged(d) ==
  /\ delivery[d].msg # None /\ ~delivery[d].intact
  /\ delivery' = [delivery EXCEPT ![d] = NoDelivery]
  /\ UNCHANGED <<now, stamp, cache, accepted>>

\* check_and_store: 409, or the request is served.
CheckAndStore(d) ==
  LET m == delivery[d].msg
  IN  /\ m # None /\ delivery[d].intact
      /\ IF Pruned(now)[m] # None
         THEN cache' = Pruned(now) /\ UNCHANGED accepted
         ELSE /\ cache' = [Pruned(now) EXCEPT ![m] = Expiry(now)]
              /\ accepted' = [accepted EXCEPT ![m] = @ + 1]
      /\ delivery' = [delivery EXCEPT ![d] = NoDelivery]
      /\ UNCHANGED <<now, stamp>>

\* Time passes, but no delivery waits longer than BodyWait for its body.
TimePasses ==
  /\ now < MaxTime
  /\ \A d \in Deliveries : delivery[d].msg # None => now - delivery[d].since < BodyWait
  /\ now' = now + 1
  /\ UNCHANGED <<stamp, cache, delivery, accepted>>

\* No copy of the request can pass the timestamp check any more.
TooLate(m) == stamp[m] # None /\ Whole(now) - stamp[m] > Skew

\* The cache is memory of the process, and so are the deliveries in progress.
RestartGateway ==
  /\ cache' = [m \in Messages |-> None]
  /\ accepted' = [m \in Messages |-> IF TooLate(m) THEN accepted[m] ELSE 0]
  /\ delivery' = [d \in Deliveries |-> NoDelivery]
  /\ UNCHANGED <<now, stamp>>

NonceNext ==
  \/ \E m \in Messages, s \in Stamps : Sign(m, s)
  \/ \E d \in Deliveries, m \in Messages, intact \in BOOLEAN : Arrive(d, m, intact)
  \/ \E d \in Deliveries : RefuseDamaged(d) \/ CheckAndStore(d)
  \/ TimePasses \/ RestartGateway

NonceSpec == NonceInit /\ [][NonceNext]_nonceVars

(* ------------------------------ properties ------------------------------- *)
\* A signed request is served once, however its copies are delayed between the two clocks,
\* and in spite of restarts: only one within the accepted clock skew of its timestamp,
\* which forgets its nonce, lets it in again (once more for each such restart).  And the
\* gateway remembers only nonces it has served, so that a damaged copy never makes the
\* genuine one a replay.
ServedOnce ==
  \A m \in Messages : /\ accepted[m] <= 1
                      /\ cache[m] # None => accepted[m] = 1
=============================================================================

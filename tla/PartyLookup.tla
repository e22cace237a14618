---------------------------- MODULE PartyLookup ----------------------------
(***************************************************************************)
(* The two cached services the header is built with, as the handlers of    *)
(* one process share them: the company registry (claims/datanewton_client, *)
(* with retries over two paths) and the name service                       *)
(* (claims/person_name_ai_service, one request through the gateway).  The  *)
(* module follows one key of one of them.  Nothing stops two calls for the *)
(* same key from being in progress at once.                                *)
(***************************************************************************)
EXTENDS Integers, Absent

CONSTANTS Callers,
          Ttl, FailureTtl,  \* lifetimes of a found answer and of a failure
          RetryCount,       \* settings.datanewton_retry_count
          MaxTime           \* bound: ticks of the clock

ASSUME LookupConstants ==
  /\ Ttl \in Nat \ {0} /\ FailureTtl \in Nat \ {0} /\ RetryCount \in Nat /\ MaxTime \in Nat

VARIABLES service,  \* "registry" or "names"
          now,
          entry,    \* the cached [until, value, got], or None
          call,     \* Callers -> [at, path, attempt]
          answer    \* the last answer: [value, got, cached, at], or None

lookupVars == <<service, now, entry, call, answer>>

Quiet == [at |-> "idle", path |-> 1, attempt |-> 0]
Asking == [at |-> "asking", path |-> 1, attempt |-> 0]

LookupInit ==
  /\ service \in {"registry", "names"}
  /\ now = 0 /\ entry = None /\ answer = None
  /\ call = [c \in Callers |-> Quiet]

\* Mutant: the entry is served until somebody replaces it.
CacheHitForever(e) == e # None

\* An entry counts until it expires.
CacheHit(e) == e # None /\ e.until > now

\* The registry client takes a cached null for a miss; the name service serves failures.
Usable(e) == CacheHit(e) /\ (service = "names" \/ e.value # None)

Lookup(c) ==
  /\ call[c].at = "idle"
  /\ IF Usable(entry)
     THEN /\ answer' = [value |-> entry.value, got |-> entry.got, cached |-> TRUE, at |-> now]
          /\ UNCHANGED <<entry, call>>
     ELSE /\ entry' = IF CacheHit(entry) THEN entry ELSE None
          /\ call' = [call EXCEPT ![c] = Asking]
          /\ UNCHANGED answer
  /\ UNCHANGED <<service, now>>

Lifetime(value) == IF service = "names" /\ value = None THEN FailureTtl ELSE Ttl

\* The result is stored over whatever another call has stored meanwhile.
Conclude(c, value) ==
  /\ entry' = [until |-> now + Lifetime(value), value |-> value, got |-> now]
  /\ answer' = [value |-> value, got |-> now, cached |-> FALSE, at |-> now]
  /\ call' = [call EXCEPT ![c] = Quiet]

\* The registry: a party, an answer that parses to none, a refusal; an unknown path
\* (404, 405) leads to the next one; a 429, a 5xx or a timeout to a retry; an answer
\* that is not JSON escapes as an exception and nothing is stored.
RegistryAnswers(c) ==
  LET k == call[c]
  IN  /\ k.at = "asking" /\ service = "registry"
      /\ \/ \E value \in {"party", None} : Conclude(c, value)
         \/ /\ k.path = 1
            /\ call' = [call EXCEPT ![c].path = 2]
            /\ UNCHANGED <<entry, answer>>
         \/ /\ k.attempt < RetryCount
            /\ call' = [call EXCEPT ![c].path = 1, ![c].attempt = @ + 1]
            /\ UNCHANGED <<entry, answer>>
         \/ /\ call' = [call EXCEPT ![c] = Quiet]
            /\ UNCHANGED <<entry, answer>>
      /\ UNCHANGED <<service, now>>

\* The name service: an accepted answer, or a failure (timeout, gateway, validation).
NamesAnswer(c) ==
  /\ call[c].at = "asking" /\ service = "names"
  /\ \E value \in {"fio", None} : Conclude(c, value)
  /\ UNCHANGED <<service, now>>

ClockTicks ==
  /\ now < MaxTime /\ now' = now + 1
  /\ UNCHANGED <<service, entry, call, answer>>

LookupNext ==
  (\E c \in Callers : Lookup(c) \/ RegistryAnswers(c) \/ NamesAnswer(c)) \/ ClockTicks

LookupSpec == LookupInit /\ [][LookupNext]_lookupVars

(* ------------------------------ properties ------------------------------- *)
\* A cached answer is younger than its lifetime, however calls for the key overlapped;
\* the registry's "nothing" is never served from the cache.
CachedAnswersFresh ==
  answer # None /\ answer.cached =>
    /\ answer.at - answer.got < Lifetime(answer.value)
    /\ service = "registry" => answer.value # None
=============================================================================

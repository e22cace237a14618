------------------------------ MODULE RateLimits ------------------------------
(***************************************************************************)
(* The rate limiters of product_api (rate_limit.py): one for the magic     *)
(* links, keyed by address and IP, and three that a chat passes one after  *)
(* the other, keyed by company, by user and by IP (main.py).  A limiter    *)
(* keeps the times of the requests it let through, in process memory; a    *)
(* chat refused by a later limiter keeps its place in the earlier ones.    *)
(***************************************************************************)
EXTENDS Integers, Sequences, FiniteSets, Filtered

CONSTANTS Users, CompanyOf,   \* the chatting users and their companies
          Ips,
          Limit,              \* limiter -> requests per window
          Window,             \* window_seconds
          MaxChats, MaxClock   \* bounds

ASSUME RateConstants == Window \in Nat /\ Limit \in [{"company", "user", "ip"} -> Nat]

VARIABLES clock, hits,  \* hits: limiter -> key -> the times it keeps
          log         \* the chats so far: [at, keys, refusedBy]

rateVars == <<clock, hits, log>>

Chain == <<"company", "user", "ip">>
Limiters == {"company", "user", "ip"}
Keys == Users \cup {CompanyOf[u] : u \in Users} \cup Ips

RateInit ==
  /\ clock = 0
  /\ hits = [x \in Limiters |-> [k \in Keys |-> <<>>]]
  /\ log = <<>>

\* Mutant: the oldest moment of the window no longer counts.
RecentOpen(times) == Without(times, 0..(clock - Window))

\* The times before the window starts are left out; the clock starts at 0.
Recent(times) == Without(times, 0..(clock - Window - 1))

Allows(x, k) == Len(Recent(hits[x][k])) < Limit[x]

\* RateLimiter.allow stores the pruned times, with the new one when it is let through.
After(x, k) ==
  [hits[x] EXCEPT ![k] = IF Allows(x, k) THEN Append(Recent(@), clock) ELSE Recent(@)]

\* A chat asks the limiters in order and stops at the first refusal.
Chat(user, ip) ==
  LET key == [company |-> CompanyOf[user], user |-> user, ip |-> ip]
      refusing == {i \in 1..3 : ~Allows(Chain[i], key[Chain[i]])}
      last == IF refusing = {} THEN 3 ELSE CHOOSE i \in refusing : \A j \in refusing : i <= j
      asked == {Chain[i] : i \in 1..last}
  IN  /\ Len(log) < MaxChats
      /\ hits' = [x \in Limiters |-> IF x \in asked THEN After(x, key[x]) ELSE hits[x]]
      /\ log' = Append(log, [at |-> clock, keys |-> key,
                             passed |-> IF refusing = {} THEN asked ELSE asked \ {Chain[last]}])
      /\ UNCHANGED clock

SecondPasses == clock < MaxClock /\ clock' = clock + 1 /\ UNCHANGED <<hits, log>>

RateNext == SecondPasses \/ \E user \in Users, ip \in Ips : Chat(user, ip)

RateSpec == RateInit /\ [][RateNext]_rateVars

(* ------------------------------ properties ------------------------------- *)
\* The chats of the last window that a limiter let through, for one of its keys.
PassedRecently(x, k) ==
  {i \in 1..Len(log) : log[i].at >= clock - Window /\ log[i].keys[x] = k /\ x \in log[i].passed}

\* At every moment the chats of the window that ends there stay within every limit, and a
\* limiter remembers all of them, also those a later limiter refused, and no others.
RatesRespected ==
  \A x \in Limiters, k \in Keys :
    /\ Cardinality(PassedRecently(x, k)) <= Limit[x]
    /\ Len(Recent(hits[x][k])) = Cardinality(PassedRecently(x, k))
=============================================================================

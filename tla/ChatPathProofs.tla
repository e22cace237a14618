--------------------------- MODULE ChatPathProofs ----------------------------
(* The way of a chat through the three services, but for its charge: the rate *)
(* limiters in front, the signature and nonce at the gateway, and the stream  *)
(* of the answer back to the browser.                                         *)
EXTENDS GatewayNonce, ChatStream, RateLimits, LoopProofs

(* ----------------------------- rate limiters ----------------------------- *)

Late(c) == {t \in Nat : t >= c}

\* The chats since a moment that a limiter let through, for one of its keys.
PassedSince(x, k, c) ==
  {i \in 1..Len(log) : log[i].at >= c /\ log[i].keys[x] = k /\ x \in log[i].passed}

KeysOf == [company : {CompanyOf[u] : u \in Users}, user : Users, ip : Ips]
Entries == [at : Nat, keys : KeysOf, passed : SUBSET Limiters]

(* The inductive invariant: since any moment of the window, a limiter has      *)
(* let through as many chats as it remembers, and no more than its limit.      *)
RateInv ==
  /\ clock \in Nat
  /\ hits \in [Limiters -> [Keys -> Seq(Nat)]]
  /\ log \in Seq(Entries)
  /\ \A x \in Limiters, k \in Keys :
       /\ \A c \in Int : c >= clock - Window =>
            /\ IsFiniteSet(PassedSince(x, k, c)) /\ IsFiniteSet(Places(hits[x][k], Late(c)))
            /\ Cardinality(Places(hits[x][k], Late(c))) = Cardinality(PassedSince(x, k, c))
       /\ Cardinality(PassedSince(x, k, clock - Window)) <= Limit[x]

\* A pruned list holds what is recent, and as many of each later moment as before.
LEMMA RecentSound ==
  ASSUME NEW h \in Seq(Nat), clock \in Nat, NEW c \in Int, c >= clock - Window
  PROVE  /\ Recent(h) \in Seq(Nat)
         /\ IsFiniteSet(Places(h, Late(c))) /\ IsFiniteSet(Places(Recent(h), Late(c)))
         /\ Cardinality(Places(Recent(h), Late(c))) = Cardinality(Places(h, Late(c)))
         /\ Len(Recent(h)) = Cardinality(Places(h, Late(clock - Window)))
<1> DEFINE old == 0..(clock - Window - 1)
<1>1. Window \in Nat
  BY RateConstants
<1>2. Late(c) \cap old = {} /\ Late(clock - Window) \cap old = {}
  BY <1>1 DEF Late
<1>3. Recent(h) \in Seq(Nat \ old)
  BY WithoutTwice DEF Recent
<1>4. Nat \ old = Late(clock - Window)
  BY <1>1 DEF Late
<1>5. Recent(h) = Without(h, old)
  BY DEF Recent
<1> HIDE DEF old
<1>6. /\ IsFiniteSet(Places(h, Late(c))) /\ IsFiniteSet(Places(Recent(h), Late(c)))
      /\ Cardinality(Places(Recent(h), Late(c))) = Cardinality(Places(h, Late(c)))
  BY <1>2, <1>5, WithoutCounts
<1>7. Cardinality(Places(Recent(h), Late(clock - Window)))
        = Cardinality(Places(h, Late(clock - Window)))
  BY <1>2, <1>5, WithoutCounts
<1>8. Recent(h) \in Seq(Late(clock - Window)) /\ Len(Recent(h)) \in Nat
  BY <1>3, <1>4
<1>9. Places(Recent(h), Late(clock - Window)) = 1..Len(Recent(h))
  <2> HIDE DEF Late
  <2> QED
    BY <1>8 DEF Places
<1>10. Cardinality(1..Len(Recent(h))) = Len(Recent(h))
  <2>1. \A n \in Nat : Cardinality(1..n) = n
    BY FS_Interval
  <2> QED
    BY <1>8, <2>1
<1>11. Recent(h) \in Seq(Nat)
  BY <1>8, SeqMonotonic DEF Late
<1>12. Len(Recent(h)) = Cardinality(Places(h, Late(clock - Window)))
  BY <1>7, <1>9, <1>10
<1> QED
  BY <1>6, <1>11, <1>12

\* RateInv gives the property.
LEMMA RatesHeld == RateInv => RatesRespected
<1> SUFFICES ASSUME RateInv, NEW x \in Limiters, NEW k \in Keys
             PROVE  /\ Cardinality(PassedRecently(x, k)) <= Limit[x]
                    /\ Len(Recent(hits[x][k])) = Cardinality(PassedRecently(x, k))
  BY DEF RatesRespected
<1>1. PassedRecently(x, k) = PassedSince(x, k, clock - Window)
  BY DEF PassedRecently, PassedSince
<1>2. clock - Window \in Int /\ clock - Window >= clock - Window
  BY RateConstants DEF RateInv
<1>3. hits[x][k] \in Seq(Nat)
  BY DEF RateInv
<1>4. Len(Recent(hits[x][k])) = Cardinality(Places(hits[x][k], Late(clock - Window)))
  BY <1>2, <1>3, RecentSound DEF RateInv
<1> QED
  BY <1>1, <1>2, <1>4 DEF RateInv

\* Initially nothing was let through.
LEMMA RateStart == RateInit => RateInv
<1> SUFFICES ASSUME RateInit PROVE RateInv
  OBVIOUS
<1> USE DEF RateInit
<1>1. \A x \in Limiters, k \in Keys : hits[x][k] = <<>>
  OBVIOUS
<1>2. \A R : Places(<<>>, R) = {}
  BY DEF Places
<1>3. \A x, k, c : PassedSince(x, k, c) = {}
  BY DEF PassedSince
<1>4. \A x \in Limiters : Limit[x] \in Nat
  BY RateConstants DEF Limiters
<1>5. IsFiniteSet({}) /\ Cardinality({}) = 0
  BY FS_EmptySet
<1>6. /\ clock \in Nat /\ hits \in [Limiters -> [Keys -> Seq(Nat)]]
      /\ log \in Seq(Entries)
  OBVIOUS
<1>7. ASSUME NEW x \in Limiters, NEW k \in Keys
      PROVE  /\ \A c \in Int : c >= clock - Window =>
                  /\ IsFiniteSet(PassedSince(x, k, c)) /\ IsFiniteSet(Places(hits[x][k], Late(c)))
                  /\ Cardinality(Places(hits[x][k], Late(c))) = Cardinality(PassedSince(x, k, c))
             /\ Cardinality(PassedSince(x, k, clock - Window)) <= Limit[x]
  <2> HIDE DEF RateInit
  <2>1. \A c : PassedSince(x, k, c) = {} /\ Places(hits[x][k], Late(c)) = {}
    BY <1>1, <1>2, <1>3
  <2>2. \A c : /\ IsFiniteSet(PassedSince(x, k, c)) /\ IsFiniteSet(Places(hits[x][k], Late(c)))
               /\ Cardinality(Places(hits[x][k], Late(c))) = Cardinality(PassedSince(x, k, c))
    BY <1>5, <2>1, Zenon
  <2>3. Cardinality(PassedSince(x, k, clock - Window)) = 0
    BY <1>5, <2>1, Zenon
  <2>4. Limit[x] \in Nat
    BY <1>4
  <2>5. Cardinality(PassedSince(x, k, clock - Window)) <= Limit[x]
    BY <2>3, <2>4
  <2> QED
    BY <2>2, <2>5, Zenon
<1> QED
  BY <1>6, <1>7 DEF RateInv

\* As time passes, fewer chats are of the window.
LEMMA SecondStep == RateInv /\ SecondPasses => RateInv'
<1> SUFFICES ASSUME RateInv, SecondPasses PROVE RateInv'
  OBVIOUS
<1>1. clock \in Nat /\ clock' = clock + 1 /\ hits' = hits /\ log' = log /\ Window \in Nat
  BY RateConstants DEF RateInv, SecondPasses
<1>2. \A x, k, c : PassedSince(x, k, c)' = PassedSince(x, k, c)
  BY <1>1 DEF PassedSince
<1>3. ASSUME NEW x \in Limiters, NEW k \in Keys
      PROVE  Cardinality(PassedSince(x, k, clock' - Window)) <= Limit[x]
  <2>1. clock - Window \in Int /\ clock - Window >= clock - Window
    BY <1>1
  <2>2. /\ IsFiniteSet(PassedSince(x, k, clock - Window))
        /\ Cardinality(PassedSince(x, k, clock - Window)) <= Limit[x]
    BY <2>1 DEF RateInv
  <2>3. PassedSince(x, k, clock' - Window) \subseteq PassedSince(x, k, clock - Window)
    <3>1. \A i \in 1..Len(log) : log[i].at \in Nat
      <4>1. \A i \in 1..Len(log) : log[i] \in Entries
        BY DEF RateInv
      <4> QED
        BY <4>1 DEF Entries
    <3> QED
      BY <1>1, <3>1 DEF PassedSince
  <2>4. Cardinality(PassedSince(x, k, clock' - Window))
          <= Cardinality(PassedSince(x, k, clock - Window))
    BY <2>2, <2>3, FS_Subset
  <2>5. Cardinality(PassedSince(x, k, clock - Window)) \in Nat
    BY <2>2, FS_CardinalityType
  <2>6. Cardinality(PassedSince(x, k, clock' - Window)) \in Nat
    BY <2>2, <2>3, FS_Subset, FS_CardinalityType
  <2>7. Limit[x] \in Nat
    BY RateConstants DEF Limiters
  <2> QED
    BY <2>2, <2>4, <2>5, <2>6, <2>7
<1>4. ASSUME NEW c \in Int, c >= clock' - Window PROVE c >= clock - Window
  BY <1>1, <1>4
<1>5. /\ clock' \in Nat /\ hits' \in [Limiters -> [Keys -> Seq(Nat)]]
      /\ log' \in Seq(Entries)
  BY <1>1 DEF RateInv
<1> QED
  BY <1>1, <1>2, <1>3, <1>4, <1>5 DEF RateInv

\* A chat passes exactly those of the limiters it asks that allow it.
LEMMA ChainSound ==
  ASSUME NEW user \in Users, NEW ip \in Ips, Chat(user, ip)
  PROVE  LET key == [company |-> CompanyOf[user], user |-> user, ip |-> ip]
         IN  \E asked \in SUBSET Limiters : \E passed \in SUBSET asked :
               /\ \A x \in asked : x \in passed <=> Allows(x, key[x])
               /\ hits' = [x \in Limiters |-> IF x \in asked THEN After(x, key[x]) ELSE hits[x]]
               /\ log' = Append(log, [at |-> clock, keys |-> key, passed |-> passed])
               /\ clock' = clock
<1> DEFINE key == [company |-> CompanyOf[user], user |-> user, ip |-> ip]
           refusing == {i \in 1..3 : ~Allows(Chain[i], key[Chain[i]])}
           last == IF refusing = {} THEN 3 ELSE CHOOSE i \in refusing : \A j \in refusing : i <= j
           asked == {Chain[i] : i \in 1..last}
           passed == IF refusing = {} THEN asked ELSE asked \ {Chain[last]}
<1>1. /\ hits' = [x \in Limiters |-> IF x \in asked THEN After(x, key[x]) ELSE hits[x]]
      /\ log' = Append(log, [at |-> clock, keys |-> key, passed |-> passed])
      /\ clock' = clock
  BY Zenon DEF Chat
<1>2. \A i \in 1..3 : i \in refusing <=> ~Allows(Chain[i], key[Chain[i]])
  OBVIOUS
<1>3. refusing \subseteq 1..3
  OBVIOUS
<1> HIDE DEF key, refusing
<1>4. /\ last \in 1..3 /\ (refusing # {} => last \in refusing)
      /\ \A j \in refusing : last <= j
  <2>1. CASE refusing = {}
    BY <2>1
  <2>2. CASE refusing # {}
    <3>1. \E i \in refusing : \A j \in refusing : i <= j
      <4>1. 1 \in refusing \/ (1 \notin refusing /\ 2 \in refusing)
              \/ (1 \notin refusing /\ 2 \notin refusing /\ 3 \in refusing)
        <5>1. \A r \in 1..3 : r = 1 \/ r = 2 \/ r = 3
          OBVIOUS
        <5>2. PICK r : r \in refusing /\ r \in 1..3
          BY <1>3, <2>2, Zenon
        <5> QED
          BY <5>1, <5>2
      <4> QED
        BY <1>3, <4>1
    <3>2. last \in refusing /\ \A j \in refusing : last <= j
      BY <2>2, <3>1
    <3> HIDE DEF last
    <3> QED
      BY <1>3, <3>2
  <2> QED
    BY <2>1, <2>2
<1> HIDE DEF last
<1>5. Chain = <<"company", "user", "ip">> /\ Limiters = {"company", "user", "ip"}
  BY DEF Chain, Limiters
<1>6. asked \in SUBSET Limiters
  BY <1>4, <1>5
<1>7. passed \in SUBSET asked
  OBVIOUS
<1>8. \A i, j \in 1..3 : Chain[i] = Chain[j] => i = j
  BY <1>5
<1>9. ASSUME NEW x \in asked PROVE x \in passed <=> Allows(x, key[x])
  <2>1. PICK i \in 1..last : x = Chain[i]
    OBVIOUS
  <2>2. i \in 1..3
    BY <1>4
  <2>3. i \in refusing <=> (refusing # {} /\ i = last)
    BY <1>4, <2>2
  <2>4. x \in passed <=> ~(refusing # {} /\ i = last)
    BY <1>4, <1>8, <2>1, <2>2
  <2> QED
    BY <1>2, <2>1, <2>2, <2>3, <2>4
<1> HIDE DEF asked, passed
<1>10. \E a \in SUBSET Limiters : \E b \in SUBSET a :
         /\ \A x \in a : x \in b <=> Allows(x, key[x])
         /\ hits' = [x \in Limiters |-> IF x \in a THEN After(x, key[x]) ELSE hits[x]]
         /\ log' = Append(log, [at |-> clock, keys |-> key, passed |-> b])
         /\ clock' = clock
  BY <1>1, <1>6, <1>7, <1>9
<1> QED
  BY <1>10 DEF key

\* A chat, for one limiter and one key: what it remembers and what has passed agree.
LEMMA OneKey ==
  ASSUME RateInv, NEW x \in Limiters, NEW k \in Keys, NEW entry \in Entries, entry.at = clock,
         log' = Append(log, entry), clock' = clock, hits' \in [Limiters -> [Keys -> Seq(Nat)]],
         NEW one \in BOOLEAN, one <=> (entry.keys[x] = k /\ x \in entry.passed),
         \/ one /\ Allows(x, k) /\ hits'[x][k] = Append(Recent(hits[x][k]), clock)
         \/ ~one /\ hits'[x][k] \in {hits[x][k], Recent(hits[x][k])}
  PROVE  /\ \A c \in Int : c >= clock - Window =>
              /\ IsFiniteSet(PassedSince(x, k, c)') /\ IsFiniteSet(Places(hits'[x][k], Late(c)))
              /\ Cardinality(Places(hits'[x][k], Late(c))) = Cardinality(PassedSince(x, k, c)')
         /\ Cardinality(PassedSince(x, k, clock - Window)') <= Limit[x]
<1> DEFINE h == hits[x][k]
           n == Len(log)
<1>1. /\ clock \in Nat /\ h \in Seq(Nat) /\ log \in Seq(Entries) /\ n \in Nat
      /\ Window \in Nat /\ Limit[x] \in Nat
  BY RateConstants DEF RateInv, Limiters
<1>2. \A c : c \in Int /\ c >= clock - Window =>
        /\ IsFiniteSet(PassedSince(x, k, c)) /\ IsFiniteSet(Places(h, Late(c)))
        /\ Cardinality(Places(h, Late(c))) = Cardinality(PassedSince(x, k, c))
  BY DEF RateInv
<1>3. Cardinality(PassedSince(x, k, clock - Window)) <= Limit[x]
  BY DEF RateInv
<1>4. ASSUME NEW c \in Int
      PROVE  PassedSince(x, k, c)' = IF one /\ clock >= c THEN PassedSince(x, k, c) \cup {n + 1}
                                     ELSE PassedSince(x, k, c)
  <2>1. /\ Len(log') = n + 1 /\ log'[n + 1] = entry
        /\ \A i \in 1..n : log'[i] = log[i]
    BY <1>1
  <2>2. PassedSince(x, k, c)' =
          {i \in 1..(n + 1) : log'[i].at >= c /\ log'[i].keys[x] = k /\ x \in log'[i].passed}
    BY <2>1 DEF PassedSince
  <2> QED
    BY <1>1, <2>1, <2>2 DEF PassedSince
<1>5. \A c : n + 1 \notin PassedSince(x, k, c)
  BY <1>1 DEF PassedSince
<1>6. \A c \in Int : c >= clock - Window =>
        /\ Recent(h) \in Seq(Nat) /\ IsFiniteSet(Places(Recent(h), Late(c)))
        /\ Cardinality(Places(Recent(h), Late(c))) = Cardinality(Places(h, Late(c)))
        /\ Len(Recent(h)) = Cardinality(Places(h, Late(clock - Window)))
  BY <1>1, RecentSound
<1>7. clock - Window \in Int /\ clock - Window >= clock - Window /\ clock >= clock - Window
  BY <1>1
<1> HIDE DEF h, n
<1>8. CASE one
  <2>1. Allows(x, k) /\ hits'[x][k] = Append(Recent(h), clock)
    BY <1>8 DEF h
  <2>2. Len(Recent(h)) < Limit[x]
    BY <2>1 DEF Allows, h
  <2> DEFINE m == Len(Recent(h))
  <2>3. m \in Nat /\ Recent(h) \in Seq(Nat)
    BY <1>6, <1>7
  <2>4. ASSUME NEW c \in Int
        PROVE  /\ Places(hits'[x][k], Late(c)) = IF clock >= c
                    THEN Places(Recent(h), Late(c)) \cup {m + 1} ELSE Places(Recent(h), Late(c))
               /\ m + 1 \notin Places(Recent(h), Late(c))
    <3>1. /\ Len(hits'[x][k]) = m + 1 /\ hits'[x][k][m + 1] = clock
          /\ \A i \in 1..m : hits'[x][k][i] = Recent(h)[i]
      BY <1>1, <2>1, <2>3
    <3> HIDE DEF m
    <3>2. clock \in Late(c) <=> clock >= c
      BY <1>1 DEF Late
    <3> HIDE DEF Late
    <3>3. Places(hits'[x][k], Late(c)) = {j \in 1..(m + 1) : hits'[x][k][j] \in Late(c)}
      BY <3>1 DEF Places
    <3>4. Places(Recent(h), Late(c)) = {j \in 1..m : Recent(h)[j] \in Late(c)}
      BY DEF Places, m
    <3> QED
      BY <2>3, <3>1, <3>2, <3>3, <3>4
  <2> HIDE DEF m
  <2>5. ASSUME NEW c \in Int, c >= clock - Window
        PROVE  /\ IsFiniteSet(PassedSince(x, k, c)') /\ IsFiniteSet(Places(hits'[x][k], Late(c)))
               /\ Cardinality(Places(hits'[x][k], Late(c))) = Cardinality(PassedSince(x, k, c)')
               /\ clock >= c => Cardinality(PassedSince(x, k, c)')
                                  = Cardinality(PassedSince(x, k, c)) + 1
    <3> DEFINE A == PassedSince(x, k, c)
               B == Places(Recent(h), Late(c))
    <3>1. IsFiniteSet(A) /\ IsFiniteSet(B) /\ Cardinality(B) = Cardinality(A)
      BY <1>2, <1>6, <2>5
    <3>2. n + 1 \notin A /\ m + 1 \notin B
      BY <1>5, <2>4
    <3>3. PassedSince(x, k, c)' = IF clock >= c THEN A \cup {n + 1} ELSE A
      BY <1>4, <1>8
    <3>4. Places(hits'[x][k], Late(c)) = IF clock >= c THEN B \cup {m + 1} ELSE B
      BY <2>4
    <3> HIDE DEF A, B
    <3>5. /\ IsFiniteSet(A \cup {n + 1}) /\ Cardinality(A \cup {n + 1}) = Cardinality(A) + 1
          /\ IsFiniteSet(B \cup {m + 1}) /\ Cardinality(B \cup {m + 1}) = Cardinality(B) + 1
      BY <3>1, <3>2, FS_AddElement
    <3>6. Cardinality(A) = Cardinality(PassedSince(x, k, c))
      BY DEF A
    <3> QED
      BY <3>1, <3>3, <3>4, <3>5, <3>6
  <2>6. Cardinality(PassedSince(x, k, clock - Window)') <= Limit[x]
    <3>1. Cardinality(PassedSince(x, k, clock - Window)')
            = Cardinality(PassedSince(x, k, clock - Window)) + 1
      BY <1>7, <2>5
    <3>2. Cardinality(PassedSince(x, k, clock - Window)) = m
      BY <1>2, <1>6, <1>7 DEF m
    <3>3. m < Limit[x]
      BY <2>2 DEF m
    <3> QED
      BY <1>1, <2>3, <3>1, <3>2, <3>3
  <2> QED
    BY <2>5, <2>6
<1>9. CASE ~one
  <2>1. hits'[x][k] \in {h, Recent(h)}
    BY <1>9 DEF h
  <2>2. \A c \in Int : PassedSince(x, k, c)' = PassedSince(x, k, c)
    BY <1>4, <1>9
  <2>3. ASSUME NEW c \in Int, c >= clock - Window
        PROVE  /\ IsFiniteSet(PassedSince(x, k, c)') /\ IsFiniteSet(Places(hits'[x][k], Late(c)))
               /\ Cardinality(Places(hits'[x][k], Late(c))) = Cardinality(PassedSince(x, k, c)')
    <3>1. /\ IsFiniteSet(PassedSince(x, k, c)) /\ IsFiniteSet(Places(h, Late(c)))
          /\ IsFiniteSet(Places(Recent(h), Late(c)))
          /\ Cardinality(Places(h, Late(c))) = Cardinality(PassedSince(x, k, c))
          /\ Cardinality(Places(Recent(h), Late(c))) = Cardinality(Places(h, Late(c)))
      BY <1>2, <1>6, <2>3
    <3> QED
      BY <2>1, <2>2, <3>1, Zenon
  <2>4. PassedSince(x, k, clock - Window)' = PassedSince(x, k, clock - Window)
    BY <1>7, <2>2
  <2> QED
    BY <1>3, <2>3, <2>4
<1> QED
  BY <1>8, <1>9

\* A chat keeps RateInv.
LEMMA ChatStep == ASSUME RateInv, NEW user \in Users, NEW ip \in Ips, Chat(user, ip) PROVE RateInv'
<1> DEFINE key == [company |-> CompanyOf[user], user |-> user, ip |-> ip]
<1>1. PICK asked \in SUBSET Limiters : \E passed \in SUBSET asked :
        /\ \A x \in asked : x \in passed <=> Allows(x, key[x])
        /\ hits' = [x \in Limiters |-> IF x \in asked THEN After(x, key[x]) ELSE hits[x]]
        /\ log' = Append(log, [at |-> clock, keys |-> key, passed |-> passed])
        /\ clock' = clock
  BY ChainSound
<1>2. PICK passed \in SUBSET asked :
        /\ \A x \in asked : x \in passed <=> Allows(x, key[x])
        /\ hits' = [x \in Limiters |-> IF x \in asked THEN After(x, key[x]) ELSE hits[x]]
        /\ log' = Append(log, [at |-> clock, keys |-> key, passed |-> passed])
        /\ clock' = clock
  BY <1>1
<1>3. clock \in Nat /\ hits \in [Limiters -> [Keys -> Seq(Nat)]] /\ log \in Seq(Entries)
  BY DEF RateInv
<1>4. \A x \in Limiters : key[x] \in Keys
  BY DEF Limiters, Keys
<1>5. key \in KeysOf
  BY DEF KeysOf
<1> HIDE DEF key
<1> DEFINE entry == [at |-> clock, keys |-> key, passed |-> passed]
<1>6. entry \in Entries /\ entry.at = clock /\ entry.keys = key /\ entry.passed = passed
  BY <1>3, <1>5 DEF Entries
<1>7. log' = Append(log, entry) /\ clock' = clock
  BY <1>2
<1> HIDE DEF entry
<1>8. \A x \in Limiters, k \in Keys : Recent(hits[x][k]) \in Seq(Nat)
  <2>1. \A x \in Limiters, k \in Keys : hits[x][k] \in Seq(Nat)
    BY <1>3
  <2>2. clock - Window \in Int /\ clock - Window >= clock - Window
    BY <1>3, RateConstants
  <2> QED
    BY <1>3, <2>1, <2>2, RecentSound
<1>9. \A x \in asked : After(x, key[x]) =
        [hits[x] EXCEPT ![key[x]] = IF Allows(x, key[x]) THEN Append(Recent(@), clock) ELSE Recent(@)]
  BY DEF After
<1>10. \A x \in asked : /\ After(x, key[x]) \in [Keys -> Seq(Nat)]
                        /\ \A k \in Keys \ {key[x]} : After(x, key[x])[k] = hits[x][k]
                        /\ After(x, key[x])[key[x]] =
                             IF Allows(x, key[x]) THEN Append(Recent(hits[x][key[x]]), clock)
                             ELSE Recent(hits[x][key[x]])
  <2> SUFFICES ASSUME NEW x \in asked
               PROVE  /\ After(x, key[x]) \in [Keys -> Seq(Nat)]
                      /\ \A k \in Keys \ {key[x]} : After(x, key[x])[k] = hits[x][k]
                      /\ After(x, key[x])[key[x]] =
                           IF Allows(x, key[x]) THEN Append(Recent(hits[x][key[x]]), clock)
                           ELSE Recent(hits[x][key[x]])
    OBVIOUS
  <2> DEFINE new == IF Allows(x, key[x]) THEN Append(Recent(hits[x][key[x]]), clock)
                    ELSE Recent(hits[x][key[x]])
  <2>1. new \in Seq(Nat)
    BY <1>3, <1>4, <1>8
  <2>2. After(x, key[x]) = [hits[x] EXCEPT ![key[x]] = new]
    BY <1>9
  <2> HIDE DEF new
  <2>3. hits[x] \in [Keys -> Seq(Nat)] /\ key[x] \in Keys
    BY <1>3, <1>4
  <2>4. /\ After(x, key[x]) \in [Keys -> Seq(Nat)]
        /\ \A k \in Keys \ {key[x]} : After(x, key[x])[k] = hits[x][k]
        /\ After(x, key[x])[key[x]] = new
    BY <2>1, <2>2, <2>3
  <2> QED
    BY <2>4 DEF new
<1>11. hits' \in [Limiters -> [Keys -> Seq(Nat)]]
  BY <1>2, <1>3, <1>10
<1>12. ASSUME NEW x \in Limiters, NEW k \in Keys
       PROVE  /\ \A c \in Int : c >= clock - Window =>
                   /\ IsFiniteSet(PassedSince(x, k, c)') /\ IsFiniteSet(Places(hits'[x][k], Late(c)))
                   /\ Cardinality(Places(hits'[x][k], Late(c))) = Cardinality(PassedSince(x, k, c)')
              /\ Cardinality(PassedSince(x, k, clock - Window)') <= Limit[x]
  <2>1. PICK one \in BOOLEAN : one <=> (entry.keys[x] = k /\ x \in entry.passed)
    OBVIOUS
  <2>2. \/ one /\ Allows(x, k) /\ hits'[x][k] = Append(Recent(hits[x][k]), clock)
        \/ ~one /\ hits'[x][k] \in {hits[x][k], Recent(hits[x][k])}
    <3>1. CASE x \in asked /\ k = key[x]
      <4>1. hits'[x][k] = IF Allows(x, k) THEN Append(Recent(hits[x][k]), clock)
                          ELSE Recent(hits[x][k])
        BY <1>2, <1>10, <3>1
      <4>2. one <=> Allows(x, k)
        BY <1>2, <1>6, <2>1, <3>1
      <4> QED
        BY <4>1, <4>2
    <3>2. CASE ~(x \in asked /\ k = key[x])
      <4>1. hits'[x][k] = hits[x][k]
        BY <1>2, <1>10, <3>2
      <4>2. ~one
        BY <1>2, <1>6, <2>1, <3>2
      <4> QED
        BY <4>1, <4>2
    <3> QED
      BY <3>1, <3>2
  <2> QED
    BY <1>6, <1>7, <1>11, <2>1, <2>2, OneKey
<1>13. log' \in Seq(Entries) /\ clock' \in Nat
  BY <1>3, <1>6, <1>7
<1>14. clock' - Window = clock - Window
  BY <1>7
<1> QED
  BY <1>7, <1>11, <1>12, <1>13, <1>14 DEF RateInv

\* Every step keeps RateInv.
LEMMA RateStep == RateInv /\ [RateNext]_rateVars => RateInv'
<1> SUFFICES ASSUME RateInv, [RateNext]_rateVars PROVE RateInv'
  OBVIOUS
<1>1. CASE UNCHANGED rateVars
  <2>1. clock' = clock /\ hits' = hits /\ log' = log
    BY <1>1 DEF rateVars
  <2>2. \A x, k, c : PassedSince(x, k, c)' = PassedSince(x, k, c)
    BY <2>1 DEF PassedSince
  <2> QED
    BY <2>1, <2>2 DEF RateInv
<1> QED
  BY <1>1, SecondStep, ChatStep DEF RateNext

\* Within every limit, whatever the limits, the window and the keys.
THEOREM RatesAlwaysRespected == RateSpec => []RatesRespected
BY RateStart, RateStep, RatesHeld, PTL DEF RateSpec

(* ----------------------------- gateway nonces ---------------------------- *)

(* The nonce cache for any clock skew, lifetime and number of deliveries, as  *)
(* long as the lifetime covers twice the skew, a second for the truncated     *)
(* clock and the wait for a body (TtlCoversSkew).                             *)

DeliveryTypes == [msg : Messages \cup {None}, since : Nat, intact : BOOLEAN]

NonceTypeOK ==
  /\ now \in Nat
  /\ stamp \in [Messages -> Int \cup {None}]
  /\ cache \in [Messages -> Int \cup {None}]
  /\ delivery \in [Deliveries -> DeliveryTypes]
  /\ accepted \in [Messages -> Nat]

\* A delivery in progress passed the timestamp check and is waiting for its body.
DeliveriesInTime ==
  \A d \in Deliveries : delivery[d].msg # None =>
    /\ stamp[delivery[d].msg] # None
    /\ InWindow(delivery[d].since, stamp[delivery[d].msg])
    /\ delivery[d].since <= now /\ now <= delivery[d].since + BodyWait

\* No copy of the request is under way, nor can another one arrive.
Over(m) == TooLate(m) /\ \A d \in Deliveries : delivery[d].msg # m

\* An accepted request is in the cache, or it is too late for another copy.
Remembered ==
  \A m \in Messages : accepted[m] = 1 =>
    /\ stamp[m] # None
    /\ cache[m] # None => cache[m] >= stamp[m] - Skew + Ttl
    /\ cache[m] = None => now >= stamp[m] - Skew + Ttl \/ Over(m)

NonceInv == NonceTypeOK /\ DeliveriesInTime /\ Remembered /\ ServedOnce

\* The truncated clock is at most a second behind.
LEMMA WholeBounds ==
  ASSUME NEW t \in Nat
  PROVE  Whole(t) \in Int /\ Whole(t) <= t /\ t < Whole(t) + Second
<1>1. t % Second \in 0..(Second - 1)
  BY NonceConstants
<1> QED
  BY <1>1, NonceConstants DEF Whole

\* The truncated clock never goes back.
LEMMA WholeGrows ==
  ASSUME NEW t \in Nat
  PROVE  Whole(t) <= Whole(t + 1)
<1> DEFINE q == t \div Second
           p == (t + 1) \div Second
<1>1. Second \in Nat /\ Second > 0
  BY NonceConstants
<1>2. /\ q \in Int /\ t = Second * q + (t % Second)
      /\ p \in Int /\ t + 1 = Second * p + ((t + 1) % Second)
      /\ t % Second \in 0..(Second - 1) /\ (t + 1) % Second \in 0..(Second - 1)
  BY <1>1
<1>3. Whole(t) = Second * q /\ Whole(t + 1) = Second * p
  BY <1>1, <1>2 DEF Whole
<1>4. Second * q < Second * p + Second
  BY <1>1, <1>2
<1> HIDE DEF q, p
<1>5. q <= p
  BY <1>1, <1>2, <1>4
<1>6. Second * q <= Second * p
  BY <1>1, <1>2, <1>5
<1> QED
  BY <1>3, <1>6

\* Nothing is signed, cached or under way at first.
LEMMA NonceInitial == NonceInit => NonceInv
  BY NonceConstants DEF NonceInit, NonceInv, NonceTypeOK, DeliveriesInTime, Remembered,
     ServedOnce, NoDelivery, DeliveryTypes

\* What is over stays over.
LEMMA OverStays ==
  ASSUME NonceTypeOK, [NonceNext]_nonceVars, NEW x \in Messages, Over(x), stamp[x] # None
  PROVE  Over(x)'
<1> USE NonceConstants DEF NonceTypeOK, DeliveryTypes
<1>1. stamp[x] \in Int /\ Whole(now) \in Int /\ Whole(now) - stamp[x] > Skew
  BY WholeBounds DEF Over, TooLate
<1>2. stamp'[x] = stamp[x] /\ (now' = now \/ now' = now + 1)
  BY <1>1 DEF NonceNext, nonceVars, Sign, Arrive, RefuseDamaged, CheckAndStore, TimePasses,
     RestartGateway
<1>3. Whole(now') \in Int /\ Whole(now) <= Whole(now')
  BY <1>2, WholeBounds, WholeGrows
<1>4. TooLate(x)'
  BY <1>1, <1>2, <1>3 DEF TooLate, Whole
<1>5. \A d \in Deliveries : delivery'[d].msg # x
  <2> SUFFICES ASSUME NEW d \in Deliveries PROVE delivery'[d].msg # x
    OBVIOUS
  <2>1. delivery[d].msg # x
    BY DEF Over
  <2>2. ASSUME NEW e \in Deliveries, NEW m \in Messages, NEW intact \in BOOLEAN, Arrive(e, m, intact)
        PROVE  delivery'[d].msg # x
    <3>1. m # x
      BY <1>1, <2>2 DEF Arrive, InWindow
    <3> QED
      BY <2>1, <2>2, <3>1 DEF Arrive
  <2> QED
    BY <2>1, <2>2 DEF NonceNext, nonceVars, Sign, RefuseDamaged, CheckAndStore, TimePasses,
       RestartGateway, NoDelivery
<1> QED
  BY <1>4, <1>5 DEF Over

\* Every step of the gateway keeps the entry of a served request for as long as it matters.
LEMMA NonceStep == NonceInv /\ [NonceNext]_nonceVars => NonceInv'
<1> SUFFICES ASSUME NonceInv, [NonceNext]_nonceVars PROVE NonceInv'
  OBVIOUS
<1> USE NonceConstants
<1> USE DEF NonceInv, NonceTypeOK, DeliveryTypes
<1>0. \A x \in Messages : stamp[x] # None /\ Over(x) => Over(x)'
  BY OverStays
<1>1. ASSUME NEW m \in Messages, NEW s \in Stamps, Sign(m, s) PROVE NonceInv'
  <2>1. NonceTypeOK'
    BY <1>1 DEF Sign
  <2>2. ServedOnce'
    BY <1>1 DEF Sign, ServedOnce
  <2>3. DeliveriesInTime'
    BY <1>1 DEF Sign, DeliveriesInTime, InWindow, Whole
  <2>4. Remembered'
    BY <1>0, <1>1 DEF Sign, Remembered, ServedOnce
  <2> QED
    BY <2>1, <2>2, <2>3, <2>4
<1>2. ASSUME NEW d \in Deliveries, NEW m \in Messages, NEW intact \in BOOLEAN,
             Arrive(d, m, intact)
      PROVE  NonceInv'
  <2>1. NonceTypeOK' /\ ServedOnce' /\ Remembered'
    BY <1>0, <1>2 DEF Arrive, ServedOnce, Remembered
  <2>2. DeliveriesInTime'
    <3> SUFFICES ASSUME NEW e \in Deliveries, delivery'[e].msg # None
                 PROVE  /\ stamp'[delivery'[e].msg] # None
                        /\ InWindow(delivery'[e].since, stamp'[delivery'[e].msg])
                        /\ delivery'[e].since <= now' /\ now' <= delivery'[e].since + BodyWait
      BY <1>2 DEF DeliveriesInTime, Arrive, InWindow, Whole
    <3>1. CASE e = d
      BY <1>2, <3>1 DEF Arrive
    <3>2. CASE e # d
      BY <1>2, <3>2 DEF Arrive, DeliveriesInTime
    <3> QED
      BY <3>1, <3>2
  <2> QED
    BY <2>1, <2>2
<1>3. ASSUME NEW d \in Deliveries, RefuseDamaged(d) PROVE NonceInv'
  <2>1. NonceTypeOK' /\ ServedOnce' /\ Remembered'
    BY <1>0, <1>3 DEF RefuseDamaged, NoDelivery, ServedOnce, Remembered
  <2>2. DeliveriesInTime'
    BY <1>3 DEF RefuseDamaged, NoDelivery, DeliveriesInTime, InWindow, Whole
  <2> QED
    BY <2>1, <2>2
<1>4. ASSUME NEW d \in Deliveries, CheckAndStore(d) PROVE NonceInv'
  <2> DEFINE m == delivery[d].msg
  <2>1. m \in Messages /\ m # None /\ delivery[d].since \in Nat
    BY <1>4 DEF CheckAndStore
  <2>2. /\ stamp[m] \in Int /\ stamp[m] - Skew <= now
        /\ now < stamp[m] + Skew + Second + BodyWait
    <3>1. stamp[m] \in Int /\ InWindow(delivery[d].since, stamp[m])
      BY <2>1 DEF DeliveriesInTime
    <3>2. delivery[d].since <= now /\ now <= delivery[d].since + BodyWait
      BY <2>1 DEF DeliveriesInTime
    <3>3. /\ Whole(delivery[d].since) \in Int
          /\ Whole(delivery[d].since) <= delivery[d].since
          /\ delivery[d].since < Whole(delivery[d].since) + Second
      BY <2>1, WholeBounds
    <3> QED
      BY <2>1, <3>1, <3>2, <3>3 DEF InWindow
  <2>3. Pruned(now) \in [Messages -> Int \cup {None}]
    BY DEF Pruned
  <2>4. \A x \in Messages : accepted[x] = 1 =>
          /\ Pruned(now)[x] # None => Pruned(now)[x] >= stamp[x] - Skew + Ttl
          /\ Pruned(now)[x] = None => now >= stamp[x] - Skew + Ttl \/ Over(x)
    <3> SUFFICES ASSUME NEW x \in Messages, accepted[x] = 1
                 PROVE  /\ Pruned(now)[x] # None => Pruned(now)[x] >= stamp[x] - Skew + Ttl
                        /\ Pruned(now)[x] = None => now >= stamp[x] - Skew + Ttl \/ Over(x)
      OBVIOUS
    <3>1. stamp[x] \in Int /\ cache[x] \in Int \cup {None}
      BY DEF Remembered
    <3> QED
      BY <3>1 DEF Pruned, Remembered
  <2>5. \A x \in Messages : Pruned(now)[x] # None => accepted[x] = 1
    BY DEF Pruned, ServedOnce
  <2>6. CASE Pruned(now)[m] # None
    <3>1. cache' = Pruned(now) /\ accepted' = accepted /\ now' = now /\ stamp' = stamp
      BY <1>4, <2>6 DEF CheckAndStore
    <3>2. NonceTypeOK'
      BY <1>4, <2>3, <3>1 DEF CheckAndStore, NoDelivery
    <3>3. ServedOnce' /\ Remembered'
      BY <1>0, <2>4, <2>5, <3>1 DEF ServedOnce, Remembered
    <3> QED
      BY <1>4, <3>2, <3>3 DEF CheckAndStore, NoDelivery, DeliveriesInTime, InWindow, Whole
  <2>7. CASE Pruned(now)[m] = None
    <3>1. /\ cache' = [Pruned(now) EXCEPT ![m] = now + Ttl]
          /\ accepted' = [accepted EXCEPT ![m] = @ + 1]
          /\ now' = now /\ stamp' = stamp
      BY <1>4, <2>7 DEF CheckAndStore, Expiry
    <3>2. accepted[m] = 0
      <4>1. ASSUME accepted[m] = 1 PROVE FALSE
        <5>1. now >= stamp[m] - Skew + Ttl
          BY <1>4, <2>1, <2>4, <2>7, <4>1 DEF Over
        <5> QED
          BY <2>2, <5>1, TtlCoversSkew
      <4> QED
        BY <2>1, <4>1 DEF ServedOnce
    <3>3. NonceTypeOK'
      BY <1>4, <2>1, <2>3, <3>1 DEF CheckAndStore, NoDelivery
    <3>4. ServedOnce'
      BY <2>1, <2>3, <2>5, <3>1, <3>2 DEF ServedOnce
    <3>5. Remembered'
      <4> SUFFICES ASSUME NEW x \in Messages, accepted'[x] = 1
                   PROVE  /\ stamp'[x] # None
                          /\ cache'[x] # None => cache'[x] >= stamp'[x] - Skew + Ttl
                          /\ cache'[x] = None => now' >= stamp'[x] - Skew + Ttl \/ Over(x)'
        BY DEF Remembered
      <4>1. CASE x = m
        BY <2>1, <2>2, <2>3, <3>1, <4>1
      <4>2. CASE x # m
        BY <1>0, <2>1, <2>3, <2>4, <3>1, <4>2 DEF Remembered
      <4> QED
        BY <4>1, <4>2
    <3> QED
      BY <1>4, <3>3, <3>4, <3>5
      DEF CheckAndStore, NoDelivery, DeliveriesInTime, InWindow, Whole
  <2> QED
    BY <2>6, <2>7
<1>5. ASSUME TimePasses PROVE NonceInv'
  <2>1. NonceTypeOK' /\ ServedOnce'
    BY <1>5 DEF TimePasses, ServedOnce
  <2>2. Remembered'
    BY <1>0, <1>5 DEF TimePasses, Remembered
  <2>3. DeliveriesInTime'
    BY <1>5 DEF TimePasses, DeliveriesInTime, InWindow, Whole
  <2> QED
    BY <2>1, <2>2, <2>3
<1>6. ASSUME RestartGateway PROVE NonceInv'
  <2>1. /\ cache' = [m \in Messages |-> None] /\ now' = now /\ stamp' = stamp
        /\ accepted' = [m \in Messages |-> IF TooLate(m) THEN accepted[m] ELSE 0]
        /\ delivery' = [d \in Deliveries |-> NoDelivery]
    BY <1>6 DEF RestartGateway
  <2>2. NonceTypeOK' /\ ServedOnce' /\ DeliveriesInTime'
    BY <2>1 DEF NoDelivery, ServedOnce, DeliveriesInTime
  <2>3. \A x \in Messages : accepted'[x] = 1 => stamp'[x] # None /\ Over(x)'
    BY <2>1 DEF Over, TooLate, NoDelivery, Whole
  <2>4. Remembered'
    BY <2>1, <2>3 DEF Remembered
  <2> QED
    BY <2>2, <2>4
<1>7. CASE UNCHANGED nonceVars
  BY <1>0, <1>7 DEF nonceVars, ServedOnce, Remembered, DeliveriesInTime, InWindow, Whole
<1> QED
  BY <1>1, <1>2, <1>3, <1>4, <1>5, <1>6, <1>7 DEF NonceNext

\* The gateway serves a signed request at most once, whatever restarts it goes through
\* after the timestamp has run out, and answers "replay" only to a copy of one it has
\* served, for every skew, lifetime and clock resolution with which the entry outlives
\* the timestamp.
THEOREM ServedOnceAlways == NonceSpec => []ServedOnce
<1>1. NonceInv => ServedOnce
  BY DEF NonceInv
<1> QED
  BY NonceInitial, NonceStep, <1>1, PTL DEF NonceSpec

(* ------------------------ the stream of an answer ------------------------ *)

Events == [kind : {"delta", "final", "error"}, text : Nat]
Channels == [events : Seq(Events), end : {"open", "eof", "broken"}]

\* A delta is one piece of text; any other event is the last one of its channel.
Orderly(channel) ==
  \A i \in 1..Len(channel.events) :
    /\ channel.events[i].kind = "delta" => channel.events[i].text = 1
    /\ channel.events[i].kind # "delta" => i = Len(channel.events) /\ channel.end = "eof"

\* The deltas of an orderly channel that are still to be read.
Unread(channel) ==
  LET n == Len(channel.events)
  IN  IF n > 0 /\ channel.events[n].kind # "delta" THEN n - 1 ELSE n

\* Sending and reading, as the counts of unread deltas see it.
LEMMA SendDelta ==
  ASSUME NEW ch \in Channels, Orderly(ch), ch.end = "open", NEW e \in Events,
         e.kind = "delta", e.text = 1
  PROVE  /\ Sends(ch, e) \in Channels /\ Orderly(Sends(ch, e)) /\ Sends(ch, e).end = "open"
         /\ Unread(Sends(ch, e)) = Unread(ch) + 1
         /\ \A i \in 1..Len(Sends(ch, e).events) : Sends(ch, e).events[i].kind = "delta"
<1> DEFINE c == Sends(ch, e)
<1>1. c.events = Append(ch.events, e) /\ c.end = "open" /\ c \in Channels
  BY DEF Sends, Channels
<1>2. ch.events \in Seq(Events)
  BY DEF Channels
<1>3. /\ Len(c.events) = Len(ch.events) + 1 /\ c.events[Len(ch.events) + 1] = e
      /\ \A i \in 1..Len(ch.events) : c.events[i] = ch.events[i]
  BY <1>1, <1>2
<1>4. \A i \in 1..Len(ch.events) : ch.events[i].kind = "delta" /\ ch.events[i].text = 1
  BY DEF Orderly
<1> HIDE DEF c
<1>5. \A i \in 1..Len(c.events) : c.events[i].kind = "delta" /\ c.events[i].text = 1
  BY <1>2, <1>3, <1>4
<1>6. Orderly(c)
  BY <1>5 DEF Orderly
<1>7. Unread(c) = Len(c.events) /\ Unread(ch) = Len(ch.events)
  BY <1>2, <1>3, <1>4, <1>5 DEF Unread
<1> QED
  BY <1>1, <1>3, <1>5, <1>6, <1>7 DEF c

\* The last event adds no delta.
LEMMA SendLast ==
  ASSUME NEW ch \in Channels, Orderly(ch), ch.end = "open", NEW e \in Events, e.kind # "delta"
  PROVE  /\ SendsLast(ch, e) \in Channels /\ Orderly(SendsLast(ch, e))
         /\ Unread(SendsLast(ch, e)) = Unread(ch)
         /\ \A i \in 1..Len(SendsLast(ch, e).events) :
              SendsLast(ch, e).events[i].kind # "delta" => SendsLast(ch, e).events[i] = e
<1> DEFINE c == SendsLast(ch, e)
<1>1. c.events = Append(ch.events, e) /\ c.end = "eof" /\ c \in Channels
  <2> DEFINE m == Sends(ch, e)
  <2>1. m.events = Append(ch.events, e) /\ m \in Channels
    BY DEF Sends, Channels
  <2> HIDE DEF m
  <2>2. [m EXCEPT !.end = "eof"].events = m.events /\ [m EXCEPT !.end = "eof"].end = "eof"
    BY <2>1 DEF Channels
  <2>3. [m EXCEPT !.end = "eof"] \in Channels
    BY <2>1 DEF Channels
  <2> QED
    BY <2>1, <2>2, <2>3, Zenon DEF SendsLast, m
<1>2. ch.events \in Seq(Events)
  BY DEF Channels
<1>3. /\ Len(c.events) = Len(ch.events) + 1 /\ c.events[Len(ch.events) + 1] = e
      /\ \A i \in 1..Len(ch.events) : c.events[i] = ch.events[i]
  BY <1>1, <1>2
<1>4. \A i \in 1..Len(ch.events) : ch.events[i].kind = "delta" /\ ch.events[i].text = 1
  BY DEF Orderly
<1> HIDE DEF c
<1>5. \A i \in 1..Len(c.events) : \/ c.events[i].kind = "delta" /\ c.events[i].text = 1
                                  \/ i = Len(c.events) /\ c.events[i] = e
  BY <1>2, <1>3, <1>4
<1>6. Orderly(c)
  BY <1>1, <1>5 DEF Orderly
<1>7. Unread(c) = Len(c.events) - 1 /\ Unread(ch) = Len(ch.events)
  BY <1>2, <1>3, <1>4 DEF Unread
<1> QED
  BY <1>1, <1>2, <1>3, <1>5, <1>6, <1>7 DEF c

\* Reading the first event.
LEMMA ReadFirst ==
  ASSUME NEW ch \in Channels, Orderly(ch), ch.events # <<>>, NEW c, c = [ch EXCEPT !.events = Tail(@)]
  PROVE  /\ c \in Channels /\ Orderly(c) /\ c.end = ch.end /\ Head(ch.events) = ch.events[1]
         /\ Head(ch.events) \in Events /\ Len(ch.events) >= 1
         /\ Head(ch.events).kind = "delta" =>
              Head(ch.events).text = 1 /\ Unread(c) + 1 = Unread(ch)
         /\ Head(ch.events).kind # "delta" => Unread(c) = 0 /\ Unread(ch) = 0
         /\ \A i \in 1..Len(c.events) : c.events[i] = ch.events[i + 1]
         /\ Len(c.events) = Len(ch.events) - 1
<1>1. ch.events \in Seq(Events) /\ Len(ch.events) >= 1 /\ Len(ch.events) \in Nat
  BY DEF Channels
<1>2. /\ c.events = Tail(ch.events) /\ c.end = ch.end /\ c \in Channels
      /\ Head(ch.events) = ch.events[1] /\ Head(ch.events) \in Events
  BY DEF Channels
<1>3. /\ Len(c.events) = Len(ch.events) - 1
      /\ \A i \in 1..Len(c.events) : c.events[i] = ch.events[i + 1]
  BY <1>1, <1>2
<1>4. Orderly(c)
  BY <1>1, <1>2, <1>3 DEF Orderly
<1>5. ASSUME Head(ch.events).kind = "delta"
      PROVE  Head(ch.events).text = 1 /\ Unread(c) + 1 = Unread(ch)
  <2>1. Head(ch.events).text = 1
    BY <1>1, <1>2, <1>5 DEF Orderly
  <2> DEFINE n == Len(ch.events)
             m == Len(c.events)
  <2>2. n \in Nat /\ m = n - 1 /\ n >= 1
    BY <1>1, <1>3
  <2>3. /\ Unread(ch) = IF n > 0 /\ ch.events[n].kind # "delta" THEN n - 1 ELSE n
        /\ Unread(c) = IF m > 0 /\ c.events[m].kind # "delta" THEN m - 1 ELSE m
    BY DEF Unread
  <2>4. ch.events[1].kind = "delta"
    BY <1>2, <1>5
  <2>5. m > 0 => c.events[m] = ch.events[n]
    BY <1>3, <2>2
  <2> HIDE DEF n, m
  <2>6. CASE n = 1
    BY <2>1, <2>2, <2>3, <2>4, <2>6
  <2>7. CASE n > 1
    <3>1. m > 0 /\ n > 0 /\ m = n - 1 /\ n \in Nat
      BY <2>2, <2>7
    <3>2. c.events[m].kind = ch.events[n].kind
      BY <2>5, <3>1
    <3>3. CASE ch.events[n].kind # "delta"
      <4>1. Unread(ch) = n - 1 /\ Unread(c) = m - 1
        BY <2>3, <3>1, <3>2, <3>3
      <4> QED
        BY <2>1, <3>1, <4>1
    <3>4. CASE ch.events[n].kind = "delta"
      <4>1. Unread(ch) = n /\ Unread(c) = m
        BY <2>3, <3>1, <3>2, <3>4
      <4> QED
        BY <2>1, <3>1, <4>1
    <3> QED
      BY <3>3, <3>4
  <2> QED
    BY <2>1, <2>2, <2>6, <2>7
<1>6. ASSUME Head(ch.events).kind # "delta" PROVE Unread(c) = 0 /\ Unread(ch) = 0
  <2>1. ch.events[1].kind # "delta"
    BY <1>2, <1>6
  <2>2. Len(ch.events) = 1
    <3>1. 1 \in 1..Len(ch.events)
      BY <1>1
    <3>2. \A i \in 1..Len(ch.events) : ch.events[i].kind # "delta" => i = Len(ch.events)
      BY DEF Orderly
    <3> QED
      BY <2>1, <3>1, <3>2
  <2> QED
    BY <1>1, <1>2, <1>3, <2>1, <2>2 DEF Unread
<1> QED
  BY <1>1, <1>2, <1>3, <1>4, <1>5, <1>6

\* Ending an open channel, in whatever way, changes nothing that is in it.
LEMMA EndChannel ==
  ASSUME NEW ch \in Channels, Orderly(ch), ch.end = "open", NEW how \in {"eof", "broken"}
  PROVE  LET c == [ch EXCEPT !.end = how]
         IN  c \in Channels /\ Orderly(c) /\ Unread(c) = Unread(ch) /\ c.events = ch.events
BY DEF Channels, Orderly, Unread

(* The inductive invariant: the texts grow from the browser to the model,    *)
(* the deltas under way counted, and whoever concludes stops.                *)
StreamInv ==
  /\ gateway \in [up : BOOLEAN, text : Nat] /\ product \in [up : BOOLEAN, text : Nat]
  /\ answer \in [status : {"pending", "completed", "error"}, text : Nat]
  /\ browser \in [up : BOOLEAN, status : {"streaming", "completed", "error", "aborted"}, text : Nat]
  /\ wire \in Channels /\ Orderly(wire) /\ line \in Channels /\ Orderly(line)
  /\ gateway.up => wire.end = "open"
  /\ product.up => line.end = "open"
  /\ browser.up => browser.status = "streaming"
  /\ product.text + Unread(wire) <= gateway.text
  /\ \A i \in 1..Len(wire.events) : wire.events[i].kind = "final" =>
       ~gateway.up /\ wire.events[i].text = gateway.text
  /\ answer.status = "completed" =>
       ~product.up /\ product.text <= answer.text /\ answer.text <= gateway.text
  /\ \A i \in 1..Len(line.events) : line.events[i].kind = "final" =>
       answer = [status |-> "completed", text |-> line.events[i].text]
  /\ browser.status # "completed" => browser.text + Unread(line) <= product.text
  /\ browser.status = "completed" => answer = [status |-> "completed", text |-> browser.text]

\* The count of unread deltas is a natural number.
LEMMA UnreadNat == \A ch \in Channels : Unread(ch) \in Nat
BY DEF Unread, Channels

\* Initially nothing is sent.
LEMMA StreamStart == StreamInit => StreamInv
<1> SUFFICES ASSUME StreamInit PROVE StreamInv
  OBVIOUS
<1>1. NoEvents \in Channels /\ NoEvents.events = <<>> /\ Len(<<>>) = 0 /\ NoEvents.end = "open"
  BY DEF NoEvents, Channels
<1>2. Orderly(NoEvents) /\ Unread(NoEvents) = 0
  BY <1>1 DEF Orderly, Unread
<1> QED
  BY <1>1, <1>2 DEF StreamInit, StreamInv

\* StreamInv gives the property.
LEMMA InvShown == StreamInv => ShownIsStored
<1> SUFFICES ASSUME StreamInv PROVE ShownIsStored
  OBVIOUS
<1>1. Unread(wire) \in Nat /\ Unread(line) \in Nat
  BY UnreadNat DEF StreamInv
<1> QED
  BY <1>1 DEF StreamInv, ShownIsStored

\* A step of the gateway.
LEMMA GatewayStep == StreamInv /\ (RelayDelta \/ FinishRelay \/ LoseGateway) => StreamInv'
<1> SUFFICES ASSUME StreamInv, RelayDelta \/ FinishRelay \/ LoseGateway PROVE StreamInv'
  OBVIOUS
<1> USE DEF StreamInv
<1>0. Unread(wire) \in Nat /\ Unread(line) \in Nat
  BY UnreadNat
<1>1. CASE RelayDelta
  <2> DEFINE e == Event("delta", 1)
  <2>1. e \in Events /\ e.kind = "delta" /\ e.text = 1
    BY DEF Event, Events
  <2> HIDE DEF e
  <2>2. gateway.up /\ wire.end = "open" /\ wire' = Sends(wire, e)
    BY <1>1 DEF RelayDelta, e
  <2>3. /\ wire' \in Channels /\ Orderly(wire') /\ wire'.end = "open"
        /\ Unread(wire') = Unread(wire) + 1
        /\ \A i \in 1..Len(wire'.events) : wire'.events[i].kind = "delta"
    BY <2>1, <2>2, SendDelta
  <2>4. gateway' = [up |-> TRUE, text |-> gateway.text + 1]
    BY <1>1 DEF RelayDelta
  <2> QED
    BY <1>0, <1>1, <2>3, <2>4 DEF RelayDelta
<1>2. CASE FinishRelay
  <2>1. PICK e \in {Event("final", gateway.text), Event("error", 0)} : wire' = SendsLast(wire, e)
    BY <1>2 DEF FinishRelay
  <2>2. e \in Events /\ e.kind # "delta" /\ (e.kind = "final" => e.text = gateway.text)
    BY <2>1 DEF Event, Events
  <2>3. wire.end = "open"
    BY <1>2 DEF FinishRelay
  <2>4. /\ wire' \in Channels /\ Orderly(wire') /\ Unread(wire') = Unread(wire)
        /\ \A i \in 1..Len(wire'.events) :
             wire'.events[i].kind # "delta" => wire'.events[i] = e
    BY <2>1, <2>2, <2>3, SendLast
  <2>5. gateway' \in [up : BOOLEAN, text : Nat] /\ ~gateway'.up /\ gateway'.text = gateway.text
    BY <1>2 DEF FinishRelay
  <2> QED
    BY <1>0, <1>2, <2>2, <2>4, <2>5 DEF FinishRelay
<1>3. CASE LoseGateway
  <2>1. PICK how \in {"eof", "broken"} : wire' = [wire EXCEPT !.end = how]
    BY <1>3 DEF LoseGateway, Breaks
  <2>2. wire.end = "open"
    BY <1>3 DEF LoseGateway
  <2>3. wire' \in Channels /\ Orderly(wire') /\ Unread(wire') = Unread(wire) /\ wire'.events = wire.events
    BY <2>1, <2>2, EndChannel
  <2>4. gateway' \in [up : BOOLEAN, text : Nat] /\ ~gateway'.up /\ gateway'.text = gateway.text
    BY <1>3 DEF LoseGateway
  <2> QED
    BY <1>0, <1>3, <2>3, <2>4 DEF LoseGateway
<1> QED
  BY <1>1, <1>2, <1>3

\* The product is done: what it stored, if it completed the answer, is what it sent.
ProductDone ==
  /\ answer' \in [status : {"pending", "completed", "error"}, text : Nat]
  /\ line' \in Channels /\ Orderly(line') /\ Unread(line') = Unread(line)
  /\ product' \in [up : BOOLEAN, text : Nat] /\ ~product'.up /\ product'.text = product.text
  /\ answer'.status = "completed" =>
       product.text <= answer'.text /\ answer'.text <= gateway.text
  /\ \A i \in 1..Len(line'.events) : line'.events[i].kind = "final" =>
       answer' = [status |-> "completed", text |-> line'.events[i].text]
  /\ answer.status # "completed"

\* How the product ends: with what it stores and sends, or with nothing of either.
LEMMA ProductEnds ==
  ASSUME NEW status \in {"completed", "error"}, NEW text \in Nat, NEW e \in Events,
         StreamInv, product.up, Concludes(status, text, SendsLast(line, e)),
         e.kind = (IF status = "completed" THEN "final" ELSE "error"),
         status = "completed" => e.text = text /\ product.text <= text /\ text <= gateway.text
  PROVE  ProductDone
<1> USE DEF StreamInv
<1>1. line.end = "open" /\ answer.status # "completed"
  OBVIOUS
<1>2. \A i \in 1..Len(line.events) : line.events[i].kind = "delta"
  BY <1>1 DEF Orderly
<1>3. product' \in [up : BOOLEAN, text : Nat] /\ ~product'.up /\ product'.text = product.text
  BY DEF Concludes
<1>4. CASE answer' = [status |-> status, text |-> text] /\ line' = SendsLast(line, e)
  <2>1. e.kind # "delta"
    OBVIOUS
  <2>2. /\ line' \in Channels /\ Orderly(line') /\ Unread(line') = Unread(line)
        /\ \A i \in 1..Len(line'.events) :
             line'.events[i].kind # "delta" => line'.events[i] = e
    BY <1>1, <1>4, <2>1, SendLast
  <2>3. answer'.status = status /\ answer'.text = text
    BY <1>4
  <2>4. answer' \in [status : {"pending", "completed", "error"}, text : Nat]
    BY <1>4
  <2>5. \A i \in 1..Len(line'.events) : line'.events[i].kind = "final" =>
          status = "completed" /\ line'.events[i].text = text
    BY <2>2
  <2> QED
    BY <1>1, <1>3, <1>4, <2>2, <2>3, <2>4, <2>5 DEF ProductDone
<1>5. CASE answer' = answer /\ line' = Breaks(line)
  <2>1. line' = [line EXCEPT !.end = "broken"]
    BY <1>5 DEF Breaks
  <2>2. /\ line' \in Channels /\ Orderly(line') /\ Unread(line') = Unread(line)
        /\ line'.events = line.events
    BY <1>1, <2>1, EndChannel
  <2> QED
    BY <1>1, <1>2, <1>3, <1>5, <2>2 DEF ProductDone
<1> QED
  BY <1>4, <1>5 DEF Concludes

\* A step of the product service.
LEMMA ProductStep ==
  StreamInv /\ (HandleEvent \/ HandleEnd \/ GatewayRefuses \/ GeneratorDies) => StreamInv'
<1> SUFFICES ASSUME StreamInv, HandleEvent \/ HandleEnd \/ GatewayRefuses \/ GeneratorDies
             PROVE  StreamInv'
  OBVIOUS
<1> USE DEF StreamInv
<1>0. Unread(wire) \in Nat /\ Unread(line) \in Nat
  BY UnreadNat
<1>1. CASE HandleEvent
  <2> DEFINE e == Head(wire.events)
  <2>1. /\ product.up /\ wire.events # <<>> /\ wire' = [wire EXCEPT !.events = Tail(@)]
        /\ gateway' = gateway /\ browser' = browser
    BY <1>1 DEF HandleEvent
  <2>2. /\ wire' \in Channels /\ Orderly(wire') /\ wire'.end = wire.end /\ e = wire.events[1]
        /\ e \in Events /\ Len(wire.events) >= 1
        /\ e.kind = "delta" => e.text = 1 /\ Unread(wire') + 1 = Unread(wire)
        /\ e.kind # "delta" => Unread(wire') = 0 /\ Unread(wire) = 0
        /\ \A i \in 1..Len(wire'.events) : wire'.events[i] = wire.events[i + 1]
        /\ Len(wire'.events) = Len(wire.events) - 1
    BY <2>1, ReadFirst
  <2>3. \A i \in 1..Len(wire'.events) : wire'.events[i].kind = "final" =>
          ~gateway'.up /\ wire'.events[i].text = gateway'.text
    <3>1. Len(wire.events) \in Nat
      BY DEF Channels
    <3>2. \A i \in 1..Len(wire'.events) : i + 1 \in 1..Len(wire.events)
      BY <2>2, <3>1
    <3> QED
      BY <2>1, <2>2, <3>2
  <2>4. Unread(wire') \in Nat
    BY <2>2, UnreadNat
  <2>5. \/ Gone /\ Concludes("error", product.text, line)
        \/ e.kind = "delta" /\ product' = [product EXCEPT !.text = @ + e.text]
           /\ line' = Sends(line, e) /\ answer' = answer
        \/ e.kind = "final" /\ Concludes("completed", Or(e.text, product.text),
             SendsLast(line, Event("final", Or(e.text, product.text))))
        \/ e.kind = "error" /\ Concludes("error", 0, SendsLast(line, e))
    BY <1>1 DEF HandleEvent
  <2> HIDE DEF e
  <2>6. CASE Gone /\ Concludes("error", product.text, line)
    <3>1. line.end = "open" /\ answer.status # "completed"
      BY <2>1
    <3>2. \A i \in 1..Len(line.events) : line.events[i].kind = "delta"
      BY <3>1 DEF Orderly
    <3>3. product' \in [up : BOOLEAN, text : Nat] /\ ~product'.up /\ product'.text = product.text
      BY <2>6 DEF Concludes
    <3>4. line' = line \/ line' = [line EXCEPT !.end = "broken"]
      BY <2>6 DEF Concludes, Breaks
    <3>5. /\ line' \in Channels /\ Orderly(line') /\ Unread(line') = Unread(line)
          /\ line'.events = line.events
      BY <3>1, <3>4, EndChannel
    <3>6. /\ answer' \in [status : {"pending", "completed", "error"}, text : Nat]
          /\ answer'.status # "completed"
      BY <2>6, <3>1 DEF Concludes
    <3>7. Unread(wire') <= Unread(wire)
      BY <1>0, <2>2, <2>4 DEF Events
    <3>8. product'.text + Unread(wire') <= gateway'.text
      BY <1>0, <2>1, <2>4, <3>3, <3>7
    <3> QED
      BY <1>0, <2>1, <2>2, <2>3, <3>1, <3>2, <3>3, <3>5, <3>6, <3>8
  <2>7. CASE /\ e.kind = "delta" /\ product' = [product EXCEPT !.text = @ + e.text]
             /\ line' = Sends(line, e) /\ answer' = answer
    <3>1. line.end = "open" /\ answer.status # "completed"
      BY <2>1
    <3>2. /\ line' \in Channels /\ Orderly(line') /\ line'.end = "open"
          /\ Unread(line') = Unread(line) + 1
          /\ \A i \in 1..Len(line'.events) : line'.events[i].kind = "delta"
      BY <2>2, <2>7, <3>1, SendDelta
    <3>3. product' \in [up : BOOLEAN, text : Nat] /\ product'.up /\ product'.text = product.text + 1
      BY <2>1, <2>2, <2>7
    <3>4. product'.text + Unread(wire') <= gateway'.text
      <4>1. product.text + Unread(wire) <= gateway.text /\ product.text \in Nat /\ gateway.text \in Nat
        OBVIOUS
      <4>2. Unread(wire') + 1 = Unread(wire) /\ gateway'.text = gateway.text
        BY <2>1, <2>2, <2>7
      <4> HIDE DEF StreamInv
      <4> QED
        BY <1>0, <2>4, <3>3, <4>1, <4>2
    <3>5. browser'.status # "completed" => browser'.text + Unread(line') <= product'.text
      BY <1>0, <2>1, <3>2, <3>3
    <3> QED
      BY <1>0, <2>1, <2>2, <2>3, <2>7, <3>1, <3>2, <3>3, <3>4, <3>5
  <2>8. CASE /\ e.kind = "final"
             /\ Concludes("completed", Or(e.text, product.text),
                          SendsLast(line, Event("final", Or(e.text, product.text))))
    <3> DEFINE text == Or(e.text, product.text)
               last == Event("final", text)
    <3>1. e.text = gateway.text
      <4>1. 1 \in 1..Len(wire.events)
        BY <2>2 DEF Channels
      <4> QED
        BY <2>2, <2>8, <4>1
    <3>2. text \in Nat /\ product.text <= text /\ text <= gateway.text
      BY <1>0, <3>1 DEF Or
    <3> HIDE DEF text
    <3>3. last \in Events /\ last.kind = "final" /\ last.text = text
      BY <3>2 DEF Event, Events
    <3> HIDE DEF last
    <3>4. Concludes("completed", text, SendsLast(line, last))
      BY <2>8, Zenon DEF text, last
    <3>5. ProductDone
      BY <2>1, <3>2, <3>3, <3>4, ProductEnds
    <3>6. product'.text + Unread(wire') <= gateway'.text
      BY <1>0, <2>1, <2>2, <2>8, <3>5 DEF ProductDone
    <3> QED
      BY <1>0, <2>1, <2>2, <2>3, <3>5, <3>6 DEF ProductDone
  <2>9. CASE e.kind = "error" /\ Concludes("error", 0, SendsLast(line, e))
    <3>5. ProductDone
      BY <2>1, <2>2, <2>9, ProductEnds
    <3>6. product'.text + Unread(wire') <= gateway'.text
      BY <1>0, <2>1, <2>2, <2>9, <3>5 DEF ProductDone
    <3> QED
      BY <1>0, <2>1, <2>2, <2>3, <3>5, <3>6 DEF ProductDone
  <2> QED
    BY <2>5, <2>6, <2>7, <2>8, <2>9
<1>2. CASE HandleEnd
  <2>1. product.up /\ gateway' = gateway /\ wire' = wire /\ browser' = browser
    BY <1>2 DEF HandleEnd
  <2>2. CASE product.text > 0
    <3> DEFINE last == Event("final", product.text)
    <3>1. last \in Events /\ last.kind = "final" /\ last.text = product.text
      BY DEF Event, Events
    <3>2. Concludes("completed", product.text, SendsLast(line, last))
      BY <1>2, <2>2 DEF HandleEnd
    <3> HIDE DEF last
    <3>3. product.text <= gateway.text /\ product.text \in Nat /\ product.text <= product.text
      BY <1>0
    <3>4. ProductDone
      BY <2>1, <3>1, <3>2, <3>3, ProductEnds
    <3> QED
      BY <1>0, <2>1, <3>4 DEF ProductDone
  <2>3. CASE ~(product.text > 0)
    <3>1. /\ product' = [product EXCEPT !.up = FALSE] /\ answer' = answer
          /\ line' = [line EXCEPT !.end = "eof"]
      BY <1>2, <2>3 DEF HandleEnd
    <3>2. line.end = "open"
      BY <2>1
    <3>3. /\ line' \in Channels /\ Orderly(line') /\ Unread(line') = Unread(line)
          /\ line'.events = line.events
      BY <3>1, <3>2, EndChannel
    <3>4. product' \in [up : BOOLEAN, text : Nat] /\ ~product'.up /\ product'.text = product.text
      BY <3>1
    <3> QED
      BY <1>0, <2>1, <3>1, <3>3, <3>4
  <2> QED
    BY <2>2, <2>3
<1>3. CASE GatewayRefuses
  <2>1. /\ product.up /\ wire' = wire /\ browser' = browser
        /\ gateway' \in [up : BOOLEAN, text : Nat] /\ ~gateway'.up /\ gateway'.text = gateway.text
        /\ Concludes("error", 0, SendsLast(line, Event("error", 0)))
    BY <1>3 DEF GatewayRefuses
  <2>2. Event("error", 0) \in Events /\ Event("error", 0).kind = "error"
    BY DEF Event, Events
  <2>3. ProductDone
    BY <2>1, <2>2, ProductEnds
  <2> QED
    BY <1>0, <2>1, <2>3 DEF ProductDone
<1>4. CASE GeneratorDies
  <2>1. /\ product.up /\ gateway' = gateway /\ wire' = wire /\ browser' = browser /\ answer' = answer
        /\ product' = [product EXCEPT !.up = FALSE] /\ line' = [line EXCEPT !.end = "broken"]
    BY <1>4 DEF GeneratorDies, Breaks
  <2>2. line.end = "open"
    BY <2>1
  <2>3. /\ line' \in Channels /\ Orderly(line') /\ Unread(line') = Unread(line)
        /\ line'.events = line.events
    BY <2>1, <2>2, EndChannel
  <2>4. product' \in [up : BOOLEAN, text : Nat] /\ ~product'.up /\ product'.text = product.text
    BY <2>1
  <2> QED
    BY <1>0, <2>1, <2>3, <2>4
<1> QED
  BY <1>1, <1>2, <1>3, <1>4

\* A step of the browser.
LEMMA BrowserStep == StreamInv /\ (ShowEvent \/ ShowEnd \/ Stop) => StreamInv'
<1> SUFFICES ASSUME StreamInv, ShowEvent \/ ShowEnd \/ Stop PROVE StreamInv'
  OBVIOUS
<1> USE DEF StreamInv
<1>0. Unread(wire) \in Nat /\ Unread(line) \in Nat
  BY UnreadNat
<1>1. CASE ShowEvent
  <2> DEFINE e == Head(line.events)
  <2>1. /\ browser.up /\ line.events # <<>> /\ line' = [line EXCEPT !.events = Tail(@)]
        /\ gateway' = gateway /\ wire' = wire /\ product' = product /\ answer' = answer
    BY <1>1 DEF ShowEvent
  <2>2. /\ line' \in Channels /\ Orderly(line') /\ line'.end = line.end /\ e = line.events[1]
        /\ e \in Events /\ Len(line.events) >= 1
        /\ e.kind = "delta" => e.text = 1 /\ Unread(line') + 1 = Unread(line)
        /\ e.kind # "delta" => Unread(line') = 0 /\ Unread(line) = 0
        /\ \A i \in 1..Len(line'.events) : line'.events[i] = line.events[i + 1]
        /\ Len(line'.events) = Len(line.events) - 1
    BY <2>1, ReadFirst
  <2>3. \A i \in 1..Len(line'.events) : line'.events[i].kind = "final" =>
          answer' = [status |-> "completed", text |-> line'.events[i].text]
    <3>1. Len(line.events) \in Nat
      BY DEF Channels
    <3>2. \A i \in 1..Len(line'.events) : i + 1 \in 1..Len(line.events)
      BY <2>2, <3>1
    <3> QED
      BY <2>1, <2>2, <3>2
  <2>4. Unread(line') \in Nat
    BY <2>2, UnreadNat
  <2>5. browser.status = "streaming" /\ browser.text + Unread(line) <= product.text
    BY <2>1
  <2>6. \/ e.kind = "delta" /\ browser' = [browser EXCEPT !.text = @ + e.text]
        \/ e.kind = "final" /\ Shows("completed", Or(e.text, browser.text))
        \/ e.kind = "error" /\ Shows("error", browser.text)
    <3>1. e.kind \in {"delta", "final", "error"}
      BY <2>2 DEF Events
    <3> QED
      BY <1>1, <3>1 DEF ShowEvent
  <2> HIDE DEF e
  <2>7. CASE e.kind = "delta" /\ browser' = [browser EXCEPT !.text = @ + e.text]
    <3>1. /\ browser'.up = browser.up /\ browser'.status = browser.status
          /\ browser'.text = browser.text + 1
          /\ browser' \in [up : BOOLEAN, status : {"streaming", "completed", "error", "aborted"},
                           text : Nat]
      BY <2>2, <2>7
    <3>2. browser'.text + Unread(line') <= product.text
      <4>1. Unread(line') + 1 = Unread(line) /\ browser.text \in Nat /\ product.text \in Nat
        BY <2>2, <2>7
      <4> HIDE DEF StreamInv
      <4> QED
        BY <1>0, <2>4, <2>5, <3>1, <4>1
    <3> QED
      BY <1>0, <2>1, <2>2, <2>3, <2>5, <3>1, <3>2
  <2>8. CASE e.kind = "final" /\ Shows("completed", Or(e.text, browser.text))
    <3>1. answer = [status |-> "completed", text |-> e.text]
      <4>1. 1 \in 1..Len(line.events)
        BY <2>2 DEF Channels
      <4> QED
        BY <2>2, <2>8, <4>1
    <3>2. answer.text = e.text /\ product.text <= e.text
      BY <3>1
    <3>3. Or(e.text, browser.text) = e.text
      BY <1>0, <2>2, <2>5, <3>2 DEF Or, Events
    <3>4. /\ browser' = [up |-> FALSE, status |-> "completed", text |-> e.text]
          /\ e.text \in Nat
      BY <2>2, <2>8, <3>3 DEF Shows, Events
    <3>5. /\ browser' \in [up : BOOLEAN, status : {"streaming", "completed", "error", "aborted"},
                           text : Nat]
          /\ ~browser'.up /\ browser'.status = "completed" /\ browser'.text = e.text
      BY <3>4
    <3> QED
      BY <1>0, <2>1, <2>2, <2>3, <3>1, <3>5
  <2>9. CASE e.kind = "error" /\ Shows("error", browser.text)
    <3>1. /\ browser' \in [up : BOOLEAN, status : {"streaming", "completed", "error", "aborted"},
                           text : Nat]
          /\ ~browser'.up /\ browser'.status = "error" /\ browser'.text = browser.text
      BY <2>9 DEF Shows
    <3>2. browser'.text + Unread(line') <= product.text
      BY <2>2, <2>5, <2>9, <3>1
    <3> QED
      BY <1>0, <2>1, <2>2, <2>3, <3>1, <3>2
  <2> QED
    BY <2>6, <2>7, <2>8, <2>9
<1>2. CASE ShowEnd \/ Stop
  <2>1. /\ gateway' = gateway /\ wire' = wire /\ product' = product /\ answer' = answer
        /\ line' = line /\ browser.up
    BY <1>2 DEF ShowEnd, Stop
  <2>2. /\ browser' \in [up : BOOLEAN, status : {"streaming", "completed", "error", "aborted"},
                         text : Nat]
        /\ ~browser'.up /\ browser'.status # "completed" /\ browser'.text = browser.text
    <3>1. browser.status = "streaming"
      BY <2>1
    <3>2. CASE browser' = [browser EXCEPT !.up = FALSE]
      BY <3>1, <3>2
    <3>3. CASE \E status \in {"error", "aborted"} : Shows(status, browser.text)
      BY <3>3 DEF Shows
    <3> QED
      BY <1>2, <3>2, <3>3 DEF ShowEnd, Stop
  <2>3. browser'.text + Unread(line') <= product'.text
    BY <2>1, <2>2
  <2>4. /\ Orderly(wire') /\ Orderly(line') /\ wire' \in Channels /\ line' \in Channels
        /\ product'.text + Unread(wire') <= gateway'.text
    BY <2>1
  <2>5. /\ gateway' \in [up : BOOLEAN, text : Nat] /\ product' \in [up : BOOLEAN, text : Nat]
        /\ answer' \in [status : {"pending", "completed", "error"}, text : Nat]
        /\ gateway'.up => wire'.end = "open"
        /\ product'.up => line'.end = "open"
    BY <2>1
  <2>6. /\ \A i \in 1..Len(wire'.events) : wire'.events[i].kind = "final" =>
             ~gateway'.up /\ wire'.events[i].text = gateway'.text
        /\ answer'.status = "completed" =>
             ~product'.up /\ product'.text <= answer'.text /\ answer'.text <= gateway'.text
        /\ \A i \in 1..Len(line'.events) : line'.events[i].kind = "final" =>
             answer' = [status |-> "completed", text |-> line'.events[i].text]
    BY <2>1
  <2> QED
    BY <2>2, <2>3, <2>4, <2>5, <2>6
<1> QED
  BY <1>1, <1>2

\* Every step keeps StreamInv.
LEMMA StreamStep == StreamInv /\ [StreamNext]_streamVars => StreamInv'
<1> SUFFICES ASSUME StreamInv, [StreamNext]_streamVars PROVE StreamInv'
  OBVIOUS
<1>1. CASE UNCHANGED streamVars
  BY <1>1 DEF streamVars, StreamInv, Orderly, Unread
<1> QED
  BY <1>1, GatewayStep, ProductStep, BrowserStep DEF StreamNext

\* A completed answer is shown as it is stored, and no text is shown that was not sent,
\* however many deltas the model sends.
THEOREM ShownIsStoredAlways == StreamSpec => []ShownIsStored
BY StreamStart, StreamStep, InvShown, PTL DEF StreamSpec
==============================================================================

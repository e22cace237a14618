------------------------------ MODULE MCPlatform ------------------------------
(* What surrounds claims and chats: how an address logs in and joins a       *)
(* company, the gateway's nonces, the rate limiters, the way of a streamed   *)
(* answer, the browser's chat and its document queue.  They share no state,  *)
(* so a behaviour of this module is a behaviour of one of them (see          *)
(* MCClaims).                                                                *)
EXTENDS Membership, GatewayNonce, RateLimits, ChatStream, BrowserChat, DocQueue, TLC

CONSTANTS a1, a2

VARIABLE part  \* the component that moves

OneCompany == [u \in Users |-> "company"]
TheLimits == [company |-> 2, user |-> 1, ip |-> 2]

SymmetricPlatform == Permutations({a1, a2}) \cup Permutations(Orgs) \cup Permutations(Chats)

MCInit ==
  /\ part \in {"member", "nonce", "rate", "stream", "browser", "queue"}
  /\ MemberInit /\ NonceInit /\ RateInit /\ StreamInit /\ BrowserInit
  /\ IF part = "queue" THEN DocInit
     ELSE DocInit /\ options = [items |-> {}, enabled |-> FALSE, reduced |-> FALSE]

MCNext ==
  /\ part' = part
  /\ \/ part = "member" /\ MemberNext
        /\ UNCHANGED <<nonceVars, rateVars, streamVars, chatVars, queueVars>>
     \/ part = "nonce" /\ NonceNext
        /\ UNCHANGED <<memberVars, rateVars, streamVars, chatVars, queueVars>>
     \/ part = "rate" /\ RateNext
        /\ UNCHANGED <<memberVars, nonceVars, streamVars, chatVars, queueVars>>
     \/ part = "stream" /\ StreamNext
        /\ UNCHANGED <<memberVars, nonceVars, rateVars, chatVars, queueVars>>
     \/ part = "browser" /\ BrowserNext
        /\ UNCHANGED <<memberVars, nonceVars, rateVars, streamVars, queueVars>>
     \/ part = "queue" /\ DocNext
        /\ UNCHANGED <<memberVars, nonceVars, rateVars, streamVars, chatVars>>
=============================================================================

--------------------------- MODULE MembershipProofs ---------------------------
(* A magic link and an invite work once, for any number of handlers at work   *)
(* on the address.  A handler that has claimed an item is alone with it until *)
(* its commit, and the item is unused all that time; after an acceptance it   *)
(* is the only one that can still open the invite's session.                  *)
(*                                                                            *)
(* A handler that nobody has overtaken and that has found the address free    *)
(* finds it free when it commits.                                             *)
(* The same handler founds a company under an INN of its own, and stays at    *)
(* work until the company has its owner.                                      *)
EXTENDS Membership, TLAPS

Tokens == Links \cup Invites

\* What a handler holds: only two operations are about a link or an invite.
Proper(k) ==
  /\ k = [op |-> k.op, at |-> k.at, base |-> k.base, item |-> k.item,
          company |-> k.company, alone |-> k.alone]
  /\ k.at = "idle" => k.item = None
  /\ k.at # "idle" /\ k.op = "confirm" => k.item \in Links /\ k.at \in {"claimed", "checked"}
  /\ k.at # "idle" /\ k.op = "accept" => k.item \in Invites
                                         /\ k.at \in {"claimed", "checked", "joined"}

MemberTyped ==
  /\ caller = [c \in Callers |-> caller[c]] /\ (\A c \in Callers : Proper(caller[c]))
  /\ link = [l \in Links |-> link[l]]
  /\ invite = [i \in Invites |-> [state |-> invite[i].state, company |-> invite[i].company,
                                  role |-> invite[i].role]]
  /\ opened \in [Tokens -> Nat] /\ joins \in [Invites -> Nat]

\* The handler c is at work on the link or invite x.
HandlerOf(c, op, x) == caller[c].op = op /\ caller[c].item = x

\* One handler for each item, and the item as that handler's commit needs it.
Exclusive ==
  /\ \A c \in Callers, l \in Links : HandlerOf(c, "confirm", l) =>
       link[l] = "open" /\ \A d \in Callers \ {c} : ~HandlerOf(d, "confirm", l)
  /\ \A c \in Callers, i \in Invites : HandlerOf(c, "accept", i) =>
       /\ \A d \in Callers \ {c} : ~HandlerOf(d, "accept", i)
       /\ opened[i] = 0
       /\ invite[i].state = IF caller[c].at = "joined" THEN "used" ELSE "open"

MemberInv == MemberTyped /\ Exclusive /\ TokensSpentOnce

\* No link and no invite is out.
LEMMA MembersStart == MemberInit => MemberInv
<1> SUFFICES ASSUME MemberInit PROVE MemberInv
  OBVIOUS
<1> USE TokensAssumption DEF MemberInit, Free
<1>1. MemberTyped
  BY DEF MemberTyped, Proper, Tokens
<1>2. Exclusive
  BY DEF Exclusive, HandlerOf
<1>3. TokensSpentOnce
  BY DEF TokensSpentOnce
<1> QED
  BY <1>1, <1>2, <1>3 DEF MemberInv

\* An idle handler.
LEMMA FreeProper == Proper(Free)
  BY DEF Proper, Free

\* What becomes of a handler whose next step and one more field are set.
LEMMA NextStep ==
  ASSUME NEW k, Proper(k), NEW a, NEW x
  PROVE  /\ [k EXCEPT !.at = a, !.base = x] =
              [op |-> k.op, at |-> a, base |-> x, item |-> k.item, company |-> k.company,
               alone |-> k.alone]
         /\ [k EXCEPT !.at = a, !.item = x] =
              [op |-> k.op, at |-> a, base |-> k.base, item |-> x, company |-> k.company,
               alone |-> k.alone]
         /\ [k EXCEPT !.at = a, !.company = x] =
              [op |-> k.op, at |-> a, base |-> k.base, item |-> k.item, company |-> x,
               alone |-> k.alone]
<1> DEFINE m == [k EXCEPT !.at = a]
<1>1. m = [op |-> k.op, at |-> a, base |-> k.base, item |-> k.item, company |-> k.company,
           alone |-> k.alone]
  BY DEF Proper
<1>2. /\ [k EXCEPT !.at = a, !.base = x] = [m EXCEPT !.base = x]
      /\ [k EXCEPT !.at = a, !.item = x] = [m EXCEPT !.item = x]
      /\ [k EXCEPT !.at = a, !.company = x] = [m EXCEPT !.company = x]
  OBVIOUS
<1> HIDE DEF m
<1>3. [m EXCEPT !.base = x] = [op |-> k.op, at |-> a, base |-> x, item |-> k.item,
                               company |-> k.company, alone |-> k.alone]
  BY <1>1
<1>4. [m EXCEPT !.item = x] = [op |-> k.op, at |-> a, base |-> k.base, item |-> x,
                               company |-> k.company, alone |-> k.alone]
  BY <1>1
<1>5. [m EXCEPT !.company = x] = [op |-> k.op, at |-> a, base |-> k.base, item |-> k.item,
                                  company |-> x, alone |-> k.alone]
  BY <1>1
<1> QED
  BY <1>2, <1>3, <1>4, <1>5

\* A handler that goes on, leaves, or starts with something else than an item.
LEMMA GoesOn ==
  ASSUME MemberTyped, NEW c \in Callers, NEW k, Proper(k),
         \/ caller' = [caller EXCEPT ![c] = k]
         \/ caller' = [x \in Callers |->
              IF x = c THEN k ELSE [caller[x] EXCEPT !.alone = @ /\ caller[x].at = "idle"]],
         UNCHANGED <<link, invite, opened, joins>>
  PROVE  /\ MemberTyped'
         /\ \A d \in Callers \ {c} : /\ caller'[d].op = caller[d].op /\ caller'[d].at = caller[d].at
                                     /\ caller'[d].item = caller[d].item
         /\ caller'[c] = k
<1>1. ASSUME NEW d \in Callers, d # c
      PROVE  /\ caller'[d].op = caller[d].op /\ caller'[d].at = caller[d].at
             /\ caller'[d].item = caller[d].item /\ Proper(caller'[d])
  BY <1>1 DEF MemberTyped, Proper
<1>2. caller'[c] = k /\ caller' = [x \in Callers |-> caller'[x]]
  BY DEF MemberTyped
<1> QED
  BY <1>1, <1>2 DEF MemberTyped

\* Such a step leaves the items to those who have them.
LEMMA QuietKeeps ==
  ASSUME MemberInv, NEW c \in Callers, NEW k, Proper(k),
         \/ caller' = [caller EXCEPT ![c] = k]
         \/ caller' = [x \in Callers |->
              IF x = c THEN k ELSE [caller[x] EXCEPT !.alone = @ /\ caller[x].at = "idle"]],
         UNCHANGED <<link, invite, opened, joins>>,
         \/ k.item = None \/ k.op \notin {"confirm", "accept"}
         \/ /\ k.item = caller[c].item /\ k.op = caller[c].op
            /\ k.at = "joined" <=> caller[c].at = "joined"
  PROVE  MemberInv'
<1>1. /\ MemberTyped'
      /\ \A d \in Callers \ {c} : /\ caller'[d].op = caller[d].op /\ caller'[d].at = caller[d].at
                                  /\ caller'[d].item = caller[d].item
      /\ caller'[c] = k
  BY GoesOn DEF MemberInv
<1>2. Exclusive'
  BY <1>1, TokensAssumption DEF MemberInv, Exclusive, HandlerOf
<1>3. TokensSpentOnce'
  BY DEF MemberInv, TokensSpentOnce
<1> QED
  BY <1>1, <1>2, <1>3 DEF MemberInv

\* The handlers that answer, refuse, go on to their next check, or die.
LEMMA ChecksKeep ==
  ASSUME MemberInv, NEW c \in Callers,
         \/ LookUpUser(c) \/ CheckInvitee(c) \/ CheckFree(c) \/ CheckPendingInvite(c)
         \/ (\E inn \in Inns : CheckInn(c, inn)) \/ Dies(c)
         \/ Leaves(c) /\ UNCHANGED <<link, invite, opened, joins>>
  PROVE  MemberInv'
<1>1. Proper(Free) /\ Free.item = None /\ Proper(caller[c])
  BY DEF Proper, Free, MemberInv, MemberTyped
<1>2. CASE Leaves(c) /\ UNCHANGED <<link, invite, opened, joins>>
  BY <1>1, <1>2, QuietKeeps DEF Leaves
<1>3. ASSUME NEW base, caller' = [caller EXCEPT ![c].at = "checked", ![c].base = base],
             caller[c].at = "claimed", UNCHANGED <<link, invite, opened, joins>>
      PROVE  MemberInv'
  <2> DEFINE k == [op |-> caller[c].op, at |-> "checked", base |-> base, item |-> caller[c].item,
                   company |-> caller[c].company, alone |-> caller[c].alone]
  <2>1. caller' = [caller EXCEPT ![c] = k]
    <3>1. [caller[c] EXCEPT !.at = "checked", !.base = base] = k
      BY <1>1, NextStep
    <3> QED
      BY <1>3, <3>1
  <2>2. Proper(k) /\ k.item = caller[c].item /\ k.op = caller[c].op /\ k.at = "checked"
    BY <1>1, <1>3 DEF Proper
  <2> HIDE DEF k
  <2> QED
    BY <1>3, <2>1, <2>2, QuietKeeps
<1>4. CASE LookUpUser(c)
  BY <1>2, <1>3, <1>4 DEF LookUpUser, Unchecked
<1>5. CASE CheckInvitee(c)
  BY <1>2, <1>3, <1>5 DEF CheckInvitee, Unchecked
<1>6. CASE CheckFree(c)
  BY <1>2, <1>3, <1>6 DEF CheckFree, Unchecked
<1>7. ASSUME NEW k, caller' = [caller EXCEPT ![c] = k], Proper(k), k.op = "org",
             UNCHANGED <<link, invite, opened, joins>>
      PROVE  MemberInv'
  BY <1>7, QuietKeeps
<1>8. CASE CheckPendingInvite(c)
  <2> DEFINE k == [op |-> caller[c].op, at |-> "checked", base |-> caller[c].base,
                   item |-> caller[c].item, company |-> caller[c].company,
                   alone |-> caller[c].alone]
  <2>0. [caller[c] EXCEPT !.at = "checked"] = k
    BY <1>1 DEF Proper
  <2>1. UNCHANGED <<link, invite, opened, joins>>
    BY <1>8 DEF CheckPendingInvite, Unchecked
  <2>2. ~Leaves(c) => caller' = [caller EXCEPT ![c] = k] /\ caller[c].op = "org"
    BY <1>8, <2>0 DEF CheckPendingInvite, Goes
  <2>3. caller[c].op = "org" => Proper(k) /\ k.op = "org"
    BY <1>1 DEF Proper
  <2> QED
    BY <1>2, <1>7, <2>1, <2>2, <2>3
<1>9. ASSUME NEW inn \in Inns, CheckInn(c, inn) PROVE MemberInv'
  <2> DEFINE k == [op |-> caller[c].op, at |-> "inn", base |-> caller[c].base, item |-> inn,
                   company |-> caller[c].company, alone |-> caller[c].alone]
  <2>0. [caller[c] EXCEPT !.at = "inn", !.item = inn] = k
    BY <1>1, NextStep
  <2>1. UNCHANGED <<link, invite, opened, joins>>
    BY <1>9 DEF CheckInn, Unchecked
  <2>2. caller[c].op = "org" /\ (~Leaves(c) => caller' = [caller EXCEPT ![c] = k])
    BY <1>9, <2>0 DEF CheckInn
  <2>3. Proper(k) /\ k.op = "org"
    BY <1>1, <2>2 DEF Proper
  <2> QED
    BY <1>2, <1>7, <2>1, <2>2, <2>3
<1>10. CASE Dies(c)
  BY <1>2, <1>10 DEF Dies
<1> QED
  BY <1>2, <1>4, <1>5, <1>6, <1>8, <1>9, <1>10

\* The handlers that start with, or commit, something else than an item.
LEMMA OthersKeep ==
  ASSUME MemberInv, NEW c \in Callers,
         \/ \E company \in Companies, op \in {"invite", "assign"} : FindNoInvite(c, company, op)
         \/ StartOrg(c) \/ CommitCompany(c) \/ CommitOwner(c) \/ CommitAssignment(c)
  PROVE  MemberInv'
<1>1. Proper(Free) /\ Free.item = None /\ Proper(caller[c])
  BY DEF Proper, Free, MemberInv, MemberTyped
<1>2. ASSUME NEW company \in Companies, NEW op \in {"invite", "assign"},
             FindNoInvite(c, company, op)
      PROVE  MemberInv'
  <2> DEFINE k == [op |-> op, at |-> "claimed", base |-> None, item |-> None,
                   company |-> company, alone |-> TRUE]
  <2>1. caller' = [caller EXCEPT ![c] = k] /\ UNCHANGED <<link, invite, opened, joins>>
    BY <1>2 DEF FindNoInvite, Starts, Unchecked
  <2>2. Proper(k) /\ k.item = None
    BY DEF Proper
  <2> QED
    BY <2>1, <2>2, QuietKeeps
<1>3. CASE StartOrg(c)
  <2> DEFINE k == [op |-> "org", at |-> "claimed", base |-> person, item |-> None,
                   company |-> None, alone |-> TRUE]
  <2>1. caller' = [caller EXCEPT ![c] = k] /\ UNCHANGED <<link, invite, opened, joins>>
    BY <1>3 DEF StartOrg, Starts, Unchecked
  <2>2. Proper(k) /\ k.item = None
    BY DEF Proper
  <2> QED
    BY <2>1, <2>2, QuietKeeps
<1>4. CASE CommitCompany(c)
  <2>1. PICK o \in Orgs : Commits(c, [caller[c] EXCEPT !.at = "founded", !.company = o], o)
    BY <1>4 DEF CommitCompany
  <2> DEFINE k == [op |-> caller[c].op, at |-> "founded", base |-> caller[c].base,
                   item |-> caller[c].item, company |-> o, alone |-> caller[c].alone]
  <2>0. [caller[c] EXCEPT !.at = "founded", !.company = o] = k
    BY <1>1, NextStep
  <2>2. /\ caller[c].op = "org" /\ UNCHANGED <<link, invite, opened, joins>>
        /\ caller' = [x \in Callers |->
             IF x = c THEN k ELSE [caller[x] EXCEPT !.alone = @ /\ caller[x].at = "idle"]]
    BY <1>4, <2>0, <2>1 DEF CommitCompany, Commits
  <2>3. Proper(k) /\ k.op = "org"
    BY <1>1, <2>2 DEF Proper
  <2> HIDE DEF k
  <2> QED
    BY <2>2, <2>3, QuietKeeps
<1>5. CASE CommitOwner(c) \/ CommitAssignment(c)
  <2>1. /\ UNCHANGED <<link, invite, opened, joins>>
        /\ caller' = [x \in Callers |->
             IF x = c THEN Free ELSE [caller[x] EXCEPT !.alone = @ /\ caller[x].at = "idle"]]
    BY <1>5 DEF CommitOwner, CommitAssignment, Commits
  <2> QED
    BY <1>1, <2>1, QuietKeeps
<1> QED
  BY <1>2, <1>3, <1>4, <1>5

\* An item is claimed only while nobody else has it.
LEMMA ClaimsKeep ==
  ASSUME MemberInv, NEW c \in Callers,
         (\E l \in Links : ClaimLink(c, l)) \/ (\E i \in Invites : ClaimInvite(c, i))
  PROVE  MemberInv'
<1>1. PICK op, x, company :
        /\ op \in {"confirm", "accept"} /\ x \in Tokens
        /\ caller[c].at = "idle" /\ ~Holds(op, x)
        /\ op = "confirm" => x \in Links /\ link[x] = "open"
        /\ op = "accept" => x \in Invites /\ invite[x].state = "open"
        /\ caller' = [caller EXCEPT ![c] = [op |-> op, at |-> "claimed", base |-> None,
                        item |-> x, company |-> company, alone |-> TRUE]]
        /\ UNCHANGED <<link, invite, opened, joins>>
  BY DEF ClaimLink, ClaimInvite, Starts, Unchecked, Tokens
<1> DEFINE k == [op |-> op, at |-> "claimed", base |-> None, item |-> x,
                 company |-> company, alone |-> TRUE]
<1>2. Proper(k)
  BY <1>1 DEF Proper
<1>3. /\ MemberTyped'
      /\ \A d \in Callers \ {c} : /\ caller'[d].op = caller[d].op /\ caller'[d].at = caller[d].at
                                  /\ caller'[d].item = caller[d].item
      /\ caller'[c] = k
  BY <1>1, <1>2, GoesOn DEF MemberInv
<1>4. ASSUME NEW d \in Callers PROVE ~HandlerOf(d, op, x)
  <2>1. HandlerOf(d, op, x) => caller[d].at \in {"claimed", "checked"}
    BY <1>1, TokensAssumption DEF MemberInv, MemberTyped, Proper, Exclusive, HandlerOf, Tokens
  <2> QED
    BY <1>1, <2>1 DEF Holds, HandlerOf
<1>5. op = "accept" => opened[x] = 0
  BY <1>1 DEF MemberInv, MemberTyped, TokensSpentOnce, Tokens
<1>6. Exclusive'
  BY <1>1, <1>3, <1>4, <1>5 DEF MemberInv, Exclusive, HandlerOf
<1>7. TokensSpentOnce'
  BY <1>1 DEF MemberInv, TokensSpentOnce
<1> QED
  BY <1>3, <1>6, <1>7 DEF MemberInv

\* The commit that spends a link opens its session.
LEMMA LoginKeeps ==
  ASSUME MemberInv, NEW c \in Callers, CommitLogin(c)
  PROVE  MemberInv'
<1> DEFINE l == caller[c].item
<1>1. CASE UNCHANGED <<link, opened>>
  BY <1>1, ChecksKeep DEF CommitLogin
<1>2. CASE ~UNCHANGED <<link, opened>>
  <2>1. /\ link' = [link EXCEPT ![l] = "used"] /\ opened' = [opened EXCEPT ![l] = @ + 1]
        /\ caller' = [caller EXCEPT ![c] = Free] /\ UNCHANGED <<invite, joins>>
    BY <1>2 DEF CommitLogin, Leaves
  <2>2. l \in Links /\ link[l] = "open" /\ l \notin Invites
    BY TokensAssumption
    DEF CommitLogin, MemberInv, MemberTyped, Proper, Exclusive, HandlerOf
  <2>3. MemberTyped'
    <3>1. caller' = [d \in Callers |-> caller'[d]] /\ \A d \in Callers : Proper(caller'[d])
      BY <2>1, FreeProper DEF MemberInv, MemberTyped
    <3>2. link' = [x \in Links |-> link'[x]] /\ opened' \in [Tokens -> Nat]
      BY <2>1, <2>2 DEF MemberInv, MemberTyped, Tokens
    <3> QED
      BY <2>1, <3>1, <3>2 DEF MemberInv, MemberTyped
  <2>4. \A d \in Callers \ {c} : ~HandlerOf(d, "confirm", l)
    BY <2>2 DEF CommitLogin, MemberInv, Exclusive, HandlerOf
  <2>5. Exclusive'
    BY <2>1, <2>2, <2>4, TokensAssumption
    DEF MemberInv, MemberTyped, Exclusive, HandlerOf, Free, Tokens
  <2>6. TokensSpentOnce'
    BY <2>1, <2>2 DEF MemberInv, MemberTyped, TokensSpentOnce, Tokens
  <2> QED
    BY <2>3, <2>5, <2>6 DEF MemberInv
<1> QED
  BY <1>1, <1>2

\* The commit that spends an invite makes the membership; the session comes later.
LEMMA AcceptanceKeeps ==
  ASSUME MemberInv, NEW c \in Callers, CommitAcceptance(c)
  PROVE  MemberInv'
<1> DEFINE i == caller[c].item
           k == [op |-> caller[c].op, at |-> "joined", base |-> caller[c].base, item |-> i,
                 company |-> caller[c].company, alone |-> caller[c].alone]
<1>1. CASE Leaves(c) /\ UNCHANGED <<invite, joins>>
  BY <1>1, ChecksKeep DEF CommitAcceptance
<1>2. CASE ~(Leaves(c) /\ UNCHANGED <<invite, joins>>)
  <2>1. /\ invite' = [invite EXCEPT ![i].state = "used"] /\ joins' = [joins EXCEPT ![i] = @ + 1]
        /\ caller' = [x \in Callers |->
             IF x = c THEN k ELSE [caller[x] EXCEPT !.alone = @ /\ caller[x].at = "idle"]]
        /\ UNCHANGED <<link, opened>>
    <3>1. [caller[c] EXCEPT !.at = "joined"] = k
      BY DEF MemberInv, MemberTyped, Proper
    <3> QED
      BY <1>2, <3>1 DEF CommitAcceptance, Commits
  <2>2. i \in Invites /\ invite[i].state = "open" /\ opened[i] = 0 /\ joins[i] = 0
    BY TokensAssumption
    DEF CommitAcceptance, MemberInv, MemberTyped, Proper, Exclusive, HandlerOf, TokensSpentOnce
  <2>3. \A d \in Callers \ {c} : ~HandlerOf(d, "accept", i)
    BY <2>2 DEF CommitAcceptance, MemberInv, Exclusive, HandlerOf
  <2>4. /\ Proper(k) /\ k.op = "accept" /\ k.item = i /\ k.at = "joined"
    BY <2>2 DEF CommitAcceptance, MemberInv, MemberTyped, Proper
  <2>5. \A d \in Callers \ {c} :
          /\ caller'[d].op = caller[d].op /\ caller'[d].at = caller[d].at
          /\ caller'[d].item = caller[d].item /\ Proper(caller'[d])
    BY <2>1 DEF MemberInv, MemberTyped, Proper
  <2>6. caller'[c] = k
    BY <2>1
  <2> HIDE DEF k
  <2>7. MemberTyped'
    <3>1. caller' = [d \in Callers |-> caller'[d]] /\ \A d \in Callers : Proper(caller'[d])
      BY <2>1, <2>4, <2>5, <2>6
    <3>2. invite' = [j \in Invites |-> [state |-> invite'[j].state, company |-> invite'[j].company,
                                        role |-> invite'[j].role]]
      <4>1. \A j \in Invites : invite[j] = [state |-> invite[j].state, company |-> invite[j].company,
                                            role |-> invite[j].role]
        BY DEF MemberInv, MemberTyped
      <4>2. ASSUME NEW j \in Invites
            PROVE  invite'[j] = [state |-> invite'[j].state, company |-> invite'[j].company,
                                 role |-> invite'[j].role]
        <5>1. CASE j = i
          <6>1. invite'[j] = [invite[j] EXCEPT !.state = "used"]
            BY <2>1, <2>2, <5>1 DEF MemberInv, MemberTyped
          <6> QED
            BY <4>1, <6>1
        <5>2. CASE j # i
          <6>1. invite'[j] = invite[j]
            BY <2>1, <5>2 DEF MemberInv, MemberTyped
          <6> QED
            BY <4>1, <6>1
        <5> QED
          BY <5>1, <5>2
      <4>3. invite' = [j \in Invites |-> invite'[j]]
        BY <2>1 DEF MemberInv, MemberTyped
      <4> QED
        BY <4>2, <4>3
    <3>3. joins' \in [Invites -> Nat]
      BY <2>1, <2>2 DEF MemberInv, MemberTyped
    <3> QED
      BY <2>1, <3>1, <3>2, <3>3 DEF MemberInv, MemberTyped
  <2>8. \A j \in Invites \ {i} : invite'[j].state = invite[j].state
    BY <2>1, <2>2 DEF MemberInv, MemberTyped
  <2>9. invite'[i].state = "used"
    BY <2>1, <2>2 DEF MemberInv, MemberTyped
  <2>10. Exclusive'
    BY <2>1, <2>2, <2>3, <2>4, <2>5, <2>6, <2>8, <2>9 DEF MemberInv, Exclusive, HandlerOf
  <2>11. TokensSpentOnce'
    BY <2>1, <2>2, <2>8, <2>9 DEF MemberInv, MemberTyped, TokensSpentOnce
  <2> QED
    BY <2>7, <2>10, <2>11 DEF MemberInv
<1> QED
  BY <1>1, <1>2

\* The session of an accepted invite is opened by the handler that accepted it.
LEMMA SessionKeeps ==
  ASSUME MemberInv, NEW c \in Callers, OpenInviteSession(c)
  PROVE  MemberInv'
<1> DEFINE i == caller[c].item
<1>1. /\ opened' = [opened EXCEPT ![i] = @ + 1] /\ caller' = [caller EXCEPT ![c] = Free]
      /\ UNCHANGED <<link, invite, joins>> /\ caller[c].op = "accept" /\ caller[c].at = "joined"
  BY DEF OpenInviteSession, Leaves
<1>2. /\ i \in Invites /\ i \notin Links /\ opened[i] = 0 /\ invite[i].state = "used"
      /\ \A d \in Callers \ {c} : ~HandlerOf(d, "accept", i)
  BY <1>1, TokensAssumption DEF MemberInv, MemberTyped, Proper, Exclusive, HandlerOf
<1>3. MemberTyped'
  <2>1. caller' = [d \in Callers |-> caller'[d]] /\ \A d \in Callers : Proper(caller'[d])
    BY <1>1, FreeProper DEF MemberInv, MemberTyped
  <2>2. opened' \in [Tokens -> Nat]
    BY <1>1, <1>2 DEF MemberInv, MemberTyped, Tokens
  <2> QED
    BY <1>1, <2>1, <2>2 DEF MemberInv, MemberTyped
<1>4. Exclusive'
  BY <1>1, <1>2, TokensAssumption DEF MemberInv, MemberTyped, Exclusive, HandlerOf, Free, Tokens
<1>5. TokensSpentOnce'
  BY <1>1, <1>2 DEF MemberInv, MemberTyped, TokensSpentOnce, Tokens
<1> QED
  BY <1>3, <1>4, <1>5 DEF MemberInv

\* A new invite leaves those that somebody is accepting, or has accepted, alone.
LEMMA InviteKeeps ==
  ASSUME MemberInv, NEW c \in Callers, CommitInvite(c)
  PROVE  MemberInv'
<1>1. CASE Leaves(c) /\ invite' = invite
  BY <1>1, ChecksKeep DEF CommitInvite
<1>2. CASE ~(Leaves(c) /\ invite' = invite)
  <2> DEFINE retired(i) == IF invite[i].state = "expired" THEN [invite[i] EXCEPT !.state = "retired"]
                                                          ELSE invite[i]
  <2>1. PICK n, company, role :
          /\ n \in Invites /\ invite[n].state = "unsent"
          /\ invite' = [[i \in Invites |-> retired(i)] EXCEPT ![n] =
                          [state |-> "open", company |-> company, role |-> role]]
          /\ Commits(c, Free, n)
    BY <1>2 DEF CommitInvite
  <2>2. /\ caller' = [x \in Callers |->
             IF x = c THEN Free ELSE [caller[x] EXCEPT !.alone = @ /\ caller[x].at = "idle"]]
        /\ UNCHANGED <<link, opened, joins>>
    BY <2>1 DEF CommitInvite, Commits
  <2>3. \A d \in Callers \ {c} :
          /\ caller'[d].op = caller[d].op /\ caller'[d].at = caller[d].at
          /\ caller'[d].item = caller[d].item /\ Proper(caller'[d])
    BY <2>2 DEF MemberInv, MemberTyped, Proper
  <2>4. Proper(Free) /\ Free.item = None /\ caller'[c] = Free
    BY <2>2 DEF Proper, Free
  <2>5. \A i \in Invites :
          /\ invite'[i] = [state |-> invite'[i].state, company |-> invite'[i].company,
                           role |-> invite'[i].role]
          /\ invite[i].state \in {"open", "used"} => invite'[i].state = invite[i].state
          /\ invite'[i].state = "used" => invite[i].state = "used"
    <3> SUFFICES ASSUME NEW i \in Invites
                 PROVE  /\ invite'[i] = [state |-> invite'[i].state, company |-> invite'[i].company,
                                          role |-> invite'[i].role]
                        /\ invite[i].state \in {"open", "used"} => invite'[i].state = invite[i].state
                        /\ invite'[i].state = "used" => invite[i].state = "used"
      OBVIOUS
    <3>1. invite[i] = [state |-> invite[i].state, company |-> invite[i].company,
                       role |-> invite[i].role]
      BY DEF MemberInv, MemberTyped
    <3>2. CASE i = n
      BY <2>1, <3>2
    <3>3. CASE i # n
      <4>1. invite'[i] = retired(i)
        BY <2>1, <3>3
      <4> QED
        BY <3>1, <4>1
    <3> QED
      BY <3>2, <3>3
  <2>6. invite' = [i \in Invites |-> invite'[i]]
    BY <2>1
  <2>7. MemberTyped'
    BY <2>2, <2>3, <2>4, <2>5, <2>6 DEF MemberInv, MemberTyped
  <2>8. Exclusive'
    <3>1. \A d \in Callers, op \in {"confirm", "accept"}, x \in Tokens : HandlerOf(d, op, x)' =>
            d # c /\ HandlerOf(d, op, x) /\ caller'[d].at = caller[d].at
      BY <2>3, <2>4, TokensAssumption DEF HandlerOf, Tokens
    <3>2. ASSUME NEW d \in Callers, NEW l \in Links, HandlerOf(d, "confirm", l)'
          PROVE  link'[l] = "open" /\ \A e \in Callers \ {d} : ~HandlerOf(e, "confirm", l)'
      BY <2>2, <3>1, <3>2 DEF MemberInv, Exclusive, Tokens
    <3>3. ASSUME NEW d \in Callers, NEW i \in Invites, HandlerOf(d, "accept", i)'
          PROVE  /\ \A e \in Callers \ {d} : ~HandlerOf(e, "accept", i)'
                 /\ opened'[i] = 0
                 /\ invite'[i].state = IF caller'[d].at = "joined" THEN "used" ELSE "open"
      <4>1. /\ \A e \in Callers \ {d} : ~HandlerOf(e, "accept", i)
            /\ opened[i] = 0
            /\ invite[i].state = IF caller[d].at = "joined" THEN "used" ELSE "open"
            /\ caller'[d].at = caller[d].at
        BY <3>1, <3>3 DEF MemberInv, Exclusive, Tokens
      <4>2. \A e \in Callers \ {d} : ~HandlerOf(e, "accept", i)'
        BY <3>1, <4>1 DEF Tokens
      <4>3. invite'[i].state = invite[i].state
        BY <2>5, <4>1
      <4> QED
        BY <2>2, <4>1, <4>2, <4>3
    <3> QED
      BY <3>2, <3>3 DEF Exclusive
  <2>9. TokensSpentOnce'
    BY <2>2, <2>5 DEF MemberInv, TokensSpentOnce
  <2> QED
    BY <2>7, <2>8, <2>9 DEF MemberInv
<1> QED
  BY <1>1, <1>2

\* Links are sent, items expire, accounts and sessions change, the server restarts.
LEMMA SurroundingsKeep ==
  ASSUME MemberInv,
         \/ \E l \in Links : RequestLink(l)
         \/ Expires \/ Deactivate \/ CloseSession \/ Bootstrap
  PROVE  MemberInv'
<1>1. ASSUME NEW l \in Links, RequestLink(l) PROVE MemberInv'
  <2>1. /\ link[l] = "unsent" /\ link' = [link EXCEPT ![l] = "open"]
        /\ UNCHANGED <<invite, caller, opened, joins>>
    BY <1>1 DEF RequestLink, Unchecked
  <2> QED
    BY <2>1 DEF MemberInv, MemberTyped, Exclusive, HandlerOf, TokensSpentOnce
<1>2. CASE Expires
  <2>1. /\ UNCHANGED <<caller, opened, joins>>
        /\ \/ \E l \in Links : /\ link[l] = "open" /\ ~Holds("confirm", l) /\ invite' = invite
                               /\ link' = [link EXCEPT ![l] = "expired"]
           \/ \E i \in Invites : /\ invite[i].state = "open" /\ ~Holds("accept", i) /\ link' = link
                                 /\ invite' = [invite EXCEPT ![i].state = "expired"]
    BY <1>2 DEF Expires, Unchecked
  <2>2. ASSUME NEW d \in Callers, NEW op \in {"confirm", "accept"}, NEW x \in Tokens,
               HandlerOf(d, op, x), caller[d].at # "joined"
        PROVE  Holds(op, x)
    BY <2>2, TokensAssumption DEF MemberInv, MemberTyped, Proper, HandlerOf, Holds, Tokens
  <2>3. ASSUME NEW d \in Callers, caller[d].at = "joined", NEW l \in Links
        PROVE  ~HandlerOf(d, "confirm", l)
    BY <2>3, TokensAssumption DEF MemberInv, MemberTyped, Proper, HandlerOf
  <2>4. MemberTyped'
    BY <2>1 DEF MemberInv, MemberTyped
  <2>5. Exclusive'
    <3>1. ASSUME NEW l \in Links, link[l] = "open", ~Holds("confirm", l), invite' = invite,
                 link' = [link EXCEPT ![l] = "expired"]
          PROVE  Exclusive'
      BY <2>1, <2>2, <2>3, <3>1 DEF MemberInv, MemberTyped, Exclusive, HandlerOf, Tokens
    <3>2. ASSUME NEW i \in Invites, invite[i].state = "open", ~Holds("accept", i), link' = link,
                 invite' = [invite EXCEPT ![i].state = "expired"]
          PROVE  Exclusive'
      BY <2>1, <2>2, <3>2 DEF MemberInv, MemberTyped, Exclusive, HandlerOf, Tokens
    <3> QED
      BY <2>1, <3>1, <3>2
  <2>6. TokensSpentOnce'
    BY <2>1 DEF MemberInv, MemberTyped, TokensSpentOnce
  <2> QED
    BY <2>4, <2>5, <2>6 DEF MemberInv
<1>3. CASE Deactivate \/ CloseSession
  BY <1>3 DEF Deactivate, CloseSession, Unchecked, MemberInv, MemberTyped, Exclusive, HandlerOf,
     TokensSpentOnce
<1>4. CASE Bootstrap
  <2>1. caller' = [c \in Callers |-> Free] /\ UNCHANGED <<link, invite, opened, joins>>
    BY <1>4 DEF Bootstrap
  <2> QED
    BY <2>1, TokensAssumption DEF MemberInv, MemberTyped, Proper, Free, Exclusive, HandlerOf,
       TokensSpentOnce
<1> QED
  BY <1>1, <1>2, <1>3, <1>4

\* Every step keeps the invariant.
LEMMA MemberStep == MemberInv /\ [MemberNext]_memberVars => MemberInv'
<1> SUFFICES ASSUME MemberInv, [MemberNext]_memberVars PROVE MemberInv'
  OBVIOUS
<1>1. CASE UNCHANGED memberVars
  BY <1>1 DEF memberVars, MemberInv, MemberTyped, Exclusive, HandlerOf, TokensSpentOnce
<1> QED
  BY <1>1, ChecksKeep, OthersKeep, ClaimsKeep, LoginKeeps, AcceptanceKeeps, SessionKeeps,
     InviteKeeps, SurroundingsKeep DEF MemberNext

\* Whatever handlers overlap, fail or die: a used link opened one session, a used invite
\* gave one membership and at most one session, an unused one neither.
THEOREM TokensSpentOnceAlways == MemberSpec => []TokensSpentOnce
<1>1. MemberInv => TokensSpentOnce
  BY DEF MemberInv
<1> QED
  BY <1>1, MembersStart, MemberStep, PTL DEF MemberSpec

(* ------------------------- who is in which company ----------------------- *)
Homeless(p) == p = None \/ p.company = None
IsUser(p) ==
  \E company, role, active, super :
    /\ active \in BOOLEAN /\ super \in BOOLEAN
    /\ p = [company |-> company, role |-> role, active |-> active, super |-> super]

\* What a handler that is alone has checked: the address is in no company, ...
Joining(k) ==
  \/ k.op \in {"accept", "invite", "assign"} /\ k.at = "checked"
  \/ k.op = "org" /\ k.at # "idle"

\* ... and no invite is open.
Clear(k) ==
  \/ k.op = "assign" /\ k.at # "idle"
  \/ k.op = "org" /\ k.at \in {"checked", "inn", "founded"}

Undisturbed(k, p, invites) ==
  /\ k.at # "idle" /\ k.base # None => IsUser(p)
  /\ k.alone /\ Joining(k) => Homeless(p)
  /\ k.alone /\ Clear(k) => Pending(invites) = {}

JoinInv ==
  /\ person = None \/ IsUser(person)
  /\ \A c \in Callers : Undisturbed(caller[c], person, invite)
  /\ \A i, j \in Pending(invite) : i = j
  /\ InviteOrCompany

\* A record with a user's fields.
LEMMA UserRow ==
  ASSUME NEW p, NEW company, NEW role, NEW active \in BOOLEAN, NEW super \in BOOLEAN,
         p = [company |-> company, role |-> role, active |-> active, super |-> super]
  PROVE  IsUser(p) /\ p.company = company /\ p.role = role
<1>1. p.company = company /\ p.role = role
  OBVIOUS
<1>2. IsUser(p)
  BY Zenon DEF IsUser
<1> QED
  BY <1>1, <1>2

\* The row of a user who has just been made.
LEMMA NewUser ==
  /\ IsUser(NewPerson) /\ NewPerson.company = None
  /\ IsUser([NewPerson EXCEPT !.super = TRUE])
  /\ [NewPerson EXCEPT !.super = TRUE].company = None
<1>1. PICK on \in BOOLEAN, off \in BOOLEAN : on = TRUE /\ off = FALSE
  OBVIOUS
<1>2. NewPerson = [company |-> None, role |-> None, active |-> on, super |-> off]
  BY <1>1, Zenon DEF NewPerson
<1>3. [NewPerson EXCEPT !.super = on] = [company |-> None, role |-> None, active |-> on, super |-> on]
  BY <1>2
<1>4. [NewPerson EXCEPT !.super = TRUE] = [NewPerson EXCEPT !.super = on]
  BY <1>1, Zenon
<1>5. IsUser(NewPerson) /\ NewPerson.company = None
  BY <1>2, UserRow
<1>6. \A p : p = [company |-> None, role |-> None, active |-> on, super |-> on]
               => IsUser(p) /\ p.company = None
  BY UserRow
<1> QED
  BY <1>3, <1>4, <1>5, <1>6

\* A user who joins a company, new or not.
LEMMA JoinedUser ==
  ASSUME NEW p, NEW base, NEW company, NEW role, base # None => IsUser(p)
  PROVE  /\ IsUser(Joined(p, base, company, role))
         /\ Joined(p, base, company, role).company = company
         /\ Joined(p, base, company, role).role = role
<1> DEFINE q == IF base = None THEN NewPerson ELSE p
<1>0. IsUser(q)
  BY NewUser
<1>1. PICK a, b, active, super :
        /\ active \in BOOLEAN /\ super \in BOOLEAN
        /\ q = [company |-> a, role |-> b, active |-> active, super |-> super]
  BY <1>0, Zenon DEF IsUser
<1> DEFINE m == [q EXCEPT !.company = company]
           n == [m EXCEPT !.role = role]
<1>2. m = [company |-> company, role |-> b, active |-> active, super |-> super]
  BY <1>1
<1> HIDE DEF q, m
<1>3. n = [company |-> company, role |-> role, active |-> active, super |-> super]
  BY <1>2
<1>4. PICK on \in BOOLEAN : on = (active \/ ~base.active)
  OBVIOUS
<1> HIDE DEF n
<1>5. [n EXCEPT !.active = on]
        = [company |-> company, role |-> role, active |-> on, super |-> super]
  BY <1>3
<1> DEFINE j == Joined(p, base, company, role)
<1>6. CASE base = None
  <2>1. j = n
    BY <1>6, Zenon DEF Joined, n, m, q
  <2> HIDE DEF j
  <2>2. j = [company |-> company, role |-> role, active |-> active, super |-> super]
    BY <1>3, <2>1
  <2>3. IsUser(j) /\ j.company = company /\ j.role = role
    BY <1>1, <2>2, UserRow
  <2> QED
    BY <2>3 DEF j
<1>7. CASE base # None
  <2>1. j = [n EXCEPT !.active = p.active \/ ~base.active]
    BY <1>7 DEF Joined, n, m, q
  <2>2. p.active = active
    BY <1>1, <1>7 DEF q
  <2>3. j = [n EXCEPT !.active = on]
    BY <1>4, <2>1, <2>2, Zenon
  <2> HIDE DEF j
  <2>4. j = [company |-> company, role |-> role, active |-> on, super |-> super]
    BY <1>5, <2>3
  <2>5. IsUser(j) /\ j.company = company /\ j.role = role
    BY <1>1, <1>4, <2>4, UserRow
  <2> QED
    BY <2>5 DEF j
<1> QED
  BY <1>6, <1>7

\* A user who is deactivated.
LEMMA DeactivatedUser ==
  ASSUME NEW p, IsUser(p)
  PROVE  IsUser([p EXCEPT !.active = FALSE]) /\ [p EXCEPT !.active = FALSE].company = p.company
<1>1. PICK a, b, active, super :
        /\ active \in BOOLEAN /\ super \in BOOLEAN
        /\ p = [company |-> a, role |-> b, active |-> active, super |-> super]
  BY DEF IsUser
<1>2. PICK off \in BOOLEAN : off = FALSE
  OBVIOUS
<1>3. [p EXCEPT !.active = off] = [company |-> a, role |-> b, active |-> off, super |-> super]
  BY <1>1
<1>4. IsUser([p EXCEPT !.active = off]) /\ [p EXCEPT !.active = off].company = p.company
  BY <1>1, <1>3, UserRow
<1> QED
  BY <1>2, <1>4

\* At first there is no user.
LEMMA JoinStarts == MemberInit => JoinInv
  BY DEF MemberInit, JoinInv, Undisturbed, Joining, Clear, Free, Pending, InviteOrCompany

\* The fields of a handler that goes on or gives up.
LEMMA Moves ==
  ASSUME MemberInv, NEW c \in Callers, NEW k, caller' = [caller EXCEPT ![c] = k]
  PROVE  caller'[c] = k /\ \A d \in Callers \ {c} : caller'[d] = caller[d]
  BY DEF MemberInv, MemberTyped

\* Such a step, when its own handler stays right.
LEMMA MovesJoin ==
  ASSUME MemberInv, JoinInv, NEW c \in Callers, NEW k, caller' = [caller EXCEPT ![c] = k],
         person' = person, invite' = invite, raced' = raced, Undisturbed(k, person, invite)
  PROVE  JoinInv'
<1>1. caller'[c] = k /\ \A d \in Callers \ {c} : caller'[d] = caller[d]
  BY Moves
<1>2. \A d \in Callers : Undisturbed(caller'[d], person', invite')
  BY <1>1 DEF JoinInv, Undisturbed, Homeless, IsUser
<1> QED
  BY <1>2 DEF JoinInv, IsUser, InviteOrCompany

\* The handlers that read, and those that give up.
LEMMA ReadersJoin ==
  ASSUME MemberInv, JoinInv, NEW c \in Callers,
         \/ (\E l \in Links : ClaimLink(c, l)) \/ (\E i \in Invites : ClaimInvite(c, i))
         \/ (\E company \in Companies, op \in {"invite", "assign"} : FindNoInvite(c, company, op))
         \/ (\E inn \in Inns : CheckInn(c, inn))
         \/ LookUpUser(c) \/ CheckInvitee(c) \/ CheckFree(c) \/ StartOrg(c)
         \/ CheckPendingInvite(c) \/ OpenInviteSession(c) \/ Dies(c)
  PROVE  JoinInv'
<1>1. /\ person' = person /\ invite' = invite /\ raced' = raced
  BY DEF ClaimLink, ClaimInvite, FindNoInvite, CheckInn, LookUpUser, CheckInvitee, CheckFree,
     StartOrg, CheckPendingInvite, OpenInviteSession, Dies, Unchecked
<1>2. Undisturbed(Free, person, invite)
  BY DEF Undisturbed, Joining, Clear, Free
<1>3. CASE Leaves(c)
  BY <1>1, <1>2, <1>3, MovesJoin DEF Leaves
<1>4. Proper(caller[c]) /\ Undisturbed(caller[c], person, invite) /\ (person = None \/ IsUser(person))
  BY DEF MemberInv, MemberTyped, JoinInv
<1>5. ASSUME NEW op, NEW base, NEW item, NEW company,
             Starts(c, op, "claimed", base, item, company), base # None => IsUser(person),
             op = "org" => Homeless(person), op = "assign" => Pending(invite) = {}
      PROVE  JoinInv'
  <2> DEFINE k == [op |-> op, at |-> "claimed", base |-> base, item |-> item,
                   company |-> company, alone |-> TRUE]
  <2>1. Undisturbed(k, person, invite)
    BY <1>5 DEF Undisturbed, Joining, Clear
  <2> QED
    BY <1>1, <1>5, <2>1, MovesJoin DEF Starts
<1>6. CASE \/ (\E l \in Links : ClaimLink(c, l)) \/ (\E i \in Invites : ClaimInvite(c, i))
           \/ (\E company \in Companies, op \in {"invite", "assign"} : FindNoInvite(c, company, op))
  BY <1>5, <1>6 DEF ClaimLink, ClaimInvite, FindNoInvite
<1>7. CASE StartOrg(c)
  BY <1>4, <1>5, <1>7 DEF StartOrg, MayJoin, Homeless
<1>8. CASE ~Leaves(c) /\ (LookUpUser(c) \/ CheckInvitee(c) \/ CheckFree(c))
  <2> DEFINE k == [op |-> caller[c].op, at |-> "checked", base |-> person,
                   item |-> caller[c].item, company |-> caller[c].company,
                   alone |-> caller[c].alone]
  <2>1. [caller[c] EXCEPT !.at = "checked", !.base = person] = k
    BY <1>4, NextStep
  <2>2. /\ caller' = [caller EXCEPT ![c].at = "checked", ![c].base = person]
        /\ caller[c].at = "claimed" /\ caller[c].op \in {"confirm", "accept", "invite", "assign"}
        /\ caller[c].op # "confirm" => Homeless(person)
    BY <1>8 DEF LookUpUser, CheckInvitee, CheckFree, MayJoin, Homeless
  <2>3. caller' = [caller EXCEPT ![c] = k]
    BY <2>1, <2>2
  <2>4. Undisturbed(k, person, invite)
    BY <1>4, <2>2 DEF Undisturbed, Joining, Clear
  <2> HIDE DEF k
  <2> QED
    BY <1>1, <2>3, <2>4, MovesJoin
<1>9. CASE ~Leaves(c) /\ CheckPendingInvite(c)
  <2> DEFINE k == [op |-> caller[c].op, at |-> "checked", base |-> caller[c].base,
                   item |-> caller[c].item, company |-> caller[c].company,
                   alone |-> caller[c].alone]
  <2>1. [caller[c] EXCEPT !.at = "checked"] = k
    BY <1>4 DEF Proper
  <2>2. /\ caller' = [caller EXCEPT ![c] = k]
        /\ caller[c].at = "claimed" /\ caller[c].op = "org" /\ Pending(invite) = {}
    BY <1>9, <2>1 DEF CheckPendingInvite, Goes
  <2>3. Undisturbed(k, person, invite)
    BY <1>4, <2>2 DEF Undisturbed, Joining, Clear
  <2> HIDE DEF k
  <2> QED
    BY <1>1, <2>2, <2>3, MovesJoin
<1>10. ASSUME NEW inn \in Inns, ~Leaves(c), CheckInn(c, inn) PROVE JoinInv'
  <2> DEFINE k == [op |-> caller[c].op, at |-> "inn", base |-> caller[c].base, item |-> inn,
                   company |-> caller[c].company, alone |-> caller[c].alone]
  <2>1. [caller[c] EXCEPT !.at = "inn", !.item = inn] = k
    BY <1>4, NextStep
  <2>2. /\ caller' = [caller EXCEPT ![c] = k] /\ caller[c].at = "checked" /\ caller[c].op = "org"
    BY <1>10, <2>1 DEF CheckInn
  <2>3. Undisturbed(k, person, invite)
    BY <1>4, <2>2 DEF Undisturbed, Joining, Clear
  <2> HIDE DEF k
  <2> QED
    BY <1>1, <2>2, <2>3, MovesJoin
<1> QED
  BY <1>3, <1>6, <1>7, <1>8, <1>9, <1>10 DEF OpenInviteSession, Dies

\* A commit of a company, an invite or a membership: nobody else is alone after it.
LEMMA CommitsJoin ==
  ASSUME MemberInv, JoinInv, NEW c \in Callers, NEW k, NEW x, Commits(c, k, x),
         Undisturbed(k, person', invite'), InviteOrCompany',
         IsUser(person) => IsUser(person'), person' = None \/ IsUser(person'),
         \A i, j \in Pending(invite') : i = j
  PROVE  JoinInv'
<1>1. caller' = [d \in Callers |->
         IF d = c THEN k ELSE [caller[d] EXCEPT !.alone = @ /\ caller[d].at = "idle"]]
  BY DEF Commits
<1>2. ASSUME NEW d \in Callers, d # c PROVE Undisturbed(caller'[d], person', invite')
  <2>1. /\ caller'[d].op = caller[d].op /\ caller'[d].at = caller[d].at
        /\ caller'[d].base = caller[d].base /\ caller'[d].item = caller[d].item
        /\ caller'[d].alone = (caller[d].alone /\ caller[d].at = "idle")
    BY <1>1, <1>2 DEF MemberInv, MemberTyped, Proper
  <2>2. Undisturbed(caller[d], person, invite)
    BY DEF JoinInv
  <2> QED
    BY <2>1, <2>2 DEF Undisturbed, Joining, Clear
<1>3. caller'[c] = k
  BY <1>1
<1>4. Undisturbed(caller'[c], person', invite')
  BY <1>3 DEF Undisturbed
<1> QED
  BY <1>2, <1>4 DEF JoinInv

\* The handlers that commit.
LEMMA WritersJoin ==
  ASSUME MemberInv, JoinInv, NEW c \in Callers,
         CommitAcceptance(c) \/ CommitInvite(c) \/ CommitAssignment(c) \/ CommitCompany(c)
         \/ CommitOwner(c)
  PROVE  JoinInv'
<1>1. /\ Proper(caller[c]) /\ Undisturbed(caller[c], person, invite) /\ (person = None \/ IsUser(person))
      /\ \A i, j \in Pending(invite) : i = j
      /\ InviteOrCompany
  BY DEF MemberInv, MemberTyped, JoinInv
<1>2. Undisturbed(Free, person, invite) /\ Undisturbed(Free, person', invite')
  BY DEF Undisturbed, Joining, Clear, Free
<1>3. ASSUME Leaves(c), person' = person, invite' = invite, raced' = raced PROVE JoinInv'
  BY <1>2, <1>3, MovesJoin DEF Leaves
<1>4. CASE CommitAcceptance(c)
  <2> DEFINE i == caller[c].item
             k == [op |-> caller[c].op, at |-> "joined", base |-> caller[c].base, item |-> i,
                   company |-> caller[c].company, alone |-> caller[c].alone]
  <2>1. CASE Leaves(c) /\ UNCHANGED <<person, invite, raced>>
    BY <1>3, <2>1
  <2>2. CASE ~(Leaves(c) /\ UNCHANGED <<person, invite, raced>>)
    <3>1. [caller[c] EXCEPT !.at = "joined"] = k
      BY <1>1 DEF Proper
    <3>2. /\ Commits(c, k, caller[c].company) /\ caller[c].op = "accept" /\ caller[c].at = "checked"
          /\ person' = Joined(person, caller[c].base, caller[c].company, invite[i].role)
          /\ invite' = [invite EXCEPT ![i].state = "used"]
      BY <1>4, <2>2, <3>1 DEF CommitAcceptance
    <3>3. IsUser(person')
      BY <1>1, <3>2, JoinedUser DEF Undisturbed
    <3>4. Undisturbed(k, person', invite')
      BY <3>2, <3>3 DEF Undisturbed, Joining, Clear
    <3>5. i \in Pending(invite) /\ i \in Invites
      BY <3>2, TokensAssumption DEF MemberInv, MemberTyped, Proper, Exclusive, HandlerOf, Pending
    <3>6. Pending(invite') = {}
      <4>1. ASSUME NEW j \in Invites, invite'[j].state = "open" PROVE FALSE
        <5>1. CASE j = i
          BY <3>2, <3>5, <4>1, <5>1 DEF MemberInv, MemberTyped
        <5>2. CASE j # i
          BY <1>1, <3>2, <3>5, <4>1, <5>2 DEF MemberInv, MemberTyped, Pending
        <5> QED
          BY <5>1, <5>2
      <4> QED
        BY <4>1 DEF Pending
    <3>7. InviteOrCompany'
      BY <3>6 DEF InviteOrCompany, Pending
    <3> HIDE DEF k
    <3> QED
      BY <3>2, <3>3, <3>4, <3>6, <3>7, CommitsJoin
  <2> QED
    BY <2>1, <2>2
<1>5. CASE CommitInvite(c)
  <2>1. CASE Leaves(c) /\ UNCHANGED <<invite, raced>>
    BY <1>3, <1>5, <2>1 DEF CommitInvite
  <2>2. CASE ~(Leaves(c) /\ UNCHANGED <<invite, raced>>)
    <3> DEFINE retired(i) == IF invite[i].state = "expired" THEN [invite[i] EXCEPT !.state = "retired"]
                                                            ELSE invite[i]
    <3>1. PICK n, company, role :
            /\ n \in Invites /\ Pending(invite) = {}
            /\ invite' = [[i \in Invites |-> retired(i)] EXCEPT ![n] =
                            [state |-> "open", company |-> company, role |-> role]]
            /\ Commits(c, Free, n) /\ person' = person
            /\ caller[c].at = "checked" /\ caller[c].op \in {"invite", "assign"}
      BY <1>5, <2>2 DEF CommitInvite
    <3>2. ASSUME NEW j \in Invites, j # n PROVE invite'[j].state # "open"
      <4>1. invite'[j] = retired(j) /\ invite[j].state # "open"
        BY <3>1, <3>2 DEF Pending
      <4> QED
        BY <4>1 DEF MemberInv, MemberTyped
    <3>3. \A i, j \in Pending(invite') : i = j
      BY <3>2 DEF Pending
    <3>4. caller[c].alone => Homeless(person)
      BY <1>1, <3>1 DEF Undisturbed, Joining
    <3>5. InviteOrCompany'
      <4>1. CASE caller[c].alone
        BY <3>1, <3>4, <4>1 DEF InviteOrCompany, Homeless
      <4>2. CASE ~caller[c].alone
        <5>1. n \in raced' /\ Pending(invite') \subseteq {n}
          BY <3>1, <3>2, <4>2 DEF Commits, Pending
        <5> QED
          BY <5>1 DEF InviteOrCompany
      <4> QED
        BY <4>1, <4>2
    <3> QED
      BY <1>1, <1>2, <3>1, <3>3, <3>5, CommitsJoin DEF IsUser
  <2> QED
    BY <2>1, <2>2
<1>6. CASE CommitCompany(c)
  <2>1. PICK o \in Orgs : Commits(c, [caller[c] EXCEPT !.at = "founded", !.company = o], o)
    BY <1>6 DEF CommitCompany
  <2> DEFINE k == [op |-> caller[c].op, at |-> "founded", base |-> caller[c].base,
                   item |-> caller[c].item, company |-> o, alone |-> caller[c].alone]
  <2>2. [caller[c] EXCEPT !.at = "founded", !.company = o] = k
    BY <1>1, NextStep
  <2>3. /\ Commits(c, k, o) /\ person' = person /\ invite' = invite
        /\ caller[c].op = "org" /\ caller[c].at = "inn"
    BY <1>6, <2>1, <2>2 DEF CommitCompany
  <2>4. Undisturbed(k, person', invite')
    BY <1>1, <2>3 DEF Undisturbed, Joining, Clear, Homeless, IsUser
  <2>5. InviteOrCompany'
    <3>1. raced \subseteq raced'
      BY <2>3 DEF Commits
    <3> QED
      BY <1>1, <2>3, <3>1 DEF InviteOrCompany
  <2> HIDE DEF k
  <2> QED
    BY <1>1, <2>3, <2>4, <2>5, CommitsJoin DEF IsUser
<1>7. CASE CommitAssignment(c) \/ CommitOwner(c)
  <2>1. /\ Commits(c, Free, caller[c].company) /\ invite' = invite
        /\ \E role : person' = Joined(person, caller[c].base, caller[c].company, role)
        /\ \/ caller[c].op = "assign" /\ caller[c].at = "checked"
           \/ caller[c].op = "org" /\ caller[c].at = "founded"
    BY <1>7 DEF CommitAssignment, CommitOwner
  <2>2. IsUser(person') /\ person'.company = caller[c].company
    BY <1>1, <2>1, JoinedUser DEF Undisturbed
  <2>3. InviteOrCompany'
    <3>1. CASE caller[c].alone
      BY <1>1, <2>1, <3>1 DEF Undisturbed, Clear, InviteOrCompany
    <3>2. CASE ~caller[c].alone
      BY <2>1, <2>2, <3>2 DEF Commits, InviteOrCompany
    <3> QED
      BY <3>1, <3>2
  <2> QED
    BY <1>1, <1>2, <2>1, <2>2, <2>3, CommitsJoin
<1> QED
  BY <1>4, <1>5, <1>6, <1>7

\* A log-in, and what happens around the handlers.
LEMMA SurroundingsJoin ==
  ASSUME MemberInv, JoinInv,
         \/ \E c \in Callers : CommitLogin(c)
         \/ \E l \in Links : RequestLink(l)
         \/ Expires \/ Deactivate \/ CloseSession \/ Bootstrap
  PROVE  JoinInv'
<1>1. ASSUME NEW c \in Callers, CommitLogin(c) PROVE JoinInv'
  <2>1. /\ caller' = [caller EXCEPT ![c] = Free] /\ invite' = invite /\ raced' = raced
        /\ person' = person \/ (person = None /\ person' = NewPerson)
    BY <1>1 DEF CommitLogin, Leaves
  <2>2. Undisturbed(Free, person, invite)
    BY DEF Undisturbed, Joining, Clear, Free
  <2>3. CASE person' = person
    BY <2>1, <2>2, <2>3, MovesJoin
  <2>4. CASE person = None /\ person' = NewPerson
    <3>1. IsUser(person') /\ person'.company = None
      BY <2>4, NewUser
    <3>2. caller'[c] = Free /\ \A d \in Callers \ {c} : caller'[d] = caller[d]
      BY <2>1, Moves
    <3>3. \A d \in Callers : Undisturbed(caller'[d], person', invite')
      BY <2>1, <3>1, <3>2 DEF JoinInv, Undisturbed, Homeless, Joining, Clear, Free
    <3> QED
      BY <2>1, <3>1, <3>3 DEF JoinInv, InviteOrCompany
  <2> QED
    BY <2>1, <2>3, <2>4
<1>2. ASSUME caller' = caller, raced' = raced, Pending(invite') \subseteq Pending(invite),
             \/ person' = person
             \/ person' = [person EXCEPT !.active = FALSE] /\ person # None
      PROVE  JoinInv'
  <2>1. /\ IsUser(person) => IsUser(person') /\ (person # None => person'.company = person.company)
        /\ person' = None \/ IsUser(person')
        /\ person = None => person' = None
    BY <1>2, DeactivatedUser DEF JoinInv
  <2>2. \A d \in Callers : Undisturbed(caller'[d], person', invite')
    BY <1>2, <2>1 DEF JoinInv, Undisturbed, Homeless
  <2> QED
    BY <1>2, <2>1, <2>2 DEF JoinInv, InviteOrCompany
<1>3. ASSUME NEW l \in Links, RequestLink(l) PROVE JoinInv'
  BY <1>2, <1>3 DEF RequestLink, Unchecked
<1>4. CASE Expires
  <2>1. Pending(invite') \subseteq Pending(invite)
    BY <1>4 DEF Expires, Pending, MemberInv, MemberTyped
  <2> QED
    BY <1>2, <1>4, <2>1 DEF Expires, Unchecked
<1>5. CASE Deactivate \/ CloseSession
  BY <1>2, <1>5 DEF Deactivate, CloseSession, Unchecked
<1>6. CASE Bootstrap
  <2>1. /\ person' = [NewPerson EXCEPT !.super = TRUE] /\ caller' = [c \in Callers |-> Free]
        /\ UNCHANGED <<invite, raced>>
    BY <1>6 DEF Bootstrap
  <2>2. IsUser(person') /\ person'.company = None
    BY <2>1, NewUser
  <2>3. \A d \in Callers : Undisturbed(caller'[d], person', invite')
    BY <2>1 DEF Undisturbed, Joining, Clear, Free
  <2> QED
    BY <2>1, <2>2, <2>3 DEF JoinInv, InviteOrCompany
<1> QED
  BY <1>1, <1>3, <1>4, <1>5, <1>6

\* Every step keeps what the handlers have checked.
LEMMA JoinStep == MemberInv /\ JoinInv /\ [MemberNext]_memberVars => JoinInv'
<1> SUFFICES ASSUME MemberInv, JoinInv, [MemberNext]_memberVars PROVE JoinInv'
  OBVIOUS
<1>1. CASE UNCHANGED memberVars
  BY <1>1 DEF memberVars, JoinInv, Undisturbed, Homeless, IsUser, InviteOrCompany
<1> QED
  BY <1>1, ReadersJoin, WritersJoin, SurroundingsJoin DEF MemberNext

\* An address with a company has no open invite, unless an overtaken handler gave it that
\* invite or that company.
THEOREM InviteOrCompanyAlways == MemberSpec => []InviteOrCompany
<1>1. JoinInv => InviteOrCompany
  BY DEF JoinInv
<1> QED
  BY <1>1, MembersStart, MemberStep, JoinStarts, JoinStep, PTL DEF MemberSpec

\* A member is moved to another company only by a handler that another one has overtaken,
\* or leaves it by becoming the superadmin.
THEOREM CompanyAlwaysKept == MemberSpec => CompanyKept
<1> DEFINE Stays ==
      person # None /\ person.company # None /\ person'.company # person.company
        => \/ person'.super
           \/ \E c \in Callers : /\ ~caller[c].alone /\ caller'[c].at # caller[c].at
                                  /\ person'.company = caller[c].company
<1>1. ASSUME MemberInv, JoinInv, MemberNext, person # None, person.company # None,
             person'.company # person.company
      PROVE  \/ person'.super
             \/ \E c \in Callers : /\ ~caller[c].alone /\ caller'[c].at # caller[c].at
                                    /\ person'.company = caller[c].company
  <2>1. ASSUME NEW c \in Callers, Joining(caller[c]) PROVE ~caller[c].alone
    BY <1>1, <2>1 DEF JoinInv, Undisturbed, Homeless
  <2>2. ASSUME NEW c \in Callers, CommitAcceptance(c) \/ CommitAssignment(c) \/ CommitOwner(c)
        PROVE  /\ ~caller[c].alone /\ caller'[c].at # caller[c].at
               /\ person'.company = caller[c].company
    <3>1. Joining(caller[c]) /\ caller[c].at \in {"checked", "founded"}
      BY <1>1, <2>2 DEF CommitAcceptance, CommitAssignment, CommitOwner, Joining
    <3>2. caller'[c].at \in {"joined", "idle"}
      <4>1. Proper(caller[c])
        BY <1>1 DEF MemberInv, MemberTyped
      <4>2. caller'[c] = Free \/ caller'[c] = [caller[c] EXCEPT !.at = "joined"]
        BY <1>1, <2>2 DEF CommitAcceptance, CommitAssignment, CommitOwner, Commits
      <4> QED
        BY <4>1, <4>2 DEF Free, Proper
    <3>3. \E role : person' = Joined(person, caller[c].base, caller[c].company, role)
      BY <1>1, <2>2 DEF CommitAcceptance, CommitAssignment, CommitOwner
    <3>4. person'.company = caller[c].company
      BY <1>1, <3>1, <3>3, JoinedUser DEF JoinInv, Undisturbed
    <3> QED
      BY <2>1, <3>1, <3>2, <3>4
  <2>3. CASE Deactivate
    BY <1>1, <2>3 DEF Deactivate, JoinInv, IsUser
  <2>4. CASE Bootstrap
    BY <2>4 DEF Bootstrap, NewPerson
  <2>5. (\E c \in Callers : CommitAcceptance(c) \/ CommitAssignment(c) \/ CommitOwner(c))
        \/ Deactivate \/ Bootstrap
    BY <1>1 DEF MemberNext, ClaimLink, ClaimInvite, FindNoInvite, CheckInn, LookUpUser,
       CommitLogin, CheckInvitee, OpenInviteSession, CheckFree, CommitInvite, StartOrg,
       CheckPendingInvite, CommitCompany, Dies, RequestLink, Expires, CloseSession
  <2> QED
    BY <2>2, <2>3, <2>4, <2>5
<1>2. MemberInv /\ JoinInv /\ [MemberNext]_memberVars => [Stays]_person
  BY <1>1 DEF memberVars
<1> QED
  BY <1>2, MembersStart, MemberStep, JoinStarts, JoinStep, PTL DEF MemberSpec, CompanyKept

(* ----------------------------- founded companies ------------------------- *)
Owned(p, o) == p # None /\ p.company = o /\ p.role = "owner"

\* What a handler that is alone has checked of its INN.
InnFree(k) == k.alone /\ k.op = "org" /\ k.at = "inn" => ~InnTaken(k.item)

AccountInv ==
  /\ org = [o \in Orgs |-> org[o]]
  /\ \A c \in Callers : caller[c].at = "founded" => caller[c].op = "org" /\ caller[c].company \in Orgs
  /\ \A c \in Callers : InnFree(caller[c])
  /\ CompaniesAccounted

\* At first there is no company.
LEMMA AccountStarts == MemberInit => AccountInv
  BY DEF MemberInit, AccountInv, InnFree, Free, CompaniesAccounted

\* A company founded by a handler that is still to make its owner.
LEMMA FoundedBy == \A o : o \in Founded <=> \E d \in Callers : caller[d].at = "founded" /\ caller[d].company = o
  BY DEF Founded

\* What becomes of the other handlers when one goes on, leaves or commits.
LEMMA OthersStay ==
  ASSUME MemberInv, NEW c \in Callers, NEW k,
         \/ caller' = [caller EXCEPT ![c] = k]
         \/ caller' = [x \in Callers |->
              IF x = c THEN k ELSE [caller[x] EXCEPT !.alone = @ /\ caller[x].at = "idle"]]
  PROVE  /\ caller'[c] = k
         /\ \A d \in Callers \ {c} :
              /\ caller'[d].op = caller[d].op /\ caller'[d].at = caller[d].at
              /\ caller'[d].item = caller[d].item /\ caller'[d].company = caller[d].company
              /\ caller'[d].alone => caller[d].alone
<1>1. ASSUME NEW d \in Callers, d # c
      PROVE  /\ caller'[d].op = caller[d].op /\ caller'[d].at = caller[d].at
             /\ caller'[d].item = caller[d].item /\ caller'[d].company = caller[d].company
             /\ caller'[d].alone => caller[d].alone
  <2>1. Proper(caller[d])
    BY DEF MemberInv, MemberTyped
  <2>2. caller'[d] = caller[d] \/ caller'[d] = [caller[d] EXCEPT !.alone = @ /\ caller[d].at = "idle"]
    BY <1>1 DEF MemberInv, MemberTyped
  <2>3. CASE caller'[d] = [caller[d] EXCEPT !.alone = @ /\ caller[d].at = "idle"]
    <3>1. /\ caller'[d].op = caller[d].op /\ caller'[d].at = caller[d].at
          /\ caller'[d].item = caller[d].item /\ caller'[d].company = caller[d].company
      BY <2>3
    <3>2. caller'[d].alone = (caller[d].alone /\ caller[d].at = "idle")
      BY <2>1, <2>3 DEF Proper
    <3> QED
      BY <3>1, <3>2
  <2> QED
    BY <2>2, <2>3
<1>2. caller'[c] = k
  BY DEF MemberInv, MemberTyped
<1> QED
  BY <1>1, <1>2

\* A step that founds no company loses none, if the founder it takes away is accounted for.
LEMMA AccountKeeps ==
  ASSUME MemberInv, AccountInv, NEW c \in Callers, NEW k,
         \/ caller' = [caller EXCEPT ![c] = k]
         \/ caller' = [x \in Callers |->
              IF x = c THEN k ELSE [caller[x] EXCEPT !.alone = @ /\ caller[x].at = "idle"]],
         org' = org, raced \subseteq raced', orphaned \subseteq orphaned', k.at # "founded", InnFree(k),
         caller[c].at = "founded" =>
           caller[c].company \in orphaned' \/ Owned(person', caller[c].company),
         \A o \in Orgs : Owned(person, o) => o \in orphaned' \/ Owned(person', o)
  PROVE  AccountInv'
<1>1. /\ caller'[c] = k
      /\ \A d \in Callers \ {c} :
           /\ caller'[d].op = caller[d].op /\ caller'[d].at = caller[d].at
           /\ caller'[d].item = caller[d].item /\ caller'[d].company = caller[d].company
           /\ caller'[d].alone => caller[d].alone
  BY OthersStay
<1>2. \A d \in Callers : caller'[d].at = "founded" => caller'[d].op = "org" /\ caller'[d].company \in Orgs
  BY <1>1 DEF AccountInv
<1>3. \A d \in Callers : InnFree(caller[d])'
  BY <1>1 DEF AccountInv, InnFree, InnTaken
<1>4. ASSUME NEW o \in Orgs, org[o] # None, o \notin Founded', o \notin orphaned'
      PROVE  Owned(person', o)
  <2>1. o \in Founded \/ o \in orphaned \/ Owned(person, o)
    BY <1>4 DEF AccountInv, CompaniesAccounted, Owned
  <2>2. CASE o \in Founded
    <3>1. PICK d \in Callers : caller[d].at = "founded" /\ caller[d].company = o
      BY <2>2, FoundedBy
    <3>2. d = c
      BY <1>1, <1>4, <3>1 DEF Founded
    <3> QED
      BY <1>4, <3>1, <3>2
  <2> QED
    BY <1>4, <2>1, <2>2
<1>5. CompaniesAccounted'
  BY <1>4 DEF AccountInv, CompaniesAccounted, Owned
<1>6. org' = [o \in Orgs |-> org'[o]]
  BY DEF AccountInv
<1> QED
  BY <1>2, <1>3, <1>5, <1>6 DEF AccountInv

\* The handlers that read, and those that give up.
LEMMA ReadersAccount ==
  ASSUME MemberInv, JoinInv, AccountInv, NEW c \in Callers,
         \/ (\E l \in Links : ClaimLink(c, l)) \/ (\E i \in Invites : ClaimInvite(c, i))
         \/ (\E company \in Companies, op \in {"invite", "assign"} : FindNoInvite(c, company, op))
         \/ (\E inn \in Inns : CheckInn(c, inn))
         \/ LookUpUser(c) \/ CheckInvitee(c) \/ CheckFree(c) \/ StartOrg(c)
         \/ CheckPendingInvite(c) \/ OpenInviteSession(c)
  PROVE  AccountInv'
<1>1. person' = person /\ org' = org /\ raced' = raced /\ orphaned' = orphaned
  BY DEF ClaimLink, ClaimInvite, FindNoInvite, CheckInn, LookUpUser, CheckInvitee, CheckFree,
     StartOrg, CheckPendingInvite, OpenInviteSession, Unchecked
<1>2. Proper(caller[c])
  BY DEF MemberInv, MemberTyped
<1>3. ASSUME NEW k, caller' = [caller EXCEPT ![c] = k], caller[c].at # "founded",
             k.at # "founded", InnFree(k)
      PROVE  AccountInv'
  BY <1>1, <1>3, AccountKeeps
<1>4. CASE Leaves(c) /\ caller[c].at # "founded"
  <2>1. Free.at = "idle" /\ InnFree(Free)
    BY DEF Free, InnFree
  <2> QED
    BY <1>3, <1>4, <2>1 DEF Leaves
<1>5. ASSUME NEW op, NEW base, NEW item, NEW company, Starts(c, op, "claimed", base, item, company)
      PROVE  AccountInv'
  <2> DEFINE k == [op |-> op, at |-> "claimed", base |-> base, item |-> item,
                   company |-> company, alone |-> TRUE]
  <2>1. caller' = [caller EXCEPT ![c] = k] /\ caller[c].at = "idle"
    BY <1>5 DEF Starts
  <2>2. k.at = "claimed" /\ InnFree(k)
    BY DEF InnFree
  <2> HIDE DEF k
  <2> QED
    BY <1>3, <2>1, <2>2
<1>6. CASE \/ (\E l \in Links : ClaimLink(c, l)) \/ (\E i \in Invites : ClaimInvite(c, i))
           \/ (\E company \in Companies, op \in {"invite", "assign"} : FindNoInvite(c, company, op))
           \/ StartOrg(c)
  BY <1>5, <1>6 DEF ClaimLink, ClaimInvite, FindNoInvite, StartOrg
<1>7. CASE LookUpUser(c) \/ CheckInvitee(c) \/ CheckFree(c)
  <2> DEFINE k == [op |-> caller[c].op, at |-> "checked", base |-> person,
                   item |-> caller[c].item, company |-> caller[c].company,
                   alone |-> caller[c].alone]
  <2>1. [caller[c] EXCEPT !.at = "checked", !.base = person] = k
    BY <1>2, NextStep
  <2>2. /\ Leaves(c) \/ caller' = [caller EXCEPT ![c].at = "checked", ![c].base = person]
        /\ caller[c].at = "claimed"
    BY <1>7 DEF LookUpUser, CheckInvitee, CheckFree
  <2>3. Leaves(c) \/ caller' = [caller EXCEPT ![c] = k]
    BY <2>1, <2>2
  <2>4. k.at = "checked" /\ InnFree(k)
    BY DEF InnFree
  <2> HIDE DEF k
  <2> QED
    BY <1>3, <1>4, <2>2, <2>3, <2>4
<1>8. CASE CheckPendingInvite(c)
  <2> DEFINE k == [op |-> caller[c].op, at |-> "checked", base |-> caller[c].base,
                   item |-> caller[c].item, company |-> caller[c].company,
                   alone |-> caller[c].alone]
  <2>1. [caller[c] EXCEPT !.at = "checked"] = k
    BY <1>2 DEF Proper
  <2>2. caller[c].at = "claimed" /\ (Leaves(c) \/ caller' = [caller EXCEPT ![c] = k])
    BY <1>8, <2>1 DEF CheckPendingInvite, Goes
  <2>3. k.at = "checked" /\ InnFree(k)
    BY DEF InnFree
  <2> HIDE DEF k
  <2> QED
    BY <1>3, <1>4, <2>2, <2>3
<1>9. ASSUME NEW inn \in Inns, CheckInn(c, inn) PROVE AccountInv'
  <2> DEFINE k == [op |-> caller[c].op, at |-> "inn", base |-> caller[c].base, item |-> inn,
                   company |-> caller[c].company, alone |-> caller[c].alone]
  <2>1. [caller[c] EXCEPT !.at = "inn", !.item = inn] = k
    BY <1>2, NextStep
  <2>2. /\ caller[c].at = "checked"
        /\ Leaves(c) \/ (caller' = [caller EXCEPT ![c] = k] /\ ~InnTaken(inn))
    BY <1>9, <2>1 DEF CheckInn
  <2>3. k.at = "inn" /\ (~InnTaken(inn) => InnFree(k))
    BY DEF InnFree
  <2> HIDE DEF k
  <2> QED
    BY <1>3, <1>4, <2>2, <2>3
<1>10. CASE OpenInviteSession(c)
  BY <1>4, <1>10 DEF OpenInviteSession
<1> QED
  BY <1>6, <1>7, <1>8, <1>9, <1>10

\* The handlers that commit, or die.
LEMMA WritersAccount ==
  ASSUME MemberInv, JoinInv, AccountInv, NEW c \in Callers,
         \/ CommitLogin(c) \/ CommitAcceptance(c) \/ CommitInvite(c) \/ CommitAssignment(c)
         \/ CommitOwner(c) \/ Dies(c)
  PROVE  AccountInv'
<1>1. Proper(caller[c]) /\ Undisturbed(caller[c], person, invite)
  BY DEF MemberInv, MemberTyped, JoinInv
<1>2. org' = org /\ Free.at = "idle" /\ InnFree(Free)
  BY DEF CommitLogin, CommitAcceptance, CommitInvite, CommitAssignment, CommitOwner, Dies,
     Free, InnFree
<1>3. ASSUME Leaves(c), caller[c].at # "founded", raced' = raced, orphaned' = orphaned,
             person = None \/ person' = person
      PROVE  AccountInv'
  <2>1. \A o \in Orgs : Owned(person, o) => Owned(person', o)
    BY <1>3 DEF Owned
  <2> QED
    BY <1>2, <1>3, <2>1, AccountKeeps DEF Leaves
<1>0. ASSUME Joining(caller[c]), Displaces(c)
      PROVE  /\ orphaned \subseteq orphaned'
             /\ \A o \in Orgs : Owned(person, o) => o \in orphaned'
  <2>1. CASE caller[c].alone
    BY <1>0, <1>1, <2>1, OrgsAssumption DEF Undisturbed, Homeless, Owned, Displaces
  <2>2. CASE ~caller[c].alone
    BY <1>0, <2>2 DEF Owned, OwnedBy, Displaces
  <2> QED
    BY <2>1, <2>2
<1>4. ASSUME NEW k, NEW x, Commits(c, k, x), k.at # "founded", InnFree(k),
             caller[c].at # "founded",
             \/ person' = person /\ orphaned' = orphaned
             \/ Joining(caller[c]) /\ Displaces(c)
      PROVE  AccountInv'
  <2>1. raced \subseteq raced'
    BY <1>4 DEF Commits
  <2>3. /\ orphaned \subseteq orphaned'
        /\ \A o \in Orgs : Owned(person, o) => o \in orphaned' \/ Owned(person', o)
    BY <1>0, <1>4
  <2>4. caller' = [d \in Callers |->
              IF d = c THEN k ELSE [caller[d] EXCEPT !.alone = @ /\ caller[d].at = "idle"]]
    BY <1>4 DEF Commits
  <2> QED
    BY <1>2, <1>4, <2>1, <2>3, <2>4, AccountKeeps
<1>5. CASE CommitLogin(c)
  BY <1>3, <1>5 DEF CommitLogin
<1>6. CASE CommitAcceptance(c)
  <2> DEFINE k == [op |-> caller[c].op, at |-> "joined", base |-> caller[c].base,
                   item |-> caller[c].item, company |-> caller[c].company,
                   alone |-> caller[c].alone]
  <2>1. [caller[c] EXCEPT !.at = "joined"] = k
    BY <1>1 DEF Proper
  <2>2. /\ caller[c].op = "accept" /\ caller[c].at = "checked"
        /\ \/ Leaves(c) /\ person' = person /\ raced' = raced /\ orphaned' = orphaned
           \/ Commits(c, k, caller[c].company) /\ Displaces(c)
    BY <1>6, <2>1 DEF CommitAcceptance
  <2>3. k.at = "joined" /\ InnFree(k)
    BY DEF InnFree
  <2> HIDE DEF k
  <2> QED
    BY <1>3, <1>4, <2>2, <2>3 DEF Joining
<1>7. CASE CommitInvite(c)
  <2>1. /\ caller[c].at = "checked" /\ orphaned' = orphaned /\ person' = person
        /\ (Leaves(c) /\ raced' = raced) \/ \E n : Commits(c, Free, n)
    BY <1>7 DEF CommitInvite
  <2> QED
    BY <1>2, <1>3, <1>4, <2>1
<1>8. CASE CommitAssignment(c)
  BY <1>2, <1>4, <1>8 DEF CommitAssignment, Joining
<1>9. CASE CommitOwner(c)
  <2>1. /\ Commits(c, Free, caller[c].company) /\ caller[c].op = "org"
        /\ caller[c].at = "founded"
        /\ person' = Joined(person, caller[c].base, caller[c].company, "owner")
        /\ Displaces(c)
    BY <1>9 DEF CommitOwner
  <2>2. /\ IsUser(person') /\ person'.company = caller[c].company /\ person'.role = "owner"
    BY <1>1, <2>1, JoinedUser DEF Undisturbed
  <2>3. raced \subseteq raced'
    BY <2>1 DEF Commits
  <2>4. /\ orphaned \subseteq orphaned'
        /\ \A o \in Orgs : Owned(person, o) => o \in orphaned'
    BY <1>0, <2>1 DEF Joining
  <2>5. PICK o \in Orgs : o = caller[c].company
    BY <2>1 DEF AccountInv
  <2>8. person' \in [company : Orgs, role : {"owner"}, active : BOOLEAN, super : BOOLEAN]
    BY <2>2, <2>5 DEF IsUser
  <2>6. Owned(person', caller[c].company)
    BY <2>2, <2>8, OrgsAssumption DEF Owned
  <2>7. caller' = [x \in Callers |->
              IF x = c THEN Free ELSE [caller[x] EXCEPT !.alone = @ /\ caller[x].at = "idle"]]
    BY <2>1 DEF Commits
  <2> QED
    BY <1>2, <2>1, <2>3, <2>4, <2>6, <2>7, AccountKeeps
<1>10. CASE Dies(c)
  <2>1. /\ caller' = [caller EXCEPT ![c] = Free] /\ person' = person /\ raced' = raced
        /\ orphaned' = orphaned \cup ({caller[c].company} \cap Founded)
    BY <1>10 DEF Dies, Leaves
  <2>2. caller[c].at = "founded" => caller[c].company \in orphaned'
    BY <2>1 DEF Founded
  <2> QED
    BY <1>2, <2>1, <2>2, AccountKeeps
<1> QED
  BY <1>5, <1>6, <1>7, <1>8, <1>9, <1>10

\* A company is founded: by a handler that is alone, or one of the overtaken ones.
LEMMA FoundingAccount ==
  ASSUME MemberInv, AccountInv, NEW c \in Callers, CommitCompany(c)
  PROVE  AccountInv'
<1> DEFINE inn == caller[c].item
<1>1. PICK o \in Orgs : /\ org[o] = None /\ org' = [org EXCEPT ![o] = inn]
                        /\ Commits(c, [caller[c] EXCEPT !.at = "founded", !.company = o], o)
  BY DEF CommitCompany
<1> DEFINE k == [op |-> caller[c].op, at |-> "founded", base |-> caller[c].base,
                 item |-> inn, company |-> o, alone |-> caller[c].alone]
<1>2. [caller[c] EXCEPT !.at = "founded", !.company = o] = k
  <2>1. Proper(caller[c])
    BY DEF MemberInv, MemberTyped
  <2> QED
    BY <2>1, NextStep
<1>3. k.at = "founded" /\ k.company = o /\ k.op = caller[c].op
  OBVIOUS
<1> HIDE DEF k
<1>4. /\ caller' = [x \in Callers |->
           IF x = c THEN k ELSE [caller[x] EXCEPT !.alone = @ /\ caller[x].at = "idle"]]
      /\ raced' = (IF caller[c].alone THEN raced ELSE raced \cup {o}) /\ caller[c].op = "org" /\ caller[c].at = "inn"
      /\ person' = person /\ orphaned' = orphaned
  BY <1>1, <1>2 DEF Commits, CommitCompany
<1>5. /\ caller'[c] = k
      /\ \A d \in Callers \ {c} :
           /\ caller'[d].op = caller[d].op /\ caller'[d].at = caller[d].at
           /\ caller'[d].item = caller[d].item /\ caller'[d].company = caller[d].company
           /\ caller'[d].alone => caller[d].alone
  BY <1>4, OthersStay
<1>6. \A d \in Callers : caller'[d].at = "founded" => caller'[d].op = "org" /\ caller'[d].company \in Orgs
  BY <1>3, <1>4, <1>5 DEF AccountInv
<1>7. ASSUME NEW d \in Callers PROVE InnFree(caller[d])'
  <2>1. CASE d = c
    BY <1>3, <1>5, <2>1 DEF InnFree
  <2>2. CASE d # c
    <3>1. caller'[d].alone => caller[d].at = "idle"
      <4>1. Proper(caller[d])
        BY DEF MemberInv, MemberTyped
      <4>2. caller'[d] = [caller[d] EXCEPT !.alone = @ /\ caller[d].at = "idle"]
        BY <1>4, <2>2
      <4>3. caller'[d].alone = (caller[d].alone /\ caller[d].at = "idle")
        BY <4>1, <4>2 DEF Proper
      <4> QED
        BY <4>3
    <3> QED
      BY <1>5, <2>2, <3>1 DEF InnFree
  <2> QED
    BY <2>1, <2>2
<1>8. org = [x \in Orgs |-> org[x]]
  BY DEF AccountInv
<1>9. org'[o] = inn /\ (\A x \in Orgs \ {o} : org'[x] = org[x]) /\ org' = [x \in Orgs |-> org'[x]]
  BY <1>1, <1>8
<1>10. ASSUME o \notin raced' PROVE \A x \in Orgs : org[x] # inn
  BY <1>4, <1>10 DEF AccountInv, InnFree, InnTaken
<1>11. ASSUME NEW x \in Orgs, org'[x] # None
       PROVE  x \in Founded' \cup orphaned' \/ Owned(person', x)
  <2>1. CASE x = o
    BY <1>3, <1>5, <2>1 DEF Founded
  <2>2. CASE x # o
    <3>1. x \in Founded \/ x \in orphaned \/ Owned(person, x)
      BY <1>4, <1>9, <1>11, <2>2 DEF AccountInv, CompaniesAccounted, Owned
    <3>2. CASE x \in Founded
      <4>1. PICK d \in Callers : caller[d].at = "founded" /\ caller[d].company = x
        BY <3>2, FoundedBy
      <4> QED
        BY <1>4, <1>5, <4>1 DEF Founded
    <3> QED
      BY <1>4, <3>1, <3>2
  <2> QED
    BY <2>1, <2>2
<1>12. ASSUME NEW x \in Orgs, org'[x] # None, NEW y \in Orgs, org'[y] = org'[x]
       PROVE  y = x \/ y \in raced' \/ x \in raced'
  <2>1. raced \subseteq raced'
    BY <1>4
  <2>2. CASE x # o /\ y # o
    BY <1>9, <1>12, <2>1, <2>2 DEF AccountInv, CompaniesAccounted
  <2> QED
    BY <1>9, <1>10, <1>12, <2>2
<1>13. CompaniesAccounted'
  BY <1>11, <1>12 DEF CompaniesAccounted, Owned
<1> QED
  BY <1>6, <1>7, <1>9, <1>13 DEF AccountInv

\* What happens around the handlers.
LEMMA SurroundingsAccount ==
  ASSUME AccountInv, JoinInv,
         \/ \E l \in Links : RequestLink(l)
         \/ Expires \/ Deactivate \/ CloseSession \/ Bootstrap
  PROVE  AccountInv'
<1>1. ASSUME caller' = caller, org' = org, raced' = raced, orphaned' = orphaned,
             \/ person' = person
             \/ person' = [person EXCEPT !.active = FALSE] /\ person # None
      PROVE  AccountInv'
  <2>1. \A o \in Orgs : Owned(person, o) => Owned(person', o)
    <3>1. CASE person' = person
      BY <3>1
    <3>2. CASE person' = [person EXCEPT !.active = FALSE] /\ person # None
      <4>1. person'.company = person.company /\ person'.role = person.role /\ IsUser(person')
        BY <3>2, DeactivatedUser DEF JoinInv
      <4>2. ASSUME NEW o \in Orgs, Owned(person, o) PROVE Owned(person', o)
        <5>1. person' \in [company : Orgs, role : {"owner"}, active : BOOLEAN, super : BOOLEAN]
          BY <4>1, <4>2 DEF IsUser, Owned
        <5> QED
          BY <4>1, <4>2, <5>1, OrgsAssumption DEF Owned
      <4> QED
        BY <4>2
    <3> QED
      BY <1>1, <3>1, <3>2
  <2>2. Founded' = Founded
    BY <1>1 DEF Founded
  <2>3. CompaniesAccounted'
    BY <1>1, <2>1, <2>2 DEF AccountInv, CompaniesAccounted, Owned
  <2>4. \A c \in Callers : InnFree(caller[c])'
    BY <1>1 DEF AccountInv, InnFree, InnTaken
  <2> QED
    BY <1>1, <2>3, <2>4 DEF AccountInv
<1>2. ASSUME NEW l \in Links, RequestLink(l) PROVE AccountInv'
  BY <1>1, <1>2 DEF RequestLink, Unchecked
<1>3. CASE Expires \/ Deactivate \/ CloseSession
  BY <1>1, <1>3 DEF Expires, Deactivate, CloseSession, Unchecked
<1>4. CASE Bootstrap
  <2>1. /\ caller' = [c \in Callers |-> Free] /\ org' = org /\ raced' = raced
        /\ orphaned' = orphaned \cup Founded \cup OwnedBy(person)
    BY <1>4 DEF Bootstrap
  <2>2. \A c \in Callers : caller'[c].at = "idle"
    BY <2>1 DEF Free
  <2>3. CompaniesAccounted'
    BY <2>1 DEF AccountInv, CompaniesAccounted, OwnedBy
  <2> QED
    BY <2>1, <2>2, <2>3 DEF AccountInv, InnFree
<1> QED
  BY <1>2, <1>3, <1>4

\* Every step accounts for the companies.
LEMMA AccountStep == MemberInv /\ JoinInv /\ AccountInv /\ [MemberNext]_memberVars => AccountInv'
<1> SUFFICES ASSUME MemberInv, JoinInv, AccountInv, [MemberNext]_memberVars PROVE AccountInv'
  OBVIOUS
<1>1. CASE UNCHANGED memberVars
  BY <1>1 DEF memberVars, AccountInv, InnFree, InnTaken, CompaniesAccounted, Founded
<1> QED
  BY <1>1, ReadersAccount, WritersAccount, FoundingAccount, SurroundingsAccount DEF MemberNext

\* A founded company gets and keeps its founder as owner, unless a death, the superadmin or
\* an overtaken handler came between, and shares its INN only with or as the company of an
\* overtaken handler.
THEOREM CompaniesAlwaysAccounted == MemberSpec => []CompaniesAccounted
<1>1. AccountInv => CompaniesAccounted
  BY DEF AccountInv
<1> QED
  BY <1>1, MembersStart, MemberStep, JoinStarts, JoinStep, AccountStarts, AccountStep, PTL
  DEF MemberSpec
=============================================================================

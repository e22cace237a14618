------------------------------ MODULE Membership ------------------------------
(***************************************************************************)
(* One e-mail address in product_api: its user row, the links and invites  *)
(* mailed to it, its sessions, and the handlers by which it logs in, joins *)
(* a company or founds one (routers/auth.py, routers/invites.py,           *)
(* routers/admin_claims_auth.py, main.py, bootstrap.py).                   *)
(*                                                                         *)
(* A handler reads the rows it checks without locking them and writes them *)
(* later, so that two handlers may both find the address free.  Links and  *)
(* invites are spent by an UPDATE that finds them unused and keeps the row *)
(* locked until the commit.  A handler is overtaken when another one       *)
(* commits under its checks: "raced" has the invites and the companies     *)
(* that overtaken handlers gave, "orphaned" the companies that lost their  *)
(* owner, or never got one, by a death, a restart or such a handler.       *)
(***************************************************************************)
EXTENDS Integers, FiniteSets, Absent

CONSTANTS Callers,      \* handlers that can be in progress at the same time
          Links,        \* magic links mailed to the address
          Invites,      \* invites sent to it
          Companies,    \* companies that exist and have managers of their own
          Orgs,         \* companies the address may found
          Inns,         \* INNs it may found them with
          MaxCalls      \* bound: handlers started

ASSUME TokensAssumption == Links \cap Invites = {} /\ None \notin Links \cup Invites
ASSUME OrgsAssumption ==
  /\ None \notin Orgs
  /\ None \notin [company : Orgs, role : {"owner"}, active : BOOLEAN, super : BOOLEAN]

VARIABLES person,   \* the user row [company, role, active, super], or None
          link,     \* Links -> "unsent", "open", "expired", "used"
          invite,   \* Invites -> [state, company, role]
          org,      \* founded companies: Orgs -> INN, or None
          sessions, \* the links and invites whose session is alive
          caller,   \* Callers -> what the handler holds
          calls, opened, joins, raced, orphaned  \* what has happened so far

memberVars == <<person, link, invite, org, sessions, caller, calls, opened, joins,
                raced, orphaned>>

Free == [op |-> None, at |-> "idle", base |-> None, item |-> None, company |-> None, alone |-> TRUE]
NewPerson == [company |-> None, role |-> None, active |-> TRUE, super |-> FALSE]

MemberInit ==
  /\ person = None
  /\ link = [l \in Links |-> "unsent"]
  /\ invite = [i \in Invites |-> [state |-> "unsent", company |-> None, role |-> None]]
  /\ org = [o \in Orgs |-> None]
  /\ sessions = {}
  /\ caller = [c \in Callers |-> Free]
  /\ calls = 0
  /\ opened = [x \in Links \cup Invites |-> 0]
  /\ joins = [i \in Invites |-> 0]
  /\ raced = {} /\ orphaned = {}

(* ----------------------------- what is checked -------------------------- *)
\* Mutant: an expired invite is the only one that is looked for.
PendingExpired(invites) == {i \in Invites : invites[i].state = "expired"}

\* get_active_invite_by_email
Pending(invites) == {i \in Invites : invites[i].state = "open"}

\* Mutant: an address that has a company may join another one.
MayJoinAgain(p) == p = None \/ ~p.super

\* Neither the superadmin nor a member of a company can join one.
MayJoin(p) == p = None \/ (~p.super /\ p.company = None)

InnTaken(inn) == \E o \in Orgs : org[o] = inn

(* ------------------------------- the handlers --------------------------- *)
\* The handler starts with what it has read first.
Starts(c, op, at, base, item, company) ==
  /\ caller[c].at = "idle" /\ calls < MaxCalls
  /\ calls' = calls + 1
  /\ caller' = [caller EXCEPT ![c] =
       [op |-> op, at |-> at, base |-> base, item |-> item, company |-> company, alone |-> TRUE]]

Goes(c, op, from, to) ==
  /\ caller[c].op = op /\ caller[c].at = from
  /\ caller' = [caller EXCEPT ![c].at = to]

\* An answer or a refusal: what was not committed is rolled back.
Leaves(c) == caller' = [caller EXCEPT ![c] = Free]

\* A handler commits x, a company it founds or joins or an invite, and goes on with k:
\* whoever is in progress is no longer alone.
Commits(c, k, x) ==
  /\ caller' = [d \in Callers |->
       IF d = c THEN k
       ELSE [caller[d] EXCEPT !.alone = @ /\ caller[d].at = "idle"]]
  /\ raced' = IF caller[c].alone THEN raced ELSE raced \cup {x}

OwnedBy(p) == IF p # None /\ p.role = "owner" THEN {p.company} ELSE {}

\* A membership takes the address out of the company it owns: only if it was overtaken.
Displaces(c) == orphaned' = IF caller[c].alone THEN orphaned ELSE orphaned \cup OwnedBy(person)

Holds(op, item) == \E c \in Callers :
  caller[c].op = op /\ caller[c].item = item /\ caller[c].at \in {"claimed", "checked"}

\* The ORM writes company, role and an is_active that was false.
Joined(p, base, company, role) ==
  IF base = None THEN [NewPerson EXCEPT !.company = company, !.role = role]
  ELSE [p EXCEPT !.company = company, !.role = role, !.active = @ \/ ~base.active]

Unchecked == UNCHANGED <<opened, joins, raced, orphaned>>

\* request-link, for the product and for the claims administrators.
RequestLink(l) ==
  /\ link[l] = "unsent"
  /\ link' = [link EXCEPT ![l] = "open"]
  /\ UNCHANGED <<person, invite, org, sessions, caller, calls>> /\ Unchecked

\* Links and invites run out; a locked one was found in time.
Expires ==
  /\ \/ \E l \in Links : /\ link[l] = "open" /\ ~Holds("confirm", l)
                         /\ link' = [link EXCEPT ![l] = "expired"]
                         /\ UNCHANGED invite
     \/ \E i \in Invites : /\ invite[i].state = "open" /\ ~Holds("accept", i)
                           /\ invite' = [invite EXCEPT ![i].state = "expired"]
                           /\ UNCHANGED link
  /\ UNCHANGED <<person, org, sessions, caller, calls>> /\ Unchecked

\* The link is marked used; a second confirmation waits for the first one's end.
ClaimLink(c, l) ==
  /\ link[l] = "open" /\ ~Holds("confirm", l)
  /\ Starts(c, "confirm", "claimed", None, l, None)
  /\ UNCHANGED <<person, link, invite, org, sessions>> /\ Unchecked

\* The address is looked up; an inactive user is refused and the link stays unused.
LookUpUser(c) ==
  /\ caller[c].op = "confirm" /\ caller[c].at = "claimed"
  /\ IF person # None /\ ~person.active THEN Leaves(c)
     ELSE caller' = [caller EXCEPT ![c].at = "checked", ![c].base = person]
  /\ UNCHANGED <<person, link, invite, org, sessions, calls>> /\ Unchecked

\* User (when there was none), session and link in one commit; a user inserted
\* meanwhile violates the unique e-mail and everything is rolled back.
CommitLogin(c) ==
  LET l == caller[c].item
  IN  /\ caller[c].op = "confirm" /\ caller[c].at = "checked"
      /\ Leaves(c)
      /\ IF caller[c].base = None /\ person # None
         THEN UNCHANGED <<person, link, sessions, opened>>
         ELSE /\ person' = IF person = None THEN NewPerson ELSE person
              /\ link' = [link EXCEPT ![l] = "used"]
              /\ sessions' = sessions \cup {l}
              /\ opened' = [opened EXCEPT ![l] = @ + 1]
      /\ UNCHANGED <<invite, org, calls, joins, raced, orphaned>>

\* Mutant: the invite is read, and marked used by a later statement.
ClaimInviteRead(c, i) ==
  /\ invite[i].state = "open"
  /\ Starts(c, "accept", "claimed", None, i, invite[i].company)
  /\ UNCHANGED <<person, link, invite, org, sessions>> /\ Unchecked

\* The invite is marked used, under a lock until the commit.
ClaimInvite(c, i) ==
  /\ invite[i].state = "open" /\ ~Holds("accept", i)
  /\ Starts(c, "accept", "claimed", None, i, invite[i].company)
  /\ UNCHANGED <<person, link, invite, org, sessions>> /\ Unchecked

\* The superadmin and a member of a company are refused, and the invite stays open.
CheckInvitee(c) ==
  /\ caller[c].op = "accept" /\ caller[c].at = "claimed"
  /\ IF ~MayJoin(person) THEN Leaves(c)
     ELSE caller' = [caller EXCEPT ![c].at = "checked", ![c].base = person]
  /\ UNCHANGED <<person, link, invite, org, sessions, calls>> /\ Unchecked

\* The user and the invite in one commit, or a duplicate e-mail and nothing.
CommitAcceptance(c) ==
  LET i == caller[c].item  base == caller[c].base
  IN  /\ caller[c].op = "accept" /\ caller[c].at = "checked"
      /\ IF base = None /\ person # None
         THEN Leaves(c) /\ UNCHANGED <<person, invite, joins, raced, orphaned>>
         ELSE /\ Commits(c, [caller[c] EXCEPT !.at = "joined"], caller[c].company)
              /\ Displaces(c)
              /\ person' = Joined(person, base, caller[c].company, invite[i].role)
              /\ invite' = [invite EXCEPT ![i].state = "used"]
              /\ joins' = [joins EXCEPT ![i] = @ + 1]
      /\ UNCHANGED <<link, org, sessions, calls, opened>>

\* The audit row has been committed; the session follows in a third commit.
OpenInviteSession(c) ==
  LET i == caller[c].item
  IN  /\ caller[c].op = "accept" /\ caller[c].at = "joined"
      /\ Leaves(c)
      /\ sessions' = sessions \cup {i}
      /\ opened' = [opened EXCEPT ![i] = @ + 1]
      /\ UNCHANGED <<person, link, invite, org, calls, joins, raced, orphaned>>

\* A manager of a company, or the superadmin ("assign"), finds no active invite.
FindNoInvite(c, company, op) ==
  /\ Pending(invite) = {}
  /\ Starts(c, op, "claimed", None, None, company)
  /\ UNCHANGED <<person, link, invite, org, sessions>> /\ Unchecked

CheckFree(c) ==
  /\ caller[c].op \in {"invite", "assign"} /\ caller[c].at = "claimed"
  /\ IF ~MayJoin(person) THEN Leaves(c)
     ELSE caller' = [caller EXCEPT ![c].at = "checked", ![c].base = person]
  /\ UNCHANGED <<person, link, invite, org, sessions, calls>> /\ Unchecked

\* Expired invites are marked used and the new one is inserted, unless another is unused;
\* the unique index makes it wait for an acceptance in progress.
CommitInvite(c) ==
  LET k == caller[c]
      retired(i) == IF invite[i].state = "expired" THEN [invite[i] EXCEPT !.state = "retired"]
                                                   ELSE invite[i]
  IN  /\ k.at = "checked"
      /\ k.op = "invite" \/ (k.op = "assign" /\ k.base = None)
      /\ \A i \in Invites : ~Holds("accept", i)
      /\ IF Pending(invite) # {} THEN Leaves(c) /\ UNCHANGED <<invite, raced>>
         ELSE \E n \in {i \in Invites : invite[i].state = "unsent"} :
                /\ invite' = [[i \in Invites |-> retired(i)] EXCEPT ![n] =
                     [state |-> "open", company |-> k.company,
                      role |-> IF k.op = "invite" THEN "member" ELSE "admin"]]
                /\ Commits(c, Free, n)
      /\ UNCHANGED <<person, link, org, sessions, calls, opened, joins, orphaned>>

\* The superadmin gives an existing user to the company at once.
CommitAssignment(c) ==
  LET k == caller[c]
  IN  /\ k.op = "assign" /\ k.at = "checked" /\ k.base # None
      /\ Commits(c, Free, k.company) /\ Displaces(c)
      /\ person' = Joined(person, k.base, k.company, "admin")
      /\ UNCHANGED <<link, invite, org, sessions, calls, opened, joins>>

\* create-org, for a live session: the user, the invites and the INN are looked at
\* one after the other.
StartOrg(c) ==
  /\ sessions # {} /\ person.active /\ MayJoin(person)
  /\ Starts(c, "org", "claimed", person, None, None)
  /\ UNCHANGED <<person, link, invite, org, sessions>> /\ Unchecked

CheckPendingInvite(c) ==
  /\ IF Pending(invite) # {} THEN caller[c].op = "org" /\ caller[c].at = "claimed" /\ Leaves(c)
     ELSE Goes(c, "org", "claimed", "checked")
  /\ UNCHANGED <<person, link, invite, org, sessions, calls>> /\ Unchecked

\* Mutant: nobody asks whether a company has the INN.
CheckInnNot(c, inn) ==
  /\ caller[c].op = "org" /\ caller[c].at = "checked"
  /\ caller' = [caller EXCEPT ![c].at = "inn", ![c].item = inn]
  /\ UNCHANGED <<person, link, invite, org, sessions, calls>> /\ Unchecked

CheckInn(c, inn) ==
  /\ caller[c].op = "org" /\ caller[c].at = "checked"
  /\ IF InnTaken(inn) THEN Leaves(c)
     ELSE caller' = [caller EXCEPT ![c].at = "inn", ![c].item = inn]
  /\ UNCHANGED <<person, link, invite, org, sessions, calls>> /\ Unchecked

\* create_company commits; no index keeps a second company from the same INN.
CommitCompany(c) ==
  /\ caller[c].op = "org" /\ caller[c].at = "inn"
  /\ \E o \in {x \in Orgs : org[x] = None} :
       /\ org' = [org EXCEPT ![o] = caller[c].item]
       /\ Commits(c, [caller[c] EXCEPT !.at = "founded", !.company = o], o)
  /\ UNCHANGED <<person, link, invite, sessions, calls, opened, joins, orphaned>>

CommitOwner(c) ==
  /\ caller[c].op = "org" /\ caller[c].at = "founded"
  /\ Commits(c, Free, caller[c].company) /\ Displaces(c)
  /\ person' = Joined(person, caller[c].base, caller[c].company, "owner")
  /\ UNCHANGED <<link, invite, org, sessions, calls, opened, joins>>

(* -------------------------- sessions and accounts ----------------------- *)
\* A manager of the person's company; the sessions stay.
Deactivate ==
  /\ person # None /\ person.company \in Companies /\ person.active
  /\ person' = [person EXCEPT !.active = FALSE]
  /\ UNCHANGED <<link, invite, org, sessions, caller, calls>> /\ Unchecked

\* A log-out, or a request of an inactive user: that session goes.
CloseSession ==
  /\ \E s \in sessions : sessions' = sessions \ {s}
  /\ UNCHANGED <<person, link, invite, org, caller, calls>> /\ Unchecked

Founded == {caller[c].company : c \in {x \in Callers : caller[x].at = "founded"}}

\* The connection or the process dies under the handler.
Dies(c) ==
  /\ caller[c].at # "idle"
  /\ Leaves(c)
  /\ orphaned' = orphaned \cup ({caller[c].company} \cap Founded)
  /\ UNCHANGED <<person, link, invite, org, sessions, calls, opened, joins, raced>>

\* A restart with this address as the configured superadmin.
Bootstrap ==
  /\ person' = [NewPerson EXCEPT !.super = TRUE]
  /\ caller' = [c \in Callers |-> Free]
  /\ orphaned' = orphaned \cup Founded \cup OwnedBy(person)
  /\ UNCHANGED <<link, invite, org, sessions, calls, opened, joins, raced>>

MemberNext ==
  \/ \E c \in Callers :
       \/ \E l \in Links : ClaimLink(c, l)
       \/ \E i \in Invites : ClaimInvite(c, i)
       \/ \E company \in Companies, op \in {"invite", "assign"} : FindNoInvite(c, company, op)
       \/ \E inn \in Inns : CheckInn(c, inn)
       \/ LookUpUser(c) \/ CommitLogin(c)
       \/ CheckInvitee(c) \/ CommitAcceptance(c) \/ OpenInviteSession(c)
       \/ CheckFree(c) \/ CommitInvite(c) \/ CommitAssignment(c)
       \/ StartOrg(c) \/ CheckPendingInvite(c) \/ CommitCompany(c) \/ CommitOwner(c)
       \/ Dies(c)
  \/ \E l \in Links : RequestLink(l)
  \/ Expires \/ Deactivate \/ CloseSession \/ Bootstrap

MemberSpec == MemberInit /\ [][MemberNext]_memberVars

(* ------------------------------ properties ------------------------------- *)
\* Two clicks, a crash between the commits or a refusal: a used link opened one session,
\* a used invite gave one membership and at most one session, an unused one neither.
TokensSpentOnce ==
  /\ \A l \in Links : opened[l] = IF link[l] = "used" THEN 1 ELSE 0
  /\ \A i \in Invites : /\ joins[i] = IF invite[i].state = "used" THEN 1 ELSE 0
                        /\ opened[i] <= joins[i]

\* A member moves to another company only by the commit of a handler that was overtaken:
\* another handler committed while it was between its checks and its commit.  One that
\* nobody overtook moves nobody, whatever overlapped before.  Becoming the superadmin
\* leaves the company.
CompanyKept ==
  [][person # None /\ person.company # None /\ person'.company # person.company
       => \/ person'.super
          \/ \E c \in Callers : /\ ~caller[c].alone /\ caller'[c].at # caller[c].at
                                 /\ person'.company = caller[c].company]_person

\* An address with a company has no active invite, which nobody could accept and which
\* would refuse every other one, unless an overtaken handler gave that very invite or that
\* very membership.
InviteOrCompany ==
  person # None /\ person.company \notin raced \cup {None} => Pending(invite) \subseteq raced

\* A founded company has its founder as owner, once the handler is through, unless it died
\* between the two commits, the address became the superadmin's, or an overtaken handler
\* took the owner away; and two companies share an INN only if one was an overtaken handler's.
CompaniesAccounted ==
  \A o \in Orgs : org[o] # None =>
    /\ o \in Founded \cup orphaned
         \/ (person # None /\ person.company = o /\ person.role = "owner")
    /\ \A x \in Orgs : org[x] = org[o] => x = o \/ x \in raced \/ o \in raced
=============================================================================

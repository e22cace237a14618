---------------------------- MODULE CompanyCredits ---------------------------
(***************************************************************************)
(* The requests of product_api that read or change the credits of one      *)
(* company, interleaved at the granularity of the SQL statements they      *)
(* await.  Postgres runs them READ COMMITTED: a plain SELECT sees what is  *)
(* committed when it runs, SELECT ... FOR UPDATE takes an exclusive row    *)
(* lock, and inserting a row that references another one takes a           *)
(* FOR KEY SHARE lock on it.  A transaction keeps its locks to its end.    *)
(*                                                                         *)
(* The lock on a user_credit_limits row is only ever taken by a            *)
(* transaction that has locked the user's own row, so the latter stands    *)
(* for both.  A missing user_credit_limits row and a row holding 0 are     *)
(* treated alike by every handler here, and both are written 0.            *)
(***************************************************************************)
EXTENDS Integers, FiniteSets, Functions

CONSTANTS
  Users,        (* the employees of the company                            *)
  Role,         (* users.role                                              *)
  Company,      (* the row of table companies                              *)
  Superadmin,   (* the row of table users that owns the top-ups            *)
  Requests,     (* HTTP requests; each is received at most once            *)
  Amounts,      (* what a superadmin may post to the pool, negative too    *)
  Deltas,       (* by how much a manager may move an allowance             *)
  Keys,         (* ledger idempotency keys of the top-ups                  *)
  StartPool,    (* the pool and the allowances the history starts from     *)
  StartLimit,
  StartDrift    (* how far earlier negative top-ups already left the pool  *)
                (* below the allowances                                    *)

ASSUME CreditConstants ==
  /\ IsFiniteSet(Users)
  /\ Company \notin Users
  /\ Superadmin \notin Users
  /\ Company # Superadmin
  /\ Role \in [Users -> {"owner", "admin", "member"}]
  /\ Amounts \subseteq Int \ {0}
  /\ Deltas \subseteq Int \ {0}
  /\ Keys # {}
  /\ StartPool \in Nat
  /\ StartLimit \in [Users -> Nat]
  /\ StartDrift \in Nat

(* What "drift" means of the state the history starts from.                 *)
ASSUME StartWithinDrift ==
  SumFunctionOnSet(StartLimit, Users) <= StartPool + StartDrift

VARIABLES
  pool,         (* SUM(ledger.delta) of the company                        *)
  limit,        (* user_credit_limits.remaining_credits                    *)
  active,       (* the users whose is_active flag is set                   *)
  pc,           (* what each request does next                             *)
  job,          (* what each request was asked to do                       *)
  excl,         (* rows locked FOR UPDATE, by request                      *)
  share,        (* rows locked FOR KEY SHARE, by request                   *)
  seenLimit,    (* limit.remaining_credits as the request read it          *)
  seenPool,     (* pool_balance as the request read it                     *)
  seenActive,   (* target_user.is_active, loaded before any lock           *)
  usedKeys,     (* idempotency keys of the committed top-ups               *)
  committed,    (* requests whose change has committed                     *)
  auditLog,     (* requests whose audit_log row has committed              *)
  granted,      (* history: allowance granted so far, by user              *)
  spent,        (* ledger rows with reason chat_message, by user           *)
  clawedBack,   (* history: credits removed by negative top-ups            *)
  drift         (* history: credits the pool lost while no active          *)
                (* allowance shrank with it                                *)

account == << pool, limit, active >>
control == << pc, job, excl, share >>
locals == << seenLimit, seenPool, seenActive >>
records == << usedKeys, committed, auditLog >>
history == << granted, spent, clawedBack, drift >>
vars == << account, control, locals, records, history >>

Account == INSTANCE CreditAccount

Rows == Users \cup {Company, Superadmin}

Kinds == {"none", "chat", "limit", "topup", "deactivate", "detach", "credits"}

Jobs == [kind : Kinds, actor : Rows, user : Rows, delta : Int, key : Keys]

Job(kind, actor, user, delta, key) ==
  [kind |-> kind, actor |-> actor, user |-> user, delta |-> delta, key |-> key]

AnyKey == CHOOSE k \in Keys : TRUE

Init ==
  /\ pool = StartPool /\ limit = StartLimit /\ active = Users
  /\ pc = [r \in Requests |-> "idle"]
  /\ job = [r \in Requests |-> Job("none", Superadmin, Superadmin, 0, AnyKey)]
  /\ excl = [r \in Requests |-> {}]
  /\ share = [r \in Requests |-> {}]
  /\ seenLimit = [r \in Requests |-> 0]
  /\ seenPool = [r \in Requests |-> 0]
  /\ seenActive = [r \in Requests |-> FALSE]
  /\ usedKeys = {} /\ committed = {} /\ auditLog = {}
  /\ granted = StartLimit
  /\ spent = [u \in Users |-> 0]
  /\ clawedBack = 0 /\ drift = StartDrift

-------------------------------------------------------------------------------
(* Rows, locks and transactions.                                            *)

(* Mutation: a SELECT without FOR UPDATE.                                   *)
CanLockUnlocked(r, row) == TRUE

(* FOR UPDATE waits for every other lock on the row.                        *)
CanLock(r, row) == \A q \in Requests \ {r} : row \notin excl[q] \cup share[q]

(* Mutation: a ledger without its foreign key to companies.                 *)
CanShareUnreferenced(r, row) == TRUE

(* FOR KEY SHARE, and an UPDATE of other columns, wait for FOR UPDATE.      *)
CanShare(r, row) == \A q \in Requests \ {r} : row \notin excl[q]

At(r, point) == pc[r] = point

Goto(r, point) == pc' = [pc EXCEPT ![r] = point]

(* COMMIT or ROLLBACK: the transaction of r gives its locks back.           *)
EndTransaction(r) ==
  /\ excl' = [excl EXCEPT ![r] = {}]
  /\ share' = [share EXCEPT ![r] = {}]

KeepLocks == UNCHANGED << excl, share >>

(* Mutation: an error path that neither rolls back nor closes its session.  *)
AbandonLeaking(r) ==
  /\ Goto(r, "done")
  /\ KeepLocks
  /\ UNCHANGED << account, job, locals, records, history >>

(* The request ends; whatever its open transaction wrote is rolled back.    *)
Abandon(r) ==
  /\ Goto(r, "done")
  /\ EndTransaction(r)
  /\ UNCHANGED << account, job, locals, records, history >>

(* The handler goes on to its next statement, having only read.             *)
Continue(r, point) ==
  /\ Goto(r, point)
  /\ KeepLocks
  /\ UNCHANGED << account, job, records, history >>

(* SUM of the allowances of the active users.                               *)
ActiveAllocated == SumFunctionOnSet(limit, active)

-------------------------------------------------------------------------------
(* A request arrives: authentication and the checks that precede the first  *)
(* transaction.  A request that fails them changes nothing.                 *)

Manager(u) == u \in active /\ Role[u] \in {"owner", "admin"}

(* ensure_can_manage_user_limit                                             *)
CanManage(actor, target) ==
  /\ actor # target
  /\ Role[actor] = "admin" => Role[target] = "member"

Arrive(r, j, point) ==
  /\ At(r, "idle")
  /\ Goto(r, point)
  /\ job' = [job EXCEPT ![r] = j]
  /\ KeepLocks
  /\ UNCHANGED << account, locals, records, history >>

ReceiveChat(r, u) ==
  /\ u \in active
  /\ Arrive(r, Job("chat", u, u, 0, AnyKey), "see_pool")

ReceiveLimit(r, actor, target, d) ==
  /\ Manager(actor) /\ CanManage(actor, target)
  /\ Arrive(r, Job("limit", actor, target, d, AnyKey), "load_target")

ReceiveDetach(r, actor, target) ==
  /\ Manager(actor) /\ CanManage(actor, target)
  /\ Arrive(r, Job("detach", actor, target, 0, AnyKey), "load_target")

(* An admin may deactivate an owner: only the actor's own account is spared.*)
ReceiveDeactivate(r, actor, target) ==
  /\ Manager(actor) /\ actor # target
  /\ Arrive(r, Job("deactivate", actor, target, 0, AnyKey), "load_target")

ReceiveTopUp(r, amount, key) ==
  Arrive(r, Job("topup", Superadmin, Superadmin, amount, key), "insert_entry")

(* POST /company/credits only leaves an audit row and answers 403.          *)
ReceiveCredits(r, actor) ==
  /\ Manager(actor)
  /\ Arrive(r, Job("credits", actor, actor, 0, AnyKey), "audit_actor")

(* Mutation: a detach that starts like a limit patch.                       *)
LoadTargetDetachLocksCompany(r) ==
  /\ At(r, "load_target")
  /\ seenActive' = [seenActive EXCEPT ![r] = job[r].user \in active]
  /\ Continue(r, IF job[r].kind = "deactivate" THEN "update_user" ELSE "lock_company")
  /\ UNCHANGED << seenLimit, seenPool >>

(* target_user: the ORM session keeps this object, so that the later        *)
(* SELECT ... FOR UPDATE of the same row does not refresh its is_active.    *)
LoadTarget(r) ==
  /\ At(r, "load_target")
  /\ seenActive' = [seenActive EXCEPT ![r] = job[r].user \in active]
  /\ Continue(r, CASE job[r].kind = "limit" -> "lock_company"
                   [] job[r].kind = "detach" -> "lock_user"
                   [] job[r].kind = "deactivate" -> "update_user")
  /\ UNCHANGED << seenLimit, seenPool >>

-------------------------------------------------------------------------------
(* Locks shared by the handlers.                                            *)

LockCompany(r) ==
  /\ At(r, "lock_company") /\ CanLock(r, Company)
  /\ Goto(r, "lock_user")
  /\ excl' = [excl EXCEPT ![r] = @ \cup {Company}]
  /\ UNCHANGED << account, job, share, locals, records, history >>

LockUser(r) ==
  /\ At(r, "lock_user") /\ CanLock(r, job[r].user)
  /\ Goto(r, "locked")
  /\ excl' = [excl EXCEPT ![r] = @ \cup {job[r].user}]
  /\ UNCHANGED << account, job, share, locals, records, history >>

-------------------------------------------------------------------------------
(* POST /v1/chat: a check without locks, then reserve_chat_credits.         *)

SeePool(r) ==
  /\ At(r, "see_pool")
  /\ IF pool > 0 THEN Continue(r, "see_limit") /\ UNCHANGED locals ELSE Abandon(r)

SeeLimit(r) ==
  /\ At(r, "see_limit")
  /\ IF limit[job[r].user] > 0
     THEN Continue(r, "lock_company") /\ UNCHANGED locals
     ELSE Abandon(r)

(* The object SeeLimit loaded is gone by now, nobody holding it, so that    *)
(* the locking SELECT really loads the row.                                 *)
ChatReadLimit(r) ==
  /\ At(r, "locked") /\ job[r].kind = "chat"
  /\ IF limit[job[r].user] < 1
     THEN Abandon(r)
     ELSE /\ Continue(r, "chat_pool")
          /\ seenLimit' = [seenLimit EXCEPT ![r] = limit[job[r].user]]
          /\ UNCHANGED << seenPool, seenActive >>

(* Mutation: the balance seen before the locks is trusted under them.       *)
ChatReadPoolTrusting(r) ==
  /\ At(r, "chat_pool")
  /\ Continue(r, "chat_commit")
  /\ UNCHANGED locals

ChatReadPool(r) ==
  /\ At(r, "chat_pool")
  /\ IF pool < 1 THEN Abandon(r) ELSE Continue(r, "chat_commit") /\ UNCHANGED locals

(* The UPDATE writes the value computed from the one read; the pool moves   *)
(* by the row inserted into the ledger.                                     *)
ChatCommit(r) ==
  LET u == job[r].user IN
  /\ At(r, "chat_commit")
  /\ Goto(r, "done")
  /\ limit' = [limit EXCEPT ![u] = seenLimit[r] - 1]
  /\ pool' = pool - 1
  /\ spent' = [spent EXCEPT ![u] = @ + 1]
  /\ drift' = IF u \in active THEN drift ELSE drift + 1
  /\ committed' = committed \cup {r}
  /\ EndTransaction(r)
  /\ UNCHANGED << active, job, locals, usedKeys, auditLog, granted, clawedBack >>

-------------------------------------------------------------------------------
(* PATCH /company/users/{id}/limit: apply_user_limit_delta.                 *)

(* Mutation: the row is fetched with ensure_user_credit_limit, which        *)
(* commits.                                                                 *)
PatchReadLimitCommitting(r) ==
  /\ At(r, "locked") /\ job[r].kind = "limit"
  /\ limit[job[r].user] + job[r].delta >= 0
  /\ Goto(r, "patch_pool")
  /\ seenLimit' = [seenLimit EXCEPT ![r] = limit[job[r].user]]
  /\ EndTransaction(r)
  /\ UNCHANGED << account, job, seenPool, seenActive, records, history >>

PatchReadLimit(r) ==
  /\ At(r, "locked") /\ job[r].kind = "limit"
  /\ IF limit[job[r].user] + job[r].delta < 0
     THEN Abandon(r)
     ELSE /\ Continue(r, "patch_pool")
          /\ seenLimit' = [seenLimit EXCEPT ![r] = limit[job[r].user]]
          /\ UNCHANGED << seenPool, seenActive >>

PatchReadPool(r) ==
  /\ At(r, "patch_pool")
  /\ Continue(r, "patch_allocated")
  /\ seenPool' = [seenPool EXCEPT ![r] = pool]
  /\ UNCHANGED << seenLimit, seenActive >>

(* Mutation: the sum is compared without the change asked for.              *)
PatchReadAllocatedBefore(r) ==
  /\ At(r, "patch_allocated")
  /\ IF ActiveAllocated > seenPool[r]
     THEN Abandon(r)
     ELSE Continue(r, "patch_commit") /\ UNCHANGED locals

PatchReadAllocated(r) ==
  LET proposed == IF seenActive[r] THEN ActiveAllocated + job[r].delta
                                   ELSE ActiveAllocated
  IN /\ At(r, "patch_allocated")
     /\ IF proposed > seenPool[r]
        THEN Abandon(r)
        ELSE Continue(r, "patch_commit") /\ UNCHANGED locals

PatchCommit(r) ==
  LET u == job[r].user IN
  /\ At(r, "patch_commit")
  /\ Goto(r, "audit_actor")
  /\ limit' = [limit EXCEPT ![u] = seenLimit[r] + job[r].delta]
  /\ granted' = [granted EXCEPT ![u] = @ + job[r].delta]
  /\ committed' = committed \cup {r}
  /\ EndTransaction(r)
  /\ UNCHANGED << pool, active, job, locals, usedKeys, auditLog, spent, clawedBack, drift >>

-------------------------------------------------------------------------------
(* POST /admin/companies/{id}/credits: the ledger row, under its unique     *)
(* idempotency key, then the commit.                                        *)

(* Mutation: the key is looked up, with no unique index behind it.          *)
InsertEntryLookedUp(r) ==
  /\ At(r, "insert_entry")
  /\ \/ job[r].key \in usedKeys /\ Abandon(r)
     \/ /\ job[r].key \notin usedKeys
        /\ CanShare(r, Company)
        /\ Goto(r, "topup_commit")
        /\ share' = [share EXCEPT ![r] = @ \cup {Company}]
        /\ UNCHANGED << account, job, excl, locals, records, history >>

InsertEntry(r) ==
  /\ At(r, "insert_entry")
  /\ \A q \in Requests \ {r} : At(q, "topup_commit") => job[q].key # job[r].key
  /\ \/ /\ job[r].key \in usedKeys
        /\ Abandon(r)
     \/ /\ job[r].key \notin usedKeys
        /\ CanShare(r, Company)
        /\ Goto(r, "topup_commit")
        /\ share' = [share EXCEPT ![r] = @ \cup {Company}]
        /\ UNCHANGED << account, job, excl, locals, records, history >>

TopUpCommit(r) ==
  LET amount == job[r].delta IN
  /\ At(r, "topup_commit")
  /\ Goto(r, "audit_actor")
  /\ pool' = pool + amount
  /\ usedKeys' = usedKeys \cup {job[r].key}
  /\ committed' = committed \cup {r}
  /\ clawedBack' = IF amount < 0 THEN clawedBack - amount ELSE clawedBack
  /\ drift' = IF amount < 0 THEN drift - amount ELSE drift
  /\ EndTransaction(r)
  /\ UNCHANGED << limit, active, job, locals, auditLog, granted, spent >>

-------------------------------------------------------------------------------
(* POST /company/users/{id}/deactivate and .../detach.                      *)

(* The ORM sends no UPDATE when the flag it loaded was already cleared.     *)
UpdateUser(r) ==
  /\ At(r, "update_user")
  /\ \/ /\ seenActive[r]
        /\ CanShare(r, job[r].user)
        /\ active' = active \ {job[r].user}
     \/ /\ ~seenActive[r]
        /\ UNCHANGED active
  /\ Goto(r, "audit_actor")
  /\ committed' = committed \cup {r}
  /\ KeepLocks
  /\ UNCHANGED << pool, limit, job, locals, usedKeys, auditLog, history >>

(* detach_company_user writes company_id = NULL with role = 'member', which *)
(* the constraint role_company_consistency refuses: the deletion of the     *)
(* allowance is rolled back with everything else.                           *)
DetachFails(r) ==
  /\ At(r, "locked") /\ job[r].kind = "detach"
  /\ Abandon(r)

-------------------------------------------------------------------------------
(* write_audit_log: one INSERT whose foreign keys lock the actor's row and  *)
(* then the company's, in a transaction after that of the change.           *)

AuditActor(r) ==
  /\ At(r, "audit_actor") /\ CanShare(r, job[r].actor)
  /\ Goto(r, "audit_company")
  /\ share' = [share EXCEPT ![r] = @ \cup {job[r].actor}]
  /\ UNCHANGED << account, job, excl, locals, records, history >>

AuditCommit(r) ==
  /\ At(r, "audit_company") /\ CanShare(r, Company)
  /\ Goto(r, "done")
  /\ auditLog' = auditLog \cup {r}
  /\ EndTransaction(r)
  /\ UNCHANGED << account, job, locals, usedKeys, committed, history >>

-------------------------------------------------------------------------------
(* Postgres and the process.                                                *)

(* q holds a lock that the statement r is at has to wait for.               *)
Blocks(q, r) ==
  \/ At(r, "lock_company") /\ Company \in excl[q] \cup share[q]
  \/ At(r, "lock_user") /\ job[r].user \in excl[q] \cup share[q]
  \/ At(r, "audit_actor") /\ job[r].actor \in excl[q]
  \/ At(r, "audit_company") /\ Company \in excl[q]

(* Two transactions wait for each other: the server cancels either one.     *)
(* Longer cycles cannot arise, only one transaction holding the company.    *)
DeadlockVictim(r) ==
  /\ \E q \in Requests \ {r} : Blocks(q, r) /\ Blocks(r, q)
  /\ Abandon(r)

(* The process dies with every request in it.                               *)
Crash ==
  /\ \E r \in Requests : pc[r] \notin {"idle", "done"}
  /\ pc' = [r \in Requests |-> IF At(r, "idle") THEN "idle" ELSE "done"]
  /\ excl' = [r \in Requests |-> {}]
  /\ share' = [r \in Requests |-> {}]
  /\ UNCHANGED << account, job, locals, records, history >>

Receive(r) ==
  \/ \E u \in Users : ReceiveChat(r, u) \/ ReceiveCredits(r, u)
  \/ \E a, u \in Users : ReceiveDetach(r, a, u) \/ ReceiveDeactivate(r, a, u)
  \/ \E a, u \in Users, d \in Deltas : ReceiveLimit(r, a, u, d)
  \/ \E n \in Amounts, k \in Keys : ReceiveTopUp(r, n, k)

Handle(r) ==
  \/ LoadTarget(r) \/ LockCompany(r) \/ LockUser(r)
  \/ SeePool(r) \/ SeeLimit(r)
  \/ ChatReadLimit(r) \/ ChatReadPool(r) \/ ChatCommit(r)
  \/ PatchReadLimit(r) \/ PatchReadPool(r) \/ PatchReadAllocated(r) \/ PatchCommit(r)
  \/ InsertEntry(r) \/ TopUpCommit(r)
  \/ UpdateUser(r) \/ DetachFails(r)
  \/ AuditActor(r) \/ AuditCommit(r)
  \/ DeadlockVictim(r)

Next == Crash \/ \E r \in Requests : Receive(r) \/ Handle(r)

Spec == Init /\ [][Next]_vars

(* The same while the process stays up.                                     *)
SteadySpec == Init /\ [][\E r \in Requests : Receive(r) \/ Handle(r)]_vars

(* A request that was received is run to its end by the event loop, and     *)
(* Postgres resolves every deadlock.  Nothing obliges a request to arrive   *)
(* or the process to die.                                                   *)
FairSpec == Spec /\ \A r \in Requests : WF_vars(Handle(r))

-------------------------------------------------------------------------------
(* Properties.                                                              *)

Points ==
  {"idle", "done", "see_pool", "see_limit", "load_target", "lock_company",
   "lock_user", "locked", "chat_pool", "chat_commit", "patch_pool",
   "patch_allocated", "patch_commit", "insert_entry", "topup_commit",
   "update_user", "audit_actor", "audit_company"}

(* Which handler may be at which point.                                     *)
KindsAt ==
  \A r \in Requests :
    /\ pc[r] \in {"see_pool", "see_limit", "chat_pool", "chat_commit"}
         => job[r].kind = "chat"
    /\ pc[r] \in {"patch_pool", "patch_allocated", "patch_commit"}
         => job[r].kind = "limit"
    /\ At(r, "lock_company") => job[r].kind \in {"chat", "limit"}
    /\ pc[r] \in {"lock_user", "locked"} => job[r].kind \in {"chat", "limit", "detach"}
    /\ At(r, "load_target") => job[r].kind \in {"limit", "detach", "deactivate"}
    /\ At(r, "update_user") => job[r].kind = "deactivate"
    /\ pc[r] \in {"insert_entry", "topup_commit"} => job[r].kind = "topup"

(* The shape of the state, and which user a request may name.               *)
TypeOK ==
  /\ pool \in Int
  /\ limit \in [Users -> Int]
  /\ active \in SUBSET Users
  /\ pc \in [Requests -> Points]
  /\ job \in [Requests -> Jobs]
  /\ \A r \in Requests :
        /\ job[r].kind \in {"chat", "limit", "deactivate", "detach"} => job[r].user \in Users
        /\ job[r].kind = "limit" => job[r].delta \in Deltas
        /\ job[r].kind = "topup" => job[r].delta \in Amounts
  /\ KindsAt
  /\ excl \in [Requests -> SUBSET Rows]
  /\ share \in [Requests -> SUBSET Rows]
  /\ seenLimit \in [Requests -> Int]
  /\ seenPool \in [Requests -> Int]
  /\ seenActive \in [Requests -> BOOLEAN]
  /\ usedKeys \in SUBSET Keys
  /\ committed \in SUBSET Requests
  /\ auditLog \in SUBSET Requests
  /\ granted \in [Users -> Int]
  /\ spent \in [Users -> Nat]
  /\ clawedBack \in Nat
  /\ drift \in Nat

ReadingPoints == {"chat_pool", "patch_pool", "patch_allocated", "patch_commit"}

(* Two transactions never hold conflicting locks on a row, and each point   *)
(* between a read and the write that depends on it is under the locks on    *)
(* the company and on the user.                                             *)
LocksHeld ==
  /\ \A r, q \in Requests : r # q => excl[r] \cap (excl[q] \cup share[q]) = {}
  /\ \A r \in Requests :
        /\ pc[r] \in ReadingPoints \cup {"chat_commit"} => Company \in excl[r]
        /\ pc[r] \in {"lock_user", "locked"} /\ job[r].kind # "detach" => Company \in excl[r]
        /\ pc[r] \in ReadingPoints \cup {"locked", "chat_commit"} => job[r].user \in excl[r]
        /\ At(r, "topup_commit") => Company \in share[r]

(* What a handler read and tested under its locks is still true when it     *)
(* writes: remaining_credits between its SELECT ... FOR UPDATE and the      *)
(* UPDATE, the pool between its SUM and the insertion into the ledger.      *)
ReadsStillCurrent ==
  \A r \in Requests :
    /\ pc[r] \in ReadingPoints \cup {"chat_commit"} => seenLimit[r] = limit[job[r].user]
    /\ pc[r] \in {"chat_pool", "chat_commit"} => seenLimit[r] >= 1
    /\ pc[r] \in {"patch_pool", "patch_allocated", "patch_commit"}
         => seenLimit[r] + job[r].delta >= 0
    /\ At(r, "chat_commit") => pool >= 1
    /\ pc[r] \in {"patch_allocated", "patch_commit"} => seenPool[r] = pool

(* reserve_chat_credits and apply_user_limit_delta both write back a value  *)
(* computed from one they read: no update is lost, so an allowance is what  *)
(* was granted less one per chat row of its owner in the ledger, and it     *)
(* never goes below zero (nor trips the CHECK on remaining_credits).        *)
LimitsMatchLedger ==
  \A u \in Users : limit[u] = granted[u] - spent[u] /\ limit[u] >= 0

(* Chat never overdraws the pool, whatever runs beside it: only a negative  *)
(* top-up takes the pool below zero, and by no more than its amount.        *)
PoolFloor == pool >= 0 - clawedBack

(* PATCH .../limit checks the sum of active allowances against the pool     *)
(* with figures read by separate statements and an is_active flag loaded    *)
(* before the locks. What it lets through is still within the pool, but     *)
(* for negative top-ups and for chats charged to a user deactivated while   *)
(* the request ran.                                                         *)
AllocationWithinDrift == ActiveAllocated <= pool + drift

(* README: "sum of active user limits must stay <= company pool".           *)
AllocationInvariant == ActiveAllocated <= pool

(* Every handler takes effect in one indivisible step of the account, and   *)
(* top-ups that overlap or are repeated under one idempotency key in one.   *)
ImplementsAccount == Account!Spec

(* Whatever locks a request waits for, it ends.                             *)
EveryRequestEnds ==
  \A r \in Requests : pc[r] # "idle" ~> pc[r] = "done"

(* README: "Admin actions write to audit_log for traceability": a request   *)
(* that changed the credits and has ended has left its audit row.           *)
AdminActionsAudited ==
  \A r \in Requests :
    At(r, "done") /\ r \in committed /\ job[r].kind # "chat" => r \in auditLog

(* test_company_admin_detach.py: a manager who may manage a member detaches *)
(* that member and is answered 200.                                         *)
DetachSucceeds ==
  \A r \in Requests :
    At(r, "done") /\ job[r].kind = "detach" => r \in committed

==============================================================================

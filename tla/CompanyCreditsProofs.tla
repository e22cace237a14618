------------------------- MODULE CompanyCreditsProofs ------------------------
(***************************************************************************)
(* Proofs about CompanyCredits, for any number of users and requests.      *)
(***************************************************************************)
EXTENDS CompanyCredits, LoopProofs

(* The inductive invariant.                                                *)
Inductive ==
  /\ TypeOK
  /\ LocksHeld
  /\ ReadsStillCurrent
  /\ LimitsMatchLedger
  /\ PoolFloor

-------------------------------------------------------------------------------

(* The initial state satisfies the inductive invariant.                    *)
LEMMA InitInductive == Init => Inductive
<1> SUFFICES ASSUME Init PROVE Inductive
  OBVIOUS
<1> USE CreditConstants DEF Init
<1>1. AnyKey \in Keys
  BY DEF AnyKey
<1>2. TypeOK
  BY <1>1 DEF TypeOK, KindsAt, At, Points, Jobs, Job, Kinds, Rows
<1>3. LocksHeld /\ ReadsStillCurrent
  BY DEF LocksHeld, ReadsStillCurrent, At, ReadingPoints
<1>4. LimitsMatchLedger /\ PoolFloor
  BY DEF LimitsMatchLedger, PoolFloor
<1> QED
  BY <1>2, <1>3, <1>4 DEF Inductive

(* Giving up a request keeps the state well formed.                        *)
LEMMA AbandonKeepsType ==
  ASSUME TypeOK, NEW r \in Requests, Abandon(r)
  PROVE  TypeOK'
BY DEF TypeOK, KindsAt, At, Points, Abandon, Goto, EndTransaction, account, locals, records, history

(* Every step keeps the state well formed.                                 *)
LEMMA TypePreserved ==
  TypeOK /\ [Next]_vars => TypeOK'
<1> SUFFICES ASSUME TypeOK, [Next]_vars PROVE TypeOK'
  OBVIOUS
<1> USE CreditConstants DEF TypeOK, KindsAt, At, Points, Jobs, Kinds, Rows
<1>1. CASE UNCHANGED vars
  BY <1>1 DEF vars, account, control, locals, records, history
<1>2. CASE Crash
  BY <1>2 DEF Crash, account, locals, records, history
<1>3. ASSUME NEW r \in Requests, Receive(r) PROVE TypeOK'
  <2> USE DEF Arrive, Goto, KeepLocks, Job, AnyKey, account, locals, records, history
  <2>1. ASSUME NEW u \in Users, ReceiveChat(r, u) PROVE TypeOK'
    BY <2>1 DEF ReceiveChat
  <2>2. ASSUME NEW u \in Users, ReceiveCredits(r, u) PROVE TypeOK'
    BY <2>2 DEF ReceiveCredits
  <2>3. ASSUME NEW a \in Users, NEW u \in Users, ReceiveDetach(r, a, u) PROVE TypeOK'
    BY <2>3 DEF ReceiveDetach
  <2>4. ASSUME NEW a \in Users, NEW u \in Users, ReceiveDeactivate(r, a, u) PROVE TypeOK'
    BY <2>4 DEF ReceiveDeactivate
  <2>5. ASSUME NEW a \in Users, NEW u \in Users, NEW d \in Deltas,
               ReceiveLimit(r, a, u, d)
        PROVE  TypeOK'
    BY <2>5 DEF ReceiveLimit
  <2>6. ASSUME NEW n \in Amounts, NEW k \in Keys, ReceiveTopUp(r, n, k) PROVE TypeOK'
    BY <2>6 DEF ReceiveTopUp
  <2> QED
    BY <1>3, <2>1, <2>2, <2>3, <2>4, <2>5, <2>6 DEF Receive
<1>4. ASSUME NEW r \in Requests, Handle(r) PROVE TypeOK'
  <2> USE DEF Goto, KeepLocks, EndTransaction, Continue, Abandon, account, locals, records, history
  <2>1. CASE LoadTarget(r)
    BY <2>1 DEF LoadTarget
  <2>2. CASE LockCompany(r)
    BY <2>2 DEF LockCompany
  <2>3. CASE LockUser(r)
    BY <2>3 DEF LockUser
  <2>4. CASE SeePool(r)
    <3>1. CASE Abandon(r)
      BY <3>1, AbandonKeepsType
    <3>2. CASE At(r, "see_pool") /\ Continue(r, "see_limit") /\ UNCHANGED locals
      BY <3>2
    <3> QED
      BY <2>4, <3>1, <3>2 DEF SeePool
  <2>5. CASE SeeLimit(r)
    <3>1. CASE Abandon(r)
      BY <3>1, AbandonKeepsType
    <3>2. CASE At(r, "see_limit") /\ Continue(r, "lock_company") /\ UNCHANGED locals
      BY <3>2
    <3> QED
      BY <2>5, <3>1, <3>2 DEF SeeLimit
  <2>6. CASE ChatReadLimit(r)
    <3>1. CASE Abandon(r)
      BY <3>1, AbandonKeepsType
    <3>2. CASE /\ At(r, "locked") /\ job[r].kind = "chat"
              /\ Continue(r, "chat_pool")
              /\ seenLimit' = [seenLimit EXCEPT ![r] = limit[job[r].user]]
              /\ UNCHANGED << seenPool, seenActive >>
      BY <3>2
    <3> QED
      BY <2>6, <3>1, <3>2 DEF ChatReadLimit
  <2>7. CASE ChatReadPool(r)
    <3>1. CASE Abandon(r)
      BY <3>1, AbandonKeepsType
    <3>2. CASE At(r, "chat_pool") /\ Continue(r, "chat_commit") /\ UNCHANGED locals
      BY <3>2
    <3> QED
      BY <2>7, <3>1, <3>2 DEF ChatReadPool
  <2>8. CASE ChatCommit(r)
    BY <2>8 DEF ChatCommit
  <2>9. CASE PatchReadLimit(r)
    <3>1. CASE Abandon(r)
      BY <3>1, AbandonKeepsType
    <3>2. CASE /\ At(r, "locked") /\ job[r].kind = "limit"
              /\ limit[job[r].user] + job[r].delta >= 0
              /\ Continue(r, "patch_pool")
              /\ seenLimit' = [seenLimit EXCEPT ![r] = limit[job[r].user]]
              /\ UNCHANGED << seenPool, seenActive >>
      BY <3>2
    <3> QED
      BY <2>9, <3>1, <3>2 DEF PatchReadLimit
  <2>10. CASE PatchReadPool(r)
    BY <2>10 DEF PatchReadPool
  <2>11. CASE PatchReadAllocated(r)
    <3>1. CASE Abandon(r)
      BY <3>1, AbandonKeepsType
    <3>2. CASE At(r, "patch_allocated") /\ Continue(r, "patch_commit") /\ UNCHANGED locals
      BY <3>2
    <3> QED
      BY <2>11, <3>1, <3>2 DEF PatchReadAllocated
  <2>12. CASE PatchCommit(r)
    BY <2>12 DEF PatchCommit
  <2>13. CASE InsertEntry(r)
    <3>1. CASE Abandon(r)
      BY <3>1, AbandonKeepsType
    <3>2. CASE /\ At(r, "insert_entry")
              /\ Goto(r, "topup_commit")
              /\ share' = [share EXCEPT ![r] = @ \cup {Company}]
              /\ UNCHANGED << account, job, excl, locals, records, history >>
      BY <3>2
    <3> QED
      BY <2>13, <3>1, <3>2 DEF InsertEntry
  <2>14. CASE TopUpCommit(r)
    BY <2>14 DEF TopUpCommit
  <2>15. CASE UpdateUser(r)
    BY <2>15 DEF UpdateUser
  <2>16. CASE DetachFails(r)
    BY <2>16 DEF DetachFails
  <2>17. CASE AuditActor(r)
    BY <2>17 DEF AuditActor
  <2>18. CASE AuditCommit(r)
    BY <2>18 DEF AuditCommit
  <2>19. CASE DeadlockVictim(r)
    BY <2>19 DEF DeadlockVictim
  <2> QED
    BY <1>4, <2>1, <2>2, <2>3, <2>4, <2>5, <2>6, <2>7, <2>8, <2>9, <2>10,
       <2>11, <2>12, <2>13, <2>14, <2>15, <2>16, <2>17, <2>18, <2>19 DEF Handle
<1> QED
  BY <1>1, <1>2, <1>3, <1>4 DEF Next

(* Conflicting locks are never granted, and none is given up before the    *)
(* write it protects.                                                      *)
LEMMA LocksPreserved ==
  TypeOK /\ LocksHeld /\ [Next]_vars => LocksHeld'
<1> SUFFICES ASSUME TypeOK /\ LocksHeld, [Next]_vars PROVE LocksHeld'
  OBVIOUS
<1> USE CreditConstants DEF TypeOK, KindsAt, LocksHeld, At, ReadingPoints, Rows
<1>1. CASE UNCHANGED vars
  BY <1>1 DEF vars, account, control, locals, records, history
<1>2. CASE Crash
  BY <1>2 DEF Crash, account, locals, records, history
<1>3. ASSUME NEW r \in Requests, Receive(r) PROVE LocksHeld'
  <2> USE DEF Arrive, Goto, KeepLocks, Job, AnyKey, account, locals, records, history
  <2>1. ASSUME NEW u \in Users, ReceiveChat(r, u) PROVE LocksHeld'
    BY <2>1 DEF ReceiveChat
  <2>2. ASSUME NEW u \in Users, ReceiveCredits(r, u) PROVE LocksHeld'
    BY <2>2 DEF ReceiveCredits
  <2>3. ASSUME NEW a \in Users, NEW u \in Users, ReceiveDetach(r, a, u) PROVE LocksHeld'
    BY <2>3 DEF ReceiveDetach
  <2>4. ASSUME NEW a \in Users, NEW u \in Users, ReceiveDeactivate(r, a, u) PROVE LocksHeld'
    BY <2>4 DEF ReceiveDeactivate
  <2>5. ASSUME NEW a \in Users, NEW u \in Users, NEW d \in Deltas,
               ReceiveLimit(r, a, u, d)
        PROVE  LocksHeld'
    BY <2>5 DEF ReceiveLimit
  <2>6. ASSUME NEW n \in Amounts, NEW k \in Keys, ReceiveTopUp(r, n, k) PROVE LocksHeld'
    BY <2>6 DEF ReceiveTopUp
  <2> QED
    BY <1>3, <2>1, <2>2, <2>3, <2>4, <2>5, <2>6 DEF Receive
<1>4. ASSUME NEW r \in Requests, Handle(r) PROVE LocksHeld'
  <2> USE DEF Goto, KeepLocks, EndTransaction, Continue, Abandon, account, locals, records, history
  <2>1. CASE LoadTarget(r)
    BY <2>1 DEF LoadTarget
  <2>2. CASE LockCompany(r)
    BY <2>2 DEF LockCompany, CanLock
  <2>3. CASE LockUser(r)
    BY <2>3 DEF LockUser, CanLock
  <2>4. CASE SeePool(r)
    BY <2>4 DEF SeePool
  <2>5. CASE SeeLimit(r)
    BY <2>5 DEF SeeLimit
  <2>6. CASE ChatReadLimit(r)
    BY <2>6 DEF ChatReadLimit
  <2>7. CASE ChatReadPool(r)
    BY <2>7 DEF ChatReadPool
  <2>8. CASE ChatCommit(r)
    BY <2>8 DEF ChatCommit
  <2>9. CASE PatchReadLimit(r)
    <3>1. CASE Abandon(r)
      BY <3>1
    <3>2. CASE /\ At(r, "locked") /\ job[r].kind = "limit"
              /\ limit[job[r].user] + job[r].delta >= 0
              /\ Continue(r, "patch_pool")
              /\ seenLimit' = [seenLimit EXCEPT ![r] = limit[job[r].user]]
              /\ UNCHANGED << seenPool, seenActive >>
      BY <3>2
    <3> QED
      BY <2>9, <3>1, <3>2 DEF PatchReadLimit
  <2>10. CASE PatchReadPool(r)
    BY <2>10 DEF PatchReadPool
  <2>11. CASE PatchReadAllocated(r)
    BY <2>11 DEF PatchReadAllocated
  <2>12. CASE PatchCommit(r)
    <3>1. /\ pc' = [pc EXCEPT ![r] = "audit_actor"] /\ job' = job
          /\ excl' = [excl EXCEPT ![r] = {}] /\ share' = [share EXCEPT ![r] = {}]
      BY <2>12 DEF PatchCommit
    <3> QED
      BY <3>1
  <2>13. CASE InsertEntry(r)
    <3>1. CASE Abandon(r)
      BY <3>1
    <3>2. CASE ~Abandon(r)
      <4>1. /\ pc' = [pc EXCEPT ![r] = "topup_commit"] /\ job' = job /\ excl' = excl
            /\ share' = [share EXCEPT ![r] = @ \cup {Company}]
            /\ At(r, "insert_entry") /\ CanShare(r, Company)
        BY <2>13, <3>2 DEF InsertEntry
      <4> QED
        BY <4>1 DEF CanShare
    <3> QED
      BY <3>1, <3>2
  <2>14. CASE TopUpCommit(r)
    BY <2>14 DEF TopUpCommit
  <2>15. CASE UpdateUser(r)
    BY <2>15 DEF UpdateUser
  <2>16. CASE DetachFails(r)
    BY <2>16 DEF DetachFails
  <2>17. CASE AuditActor(r)
    BY <2>17 DEF AuditActor, CanShare
  <2>18. CASE AuditCommit(r)
    BY <2>18 DEF AuditCommit, CanShare
  <2>19. CASE DeadlockVictim(r)
    BY <2>19 DEF DeadlockVictim
  <2> QED
    BY <1>4, <2>1, <2>2, <2>3, <2>4, <2>5, <2>6, <2>7, <2>8, <2>9, <2>10,
       <2>11, <2>12, <2>13, <2>14, <2>15, <2>16, <2>17, <2>18, <2>19 DEF Handle
<1> QED
  BY <1>1, <1>2, <1>3, <1>4 DEF Next

(* Nobody changes what a transaction has read under its locks.             *)
LEMMA ReadsPreserved ==
  TypeOK /\ LocksHeld /\ ReadsStillCurrent /\ [Next]_vars => ReadsStillCurrent'
<1> SUFFICES ASSUME TypeOK /\ LocksHeld /\ ReadsStillCurrent, [Next]_vars PROVE ReadsStillCurrent'
  OBVIOUS
<1> USE CreditConstants DEF TypeOK, KindsAt, LocksHeld, ReadsStillCurrent, At, ReadingPoints, Rows
<1>1. CASE UNCHANGED vars
  BY <1>1 DEF vars, account, control, locals, records, history
<1>2. CASE Crash
  BY <1>2 DEF Crash, account, locals, records, history
<1>3. ASSUME NEW r \in Requests, Receive(r) PROVE ReadsStillCurrent'
  <2> USE DEF Arrive, Goto, KeepLocks, Job, AnyKey, account, locals, records, history
  <2>1. ASSUME NEW u \in Users, ReceiveChat(r, u) PROVE ReadsStillCurrent'
    BY <2>1 DEF ReceiveChat
  <2>2. ASSUME NEW u \in Users, ReceiveCredits(r, u) PROVE ReadsStillCurrent'
    BY <2>2 DEF ReceiveCredits
  <2>3. ASSUME NEW a \in Users, NEW u \in Users, ReceiveDetach(r, a, u) PROVE ReadsStillCurrent'
    BY <2>3 DEF ReceiveDetach
  <2>4. ASSUME NEW a \in Users, NEW u \in Users, ReceiveDeactivate(r, a, u) PROVE ReadsStillCurrent'
    BY <2>4 DEF ReceiveDeactivate
  <2>5. ASSUME NEW a \in Users, NEW u \in Users, NEW d \in Deltas,
               ReceiveLimit(r, a, u, d)
        PROVE  ReadsStillCurrent'
    BY <2>5 DEF ReceiveLimit
  <2>6. ASSUME NEW n \in Amounts, NEW k \in Keys, ReceiveTopUp(r, n, k) PROVE ReadsStillCurrent'
    BY <2>6 DEF ReceiveTopUp
  <2> QED
    BY <1>3, <2>1, <2>2, <2>3, <2>4, <2>5, <2>6 DEF Receive
<1>4. ASSUME NEW r \in Requests, Handle(r) PROVE ReadsStillCurrent'
  <2> USE DEF Goto, KeepLocks, EndTransaction, Continue, Abandon, account, locals, records, history
  <2>1. CASE LoadTarget(r)
    BY <2>1 DEF LoadTarget
  <2>2. CASE LockCompany(r)
    BY <2>2 DEF LockCompany, CanLock
  <2>3. CASE LockUser(r)
    BY <2>3 DEF LockUser, CanLock
  <2>4. CASE SeePool(r)
    BY <2>4 DEF SeePool
  <2>5. CASE SeeLimit(r)
    BY <2>5 DEF SeeLimit
  <2>6. CASE ChatReadLimit(r)
    BY <2>6 DEF ChatReadLimit
  <2>7. CASE ChatReadPool(r)
    BY <2>7 DEF ChatReadPool
  <2>8. CASE ChatCommit(r)
    BY <2>8 DEF ChatCommit
  <2>9. CASE PatchReadLimit(r)
    <3>1. CASE Abandon(r)
      BY <3>1
    <3>2. CASE /\ At(r, "locked") /\ job[r].kind = "limit"
              /\ ~(limit[job[r].user] + job[r].delta < 0)
              /\ Continue(r, "patch_pool")
              /\ seenLimit' = [seenLimit EXCEPT ![r] = limit[job[r].user]]
              /\ UNCHANGED << seenPool, seenActive >>
      BY <3>2 DEF Jobs
    <3> QED
      BY <2>9, <3>1, <3>2 DEF PatchReadLimit
  <2>10. CASE PatchReadPool(r)
    BY <2>10 DEF PatchReadPool
  <2>11. CASE PatchReadAllocated(r)
    BY <2>11 DEF PatchReadAllocated
  <2>12. CASE PatchCommit(r)
    BY <2>12 DEF PatchCommit
  <2>13. CASE InsertEntry(r)
    BY <2>13 DEF InsertEntry, CanShare
  <2>14. CASE TopUpCommit(r)
    BY <2>14 DEF TopUpCommit
  <2>15. CASE UpdateUser(r)
    BY <2>15 DEF UpdateUser
  <2>16. CASE DetachFails(r)
    BY <2>16 DEF DetachFails
  <2>17. CASE AuditActor(r)
    BY <2>17 DEF AuditActor, CanShare
  <2>18. CASE AuditCommit(r)
    BY <2>18 DEF AuditCommit, CanShare
  <2>19. CASE DeadlockVictim(r)
    BY <2>19 DEF DeadlockVictim
  <2> QED
    BY <1>4, <2>1, <2>2, <2>3, <2>4, <2>5, <2>6, <2>7, <2>8, <2>9, <2>10,
       <2>11, <2>12, <2>13, <2>14, <2>15, <2>16, <2>17, <2>18, <2>19 DEF Handle
<1> QED
  BY <1>1, <1>2, <1>3, <1>4 DEF Next

(* Each allowance keeps matching the ledger.                               *)
LEMMA LimitsPreserved ==
  TypeOK /\ LocksHeld /\ ReadsStillCurrent /\ LimitsMatchLedger /\ [Next]_vars => LimitsMatchLedger'
<1> SUFFICES ASSUME TypeOK /\ LocksHeld /\ ReadsStillCurrent /\ LimitsMatchLedger, [Next]_vars
             PROVE  LimitsMatchLedger'
  OBVIOUS
<1> USE CreditConstants DEF TypeOK, KindsAt, ReadsStillCurrent, LimitsMatchLedger, At, ReadingPoints
<1>1. CASE UNCHANGED vars
  BY <1>1 DEF vars, account, control, locals, records, history
<1>2. CASE Crash
  BY <1>2 DEF Crash, account, locals, records, history
<1>3. ASSUME NEW r \in Requests, Receive(r) PROVE LimitsMatchLedger'
  <2> USE DEF Arrive, Goto, KeepLocks, Job, AnyKey, account, locals, records, history
  <2>1. ASSUME NEW u \in Users, ReceiveChat(r, u) PROVE LimitsMatchLedger'
    BY <2>1 DEF ReceiveChat
  <2>2. ASSUME NEW u \in Users, ReceiveCredits(r, u) PROVE LimitsMatchLedger'
    BY <2>2 DEF ReceiveCredits
  <2>3. ASSUME NEW a \in Users, NEW u \in Users, ReceiveDetach(r, a, u) PROVE LimitsMatchLedger'
    BY <2>3 DEF ReceiveDetach
  <2>4. ASSUME NEW a \in Users, NEW u \in Users, ReceiveDeactivate(r, a, u) PROVE LimitsMatchLedger'
    BY <2>4 DEF ReceiveDeactivate
  <2>5. ASSUME NEW a \in Users, NEW u \in Users, NEW d \in Deltas,
               ReceiveLimit(r, a, u, d)
        PROVE  LimitsMatchLedger'
    BY <2>5 DEF ReceiveLimit
  <2>6. ASSUME NEW n \in Amounts, NEW k \in Keys, ReceiveTopUp(r, n, k) PROVE LimitsMatchLedger'
    BY <2>6 DEF ReceiveTopUp
  <2> QED
    BY <1>3, <2>1, <2>2, <2>3, <2>4, <2>5, <2>6 DEF Receive
<1>4. ASSUME NEW r \in Requests, Handle(r) PROVE LimitsMatchLedger'
  <2> USE DEF Goto, KeepLocks, EndTransaction, Continue, Abandon, account, locals, records, history
  <2>1. CASE LoadTarget(r)
    BY <2>1 DEF LoadTarget
  <2>2. CASE LockCompany(r)
    BY <2>2 DEF LockCompany
  <2>3. CASE LockUser(r)
    BY <2>3 DEF LockUser
  <2>4. CASE SeePool(r)
    BY <2>4 DEF SeePool
  <2>5. CASE SeeLimit(r)
    BY <2>5 DEF SeeLimit
  <2>6. CASE ChatReadLimit(r)
    BY <2>6 DEF ChatReadLimit
  <2>7. CASE ChatReadPool(r)
    BY <2>7 DEF ChatReadPool
  <2>8. CASE ChatCommit(r)
    BY <2>8 DEF ChatCommit
  <2>9. CASE PatchReadLimit(r)
    BY <2>9 DEF PatchReadLimit
  <2>10. CASE PatchReadPool(r)
    BY <2>10 DEF PatchReadPool
  <2>11. CASE PatchReadAllocated(r)
    BY <2>11 DEF PatchReadAllocated
  <2>12. CASE PatchCommit(r)
    <3> DEFINE w == job[r].user
    <3>1. w \in Users /\ seenLimit[r] = limit[w] /\ seenLimit[r] + job[r].delta >= 0
      BY <2>12 DEF PatchCommit
    <3>2. job[r].delta \in Int
      BY DEF Jobs
    <3>3. /\ limit' = [limit EXCEPT ![w] = limit[w] + job[r].delta]
          /\ granted' = [granted EXCEPT ![w] = granted[w] + job[r].delta]
          /\ spent' = spent
      BY <2>12, <3>1 DEF PatchCommit
    <3> HIDE DEF w
    <3> QED
      BY <3>1, <3>2, <3>3
  <2>13. CASE InsertEntry(r)
    BY <2>13 DEF InsertEntry
  <2>14. CASE TopUpCommit(r)
    BY <2>14 DEF TopUpCommit
  <2>15. CASE UpdateUser(r)
    BY <2>15 DEF UpdateUser
  <2>16. CASE DetachFails(r)
    BY <2>16 DEF DetachFails
  <2>17. CASE AuditActor(r)
    BY <2>17 DEF AuditActor
  <2>18. CASE AuditCommit(r)
    BY <2>18 DEF AuditCommit
  <2>19. CASE DeadlockVictim(r)
    BY <2>19 DEF DeadlockVictim
  <2> QED
    BY <1>4, <2>1, <2>2, <2>3, <2>4, <2>5, <2>6, <2>7, <2>8, <2>9, <2>10,
       <2>11, <2>12, <2>13, <2>14, <2>15, <2>16, <2>17, <2>18, <2>19 DEF Handle
<1> QED
  BY <1>1, <1>2, <1>3, <1>4 DEF Next

(* The pool keeps above its floor.                                         *)
LEMMA PoolPreserved ==
  TypeOK /\ ReadsStillCurrent /\ PoolFloor /\ [Next]_vars => PoolFloor'
<1> SUFFICES ASSUME TypeOK /\ ReadsStillCurrent /\ PoolFloor, [Next]_vars PROVE PoolFloor'
  OBVIOUS
<1> USE CreditConstants DEF TypeOK, KindsAt, ReadsStillCurrent, PoolFloor, At
<1>1. CASE UNCHANGED vars
  BY <1>1 DEF vars, account, control, locals, records, history
<1>2. CASE Crash
  BY <1>2 DEF Crash, account, locals, records, history
<1>3. ASSUME NEW r \in Requests, Receive(r) PROVE PoolFloor'
  <2> USE DEF Arrive, Goto, KeepLocks, Job, AnyKey, account, locals, records, history
  <2>1. ASSUME NEW u \in Users, ReceiveChat(r, u) PROVE PoolFloor'
    BY <2>1 DEF ReceiveChat
  <2>2. ASSUME NEW u \in Users, ReceiveCredits(r, u) PROVE PoolFloor'
    BY <2>2 DEF ReceiveCredits
  <2>3. ASSUME NEW a \in Users, NEW u \in Users, ReceiveDetach(r, a, u) PROVE PoolFloor'
    BY <2>3 DEF ReceiveDetach
  <2>4. ASSUME NEW a \in Users, NEW u \in Users, ReceiveDeactivate(r, a, u) PROVE PoolFloor'
    BY <2>4 DEF ReceiveDeactivate
  <2>5. ASSUME NEW a \in Users, NEW u \in Users, NEW d \in Deltas,
               ReceiveLimit(r, a, u, d)
        PROVE  PoolFloor'
    BY <2>5 DEF ReceiveLimit
  <2>6. ASSUME NEW n \in Amounts, NEW k \in Keys, ReceiveTopUp(r, n, k) PROVE PoolFloor'
    BY <2>6 DEF ReceiveTopUp
  <2> QED
    BY <1>3, <2>1, <2>2, <2>3, <2>4, <2>5, <2>6 DEF Receive
<1>4. ASSUME NEW r \in Requests, Handle(r) PROVE PoolFloor'
  <2> USE DEF Goto, KeepLocks, EndTransaction, Continue, Abandon, account, locals, records, history
  <2>1. CASE LoadTarget(r)
    BY <2>1 DEF LoadTarget
  <2>2. CASE LockCompany(r)
    BY <2>2 DEF LockCompany
  <2>3. CASE LockUser(r)
    BY <2>3 DEF LockUser
  <2>4. CASE SeePool(r)
    BY <2>4 DEF SeePool
  <2>5. CASE SeeLimit(r)
    BY <2>5 DEF SeeLimit
  <2>6. CASE ChatReadLimit(r)
    BY <2>6 DEF ChatReadLimit
  <2>7. CASE ChatReadPool(r)
    BY <2>7 DEF ChatReadPool
  <2>8. CASE ChatCommit(r)
    BY <2>8 DEF ChatCommit
  <2>9. CASE PatchReadLimit(r)
    BY <2>9 DEF PatchReadLimit
  <2>10. CASE PatchReadPool(r)
    BY <2>10 DEF PatchReadPool
  <2>11. CASE PatchReadAllocated(r)
    BY <2>11 DEF PatchReadAllocated
  <2>12. CASE PatchCommit(r)
    BY <2>12 DEF PatchCommit
  <2>13. CASE InsertEntry(r)
    BY <2>13 DEF InsertEntry
  <2>14. CASE TopUpCommit(r)
    <3>1. /\ pool' = pool + job[r].delta
          /\ clawedBack' = IF job[r].delta < 0 THEN clawedBack - job[r].delta ELSE clawedBack
      BY <2>14 DEF TopUpCommit
    <3>2. job[r].delta \in Int
      BY DEF Jobs
    <3> QED
      BY <3>1, <3>2
  <2>15. CASE UpdateUser(r)
    BY <2>15 DEF UpdateUser
  <2>16. CASE DetachFails(r)
    BY <2>16 DEF DetachFails
  <2>17. CASE AuditActor(r)
    BY <2>17 DEF AuditActor
  <2>18. CASE AuditCommit(r)
    BY <2>18 DEF AuditCommit
  <2>19. CASE DeadlockVictim(r)
    BY <2>19 DEF DeadlockVictim
  <2> QED
    BY <1>4, <2>1, <2>2, <2>3, <2>4, <2>5, <2>6, <2>7, <2>8, <2>9, <2>10,
       <2>11, <2>12, <2>13, <2>14, <2>15, <2>16, <2>17, <2>18, <2>19 DEF Handle
<1> QED
  BY <1>1, <1>2, <1>3, <1>4 DEF Next

-------------------------------------------------------------------------------

(* Inductive holds in every reachable state.                               *)
THEOREM InductiveHolds == Spec => []Inductive
<1>1. Inductive /\ [Next]_vars => Inductive'
  BY TypePreserved, LocksPreserved, ReadsPreserved, LimitsPreserved, PoolPreserved
     DEF Inductive
<1> QED
  BY InitInductive, <1>1, PTL DEF Spec

(* The state of the credits and of the requests keeps its shape.           *)
THEOREM TypeCorrect == Spec => []TypeOK
<1>1. Inductive => TypeOK
  BY DEF Inductive
<1> QED
  BY InductiveHolds, <1>1, PTL

(* The row locks of reserve_chat_credits and apply_user_limit_delta are    *)
(* held, and exclude each other, over all that they protect.               *)
THEOREM LocksAlwaysHeld == Spec => []LocksHeld
<1>1. Inductive => LocksHeld
  BY DEF Inductive
<1> QED
  BY InductiveHolds, <1>1, PTL

(* No handler writes from a balance that has changed since it read it.     *)
THEOREM ReadsAlwaysCurrent == Spec => []ReadsStillCurrent
<1>1. Inductive => ReadsStillCurrent
  BY DEF Inductive
<1> QED
  BY InductiveHolds, <1>1, PTL

(* No update of an allowance is lost, and none drives it below zero.       *)
THEOREM LimitsAlwaysMatchLedger == Spec => []LimitsMatchLedger
<1>1. Inductive => LimitsMatchLedger
  BY DEF Inductive
<1> QED
  BY InductiveHolds, <1>1, PTL

(* Chat requests, however many run at once, never overdraw the pool.       *)
THEOREM PoolNeverOverdrawn == Spec => []PoolFloor
<1>1. Inductive => PoolFloor
  BY DEF Inductive
<1> QED
  BY InductiveHolds, <1>1, PTL

-------------------------------------------------------------------------------
(* The sum of the active allowances.                                       *)

(* One allowance moves.                                                    *)
LEMMA SumMoves ==
  ASSUME NEW f \in [Users -> Int], NEW S \in SUBSET Users, NEW u \in Users, NEW v \in Int,
         NEW h \in [Users -> Int], h[u] = v, \A x \in Users \ {u} : h[x] = f[x]
  PROVE  /\ u \in S => SumFunctionOnSet(h, S) = SumFunctionOnSet(f, S) - f[u] + v
         /\ u \notin S => SumFunctionOnSet(h, S) = SumFunctionOnSet(f, S)
<1> DEFINE T == S \ {u}
<1>1. IsFiniteSet(S) /\ IsFiniteSet(T)
  BY CreditConstants, FS_Subset
<1>2. h \in [Users -> Int] /\ h[u] = v /\ \A x \in T : h[x] = f[x]
  BY DEF T
<1> HIDE DEF T
<1>3. SumFunctionOnSet(h, T) = SumFunctionOnSet(f, T)
  BY <1>1, <1>2, SumSame
<1>4. CASE u \in S
  <2>1. /\ SumFunctionOnSet(h, S) = h[u] + SumFunctionOnSet(h, T)
        /\ SumFunctionOnSet(f, S) = f[u] + SumFunctionOnSet(f, T)
        /\ SumFunctionOnSet(f, T) \in Int
    <3>1. \A x \in S : h[x] \in Int /\ f[x] \in Int
      BY <1>2
    <3>2. \A x \in T : f[x] \in Int
      BY <3>1 DEF T
    <3>3. SumFunctionOnSet(h, S) = h[u] + SumFunctionOnSet(h, T)
      BY <1>1, <1>4, <3>1, SumTakesOut DEF T
    <3>4. SumFunctionOnSet(f, S) = f[u] + SumFunctionOnSet(f, T)
      BY <1>1, <1>4, <3>1, SumTakesOut DEF T
    <3>5. SumFunctionOnSet(f, T) \in Int
      BY <1>1, <3>2, SumTakesOut
    <3> QED
      BY <3>3, <3>4, <3>5
  <2>2. SumFunctionOnSet(h, S) = SumFunctionOnSet(f, S) - f[u] + v
    <3>1. f[u] \in Int
      OBVIOUS
    <3> QED
      BY <1>2, <1>3, <2>1, <3>1
  <2> QED
    BY <1>4, <2>2
<1>5. CASE u \notin S
  <2>1. T = S
    BY <1>5 DEF T
  <2> QED
    BY <1>3, <1>5, <2>1
<1> QED
  BY <1>4, <1>5

(* A flag that was found cleared stays cleared.                            *)
InactiveStays ==
  \A r \in Requests :
    /\ pc[r] \in {"lock_company", "lock_user", "locked", "patch_pool", "patch_allocated"}
    /\ job[r].kind = "limit" /\ ~seenActive[r]
    => job[r].user \notin active

(* A patch that is about to commit was tested against figures that have    *)
(* only got better since.                                                  *)
PatchesFit ==
  \A r \in Requests :
    At(r, "patch_commit") /\ job[r].user \in active
    => ActiveAllocated + job[r].delta <= pool + drift

AllocationInv == InactiveStays /\ PatchesFit /\ AllocationWithinDrift

(* The starting allowances are within the pool and its drift.              *)
LEMMA AllocationStarts == Init => AllocationInv
  BY CreditConstants, StartWithinDrift DEF Init, AllocationInv, InactiveStays, PatchesFit, AllocationWithinDrift, ActiveAllocated, At

(* The sum of the active allowances is a number, and deactivating a user   *)
(* does not make it larger.                                                *)
LEMMA AllocatedShrinks ==
  ASSUME TypeOK, LimitsMatchLedger, NEW u
  PROVE  /\ ActiveAllocated \in Int
         /\ SumFunctionOnSet(limit, active \ {u}) \in Int
         /\ SumFunctionOnSet(limit, active \ {u}) <= ActiveAllocated
<1>1. active \subseteq Users /\ limit \in [Users -> Int] /\ \A x \in Users : limit[x] >= 0
  BY DEF TypeOK, LimitsMatchLedger
<1>2. IsFiniteSet(active) /\ IsFiniteSet(active \ {u})
  BY <1>1, CreditConstants, FS_Subset
<1>3. \A x \in active : limit[x] \in Int
  BY <1>1
<1>4. /\ SumFunctionOnSet(limit, active) \in Int
      /\ \A x \in active : SumFunctionOnSet(limit, active)
                            = limit[x] + SumFunctionOnSet(limit, active \ {x})
  BY <1>2, <1>3, SumTakesOut
<1>5. SumFunctionOnSet(limit, active \ {u}) \in Int
  BY <1>2, <1>3, SumTakesOut
<1>6. CASE u \in active
  <2>1. limit[u] \in Int /\ limit[u] >= 0
    BY <1>1, <1>6
  <2> QED
    BY <1>4, <1>5, <1>6, <2>1 DEF ActiveAllocated
<1>7. CASE u \notin active
  <2>1. active \ {u} = active
    BY <1>7
  <2> QED
    BY <1>4, <1>5, <2>1 DEF ActiveAllocated
<1> QED
  BY <1>6, <1>7

(* Where a handler starts.                                                 *)
Doors == {"see_pool", "load_target", "insert_entry", "audit_actor"}

(* A request that is received arrives at one of the doors.                 *)
LEMMA ReceiveArrives ==
  ASSUME NEW r \in Requests, Receive(r)
  PROVE  \E j, point : point \in Doors /\ Arrive(r, j, point)
<1>1. ASSUME NEW u \in Users, ReceiveChat(r, u) \/ ReceiveCredits(r, u)
      PROVE  \E j, point : point \in Doors /\ Arrive(r, j, point)
  <2>1. "see_pool" \in Doors /\ "audit_actor" \in Doors
    BY DEF Doors
  <2> QED
    BY <1>1, <2>1, Zenon DEF ReceiveChat, ReceiveCredits
<1>2. ASSUME NEW a \in Users, NEW u \in Users, ReceiveDetach(r, a, u) \/ ReceiveDeactivate(r, a, u)
      PROVE  \E j, point : point \in Doors /\ Arrive(r, j, point)
  <2>1. "load_target" \in Doors
    BY DEF Doors
  <2> QED
    BY <1>2, <2>1, Zenon DEF ReceiveDetach, ReceiveDeactivate
<1>3. ASSUME NEW a \in Users, NEW u \in Users, NEW d \in Deltas, ReceiveLimit(r, a, u, d)
      PROVE  \E j, point : point \in Doors /\ Arrive(r, j, point)
  <2>1. "load_target" \in Doors
    BY DEF Doors
  <2> QED
    BY <1>3, <2>1, Zenon DEF ReceiveLimit
<1>4. ASSUME NEW n \in Amounts, NEW k \in Keys, ReceiveTopUp(r, n, k)
      PROVE  \E j, point : point \in Doors /\ Arrive(r, j, point)
  <2>1. "insert_entry" \in Doors
    BY DEF Doors
  <2> QED
    BY <1>4, <2>1, Zenon DEF ReceiveTopUp
<1> QED
  BY <1>1, <1>2, <1>3, <1>4, Zenon DEF Receive

(* Only a request's own steps move it, and no user becomes active again.   *)
LEMMA InactivePreserved ==
  TypeOK /\ InactiveStays /\ [Next]_vars => InactiveStays'
<1> SUFFICES ASSUME TypeOK /\ InactiveStays, [Next]_vars PROVE InactiveStays'
  OBVIOUS
<1> USE DEF TypeOK, KindsAt, InactiveStays, At
<1>1. CASE UNCHANGED vars
  BY <1>1 DEF vars, account, control, locals, records, history
<1>2. CASE Crash
  BY <1>2 DEF Crash, account, locals, records, history
<1>3. ASSUME NEW r \in Requests, Receive(r) PROVE InactiveStays'
  <2>1. PICK j, point : point \in Doors /\ Arrive(r, j, point)
    BY <1>3, ReceiveArrives
  <2> QED
    BY <2>1 DEF Doors, Arrive, Goto, KeepLocks, account, locals, records, history
<1>4. ASSUME NEW r \in Requests, Handle(r) PROVE InactiveStays'
  <2> USE DEF Goto, Continue, Abandon, account, locals, records, history
  <2>1. CASE LoadTarget(r)
    BY <2>1 DEF LoadTarget
  <2>2. CASE LockCompany(r) \/ LockUser(r)
    BY <2>2 DEF LockCompany, LockUser
  <2>3. CASE SeePool(r) \/ SeeLimit(r)
    BY <2>3 DEF SeePool, SeeLimit
  <2>4. CASE ChatReadLimit(r) \/ ChatReadPool(r)
    BY <2>4 DEF ChatReadLimit, ChatReadPool
  <2>5. CASE ChatCommit(r) \/ PatchCommit(r) \/ TopUpCommit(r)
    BY <2>5 DEF ChatCommit, PatchCommit, TopUpCommit
  <2>6. CASE PatchReadLimit(r) \/ PatchReadPool(r) \/ PatchReadAllocated(r)
    BY <2>6 DEF PatchReadLimit, PatchReadPool, PatchReadAllocated
  <2>7. CASE InsertEntry(r) \/ UpdateUser(r) \/ DetachFails(r)
    BY <2>7 DEF InsertEntry, UpdateUser, DetachFails
  <2>8. CASE AuditActor(r) \/ AuditCommit(r) \/ DeadlockVictim(r)
    BY <2>8 DEF AuditActor, AuditCommit, DeadlockVictim
  <2> QED
    BY <1>4, <2>1, <2>2, <2>3, <2>4, <2>5, <2>6, <2>7, <2>8 DEF Handle
<1> QED
  BY <1>1, <1>2, <1>3, <1>4 DEF Next

(* A step that leaves the account alone and takes no request to its patch. *)
LEMMA QuietStep ==
  ASSUME AllocationInv, InactiveStays', UNCHANGED << account, drift, job >>,
         \A r \in Requests : pc'[r] = "patch_commit" => pc[r] = "patch_commit"
  PROVE  AllocationInv'
<1>1. ActiveAllocated' = ActiveAllocated
  BY DEF account, ActiveAllocated
<1> QED
  BY <1>1 DEF AllocationInv, PatchesFit, AllocationWithinDrift, At, account

(* While a patch is about to commit, no other request changes a balance.   *)
LEMMA PatchAlone ==
  ASSUME TypeOK, LocksHeld, NEW r \in Requests, NEW q \in Requests, At(q, "patch_commit"),
         pc[r] \in {"chat_commit", "patch_commit", "topup_commit"}
  PROVE  q = r
<1>1. Company \in excl[q] /\ Company \in excl[r] \cup share[r]
  BY DEF LocksHeld, At, ReadingPoints
<1> QED
  BY <1>1 DEF LocksHeld

(* A commit keeps the allocation within the pool and its drift.            *)
LEMMA CommitStep ==
  ASSUME Inductive, AllocationInv, InactiveStays', NEW r \in Requests,
         ChatCommit(r) \/ PatchCommit(r) \/ TopUpCommit(r)
  PROVE  AllocationInv'
<1> DEFINE u == job[r].user
<1>1. /\ TypeOK /\ LocksHeld /\ ReadsStillCurrent
      /\ PatchesFit /\ AllocationWithinDrift
  BY DEF Inductive, AllocationInv
<1>2. /\ pool \in Int /\ drift \in Nat /\ active \in SUBSET Users /\ limit \in [Users -> Int]
      /\ ActiveAllocated \in Int
  BY AllocatedShrinks DEF Inductive, TypeOK
<1>3. pc[r] \in {"chat_commit", "patch_commit", "topup_commit"} /\ pc' = [pc EXCEPT ![r] = pc'[r]]
      /\ pc'[r] \in {"done", "audit_actor"}
  BY <1>1 DEF ChatCommit, PatchCommit, TopUpCommit, At, Goto, TypeOK
<1>4. \A q \in Requests : pc'[q] # "patch_commit"
  BY <1>1, <1>3, PatchAlone DEF At, TypeOK
<1>5. PatchesFit'
  BY <1>4 DEF PatchesFit, At
<1>6. CASE ChatCommit(r)
  <2>1. u \in Users /\ limit[u] \in Int /\ seenLimit[r] = limit[u]
    BY <1>1, <1>6 DEF ChatCommit, TypeOK, KindsAt, At, ReadsStillCurrent, ReadingPoints
  <2> HIDE DEF u
  <2>2. /\ limit' = [limit EXCEPT ![u] = limit[u] - 1] /\ pool' = pool - 1 /\ active' = active
        /\ drift' = IF u \in active THEN drift ELSE drift + 1
    BY <1>6, <2>1 DEF ChatCommit, u
  <2>3. ActiveAllocated' = IF u \in active THEN ActiveAllocated - limit[u] + (limit[u] - 1)
                                            ELSE ActiveAllocated
    <3> DEFINE v == limit[u] - 1
    <3>1. v \in Int
      BY <2>1
    <3>2. limit' \in [Users -> Int] /\ limit'[u] = v /\ \A x \in Users \ {u} : limit'[x] = limit[x]
      BY <1>2, <2>1, <2>2, <3>1
    <3> HIDE DEF v
    <3>3. /\ u \in active => SumFunctionOnSet(limit', active)
                            = SumFunctionOnSet(limit, active) - limit[u] + v
          /\ u \notin active => SumFunctionOnSet(limit', active) = SumFunctionOnSet(limit, active)
      BY <1>2, <2>1, <3>1, <3>2, SumMoves
    <3> QED
      BY <2>2, <3>3 DEF v, ActiveAllocated
  <2>4. AllocationWithinDrift'
    BY <1>1, <1>2, <2>1, <2>2, <2>3 DEF AllocationWithinDrift
  <2> QED
    BY <1>5, <2>4 DEF AllocationInv
<1>7. CASE PatchCommit(r)
  <2>1. /\ u \in Users /\ limit[u] \in Int /\ seenLimit[r] = limit[u] /\ job[r].delta \in Int
        /\ u \in active => ActiveAllocated + job[r].delta <= pool + drift
    BY <1>1, <1>7, CreditConstants
       DEF PatchCommit, TypeOK, KindsAt, At, ReadsStillCurrent, ReadingPoints, PatchesFit
  <2> DEFINE d == job[r].delta
  <2> HIDE DEF u, d
  <2>2. /\ limit' = [limit EXCEPT ![u] = limit[u] + d] /\ pool' = pool /\ active' = active
        /\ drift' = drift
    BY <1>7, <2>1 DEF PatchCommit, u, d
  <2>3. d \in Int /\ (u \in active => ActiveAllocated + d <= pool + drift)
    BY <2>1 DEF d
  <2>4. ActiveAllocated' = IF u \in active THEN ActiveAllocated - limit[u] + (limit[u] + d)
                                            ELSE ActiveAllocated
    <3> DEFINE v == limit[u] + d
    <3>1. v \in Int
      BY <2>1, <2>3
    <3>2. limit' \in [Users -> Int] /\ limit'[u] = v /\ \A x \in Users \ {u} : limit'[x] = limit[x]
      BY <1>2, <2>1, <2>2, <3>1
    <3> HIDE DEF v
    <3>3. /\ u \in active => SumFunctionOnSet(limit', active)
                            = SumFunctionOnSet(limit, active) - limit[u] + v
          /\ u \notin active => SumFunctionOnSet(limit', active) = SumFunctionOnSet(limit, active)
      BY <1>2, <2>1, <3>1, <3>2, SumMoves
    <3> QED
      BY <2>2, <3>3 DEF v, ActiveAllocated
  <2>5. AllocationWithinDrift'
    BY <1>1, <1>2, <2>1, <2>2, <2>3, <2>4 DEF AllocationWithinDrift
  <2> QED
    BY <1>5, <2>5 DEF AllocationInv
<1>8. CASE TopUpCommit(r)
  <2> DEFINE amount == job[r].delta
  <2>1. amount \in Int
    BY <1>1 DEF TypeOK, Jobs
  <2> HIDE DEF amount
  <2>2. /\ limit' = limit /\ pool' = pool + amount /\ active' = active
        /\ drift' = IF amount < 0 THEN drift - amount ELSE drift
    BY <1>8 DEF TopUpCommit, amount
  <2>3. ActiveAllocated' = ActiveAllocated
    BY <2>2 DEF ActiveAllocated
  <2>4. AllocationWithinDrift'
    BY <1>1, <1>2, <2>1, <2>2, <2>3 DEF AllocationWithinDrift
  <2> QED
    BY <1>5, <2>4 DEF AllocationInv
<1> QED
  BY <1>6, <1>7, <1>8

(* Every step keeps the allocation within the pool and its drift.          *)
LEMMA AllocationPreserved ==
  Inductive /\ AllocationInv /\ [Next]_vars => AllocationInv'
<1> SUFFICES ASSUME Inductive, AllocationInv, [Next]_vars PROVE AllocationInv'
  OBVIOUS
<1>1. TypeOK /\ LocksHeld /\ ReadsStillCurrent /\ InactiveStays /\ PatchesFit /\ AllocationWithinDrift
  BY DEF Inductive, AllocationInv
<1>2. InactiveStays'
  BY <1>1, InactivePreserved
<1>3. /\ pool \in Int /\ drift \in Nat /\ ActiveAllocated \in Int /\ pc \in [Requests -> Points]
      /\ \A u : /\ SumFunctionOnSet(limit, active \ {u}) \in Int
               /\ SumFunctionOnSet(limit, active \ {u}) <= ActiveAllocated
  BY AllocatedShrinks DEF Inductive, TypeOK
<1>4. CASE UNCHANGED vars
  BY <1>2, <1>4, QuietStep DEF vars, control, history
<1>5. CASE Crash
  BY <1>2, <1>3, <1>5, QuietStep DEF Crash, history, At
<1>6. ASSUME NEW r \in Requests, Receive(r) PROVE AllocationInv'
  <2>1. PICK j, point : point \in Doors /\ Arrive(r, j, point)
    BY <1>6, ReceiveArrives
  <2>2. /\ UNCHANGED << account, drift >> /\ \A q \in Requests \ {r} : job'[q] = job[q]
        /\ \A q \in Requests : pc'[q] = "patch_commit" => pc[q] = "patch_commit" /\ q # r
    BY <1>1, <1>3, <2>1 DEF Doors, Arrive, Goto, history, At, TypeOK
  <2>3. ActiveAllocated' = ActiveAllocated
    BY <2>2 DEF account, ActiveAllocated
  <2> QED
    BY <1>1, <1>2, <2>2, <2>3 DEF AllocationInv, PatchesFit, AllocationWithinDrift, At, account
<1>7. ASSUME NEW r \in Requests, Handle(r) PROVE AllocationInv'
  <2>1. CASE ChatCommit(r) \/ PatchCommit(r) \/ TopUpCommit(r)
    BY <1>2, <2>1, CommitStep
  <2>2. CASE PatchReadAllocated(r)
    <3>1. CASE Abandon(r)
      BY <1>2, <1>3, <3>1, QuietStep DEF Abandon, Goto, history
    <3>2. CASE ~Abandon(r)
      <4> DEFINE d == job[r].delta
      <4>1. /\ At(r, "patch_allocated") /\ Continue(r, "patch_commit") /\ UNCHANGED locals
            /\ (IF seenActive[r] THEN ActiveAllocated + d ELSE ActiveAllocated) <= seenPool[r]
        <5>1. d \in Int /\ seenPool[r] \in Int
          BY <1>1 DEF TypeOK, Jobs
        <5> QED
          BY <1>3, <2>2, <3>2, <5>1 DEF PatchReadAllocated
      <4>2. /\ seenPool[r] = pool /\ d \in Int
            /\ job[r].user \in active => seenActive[r]
        BY <1>1, <4>1 DEF ReadsStillCurrent, TypeOK, KindsAt, Jobs, At, InactiveStays
      <4>3. UNCHANGED << account, drift, job >> /\ ActiveAllocated' = ActiveAllocated
        BY <4>1 DEF Continue, history, account, ActiveAllocated
      <4>4. \A q \in Requests \ {r} : pc'[q] = pc[q]
        BY <1>3, <4>1 DEF Continue, Goto
      <4>5. job[r].user \in active => ActiveAllocated + d <= pool + drift
        BY <1>3, <4>1, <4>2
      <4>6. PatchesFit'
        BY <1>1, <4>3, <4>4, <4>5 DEF PatchesFit, At, account
      <4> QED
        BY <1>1, <1>2, <4>3, <4>6 DEF AllocationInv, AllocationWithinDrift, account
    <3> QED
      BY <3>1, <3>2
  <2>3. CASE UpdateUser(r)
    <3>1. /\ UNCHANGED << pool, limit, job, drift >>
          /\ active' = active \ {job[r].user} \/ active' = active
          /\ \A q \in Requests : pc'[q] = "patch_commit" => pc[q] = "patch_commit"
      BY <1>3, <2>3 DEF UpdateUser, Goto, history
    <3>2. ActiveAllocated' \in Int /\ ActiveAllocated' <= ActiveAllocated /\ active' \subseteq active
      BY <1>3, <3>1 DEF ActiveAllocated
    <3>3. \A q \in Requests : job[q].delta \in Int
      BY <1>1 DEF TypeOK, Jobs
    <3>4. PatchesFit'
      BY <1>1, <1>3, <3>1, <3>2, <3>3 DEF PatchesFit, At
    <3>5. AllocationWithinDrift'
      BY <1>1, <1>3, <3>1, <3>2 DEF AllocationWithinDrift
    <3> QED
      BY <1>2, <3>4, <3>5 DEF AllocationInv
  <2>4. CASE ~(ChatCommit(r) \/ PatchCommit(r) \/ TopUpCommit(r) \/ PatchReadAllocated(r)
               \/ UpdateUser(r))
    <3> DEFINE Quiet == /\ UNCHANGED << account, drift, job >>
                        /\ \A q \in Requests : pc'[q] = "patch_commit" => pc[q] = "patch_commit"
    <3> USE <1>3 DEF Continue, Abandon, Goto, history
    <3>1. ASSUME LoadTarget(r) PROVE Quiet
      <4>1. job[r].kind \in {"limit", "detach", "deactivate"}
        BY <1>1, <3>1 DEF LoadTarget, TypeOK, KindsAt
      <4> QED
        BY <3>1, <4>1 DEF LoadTarget
    <3>2. ASSUME LockCompany(r) \/ LockUser(r) \/ SeePool(r) \/ SeeLimit(r) PROVE Quiet
      BY <3>2 DEF LockCompany, LockUser, SeePool, SeeLimit
    <3>3. ASSUME ChatReadLimit(r) \/ ChatReadPool(r) \/ PatchReadLimit(r) \/ PatchReadPool(r) PROVE Quiet
      BY <3>3 DEF ChatReadLimit, ChatReadPool, PatchReadLimit, PatchReadPool
    <3>4. ASSUME InsertEntry(r) \/ DetachFails(r) \/ AuditActor(r) \/ AuditCommit(r) \/ DeadlockVictim(r) PROVE Quiet
      BY <3>4 DEF InsertEntry, DetachFails, AuditActor, AuditCommit, DeadlockVictim
    <3>5. Quiet
      BY <1>7, <2>4, <3>1, <3>2, <3>3, <3>4 DEF Handle
    <3> QED
      BY <1>2, <3>5, QuietStep
  <2> QED
    BY <2>1, <2>2, <2>3, <2>4
<1> QED
  BY <1>4, <1>5, <1>6, <1>7 DEF Next

(* What managers grant to active users stays within the pool, but for what *)
(* negative top-ups and chats of users deactivated meanwhile took from it, *)
(* although PATCH .../limit adds up figures of different moments.          *)
THEOREM AllocationAlwaysWithinDrift == Spec => []AllocationWithinDrift
<1>1. Inductive /\ AllocationInv /\ [Next]_vars => AllocationInv'
  BY AllocationPreserved
<1>2. AllocationInv => AllocationWithinDrift
  BY DEF AllocationInv
<1> QED
  BY AllocationStarts, InductiveHolds, <1>1, <1>2, PTL DEF Spec

-------------------------------------------------------------------------------

(* A top-up about to commit has its key for itself.                        *)
KeysFresh ==
  \A r \in Requests : At(r, "topup_commit") =>
    /\ job[r].key \notin usedKeys
    /\ \A q \in Requests \ {r} : At(q, "topup_commit") => job[q].key # job[r].key

(* A step that spends no key and takes no request to its top-up.           *)
LEMMA KeysQuiet ==
  ASSUME KeysFresh, UNCHANGED usedKeys,
         \A q \in Requests : /\ pc'[q] = "topup_commit" => pc[q] = "topup_commit"
                             /\ pc[q] = "topup_commit" => job'[q] = job[q]
  PROVE  KeysFresh'
  BY DEF KeysFresh, At

(* The unique index of the ledger keeps the keys apart.                    *)
LEMMA KeysPreserved ==
  TypeOK /\ KeysFresh /\ [Next]_vars => KeysFresh'
<1> SUFFICES ASSUME TypeOK, KeysFresh, [Next]_vars PROVE KeysFresh'
  OBVIOUS
<1>1. pc \in [Requests -> Points] /\ job \in [Requests -> Jobs]
  BY DEF TypeOK
<1>2. CASE UNCHANGED vars
  BY <1>2, KeysQuiet DEF vars, control, records
<1>3. CASE Crash
  BY <1>3, KeysQuiet DEF Crash, records
<1>4. ASSUME NEW r \in Requests, Receive(r) PROVE KeysFresh'
  <2>1. PICK j, point : point \in Doors /\ Arrive(r, j, point)
    BY <1>4, ReceiveArrives
  <2> QED
    BY <1>1, <2>1, KeysQuiet DEF Doors, Arrive, At, Goto, records
<1>5. ASSUME NEW r \in Requests, Handle(r) PROVE KeysFresh'
  <2> DEFINE Quiet == /\ UNCHANGED << usedKeys, job >>
                      /\ \A q \in Requests : pc'[q] = "topup_commit" => pc[q] = "topup_commit"
  <2>1. CASE TopUpCommit(r)
    <3>1. /\ At(r, "topup_commit") /\ pc' = [pc EXCEPT ![r] = "audit_actor"] /\ job' = job
          /\ usedKeys' = usedKeys \cup {job[r].key}
      BY <2>1 DEF TopUpCommit, Goto
    <3> QED
      BY <1>1, <3>1 DEF KeysFresh, At
  <2>2. CASE InsertEntry(r)
    <3>1. CASE Abandon(r)
      BY <1>1, <3>1, KeysQuiet DEF Abandon, Goto, records
    <3>2. CASE ~Abandon(r)
      <4>1. /\ \A q \in Requests \ {r} : At(q, "topup_commit") => job[q].key # job[r].key
            /\ job[r].key \notin usedKeys
            /\ pc' = [pc EXCEPT ![r] = "topup_commit"] /\ job' = job /\ usedKeys' = usedKeys
        BY <2>2, <3>2 DEF InsertEntry, Goto, records
      <4> QED
        BY <1>1, <4>1 DEF KeysFresh, At
    <3> QED
      BY <3>1, <3>2
  <2>3. CASE ~(TopUpCommit(r) \/ InsertEntry(r))
    <3> USE <1>1 DEF Continue, Abandon, Goto, records
    <3>1. ASSUME LoadTarget(r) PROVE Quiet
      <4>1. job[r].kind \in {"limit", "detach", "deactivate"}
        BY <3>1 DEF LoadTarget, TypeOK, KindsAt
      <4> QED
        BY <3>1, <4>1 DEF LoadTarget
    <3>2. ASSUME LockCompany(r) \/ LockUser(r) \/ SeePool(r) \/ SeeLimit(r) PROVE Quiet
      BY <3>2 DEF LockCompany, LockUser, SeePool, SeeLimit
    <3>3. ASSUME ChatReadLimit(r) \/ ChatReadPool(r) \/ ChatCommit(r) PROVE Quiet
      BY <3>3 DEF ChatReadLimit, ChatReadPool, ChatCommit
    <3>4. ASSUME PatchReadLimit(r) \/ PatchReadPool(r) \/ PatchReadAllocated(r) \/ PatchCommit(r)
          PROVE  Quiet
      BY <3>4 DEF PatchReadLimit, PatchReadPool, PatchReadAllocated, PatchCommit
    <3>5. ASSUME UpdateUser(r) \/ DetachFails(r) \/ AuditActor(r) \/ AuditCommit(r)
                 \/ DeadlockVictim(r)
          PROVE  Quiet
      BY <3>5 DEF UpdateUser, DetachFails, AuditActor, AuditCommit, DeadlockVictim
    <3>6. Quiet
      BY <1>5, <2>3, <3>1, <3>2, <3>3, <3>4, <3>5 DEF Handle
    <3> QED
      BY <3>6, KeysQuiet
  <2> QED
    BY <2>1, <2>2, <2>3
<1> QED
  BY <1>2, <1>3, <1>4, <1>5 DEF Next

(* A step of a request is a step of the account, or leaves it alone.       *)
LEMMA StepIsAccountStep ==
  Inductive /\ KeysFresh /\ [Next]_vars => [Account!Next]_(Account!accountVars)
<1> SUFFICES ASSUME Inductive, KeysFresh, [Next]_vars
             PROVE  Account!Next \/ UNCHANGED << account, usedKeys >>
  BY DEF account, Account!accountVars
<1> USE CreditConstants DEF Inductive
<1>1. CASE UNCHANGED vars
  BY <1>1 DEF vars, records
<1>2. CASE Crash
  BY <1>2 DEF Crash, records
<1>3. ASSUME NEW r \in Requests, Receive(r) PROVE UNCHANGED << account, usedKeys >>
  BY <1>3 DEF Receive, ReceiveChat, ReceiveCredits, ReceiveDetach, ReceiveDeactivate,
     ReceiveLimit, ReceiveTopUp, Arrive, records
<1>4. ASSUME NEW r \in Requests, Handle(r) PROVE Account!Next \/ UNCHANGED << account, usedKeys >>
  <2> DEFINE u == job[r].user
  <2>1. CASE ChatCommit(r)
    <3>1. u \in Users /\ limit[u] >= 1 /\ pool >= 1 /\ seenLimit[r] = limit[u]
      BY <2>1 DEF ChatCommit, TypeOK, KindsAt, At, ReadsStillCurrent, ReadingPoints
    <3>2. /\ pool' = pool - 1
          /\ limit' = [limit EXCEPT ![u] = limit[u] - 1]
          /\ UNCHANGED << active, usedKeys >>
      BY <2>1, <3>1 DEF ChatCommit
    <3> QED
      BY <3>1, <3>2 DEF Account!Next, Account!Charge
  <2>2. CASE PatchCommit(r)
    <3>1. /\ u \in Users /\ job[r].delta \in Deltas
          /\ seenLimit[r] = limit[u] /\ seenLimit[r] + job[r].delta >= 0
      BY <2>2 DEF PatchCommit, TypeOK, KindsAt, At, ReadsStillCurrent, ReadingPoints
    <3>2. /\ limit' = [limit EXCEPT ![u] = limit[u] + job[r].delta]
          /\ UNCHANGED << pool, active, usedKeys >>
      BY <2>2, <3>1 DEF PatchCommit
    <3> QED
      BY <3>1, <3>2 DEF Account!Next, Account!MoveLimit
  <2>3. CASE TopUpCommit(r)
    <3>1. job[r].delta \in Amounts /\ job[r].key \in Keys /\ job[r].key \notin usedKeys
      BY <2>3 DEF TopUpCommit, TypeOK, Jobs, KindsAt, KeysFresh, At
    <3>2. /\ pool' = pool + job[r].delta /\ UNCHANGED << limit, active >>
          /\ usedKeys' = usedKeys \cup {job[r].key}
      BY <2>3 DEF TopUpCommit
    <3> QED
      BY <3>1, <3>2 DEF Account!Next, Account!Post
  <2>4. CASE UpdateUser(r)
    <3>1. u \in Users
      BY <2>4 DEF UpdateUser, TypeOK, KindsAt, At
    <3>2. active' = active \ {u} \/ UNCHANGED active
      BY <2>4 DEF UpdateUser
    <3>3. UNCHANGED << pool, limit, usedKeys >>
      BY <2>4 DEF UpdateUser
    <3> QED
      BY <3>1, <3>2, <3>3 DEF Account!Next, Account!Deactivate, account
  <2>5. CASE ~(ChatCommit(r) \/ PatchCommit(r) \/ TopUpCommit(r) \/ UpdateUser(r))
    BY <1>4, <2>5 DEF Handle, LoadTarget, LockCompany, LockUser, SeePool, SeeLimit,
       ChatReadLimit, ChatReadPool, PatchReadLimit, PatchReadPool, PatchReadAllocated,
       InsertEntry, DetachFails, AuditActor, AuditCommit, DeadlockVictim,
       Continue, Abandon, account, records
  <2> QED
    BY <2>1, <2>2, <2>3, <2>4, <2>5
<1> QED
  BY <1>1, <1>2, <1>3, <1>4 DEF Next, vars, account

(* Every handler takes effect in one indivisible step of CreditAccount: a  *)
(* chat pays from the pool and from its author's allowance together or not *)
(* at all, a manager's patch moves an allowance and never the pool, and    *)
(* top-ups sent again under one key, overlapping or not, count once.       *)
THEOREM Refinement == Spec => ImplementsAccount
<1>1. Init => Account!Init /\ KeysFresh
  BY DEF Init, Account!Init, KeysFresh, At
<1>2. Inductive /\ KeysFresh /\ [Next]_vars => KeysFresh'
  BY KeysPreserved DEF Inductive
<1> QED
  BY <1>1, <1>2, InductiveHolds, StepIsAccountStep, PTL DEF Spec, ImplementsAccount, Account!Spec

==============================================================================

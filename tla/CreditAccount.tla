---------------------------- MODULE CreditAccount ----------------------------
(***************************************************************************)
(* What the credit code of product_api promises about one company, every   *)
(* operation being a single indivisible step: a pool of credits, a         *)
(* personal allowance per employee, and four things that may happen to     *)
(* them.  CompanyCredits models the statements the handlers really run     *)
(* and implements this module.                                             *)
(***************************************************************************)
EXTENDS Integers

CONSTANTS
  Users,        (* the employees of the company                            *)
  Amounts,      (* what a superadmin may post to the pool (may be negative)*)
  Deltas,       (* by how much a manager may move an allowance             *)
  Keys,         (* idempotency keys of the posts                           *)
  StartPool,    (* the pool and the allowances the history starts from     *)
  StartLimit

VARIABLES
  pool,         (* SUM(ledger.delta) of the company                        *)
  limit,        (* user_credit_limits.remaining_credits, 0 when no row     *)
  active,       (* the users whose is_active flag is set                   *)
  usedKeys      (* idempotency keys posted so far                          *)

accountVars == << pool, limit, active, usedKeys >>

Init ==
  /\ pool = StartPool
  /\ limit = StartLimit
  /\ active = Users
  /\ usedKeys = {}

(* One chat message: the pool and the author's allowance pay together.     *)
Charge(u) ==
  /\ pool >= 1
  /\ limit[u] >= 1
  /\ pool' = pool - 1
  /\ limit' = [limit EXCEPT ![u] = @ - 1]
  /\ UNCHANGED << active, usedKeys >>

(* A manager moves an allowance; the pool is left alone.                   *)
MoveLimit(u, d) ==
  /\ limit[u] + d >= 0
  /\ limit' = [limit EXCEPT ![u] = @ + d]
  /\ UNCHANGED << pool, active, usedKeys >>

(* A superadmin posts to the pool, once under each key, however often and  *)
(* with whatever amount the key is sent; the allowances are left alone.    *)
Post(a, k) ==
  /\ k \notin usedKeys
  /\ pool' = pool + a
  /\ usedKeys' = usedKeys \cup {k}
  /\ UNCHANGED << limit, active >>

Deactivate(u) ==
  /\ active' = active \ {u}
  /\ UNCHANGED << pool, limit, usedKeys >>

Next ==
  \/ \E u \in Users : Charge(u) \/ Deactivate(u)
  \/ \E u \in Users, d \in Deltas : MoveLimit(u, d)
  \/ \E a \in Amounts, k \in Keys : Post(a, k)

Spec == Init /\ [][Next]_accountVars

==============================================================================

# TLA+ specifications of the b2b service

The repository (`src/`) is a small B2B product: `product_api` (FastAPI,
PostgreSQL) serves companies, their employees, a paid chat and a claims service;
`gateway_api` signs in front of the language-model provider; `web_ui` is a React
client. These specifications describe the parts where requests meet in a shared
database, where answers may be lost, and where something is paid for.

Module names are those of the files in this directory. `PROJECT.json` maps every
definition to the source lines it stands for.

## 1. Inventory

`P` is `services/product_api/src/product_api`, `G` is
`services/gateway_api/src/gateway_api`, `W` is `services/web_ui/src`.

| component | state | operations | what is hard | what makes it correct | module |
|---|---|---|---|---|---|
| Company credits (`P/repositories.py`, `P/main.py`, `P/rbac.py`) | `ledger` (its sum is the pool), `user_credit_limits`, `users.is_active`, `audit_log`, row locks | chat reservation, limit patch, top-up, deactivate, detach, audit rows | statements of several requests interleave under READ COMMITTED; checks before locks; audit in a second transaction; crash, deadlock | no lost update, no overdraft, pool and allowance move together, allocation stays within the pool, every request ends | `CompanyCredits`, `CreditAccount` |
| Chat requests (`P/main.py`, `P/gateway_client.py`) | `conversations`, `messages`, `ledger`, the ORM session of each request | receive, check, open conversation, look up, insert and reserve, call the gateway, stream | retries, races on one `client_message_id`, disconnects, provider failures, restarts | one charge per message, a completed answer is kept, what was sent as final is stored | `ChatRetry` |
| Rate limiters (`P/rate_limit.py`) | hits per key, in memory | `allow`, three in a row for a chat | window edges, a refused request that consumed hits | at most N hits per window, at every moment | `RateLimits` |
| Authentication, sessions (`P/routers/auth.py`, `P/auth.py`, `P/rbac.py`) | `auth_tokens`, `sessions`, `users` | request link, confirm, logout | one link confirmed twice at once, a user inserted meanwhile, an inactive user | a token opens one session, a refused one stays usable | `Membership` |
| Organisations and invites (`P/routers/invites.py`, `P/main.py`) | companies, `invites`, `users` | create-org, invite, assign, accept, deactivate | several commits in one handler, check-then-write on the user, the pending invite and the INN | one company per user, one acceptance per invite, every company accounted for | `Membership` |
| Superadmin bootstrap (`P/bootstrap.py`) | `users` | insert or promote at start-up | – | – | `Membership` |
| Claim lifecycle (`P/routers/public_claims.py`, `P/routers/admin_claims.py`, `P/claims/`) | the `claims` row | extract, patch, contact, generate-preview, preview, pay, status, final text, send | no row lock across the awaits, the ORM writes only changed columns, e-mail before commit | the status moves forward, dates, data, state and header agree, one mail per claim | `ClaimLifecycle` |
| Claim files (`P/claims/storage.py`, `P/routers/public_claims.py`) | `claim_files` and the upload directory | upload, delete | one side fails or the process dies between them | no row without its file, no forgotten file | `ClaimFiles` |
| Claim data and text (`P/claims/extraction.py`, `normalization.py`, `rules.py`, `generation.py`) | `normalized_data`, `missing_fields`, the preview text | extract, merge a patch, infer, generate | several functions each recompute a part of one record | the parts agree after any patches, the text states only what the data says | `ClaimData`, `ClaimPreview` |
| Preview header (`P/claims/preview_header_*.py`, `person_name_*.py`, `datanewton_client.py`) | `preview_header`, two caches | build, enrich, transform names, serve | four sources for one line, retries, overlapping look-ups | the lines agree, cached answers are fresh | `PartyHeader`, `PartyLookup` |
| Claims admin access (`P/claims/admin_auth.py`) | tokens, cookies | request, confirm | as authentication | as authentication | `Membership` |
| Gateway signature (`G/security.py`) | nonces with expiry, in memory | verify | two clocks, rounding, skew against time to live, restart | a signed request is accepted once | `GatewayNonce` |
| Streaming (`G/openai_client.py`, `G/main.py`, `P/main.py`, `W/lib/chatStream.ts`) | a buffer in each service, the stored row | delta, final, error | truncated and broken streams, failed commit | the text shown as complete is the text stored | `ChatStream` |
| Web chat state (`W/hooks/useChat.ts`, `W/store/chatStore.ts`) | refs, React state, a queued save, `localStorage` | send, stop, switch user, leave, reload | effects and callbacks after a switch | a history holds its own user's questions, what streams can be stopped | `BrowserChat` |
| Web document queue (`W/claims/hooks/useStep3DocQueueStatus.ts`) | timers, run number, statuses | start, fire, rerender | late timers | done only after its own timers | `DocQueue` |
| E-mail, settings, schemas, migrations, pages, the authentication context of the browser | – | – | – | – | not modelled: I/O, declarations or rendering |

How they interact. `product_api` is one process with an event loop: a handler
runs until it awaits, and every database statement is an await. A request owns
one `AsyncSession`, shared by its authentication and its body, with
`expire_on_commit=False`. Requests meet in PostgreSQL (row locks, unique indexes,
foreign keys) and in a few in-memory objects. `/v1/chat` calls `gateway_api` over
HTTP, which calls the provider and streams events back; `web_ui` reads them.

## 2. Plan

The modules were written in this order; all of them exist.

1. `CreditAccount`: the account of one company with indivisible operations.
2. `CompanyCredits`: the handlers statement by statement; implements 1.
   `CompanyCreditsProofs` proves its safety properties and the refinement.
3. `ChatRetry`: one user's chat requests; uses the `Charge` of 1.
   `ChatRetryProofs` proves that retries are free and what becomes of the answers.
4. `ClaimLifecycle`, `ClaimFiles`, `ClaimData`, `ClaimPreview`, `PartyHeader`, `PartyLookup`;
   `MCClaims` instantiates the six. Proofs: `ClaimLifecycleProofs`, and `ClaimServiceProofs`
   for the other five.
5. `Membership`, `GatewayNonce`, `RateLimits`, `ChatStream`, `BrowserChat`, `DocQueue`; `MCPlatform`
   instantiates the six. Proofs: `MembershipProofs`; `ChatPathProofs` for the limiters, the
   nonces and the stream; `WebProofs` for the two hooks of the browser.
6. `Filtered`, the list comprehension that `ClaimData`, `PartyHeader` and `RateLimits` share, and
   `LoopProofs`, what it and the library's sum compute.

What would come next: `ChatStream` composed with `ChatRetry` on one stored row and with
`BrowserChat` on one message, so that a retry meets a stream that is still read; the
`claim_events` rows.

## 3. What is modelled

### CreditAccount

`pool`, `limit` and `active` of one company, the idempotency keys used so far, and four steps:
`Charge`, `MoveLimit`, `Post` (once under each key), `Deactivate`. It says what the credit code promises and
nothing about how.

### CompanyCredits

One action per awaited statement. `pc[r]` is the next statement of request `r`,
`job[r]` what it was asked, `excl[r]` and `share[r]` the rows it has locked
`FOR UPDATE` and (through foreign keys) `FOR KEY SHARE`, `seenLimit`, `seenPool`,
`seenActive` its local variables. The seven kinds of request:

| code | actions |
|---|---|
| `POST /v1/chat` up to the reservation | `ReceiveChat`, `SeePool`, `SeeLimit`, `LockCompany`, `LockUser`, `ChatReadLimit`, `ChatReadPool`, `ChatCommit` |
| `PATCH /company/users/{id}/limit` | `ReceiveLimit`, `LoadTarget`, `LockCompany`, `LockUser`, `PatchReadLimit`, `PatchReadPool`, `PatchReadAllocated`, `PatchCommit`, then the audit row |
| `POST /admin/companies/{id}/credits` | `ReceiveTopUp`, `InsertEntry`, `TopUpCommit`, then the audit row |
| `.../deactivate` | `ReceiveDeactivate`, `LoadTarget`, `UpdateUser`, then the audit row |
| `.../detach` | `ReceiveDetach`, `LoadTarget`, `LockUser`, `DetachFails` |
| `POST /company/credits` | `ReceiveCredits`, then the audit row |
| `write_audit_log` | `AuditActor`, `AuditCommit` |
| PostgreSQL, process | `DeadlockVictim`, `Crash` |

Choices. A transaction's writes become visible at its commit, so the write and the
commit are one action and the locks are taken before it. The lock on a
`user_credit_limits` row is always taken under the lock of its user's row and has
no name of its own. A missing allowance row and one holding 0 are treated alike by
every handler. Authentication and the checks that end a request before its first
write are the guards of the `Receive...` actions. An ORM object that a handler
still holds is not refreshed by a later `SELECT ... FOR UPDATE`: this is why
`PatchReadAllocated` uses `seenActive`; the allowance loaded by
`_ensure_chat_credits_available` is no longer held when the reservation reads the
row, so `ChatReadLimit` reads the current value.

Two history variables make the properties sayable: `granted` (what was ever granted
to a user) and `drift` (credits the pool lost while no active allowance shrank).

### ChatRetry

One user, `Me`, sends requests; `Colleague` stands for the others, who only take
from the pool. A conversation is named by the request that opened it, a message by
its conversation and `client_message_id`; `status` and `content` are its assistant
row; `seen[r]` is that row as the ORM session of `r` last saw it, for the ORM
writes only the columns that differ from it (`Save`). Texts are reduced to who
obtained them and whether they are whole.

`Receive`, `Check`, `Open`, `Select`, `Insert`, `Reserve`, `LoadContext` are the
handler up to the gateway call; `Delta`, `Final`, `StreamEnds`, `GatewayFails`,
`SeesDisconnect`, `CallBreaks` the ways the call proceeds and ends, for streamed
and plain requests. `CallBreaks` is what no handler catches: an httpx timeout or
transport error, and the cancellation of the response of a client that has left.
`Reserve` uses `Account!Charge`: `CompanyCredits` shows the real statements implement
it. A request may name any conversation of its user that exists, as the handler
accepts it; the browser learns fewer of them.

It is assumed that the session dependency is closed after a streamed response has
ended (FastAPI 0.118 and later, and before 0.106).

### ClaimLifecycle

One claim, `row`, and the handlers on it. `req[r]` is the handler's step with the row as its
session loaded it (`base`) and as the handler has changed it (`obj`). `LoadClaim` is
`require_claim_access` or the admin look-up; one action per route computes `obj` and flushes
(`Flush` waits for the row lock); `Commit` writes the columns in which `obj` differs from
`base`, and only those, as the ORM does; `MailClient` and `MarkSent` are the two halves of send;
`Abandon` is a crash or a lost connection. The data is reduced to whether a field is missing,
whether a rule asks for a manual review, and the parties. The access token of a claim and the
admin's session are the guards of the routes and always present. Three history variables:
`lost` (the groups of columns that depend on each other, status, data and state, data and header,
which a commit wrote although that group of the row was no longer as loaded), `broken` (a send that mailed and did
not commit), `stray` (an extraction committed under an existing header, which the code does
not rebuild then).

### ClaimFiles

`disk`, `fileRows` and `handler[h]`. Upload: `OpenUpload`, `WriteUpload`, `InsertRow`,
`CommitUpload`; delete: `FindFile`, `RemoveRow`, `CommitDelete`, `UnlinkDeleted`; each may fail, a
commit may take place and still raise (`unsure`), `_safe_unlink` may fail and a handler may
die (`leftover`).

### ClaimData, ClaimPreview

The pure functions from a model's answer to a text. A raw value is a member of a small set
that distinguishes what its normaliser does: an INN is its number of digits, a date its form
and day, an amount its form and sum, and a stored value is again a raw value, so that
normalising twice means something. `Extract` and `Patch` apply the whole pipeline
(`normalize_extraction_payload` or the merge, the inferences, the clearing of details, the
list of missing fields); `Generate` picks the body of the model or the text put together from
the data. A text is the set of statements it makes. The code's list comprehensions are the
recursive function `KeptUpTo` of `Filtered`, in this part, in `PartyHeader` and in `RateLimits`.

### PartyHeader, PartyLookup

`PartyHeader` is one side of the header: parsed registry answer, merge with the claim's own
words, display lines, inflection, name service, storing, serving. A word of a name is its
letters, its case of print, its ending and the grammatical case it was put in. `PartyLookup`
is a cache key of the registry client or of the name service, with retries, two paths, a clock
and overlapping calls.

### Membership

One e-mail address: `person` (its user row), `link`, `invite`, the companies it founds
(`org`), `sessions`, and `caller[c]`, a handler between two of its statements.

| code | actions |
|---|---|
| confirm a magic link | `ClaimLink` (the `UPDATE ... RETURNING`), `LookUpUser`, `CommitLogin` |
| accept an invite | `ClaimInvite`, `CheckInvitee`, `CommitAcceptance`, `OpenInviteSession` |
| invite | `FindNoInvite`, `CheckFree`, `CommitInvite` |
| assign | `FindNoInvite`, `CheckFree`, `CommitAssignment` |
| create-org | `StartOrg`, `CheckPendingInvite`, `CheckInn`, `CommitCompany`, `CommitOwner` |
| request-link, time, deactivate, logout, process | `RequestLink`, `Expires`, `Deactivate`, `CloseSession`, `Dies`, `Bootstrap` |

A claimed token is a row locked until the commit: a second handler waits, and a rollback
leaves the token usable. `alone` says that no other handler has committed a company,
an invite or a membership since this one began; one that is not has been overtaken. `raced` has the
invites and companies that overtaken handlers gave, `orphaned` the companies that lost their owner,
or never got one, by a death between the two commits, by a restart that made the address the
superadmin's, or by an overtaken handler. Detach is no action: it never commits (section 4).

### GatewayNonce, RateLimits, ChatStream

`GatewayNonce`: the timestamp is checked against the whole seconds of the clock when the headers
are in, the nonce is looked up and stored with the exact clock when the body is in, at most
`BodyWait` later. Copies may be delayed, repeated and damaged. `RestartGateway` empties the cache;
`accepted`, what the gateway has let through, then forgets the messages whose timestamp is still
in the window, which nothing can refuse, and keeps those that are too old (`TooLate`).
`RateLimits`: `log` holds the chats with the limiters that let them through; `hits` is what the
limiters keep. `ChatStream`: three processes joined by two channels that end in order or break;
a text is a number of deltas; a gateway stream without a final event is completed by the product
from its buffer, an empty one leaves the row pending.

### BrowserChat, DocQueue

`useChat` holds its state in refs (`memory`, `active`), which callbacks use at once, and in
React's state, whose effects copy a rendering back into the refs later; `Render` and
`RunEffects` are React's steps, `SaveTimer` the throttled save. `clobbered` says that an effect replaced a newer ref,
`switched` has the streams that ran when the user changed, `cut` those that ended without a
last event or with the page. Not modelled: a stream that lost its ref to a changed user and
outlives the page. `DocQueue`: the options as rendered, the run of the effect, its timers.

## 4. Runs

| run | instance | shows |
|---|---|---|
| `credits` | 3 users (one owner), 3 requests, amounts and deltas -1 and 1, one idempotency key, pool 3, one credit each; about 310,000 states | `TypeOK`, `LocksHeld`, `ReadsStillCurrent`, `LimitsMatchLedger`, `AllocationWithinDrift`, and that the model implements `CreditAccount` |
| `credits_live` | 2 users, 2 requests, pool 1 and two credits allotted (a state a negative top-up leaves, `StartDrift` = 1), fairness, no symmetry | `PoolFloor` where the pool is scarce, `EveryRequestEnds` |
| `chat` | 2 employees, 3 requests of one of them, 2 client ids, pool 2 and allowance 2, so that the third message is refused; about 1,200,000 states | `ChatTypeOK`, `ChargedOncePerMessage`, `FinalIsStored`, `PendingExplained`, `AnswerKept` |
| `claims` | 2 handlers, 3 requests, 3 values of the data, rows a new, ready, paid or reviewed claim can have; 3 paths; 2 patches; 7 names; 2 look-ups over 5 ticks; about 96,000 states | the claim row (`ClaimTypeOK`, `Milestones`, `MailsAccounted`, `StateMatchesData`, `HeaderMatchesData`, `PaidStaysPaid`, `StatusNeverGoesBack`, `PaidWithData`), its files (`RowHasFile`, `NoOrphans`), its data and text (`MissingIsExact`, `StoredIsNormal`, `DetailsBelong`, `ConcludedMeansSigned`, `PaymentsNotDenied`), its header (`LinesAgree`, `CachedAnswersFresh`) |
| `platform` | 2 handlers, 1 link, 2 invites, 1 existing company, 2 that may be founded, 1 INN, 5 handlers started; 1 message in 2 deliveries over 12 ticks; 4 chats of 2 users over 3 seconds; 3 deltas; 2 users, 2 questions; 2 documents, 3 runs; about 227,000 states | `TokensSpentOnce`, `InviteOrCompany`, `CompanyKept`, `CompaniesAccounted`, `ServedOnce`, `RatesRespected`, `ShownIsStored`, `HistoryIsOwn`, `StreamingIsLive`, `DoneIsEarned` |
| `credits_allocation`, `credits_audit`, `credits_detach`, `chat_charge`, `chat_conflict`, `chat_disconnect`, `claim_capitals` | smaller instances | seven statements of the README and the tests that the code does not keep, see below |

`MCClaims` and `MCPlatform` each put five or six parts that share no state side by side: `part` is
chosen in the initial state, only that part moves, and the states of the parts add up. Each
run's action coverage is complete: every action of every part fires.

Bounds. In `credits` and `chat` each request is received at most once, so the number of requests
bounds a behaviour and nothing else has to be capped. Three requests are enough for each
interleaving the handlers distinguish pairwise, with a third that changes what the
two have read (deactivation or top-up between a check and a write); only one
transaction at a time holds the company row, so longer chains of waiting requests add
no new kind of step. One idempotency key makes every pair of top-ups collide. In
`chat`, three requests are a message, its retry, and either a second retry or a second message.

In `claims`, two handlers overlap and a third follows what they left (`MaxRequests` = 3); the
initial rows stand for what came before. Three paths let an upload and a delete overlap and
one more start. Two patches after an extraction set a detail and withdraw its question; an
extraction replaces all of the data, so another one after them would lead nowhere new.
In `platform`, five handlers are an invitation, its acceptance and three that interfere. The
nonce clock of 12 ticks is longer than the window on both sides of every stamp plus the time to
live, and `Ttl` = 7 is the least `TtlCoversSkew` admits with `Skew` = 2, `Second` = 2, `BodyWait` = 1. Deployed:
300, 60 and one second, which leaves 179 seconds for a body. A window of 2 seconds and three of
clock let hits leave it; a company limit of 2 and a user limit of 1 let a later limiter
refuse what an earlier one has counted. Two users and two questions are a switch under a
running stream and the way back.

Deadlock checking is off: when all requests have ended, a stream is over or a clock has reached
its bound, nothing remains to do. That a request does not get stuck on its way is
`EveryRequestEnds` for the one place where requests hold several locks at once.

Fairness. `FairSpec` asks weak fairness of `Handle(r)` for each request: the event
loop resumes a coroutine whose statement is done, and PostgreSQL grants a free lock or
cancels one transaction of a deadlock. No request has to arrive and the process
does not have to crash. Weak fairness suffices because the company lock is taken before
the waiting can be repeated for ever: there are finitely many requests to wait for.

Safety of the interesting kind. `AllocationWithinDrift` is the strongest form of the
allocation rule that the code keeps: the sum of active allowances stays within the pool
plus what negative top-ups and chats of just-deactivated users took. `FinalIsStored` leaves out
messages on which two attempts overlapped (`overlapped`): there the later write wins, and an error
may replace an answer. `AnswerKept` says that nothing else does: the one that replaces a completed
answer had found it unfinished, so a retry that comes after the completion never does, even
beside attempts that are still running.

The properties about overlapping handlers are stated the same way in `ClaimLifecycle`, `Membership` and
`BrowserChat`: the code takes no lock, so two handlers that overlap can break most of what
one would like to say. The history variables name the exact circumstance (`lost`, `broken`,
`stray`, `raced`, `orphaned`, `unsure`, `leftover`, `switched`, `clobbered`, `cut`), and the property
says that nothing else breaks it. For a claim the exception is the group of columns the property is
about: an outdated contact, payment or review does not excuse a wrong generation state or header,
and no outdated edit excuses a status that goes back. In `Membership` it is the invite or company
that an overtaken handler gave, and every other one is accounted for; in the browser it is the
stream under which the user changed, and every other answer is settled. `StatusNeverGoesBack`, `PaidWithData` and
`CompanyKept` name the very handler whose commit is the exception. Some hold without any
exception: `PaidStaysPaid`, `Milestones`, `TokensSpentOnce`, `HistoryIsOwn`, `ShownIsStored` and
everything about claim data; `ServedOnce` holds across restarts outside the skew of the timestamps.

### Where code and documents disagree

- `credits_allocation`: README, "sum of active user limits must stay <= company pool".
  `reserve_chat_credits` never looks at `is_active` again: a member's chat has passed the check of
  the flag, the member is deactivated, a manager gives the freed credit to another active user, and
  the chat is charged all the same, which leaves the pool below what the active users may spend.
  The instance (three credits, one for each of three users, deltas of one) has no other violation.
- `credits_audit`: README, "Admin actions write to audit_log for traceability". The
  audit row has its own transaction, and its foreign-key locks can deadlock with a chat.
- `credits_detach`: `test_company_admin_detach.py` expects 200; the constraint
  `role_company_consistency` of the migrations refuses the row that detach writes.
- `chat_charge`: README, "Retry with the same `client_message_id` does not
  double-charge". The id is only unique within a conversation, and a failed first
  attempt tells no conversation id.
- `chat_conflict`: README, a retry gets "the same `user_message_id` +
  `assistant_message_id`". After losing the insertion race the handler reads
  `current_user.id`, which the rollback has expired, and fails. The shortest trace
  retries while the first request of the conversation still runs; two requests that send
  a later message at once meet the same end.
- `chat_disconnect`: README, "handles disconnects by marking assistant as error". Only
  a disconnect noticed at the next event is; a cancelled or broken stream leaves `pending`.
- `claim_capitals`: README, a name in capitals is printed upright, "then inflect ... when
  inflection is safe". With the name service enabled and failing, the formatter's inflected
  line is replaced by the source name, upright and uninflected.

## 5. What is proved

Every invariant and action property that a passing run checks is the statement of a
theorem, for every value of the constants; the one liveness property is not.

`CompanyCreditsProofs` proves, for every value of the constants that satisfies
`CreditConstants`, every number of users and requests included:

- `TypeCorrect`, `LocksAlwaysHeld`, `ReadsAlwaysCurrent`, `LimitsAlwaysMatchLedger`,
  `PoolNeverOverdrawn`: the invariants of the runs with those names;
- `Refinement`: `Spec` implements `CreditAccount`, whose `Post` happens once under each idempotency
  key: the keys of the ledger are those of the committed top-ups (`KeysFresh`), and the unique index
  refuses the second entry of two top-ups that both found the key unused.

The inductive invariant `Inductive` is the conjunction of five parts, each needing the
ones before it. `TypeOK` says which handler may be at which point. `LocksHeld` says that
locks exclude each other and that the points between a dependent read and its write are
under the locks of the company and the user. With it `ReadsStillCurrent` is preserved: a
step that changes an allowance or takes from the pool holds the company lock, so no other
request can be between such a read and its write; a top-up needs `FOR KEY SHARE` on the
company, which waits for the same lock. From it follow `LimitsMatchLedger` and
`PoolFloor`, and that the three committing steps are the steps of the account
(`StepIsAccountStep`). There is one lemma per part, one step per action.

`AllocationAlwaysWithinDrift` is about a sum over a set of users. It also needs
`StartWithinDrift`, which says what `StartDrift` means. A patch tests the sum with a flag read before
its locks and commits later. It is sound because a flag found cleared stays cleared
(`InactiveStays`), because nobody else commits while a patch is about to (`PatchAlone`), and
because a deactivation in between only makes the sum smaller (`PatchesFit`).

`LoopProofs` holds what these proofs need of loops. The induction theorems of the library cannot be
instantiated, so induction is over a set of indices: a set that holds 0, and every next index,
holds all of them (`UpTo`, from the minimum of a well-founded relation). With it a recursive
function exists, and what it computes follows: `Without` keeps the elements that are not dropped
(`KeptTyped`), keeps all when none is, is idempotent (`WithoutTwice`) and counts as it should
(`WithoutCounts`); the library's sum does not depend on the order of choice (`SumTakesOut`).

`ChatRetryProofs` proves, under `ChatConstants` alone (any number of requests, colleagues
and client ids), `ChatTypeCorrect` and `RetriesAreFree`: `ChargedOncePerMessage`. The
property is not inductive: that a reservation adds a new row for a new message needs to know
that no other request is inserting the same message (`Inserting`, which the wait on the
unique index gives) and that the conversation is committed (`Placed`). The two halves of the
property are `Paid`, whose witness is the one request that paid, and `Counted`, which needs
`messages` to be finite. `OnlyReserve` and `ReserveEffect` reduce both to one action.

What the answers keep (`FinalIsStoredAlways`, `PendingExplainedAlways`, `AnswersKept`) rests on a
second invariant, `AnswersInv`: a request that works on a message knows the row as it is
stored (`Knows`), as long as no other request has worked on it at the same time (`Apart`); a
pending row has a request that works on it or one that was lost (`PendingHeld`); what was sent
as final is in the row (`FinalStored`). The actions are sorted by what they do to the row
(`Prepares`, `Resumes`, `Stores`, `Continues`, `Saves`), one lemma each.

`ChatPathProofs`:

- `ServedOnceAlways`, from `TtlCoversSkew`, that the time to live is at least twice
  the skew, a second and the wait for the body. The invariant says that an accepted message is
  in the cache until `stamp - Skew + Ttl` at least (`Remembered`), and that a delivery in progress
  was in the window when it arrived (`DeliveriesInTime`); the assumption puts the second before
  the first. After a restart what is not in the cache is out of the window for good (`Over`).
- `RatesAlwaysRespected`. That the remembered chats are as many as the passed ones now says nothing
  about the next second; the invariant says it of every moment of the window (`RateInv`), so
  that forgetting an old chat forgets it on both sides.
- `ShownIsStoredAlways`. The text shown, with the deltas still under way on each hop, is never more
  than the next process has sent (`StreamInv`, `Unread`), and a final event is the last one of its
  channel (`Orderly`).

`ClaimLifecycleProofs`: all eight properties of the claim row, from `RequestsAssumption` and
`InitRowsAssumption` (the rows a behaviour may start with are consistent). `Follows` says what
each operation makes of the row it loaded; `Held` that a handler's loaded row was consistent
and that the current one has every date it had. `CommitEffect` combines them: a commit
changes the status only together with its date, so that dates survive every overlap, and it
either leaves a group of columns alone or makes it what follows from the group it knew (`Clean`),
unless `lost` names that group. `MailsAccounted` counts
the sends in progress with the cardinality lemmas of the library.

`ClaimServiceProofs`:

- `RowHasFileAlways` and `NoOrphansAlways`. A path is its one upload's until the
  commit, and a removed row does not come back (`Assured`); a file without a row has somebody
  who will take care of it (`Carers`), which is stronger than the property and inductive.
- `StoredIsNormalAlways`, `DetailsBelongAlways` and `MissingIsExactAlways`, for lists of payments of
  any length. Each field's normaliser maps its values to values it leaves alone
  (`NormalizeTwice`), and the steps after it, the inferences and the clearing of details, keep a
  field normal (`InferKeeps`, `ClearedKeeps`). `NoneAnswersNothing` says that the missing value is no answer.
- `ConcludedMeansSignedAlways` and `PaymentsNotDeniedAlways`. A text is put together only from data
  that lacks nothing, so that `contract_signed` is answered (`DraftOfComplete`).
- `LinesAgreeAlways`, for names of any number of words that stand as given (`NamesAsGiven`): a name
  is inflected as a whole or not at all (`NameOperations`), whichever source it came from
  (`PartyOK`).
- `CachedAnswersFreshAlways`: an entry carries the date of its own answer, whatever calls overlapped.

`MembershipProofs`: `TokensSpentOnceAlways`, from `Exclusive` (one handler per token, which the
locked row gives); `InviteOrCompanyAlways` and `CompanyAlwaysKept`, from `JoinInv`: a handler under
whose checks nobody committed still finds the address as it found it (`Undisturbed`). Both
need `TokensAssumption`, that links, invites and the missing value differ.

`CompaniesAlwaysAccounted` adds what such a handler knows of its INN (`InnFree`) and that a company
without its owner has a handler that is still to make one (`FoundedBy`); `OrgsAssumption` says that the
missing value is neither a company nor a user's row.

`WebProofs`:

- `HistoryIsOwnAlways`. A history goes through the ref, React's state, a
  rendering, the queue and the storage; the invariant follows all five copies
  and needs that a switch has no effect of the old user left to run.
- `StreamingIsLiveAlways` builds on it. As long as no ref was clobbered, React's state and the refs agree
  (on the stream that can be stopped only until a user changes under one) and every copy that can
  still be shown or saved marks only a running stream, or one in `Silent`, as streaming (`LiveInv`,
  `Calm`). Any other stream is the signed-in user's own (`OwnStreams`). The end of a stream flushes the queue, and no other user's history
  holds its answer, so that nothing saved is left behind as streaming (`CommitLive`).
- `DoneIsEarnedAlways`. The timers are always those of the present run, and the
  statuses answer to the options once the effect has run (`RunMatches`).

Only model-checked: `EveryRequestEnds`, which is liveness under fairness and out of the prover's
reach. The runs that expect a violation have nothing to prove.

## 6. Not modelled

Within the modelled components: the content limits of `/v1/chat`, the order and number of the
context messages, the database connection pool, read-only endpoints, and in
`CompanyCredits` the creation of users (`Users` is fixed; `Membership` has it). A superadmin is treated as
always authorised. Of claims: the `claim_events` rows, the notification of the
administrators after a payment, the wording of texts, the regular expressions and lists of
endings that decide which case of the model a name or an answer is, the list of allowed
administrators. Of the browser: several threads, rendering, and a stream that outlives its page after a user switch.

Left out as a whole: sending e-mail (I/O; it succeeds or fails where it is called), settings and
schemas (declarations), migrations (run offline; their constraints are in the models of the
tables), pages, the sidebar and HTTP wrappers of the browser (rendering), and its
authentication context, which promises nothing about the order of answers. Three hazards
have no property: the order of context rows with equal timestamps, a database
connection held through a gateway call, and the `conversation_id` that the final event lacks
(`PROJECT.json` says why).

--------------------------- MODULE ClaimLifecycle ---------------------------
(***************************************************************************)
(* One claim row of product_api and the handlers that change it: the       *)
(* public routes of routers/public_claims.py (extract, patch, contact,     *)
(* generate-preview, preview, pay) and those of routers/admin_claims.py    *)
(* (status, final-text, send).                                             *)
(*                                                                         *)
(* Every handler loads the row without locking it, may wait for another    *)
(* service, changes the loaded object and flushes it: the ORM writes only  *)
(* the columns whose value differs from the loaded one, and the row stays  *)
(* locked from the flush to the commit.  Two handlers may therefore work   *)
(* on one claim from the same loaded state.  Columns that depend on each   *)
(* other form a group; "lost" has the groups a commit changed although the *)
(* row of the group was no longer the one the handler had loaded.          *)
(***************************************************************************)
EXTENDS Integers, FiniteSets, Absent

CONSTANTS Requests,     \* handlers that can be in progress at the same time
          Datas,        \* normalized_data values: [full, risk, party]
          MaxRequests,  \* bound: requests started
          NoParty       \* the party of a claim without normalized data

CONSTANT InitRows       \* rows the claim may have when the behaviour starts

ASSUME RequestsAssumption == IsFiniteSet(Requests) /\ None \notin Requests

VARIABLES row,       \* the committed row
          req,       \* Requests -> what the handler holds
          lock,      \* the request whose flush holds the row lock, or None
          started,   \* requests started so far
          mails,     \* final results mailed to the client
          lost,      \* the groups of columns written from an outdated row
          broken,    \* a send mailed the client and did not commit
          stray      \* an extraction was committed under an existing header

claimVars == <<row, req, lock, started, mails, lost, broken, stray>>

Statuses == {"draft", "paid", "in_review", "sent"}
GenerationStates == {"insufficient_data", "manual_review_required", "ready"}
Operations == {"extract", "patch", "contact", "generate", "preview", "pay",
               "status", "final_text", "send"}

\* full: no missing field; risk: some rule asks for a manual review (the case
\* type, the contract, the documents, the amount); party: names and INNs.
NoData == [full |-> FALSE, risk |-> TRUE, party |-> NoParty]
AllDatas == Datas \cup {NoData}

Columns == {"status", "paid_at", "reviewed_at", "sent_at", "gen", "data",
            "header", "text", "email", "final"}

\* The columns that are computed from each other: the status from the status, the
\* generation state from the data, the header from the data.
Groups == {"status", "state", "header"}
ColumnsOf(g) == CASE g = "status" -> {"status"}
                  [] g = "state" -> {"data", "gen"}
                  [] g = "header" -> {"data", "header"}

Rows == [status : Statuses, paid_at : BOOLEAN, reviewed_at : BOOLEAN,
         sent_at : BOOLEAN, gen : GenerationStates, data : AllDatas,
         header : {d.party : d \in AllDatas} \cup {None}, text : BOOLEAN,
         email : BOOLEAN, final : BOOLEAN]

\* create_claim: a draft with insufficient data and nothing else.
NewRow == [status |-> "draft", paid_at |-> FALSE, reviewed_at |-> FALSE,
           sent_at |-> FALSE, gen |-> "insufficient_data", data |-> NoData,
           header |-> None, text |-> FALSE, email |-> FALSE, final |-> FALSE]


(* ------------------------ what the operations compute ------------------- *)
DerivedState(d) == IF d.full THEN "ready" ELSE "insufficient_data"

\* Mutant: an edit leaves the generation state alone.
KeptStateAlways(b, d) == b.gen

\* The state extract and patch store: a manual review stays one.
KeptState(b, d) == IF b.gen = "manual_review_required" THEN b.gen
                                                       ELSE DerivedState(d)

\* evaluate_claim_rules, the part that picks the state.
RulesState(d) == IF ~d.full THEN "insufficient_data"
                 ELSE IF d.risk THEN "manual_review_required" ELSE "ready"

Extracted(b, d) == [b EXCEPT !.data = d, !.gen = KeptState(b, d)]

\* Mutant: the header is built once.
MustBuildHeaderOnce(b, d) == b.header = None

\* _must_rebuild_preview_header: a name or an INN changed, or there is none.
MustRebuildHeader(b, d) == d.party # b.data.party \/ b.header = None

\* rebuild_claim_preview_header builds the header of the object's own data.
WithHeader(b) == [b EXCEPT !.header = b.data.party]

Patched(b, d) ==
  LET merged == [b EXCEPT !.data = d, !.gen = KeptState(b, d)]
  IN  IF MustRebuildHeader(b, d) THEN WithHeader(merged) ELSE merged

Contacted(b) == [b EXCEPT !.email = TRUE]

\* The header, the state the rules give and the text (NULL while a field is missing).
Previewed(b) ==
  [(IF b.header = None THEN WithHeader(b) ELSE b)
      EXCEPT !.gen = RulesState(b.data), !.text = RulesState(b.data) # "insufficient_data"]

\* Mutants: the payment does not look at the status, or at the generation state.
CanPayAgain(b) == b.gen # "insufficient_data"
CanPayEarly(b) == b.status \notin {"paid", "in_review", "sent"}

CanPay(b) == b.gen # "insufficient_data" /\ b.status \notin {"paid", "in_review", "sent"}
Paid(b) == [b EXCEPT !.status = "paid", !.paid_at = TRUE]

\* Mutant: a claim can be reviewed before it is paid.
CanReviewEarly(b) == b.status \in {"draft", "paid"}

CanReview(b) == b.status = "paid"
Reviewed(b) == [b EXCEPT !.status = "in_review", !.reviewed_at = TRUE]

FinalTextSet(b) == [b EXCEPT !.final = TRUE]

\* Mutant: a sent claim can be sent again.
CanSendAgain(b) == b.status \in {"in_review", "sent"} /\ b.email /\ b.final

\* prepare_admin_claim_send
CanSend(b) == b.status = "in_review" /\ b.email /\ b.final
Sent(b) == [b EXCEPT !.status = "sent", !.sent_at = TRUE]

\* Mutant: the ORM writes every column of the object.
FlushedWhole(current, base, obj) == obj

\* A flush writes the columns that differ from the loaded row, and only those.
Flushed(current, base, obj) ==
  [c \in Columns |-> IF obj[c] # base[c] THEN obj[c] ELSE current[c]]

(* ---------------------- what a row looks like by itself ------------------ *)
Dated(b) ==
  /\ b.status \in {"paid", "in_review", "sent"} => b.paid_at
  /\ b.status \in {"in_review", "sent"} => b.reviewed_at
  /\ b.status = "sent" => b.sent_at

StateFits(b) == b.gen \in {"manual_review_required", DerivedState(b.data)}
HeaderFits(b) == b.header \in {None, b.data.party}

\* The behaviour starts with a row the operations left when each was alone.
ASSUME InitRowsAssumption ==
  \A b \in InitRows : b \in Rows /\ Dated(b) /\ StateFits(b) /\ HeaderFits(b)

(* -------------------------------- the steps ------------------------------ *)
Idle == [op |-> None, at |-> "idle", base |-> NewRow, obj |-> NewRow]

ReqStates == [op : Operations \cup {None},
              at : {"idle", "loaded", "mailed", "flushed"},
              base : Rows, obj : Rows]

ClaimInit ==
  /\ row \in InitRows
  /\ req = [r \in Requests |-> Idle]
  /\ lock = None
  /\ started = 0
  /\ mails = IF row.status = "sent" THEN 1 ELSE 0
  /\ lost = {} /\ broken = FALSE /\ stray = FALSE

At(r, op, at) == req[r].op = op /\ req[r].at = at

\* The access check or the admin lookup loads the row into the session.
LoadClaim(r, op) ==
  /\ req[r].at = "idle" /\ started < MaxRequests
  /\ req' = [req EXCEPT ![r] = [op |-> op, at |-> "loaded", base |-> row, obj |-> row]]
  /\ started' = started + 1
  /\ UNCHANGED <<row, lock, mails, lost, broken, stray>>

\* Flush the changed object: the UPDATE waits for the row lock and keeps it.
Flush(r, obj) ==
  /\ lock = None
  /\ lock' = r
  /\ req' = [req EXCEPT ![r].at = "flushed", ![r].obj = obj]
  /\ UNCHANGED <<row, started, mails, lost, broken, stray>>

\* The handler ends without having written the row.
End(r) ==
  /\ req' = [req EXCEPT ![r] = Idle]
  /\ UNCHANGED <<row, lock, started, mails, lost, broken, stray>>

\* The gateway failed (an event is committed, a 502 raised) or a result came.
ExtractClaim(r) ==
  /\ At(r, "extract", "loaded")
  /\ \/ End(r)
     \/ \E d \in AllDatas : Flush(r, Extracted(req[r].base, d))

\* The header is rebuilt, with the row lock held, from the patched object.  A value
\* that does not validate ends the request with a 400, here and in the next two.
PatchClaim(r) ==
  /\ At(r, "patch", "loaded")
  /\ End(r) \/ \E d \in AllDatas : Flush(r, Patched(req[r].base, d))

ContactClaim(r) ==
  At(r, "contact", "loaded") /\ (End(r) \/ Flush(r, Contacted(req[r].base)))

\* With missing fields the state is committed before the 409.
GeneratePreview(r) == At(r, "generate", "loaded") /\ Flush(r, Previewed(req[r].base))

\* GET preview: only a header that was missing is stored.
GetPreview(r) ==
  /\ At(r, "preview", "loaded")
  /\ IF req[r].base.header = None THEN Flush(r, WithHeader(req[r].base)) ELSE End(r)

PayClaim(r) ==
  /\ At(r, "pay", "loaded")
  /\ IF CanPay(req[r].base) THEN Flush(r, Paid(req[r].base)) ELSE End(r)

SetClaimStatus(r) ==
  /\ At(r, "status", "loaded")
  /\ IF CanReview(req[r].base) THEN Flush(r, Reviewed(req[r].base)) ELSE End(r)

SetFinalText(r) ==
  At(r, "final_text", "loaded") /\ (End(r) \/ Flush(r, FinalTextSet(req[r].base)))

\* The mail goes out before anything is written; a refused mail is an event.
MailClient(r) ==
  /\ At(r, "send", "loaded")
  /\ \/ End(r)
     \/ /\ CanSend(req[r].base)
        /\ mails' = mails + 1
        /\ req' = [req EXCEPT ![r].at = "mailed"]
        /\ UNCHANGED <<row, lock, started, lost, broken, stray>>

\* The reload answers with the session's own object: the check repeats the first.
MarkSent(r) ==
  /\ At(r, "send", "mailed")
  /\ Flush(r, Sent(req[r].base))

\* o is another row than b in a column of the group g.
Differs(g, b, o) == \E c \in ColumnsOf(g) : o[c] # b[c]

Commit(r) ==
  LET b == req[r].base  o == req[r].obj
  IN  /\ lock = r
      /\ row' = Flushed(row, b, o)
      /\ lost' = lost \cup {g \in Groups : Differs(g, b, row) /\ Differs(g, b, o)}
      /\ stray' = (stray \/ (req[r].op = "extract" /\ row.header # None))
      /\ req' = [req EXCEPT ![r] = Idle]
      /\ lock' = None
      /\ UNCHANGED <<started, mails, broken>>

\* Mutant: a handler that dies leaves the row locked.
AbandonLocked(r) ==
  /\ req[r].at # "idle"
  /\ req' = [req EXCEPT ![r] = Idle]
  /\ broken' = (broken \/ (req[r].op = "send" /\ req[r].at # "loaded"))
  /\ UNCHANGED <<row, lock, started, mails, lost, stray>>

\* The process dies or the database drops the connection: nothing is stored.
Abandon(r) ==
  /\ req[r].at # "idle"
  /\ req' = [req EXCEPT ![r] = Idle]
  /\ lock' = IF lock = r THEN None ELSE lock
  /\ broken' = (broken \/ (req[r].op = "send" /\ req[r].at # "loaded"))
  /\ UNCHANGED <<row, started, mails, lost, stray>>

ClaimNext ==
  \E r \in Requests :
    \/ \E op \in Operations : LoadClaim(r, op)
    \/ ExtractClaim(r) \/ PatchClaim(r) \/ ContactClaim(r)
    \/ GeneratePreview(r) \/ GetPreview(r)
    \/ PayClaim(r) \/ SetClaimStatus(r) \/ SetFinalText(r)
    \/ MailClient(r) \/ MarkSent(r)
    \/ Commit(r) \/ Abandon(r)

ClaimSpec == ClaimInit /\ [][ClaimNext]_claimVars

(* ------------------------------ properties ------------------------------- *)
\* The types, and the lock is held by exactly the request that has flushed.
ClaimTypeOK ==
  /\ row \in Rows /\ req \in [Requests -> ReqStates]
  /\ lock \in Requests \cup {None}
  /\ started \in Nat /\ mails \in Nat
  /\ lost \subseteq Groups /\ {broken, stray} \subseteq BOOLEAN
  /\ \A r \in Requests : req[r].at = "flushed" <=> lock = r

\* A claim that left draft never becomes a draft again, whatever handlers, loaded
\* before the payment, are still to flush (edits stay allowed after a payment).
PaidStaysPaid == [][row.status # "draft" => row'.status # "draft"]_row

Rank(s) == CASE s = "draft" -> 0 [] s = "paid" -> 1 [] s = "in_review" -> 2 [] s = "sent" -> 3

\* The status moves backward only by a payment or a review that loaded another status
\* (two payments that both loaded the draft, for one): no other handler takes it back,
\* however outdated the rest of what it loaded.
StatusNeverGoesBack ==
  [][\/ Rank(row'.status) >= Rank(row.status)
     \/ \E r \in Requests : /\ lock = r /\ req[r].op \in {"pay", "status"}
                             /\ req[r].base.status # row.status]_row

\* The timestamps agree with the status in every committed row, and the client of a sent
\* claim was mailed, even after lost updates and failed commits.
Milestones == Dated(row) /\ (row.status = "sent" => mails > 0)

Mailing == {r \in Requests : req[r].op = "send" /\ req[r].at \in {"mailed", "flushed"}}

\* Every mail to the client belongs to the sent claim or to a send in progress:
\* a second one takes two commits of the status that overlapped (edits may overlap a
\* send) or a send that mailed and did not commit.
MailsAccounted ==
  \/ "status" \in lost \/ broken
  \/ mails = (IF row.status = "sent" THEN 1 ELSE 0) + Cardinality(Mailing)

\* The stored generation_state agrees with the stored data, except for a manual
\* review (which edits keep) and after two overlapping commits of the data or the state.
\* Payments, reviews, contacts, headers and sends may overlap an edit.
StateMatchesData == "state" \in lost \/ StateFits(row)

\* The stored header names the parties of the stored data: only an extraction under
\* an existing header, which rebuilds nothing, or two overlapping commits of the data
\* or the header separate them; any other handler may overlap.
HeaderMatchesData == "header" \in lost \/ stray \/ HeaderFits(row)

\* A draft becomes paid only with complete data or in manual review, unless the data
\* or its state changed after the payment had loaded them: a payment that overlaps
\* anything else (a contact, a header, a final text) is of complete data.
PaidWithData ==
  [][row.status = "draft" /\ row'.status = "paid" /\ "state" \notin lost
       => \/ row.data.full \/ row.gen = "manual_review_required"
          \/ \E r \in Requests : lock = r /\ Differs("state", req[r].base, row)]_row
=============================================================================

------------------------- MODULE ClaimLifecycleProofs -------------------------
(* What a claim row keeps under any number of handlers working on it at once. *)
(* The argument: an operation turns the row it loaded into one that follows   *)
(* from it (Follows); what a handler loaded was consistent and the row has    *)
(* not lost a date since (Held); so a commit either writes the columns of a   *)
(* row it knew, or touches the status and its date together.                  *)
EXTENDS ClaimLifecycle, FiniteSetTheorems, TLAPS

SameDates(b, o) ==
  /\ o.paid_at = b.paid_at /\ o.reviewed_at = b.reviewed_at /\ o.sent_at = b.sent_at

\* The status stays, or it goes one step forward together with its date.
Advances(op, b, o) ==
  \/ op # "send" /\ o.status = b.status /\ SameDates(b, o)
  \/ /\ op = "pay" /\ b.status = "draft" /\ o.status = "paid" /\ b.gen # "insufficient_data"
     /\ o.paid_at = TRUE /\ o.reviewed_at = b.reviewed_at /\ o.sent_at = b.sent_at
  \/ /\ op = "status" /\ b.status = "paid" /\ o.status = "in_review"
     /\ o.paid_at = b.paid_at /\ o.reviewed_at = TRUE /\ o.sent_at = b.sent_at
  \/ /\ op = "send" /\ b.status = "in_review" /\ o.status = "sent"
     /\ o.paid_at = b.paid_at /\ o.reviewed_at = b.reviewed_at /\ o.sent_at = TRUE

\* What the operation op makes of the row b.
Follows(op, b, o) ==
  /\ Advances(op, b, o)
  /\ StateFits(b) => StateFits(o)
  /\ HeaderFits(b) /\ (op = "extract" => b.header = None) => HeaderFits(o)

\* The row c has every date of the row b.
Later(b, c) ==
  /\ b.paid_at => c.paid_at
  /\ b.reviewed_at => c.reviewed_at
  /\ b.sent_at => c.sent_at

Held(r) ==
  /\ req[r].at # "idle" =>
       Dated(req[r].base) /\ Later(req[r].base, row) /\ (req[r].base.status = "sent" => mails > 0)
  /\ req[r].at = "mailed" => req[r].op = "send" /\ CanSend(req[r].base) /\ mails > 0
  /\ req[r].at = "flushed" =>
       Follows(req[r].op, req[r].base, req[r].obj) /\ (req[r].op = "send" => mails > 0)

ClaimInv ==
  /\ ClaimTypeOK /\ (\A r \in Requests : Held(r)) /\ Milestones
  /\ StateMatchesData /\ HeaderMatchesData

(* ---------------------------- the operations ----------------------------- *)
\* A new claim is a row.
LEMMA NewRowIsRow == NewRow \in Rows
  BY DEF NewRow, Rows, Statuses, GenerationStates, AllDatas, NoData

\* A flush gives a row; it changes nothing when the object is as it was loaded, and gives
\* the object when the row is as it was loaded.
LEMMA FlushedRow ==
  ASSUME NEW c \in Rows, NEW b \in Rows, NEW o \in Rows
  PROVE  /\ Flushed(c, b, o) \in Rows
         /\ o = b => Flushed(c, b, o) = c
         /\ c = b => Flushed(c, b, o) = o
<1>1. Flushed(c, b, o) \in Rows
  BY DEF Flushed, Rows, Columns
<1>2. ASSUME o = b PROVE Flushed(c, b, o) = c
  BY <1>2 DEF Flushed, Rows, Columns
<1>3. ASSUME c = b PROVE Flushed(c, b, o) = o
  BY <1>3 DEF Flushed, Rows, Columns
<1> QED
  BY <1>1, <1>2, <1>3

\* The operations that take new data.
LEMMA EditsFollow ==
  ASSUME NEW b \in Rows, NEW d \in AllDatas
  PROVE  /\ Extracted(b, d) \in Rows /\ Follows("extract", b, Extracted(b, d))
         /\ Patched(b, d) \in Rows /\ Follows("patch", b, Patched(b, d))
<1>1. KeptState(b, d) \in GenerationStates
  BY DEF KeptState, DerivedState, GenerationStates, Rows
<1>2. Extracted(b, d) \in Rows /\ Follows("extract", b, Extracted(b, d))
  BY <1>1 DEF Extracted, Rows, Follows, Advances, SameDates, StateFits, HeaderFits, KeptState
<1>3. Patched(b, d) \in Rows /\ Follows("patch", b, Patched(b, d))
  BY <1>1 DEF Patched, MustRebuildHeader, WithHeader, Rows, Follows, Advances, SameDates,
     StateFits, HeaderFits, KeptState
<1> QED
  BY <1>2, <1>3

\* The others.
LEMMA OperationsFollow ==
  ASSUME NEW b \in Rows
  PROVE  /\ Contacted(b) \in Rows /\ Follows("contact", b, Contacted(b))
         /\ Previewed(b) \in Rows /\ Follows("generate", b, Previewed(b))
         /\ WithHeader(b) \in Rows /\ Follows("preview", b, WithHeader(b))
         /\ CanPay(b) => Paid(b) \in Rows /\ Follows("pay", b, Paid(b))
         /\ CanReview(b) => Reviewed(b) \in Rows /\ Follows("status", b, Reviewed(b))
         /\ FinalTextSet(b) \in Rows /\ Follows("final_text", b, FinalTextSet(b))
         /\ CanSend(b) => Sent(b) \in Rows /\ Follows("send", b, Sent(b))
<1> USE DEF Rows, Follows, Advances, SameDates, StateFits, HeaderFits, Statuses
<1>1. Contacted(b) \in Rows /\ Follows("contact", b, Contacted(b))
  BY DEF Contacted
<1>2. Previewed(b) \in Rows /\ Follows("generate", b, Previewed(b))
  <2>1. RulesState(b.data) \in GenerationStates
    BY DEF RulesState, GenerationStates
  <2>2. RulesState(b.data) \in {"manual_review_required", DerivedState(b.data)}
    BY DEF RulesState, DerivedState
  <2> QED
    BY <2>1, <2>2 DEF Previewed, WithHeader
<1>3. WithHeader(b) \in Rows /\ Follows("preview", b, WithHeader(b))
  BY DEF WithHeader
<1>4. ASSUME CanPay(b) PROVE Paid(b) \in Rows /\ Follows("pay", b, Paid(b))
  BY <1>4 DEF CanPay, Paid
<1>5. ASSUME CanReview(b) PROVE Reviewed(b) \in Rows /\ Follows("status", b, Reviewed(b))
  BY <1>5 DEF CanReview, Reviewed
<1>6. FinalTextSet(b) \in Rows /\ Follows("final_text", b, FinalTextSet(b))
  BY DEF FinalTextSet
<1>7. ASSUME CanSend(b) PROVE Sent(b) \in Rows /\ Follows("send", b, Sent(b))
  BY <1>7 DEF CanSend, Sent
<1> QED
  BY <1>1, <1>2, <1>3, <1>4, <1>5, <1>6, <1>7

(* ------------------------------- the steps ------------------------------- *)
\* At first nothing is in progress.
LEMMA ClaimStarts == ClaimInit => ClaimInv
<1> SUFFICES ASSUME ClaimInit PROVE ClaimInv
  OBVIOUS
<1>1. row \in Rows /\ Dated(row) /\ StateFits(row) /\ HeaderFits(row)
  BY InitRowsAssumption DEF ClaimInit
<1>2. ClaimTypeOK
  BY <1>1, NewRowIsRow, RequestsAssumption DEF ClaimInit, ClaimTypeOK, ReqStates, Idle
<1>3. \A r \in Requests : Held(r)
  BY DEF ClaimInit, Idle, Held
<1>4. Milestones
  BY <1>1 DEF ClaimInit, Milestones
<1> QED
  BY <1>1, <1>2, <1>3, <1>4 DEF ClaimInv, StateMatchesData, HeaderMatchesData

\* A handler that ends, or dies, without having committed.
LEMMA EndKeeps ==
  ASSUME ClaimInv, NEW r \in Requests, req[r].at = "loaded", End(r)
  PROVE  ClaimInv'
<1> USE DEF ClaimInv
<1>1. ClaimTypeOK'
  BY NewRowIsRow DEF End, ClaimTypeOK, ReqStates, Idle
<1>2. \A x \in Requests : Held(x)'
  BY DEF End, Held, Idle, Later, ClaimTypeOK
<1>3. Milestones' /\ StateMatchesData' /\ HeaderMatchesData'
  BY DEF End, Milestones, StateMatchesData, HeaderMatchesData
<1> QED
  BY <1>1, <1>2, <1>3

\* A flush of what follows from the loaded row.
LEMMA FlushKeeps ==
  ASSUME ClaimInv, NEW r \in Requests, NEW o \in Rows, req[r].at \in {"loaded", "mailed"},
         Follows(req[r].op, req[r].base, o), req[r].op = "send" => mails > 0, Flush(r, o)
  PROVE  ClaimInv'
<1> USE DEF ClaimInv
<1>1. ClaimTypeOK'
  BY RequestsAssumption DEF Flush, ClaimTypeOK, ReqStates
<1>2. \A x \in Requests : Held(x)'
  <2> SUFFICES ASSUME NEW x \in Requests PROVE Held(x)'
    OBVIOUS
  <2>1. CASE x = r
    BY <2>1 DEF Flush, Held, Later, ClaimTypeOK, ReqStates
  <2>2. CASE x # r
    BY <2>2 DEF Flush, Held, Later, ClaimTypeOK, ReqStates
  <2> QED
    BY <2>1, <2>2
<1>3. Milestones' /\ StateMatchesData' /\ HeaderMatchesData'
  BY DEF Flush, Milestones, StateMatchesData, HeaderMatchesData
<1> QED
  BY <1>1, <1>2, <1>3

\* The rows b and c agree in the columns of the group g.
Same(g, b, c) == \A k \in ColumnsOf(g) : b[k] = c[k]

\* A commit of r leaves the group g alone, or makes it what r computed from it.
Clean(g, r) ==
  \/ Same(g, req[r].obj, req[r].base) /\ Same(g, row', row)
  \/ Same(g, row, req[r].base) /\ Same(g, row', req[r].obj)

\* A flush acts on a group by itself.
LEMMA FlushedGroup ==
  ASSUME NEW c \in Rows, NEW b \in Rows, NEW o \in Rows, NEW g \in Groups
  PROVE  /\ Same(g, o, b) => Same(g, Flushed(c, b, o), c)
         /\ Same(g, c, b) => Same(g, Flushed(c, b, o), o)
<1>1. ColumnsOf(g) \subseteq Columns
  BY DEF Groups, ColumnsOf, Columns
<1> QED
  BY <1>1 DEF Same, Flushed

\* Rows that agree in a group agree in what is computed within it.
LEMMA SameFits ==
  ASSUME NEW b \in Rows, NEW c \in Rows
  PROVE  /\ Same("state", b, c) => (StateFits(b) <=> StateFits(c)) /\ b.gen = c.gen
         /\ Same("header", b, c) => (HeaderFits(b) <=> HeaderFits(c)) /\ b.header = c.header
         /\ Same("status", b, c) => b.status = c.status
<1>1. /\ Same("state", b, c) <=> b.data = c.data /\ b.gen = c.gen
      /\ Same("header", b, c) <=> b.data = c.data /\ b.header = c.header
      /\ Same("status", b, c) <=> b.status = c.status
  BY DEF Same, ColumnsOf
<1> QED
  BY <1>1 DEF StateFits, HeaderFits

\* What a commit does to the row and the ghosts, seen from the committed request.
LEMMA CommitEffect ==
  ASSUME ClaimInv, NEW r \in Requests, Commit(r)
  PROVE  /\ row' \in Rows /\ lost \subseteq lost' /\ lost' \subseteq Groups
         /\ Follows(req[r].op, req[r].base, req[r].obj)
         /\ Dated(req[r].base) /\ Later(req[r].base, row)
         /\ \A g \in Groups : g \notin lost' => Clean(g, r)
         /\ ~stray' => ~stray /\ (req[r].op = "extract" => row.header = None)
         /\ Dated(row') /\ (row'.status = "sent" => mails > 0)
         /\ \A x \in Rows : Later(x, row) => Later(x, row')
         /\ row'.status # row.status => row'.status # "draft"
<1> DEFINE b == req[r].base
           o == req[r].obj
<1>1. /\ b \in Rows /\ o \in Rows /\ row \in Rows /\ req[r].at = "flushed"
      /\ lost \subseteq Groups /\ stray \in BOOLEAN
  BY DEF ClaimInv, ClaimTypeOK, ReqStates, Commit
<1>2. /\ Follows(req[r].op, b, o) /\ Dated(b) /\ Later(b, row)
      /\ b.status = "sent" => mails > 0
      /\ req[r].op = "send" => mails > 0
  BY <1>1 DEF ClaimInv, Held
<1>3. row' = Flushed(row, b, o) /\ row' \in Rows
  BY <1>1, FlushedRow DEF Commit
<1>4. /\ lost' = lost \cup {g \in Groups : Differs(g, b, row) /\ Differs(g, b, o)}
      /\ stray' = (stray \/ (req[r].op = "extract" /\ row.header # None))
  BY DEF Commit
<1>5. /\ row'.status = IF o.status # b.status THEN o.status ELSE row.status
      /\ row'.paid_at = IF o.paid_at # b.paid_at THEN o.paid_at ELSE row.paid_at
      /\ row'.reviewed_at = IF o.reviewed_at # b.reviewed_at THEN o.reviewed_at ELSE row.reviewed_at
      /\ row'.sent_at = IF o.sent_at # b.sent_at THEN o.sent_at ELSE row.sent_at
  BY <1>3 DEF Flushed, Columns
<1>6. Dated(row) /\ (row.status = "sent" => mails > 0)
  BY DEF ClaimInv, Milestones
<1>7. Advances(req[r].op, b, o)
  BY <1>2 DEF Follows
<1>8. {row.paid_at, row.reviewed_at, row.sent_at, b.paid_at, b.reviewed_at, b.sent_at,
       o.paid_at, o.reviewed_at, o.sent_at} \subseteq BOOLEAN
  BY <1>1 DEF Rows
<1>9. Dated(row') /\ (row'.status = "sent" => mails > 0)
  BY <1>2, <1>5, <1>6, <1>7, <1>8 DEF Dated, Later, Advances, SameDates
<1>10. ASSUME NEW x \in Rows, Later(x, row) PROVE Later(x, row')
  BY <1>5, <1>7, <1>8, <1>10 DEF Later, Advances, SameDates
<1>11. row'.status # row.status => row'.status # "draft"
  BY <1>5, <1>7 DEF Advances
<1>12. lost \subseteq lost' /\ lost' \subseteq Groups
  BY <1>1, <1>4
<1>13. ASSUME NEW g \in Groups, g \notin lost' PROVE Clean(g, r)
  <2>1. Same(g, row, b) \/ Same(g, o, b)
    BY <1>4, <1>13 DEF Same, Differs
  <2>2. /\ Same(g, o, b) => Same(g, row', row)
        /\ Same(g, row, b) => Same(g, row', o)
    BY <1>1, <1>3, FlushedGroup
  <2> QED
    BY <2>1, <2>2 DEF Clean
<1>14. ~stray' => ~stray /\ (req[r].op = "extract" => row.header = None)
  BY <1>4
<1> QED
  BY <1>1, <1>2, <1>3, <1>9, <1>10, <1>11, <1>12, <1>13, <1>14

\* A commit keeps the invariant.
LEMMA CommitKeeps ==
  ASSUME ClaimInv, NEW r \in Requests, Commit(r)
  PROVE  ClaimInv'
<1>1. ClaimTypeOK'
  <2>1. row' \in Rows /\ lost' \subseteq Groups
    BY CommitEffect
  <2>2. /\ Idle \in ReqStates /\ Idle.at = "idle"
    BY NewRowIsRow DEF Idle, ReqStates
  <2>3. /\ req' = [req EXCEPT ![r] = Idle] /\ lock = r /\ lock' = None
        /\ started' = started /\ mails' = mails /\ broken' = broken
        /\ stray' = (stray \/ (req[r].op = "extract" /\ row.header # None))
    BY DEF Commit
  <2> QED
    BY <2>1, <2>2, <2>3, RequestsAssumption DEF ClaimInv, ClaimTypeOK
<1>2. \A x \in Requests : Held(x)'
  <2> SUFFICES ASSUME NEW x \in Requests PROVE Held(x)'
    OBVIOUS
  <2>1. mails' = mails /\ req' = [req EXCEPT ![r] = Idle]
    BY DEF Commit
  <2>2. CASE x = r
    BY <2>1, <2>2 DEF ClaimInv, ClaimTypeOK, Held, Idle
  <2>3. CASE x # r
    <3>1. req'[x] = req[x] /\ req[x].base \in Rows /\ Held(x)
      BY <2>1, <2>3 DEF ClaimInv, ClaimTypeOK, ReqStates
    <3>2. Later(req[x].base, row) => Later(req[x].base, row')
      BY <3>1, CommitEffect
    <3> QED
      BY <2>1, <3>1, <3>2 DEF Held
  <2> QED
    BY <2>2, <2>3
<1>3. Milestones'
  BY CommitEffect DEF Milestones, Commit
<1>4. StateMatchesData'
  <2> SUFFICES ASSUME "state" \notin lost' PROVE StateFits(row')
    BY DEF StateMatchesData
  <2>1. /\ row \in Rows /\ row' \in Rows /\ req[r].base \in Rows /\ req[r].obj \in Rows
        /\ Clean("state", r) /\ "state" \notin lost
        /\ StateFits(req[r].base) => StateFits(req[r].obj)
    BY CommitEffect DEF ClaimInv, ClaimTypeOK, ReqStates, Follows, Groups
  <2>2. StateFits(row)
    BY <2>1 DEF ClaimInv, StateMatchesData
  <2> QED
    BY <2>1, <2>2, SameFits DEF Clean
<1>5. HeaderMatchesData'
  <2> SUFFICES ASSUME "header" \notin lost', ~stray' PROVE HeaderFits(row')
    BY DEF HeaderMatchesData
  <2> DEFINE b == req[r].base
             o == req[r].obj
  <2>1. /\ row \in Rows /\ row' \in Rows /\ b \in Rows /\ o \in Rows
        /\ Clean("header", r) /\ "header" \notin lost
        /\ ~stray /\ (req[r].op = "extract" => row.header = None)
        /\ HeaderFits(b) /\ (req[r].op = "extract" => b.header = None) => HeaderFits(o)
    BY CommitEffect DEF ClaimInv, ClaimTypeOK, ReqStates, Follows, Groups
  <2>2. HeaderFits(row)
    BY <2>1 DEF ClaimInv, HeaderMatchesData
  <2>3. CASE Same("header", row', row)
    BY <2>1, <2>2, <2>3, SameFits
  <2>4. CASE Same("header", row, b) /\ Same("header", row', o)
    <3>1. HeaderFits(b) /\ b.header = row.header
      BY <2>1, <2>2, <2>4, SameFits
    <3> QED
      BY <2>1, <2>4, <3>1, SameFits
  <2> QED
    BY <2>1, <2>3, <2>4 DEF Clean
<1> QED
  BY <1>1, <1>2, <1>3, <1>4, <1>5 DEF ClaimInv

\* A handler that dies.
LEMMA AbandonKeeps ==
  ASSUME ClaimInv, NEW r \in Requests, Abandon(r)
  PROVE  ClaimInv'
<1> USE DEF ClaimInv
<1>1. ClaimTypeOK'
  <2>1. Idle \in ReqStates /\ Idle.at = "idle"
    BY NewRowIsRow DEF Idle, ReqStates
  <2> QED
    BY <2>1, RequestsAssumption DEF Abandon, ClaimTypeOK
<1>2. \A x \in Requests : Held(x)'
  BY DEF Abandon, Held, Idle, ClaimTypeOK
<1>3. Milestones' /\ StateMatchesData' /\ HeaderMatchesData'
  BY DEF Abandon, Milestones, StateMatchesData, HeaderMatchesData
<1> QED
  BY <1>1, <1>2, <1>3

\* A handler that loads the row.
LEMMA LoadKeeps ==
  ASSUME ClaimInv, NEW r \in Requests, NEW op \in Operations, LoadClaim(r, op)
  PROVE  ClaimInv'
<1> USE DEF ClaimInv
<1>1. ClaimTypeOK'
  BY DEF LoadClaim, ClaimTypeOK, ReqStates
<1>2. \A x \in Requests : Held(x)'
  BY DEF LoadClaim, Held, Later, ClaimTypeOK, Milestones
<1>3. Milestones' /\ StateMatchesData' /\ HeaderMatchesData'
  BY DEF LoadClaim, Milestones, StateMatchesData, HeaderMatchesData
<1> QED
  BY <1>1, <1>2, <1>3

\* A send that mails the client, or gives up.
LEMMA MailKeeps ==
  ASSUME ClaimInv, NEW r \in Requests, MailClient(r)
  PROVE  ClaimInv'
<1>1. CASE End(r)
  BY <1>1, EndKeeps DEF MailClient, At
<1>2. CASE ~End(r)
  <2> USE DEF ClaimInv
  <2>1. /\ req[r].op = "send" /\ req[r].at = "loaded" /\ CanSend(req[r].base)
        /\ mails' = mails + 1 /\ req' = [req EXCEPT ![r].at = "mailed"]
        /\ UNCHANGED <<row, lock, started, lost, broken, stray>>
    BY <1>2 DEF MailClient, At
  <2>2. ClaimTypeOK'
    BY <2>1 DEF ClaimTypeOK, ReqStates
  <2>3. \A x \in Requests : Held(x)'
    BY <2>1 DEF Held, ClaimTypeOK, ReqStates
  <2>4. Milestones' /\ StateMatchesData' /\ HeaderMatchesData'
    BY <2>1 DEF Milestones, StateMatchesData, HeaderMatchesData, ClaimTypeOK
  <2> QED
    BY <2>2, <2>3, <2>4
<1> QED
  BY <1>1, <1>2

Flushes(r) ==
  \/ ExtractClaim(r) \/ PatchClaim(r) \/ ContactClaim(r) \/ GeneratePreview(r)
  \/ GetPreview(r) \/ PayClaim(r) \/ SetClaimStatus(r) \/ SetFinalText(r) \/ MarkSent(r)

\* Every other handler ends, or flushes what follows from the row it loaded.
LEMMA FlushesFollow ==
  ASSUME ClaimInv, NEW r \in Requests, Flushes(r)
  PROVE  \/ req[r].at = "loaded" /\ End(r)
         \/ \E o \in Rows : /\ req[r].at \in {"loaded", "mailed"} /\ Flush(r, o)
                            /\ req[r].op = "send" <=> req[r].at = "mailed"
                            /\ Follows(req[r].op, req[r].base, o)
                            /\ req[r].op = "send" => mails > 0
<1> DEFINE b == req[r].base
<1>1. b \in Rows
  BY DEF ClaimInv, ClaimTypeOK, ReqStates
<1>2. CASE ExtractClaim(r)
  BY <1>1, <1>2, EditsFollow DEF ExtractClaim, At
<1>3. CASE PatchClaim(r)
  BY <1>1, <1>3, EditsFollow DEF PatchClaim, At
<1>4. CASE ContactClaim(r)
  BY <1>1, <1>4, OperationsFollow DEF ContactClaim, At
<1>5. CASE GeneratePreview(r)
  BY <1>1, <1>5, OperationsFollow DEF GeneratePreview, At
<1>6. CASE GetPreview(r)
  BY <1>1, <1>6, OperationsFollow DEF GetPreview, At
<1>7. CASE PayClaim(r)
  BY <1>1, <1>7, OperationsFollow DEF PayClaim, At
<1>8. CASE SetClaimStatus(r)
  BY <1>1, <1>8, OperationsFollow DEF SetClaimStatus, At
<1>9. CASE SetFinalText(r)
  BY <1>1, <1>9, OperationsFollow DEF SetFinalText, At
<1>10. CASE MarkSent(r)
  <2>1. CanSend(b) /\ mails > 0
    BY <1>10 DEF MarkSent, At, ClaimInv, Held
  <2> QED
    BY <1>1, <1>10, <2>1, OperationsFollow DEF MarkSent, At
<1> QED
  BY <1>2, <1>3, <1>4, <1>5, <1>6, <1>7, <1>8, <1>9, <1>10 DEF Flushes

\* The steps, by what they do to the row.
LEMMA StepKinds ==
  ASSUME ClaimNext
  PROVE  \E r \in Requests :
           \/ \E op \in Operations : LoadClaim(r, op)
           \/ Flushes(r) \/ MailClient(r) \/ Commit(r) \/ Abandon(r)
  BY DEF ClaimNext, Flushes

\* Every step keeps the invariant.
LEMMA ClaimStep == ClaimInv /\ [ClaimNext]_claimVars => ClaimInv'
<1> SUFFICES ASSUME ClaimInv, [ClaimNext]_claimVars PROVE ClaimInv'
  OBVIOUS
<1>1. ASSUME NEW r \in Requests, Flushes(r) PROVE ClaimInv'
  BY <1>1, FlushesFollow, EndKeeps, FlushKeeps
<1>2. CASE UNCHANGED claimVars
  BY <1>2 DEF claimVars, ClaimInv, ClaimTypeOK, Held, Milestones, StateMatchesData,
     HeaderMatchesData
<1> QED
  BY <1>1, <1>2, StepKinds, LoadKeeps, MailKeeps, CommitKeeps, AbandonKeeps

\* Only a commit changes the row.
LEMMA OnlyCommit ==
  ASSUME ClaimInv, [ClaimNext]_claimVars
  PROVE  row' = row \/ \E r \in Requests : Commit(r)
<1>1. ASSUME NEW r \in Requests, Flushes(r) PROVE row' = row
  BY <1>1, FlushesFollow DEF End, Flush
<1> QED
  BY <1>1, StepKinds DEF LoadClaim, MailClient, End, Abandon, claimVars

(* ------------------------------- theorems -------------------------------- *)
\* The inductive invariant holds of every behaviour.
THEOREM ClaimInvariance == ClaimSpec => []ClaimInv
  BY ClaimStarts, ClaimStep, PTL DEF ClaimSpec

\* The types, and the row lock is held by exactly the handler that has flushed.
THEOREM ClaimTypesAlways == ClaimSpec => []ClaimTypeOK
<1>1. ClaimInv => ClaimTypeOK
  BY DEF ClaimInv
<1> QED
  BY <1>1, ClaimInvariance, PTL

\* The timestamps agree with the status of every committed row, and the client of a
\* sent claim was mailed, whatever handlers overlap or die.
THEOREM MilestonesAlways == ClaimSpec => []Milestones
<1>1. ClaimInv => Milestones
  BY DEF ClaimInv
<1> QED
  BY <1>1, ClaimInvariance, PTL

\* Unless commits of the data or the state overlapped, the stored state is the one of the stored data, or a manual review.
THEOREM StateMatchesDataAlways == ClaimSpec => []StateMatchesData
<1>1. ClaimInv => StateMatchesData
  BY DEF ClaimInv
<1> QED
  BY <1>1, ClaimInvariance, PTL

\* Unless commits of the data or the header overlapped, or an extraction was stored under
\* a header, the header is the stored data's.
THEOREM HeaderMatchesDataAlways == ClaimSpec => []HeaderMatchesData
<1>1. ClaimInv => HeaderMatchesData
  BY DEF ClaimInv
<1> QED
  BY <1>1, ClaimInvariance, PTL

\* No handler takes a claim that left draft back to draft.
THEOREM PaidNeverUndone == ClaimSpec => PaidStaysPaid
<1>1. ClaimInv /\ [ClaimNext]_claimVars => [row.status # "draft" => row'.status # "draft"]_row
  BY OnlyCommit, CommitEffect
<1> QED
  BY <1>1, ClaimInvariance, PTL DEF ClaimSpec, PaidStaysPaid

\* What a commit does to a status that is the one its handler loaded.
LEMMA CleanStatus ==
  ASSUME ClaimInv, NEW r \in Requests, Commit(r), "status" \notin lost'
  PROVE  \/ row'.status = row.status /\ req[r].op # "send"
         \/ row.status = "draft" /\ row'.status = "paid" /\ req[r].op # "send"
         \/ row.status = "paid" /\ row'.status = "in_review" /\ req[r].op # "send"
         \/ row.status = "in_review" /\ row'.status = "sent" /\ req[r].op = "send"
<1>1. /\ Advances(req[r].op, req[r].base, req[r].obj) /\ Clean("status", r)
      /\ row \in Rows /\ row' \in Rows /\ req[r].base \in Rows /\ req[r].obj \in Rows
  BY CommitEffect DEF Follows, Groups, ClaimInv, ClaimTypeOK, ReqStates
<1>2. \/ req[r].obj.status = req[r].base.status /\ row'.status = row.status
      \/ row.status = req[r].base.status /\ row'.status = req[r].obj.status
  BY <1>1, SameFits DEF Clean
<1> QED
  BY <1>1, <1>2 DEF Advances

\* What any commit does to the status: nothing, or what its handler made of the one it
\* had loaded.
LEMMA CommitStatus ==
  ASSUME ClaimInv, NEW r \in Requests, Commit(r)
  PROVE  /\ lock = r /\ row.status \in Statuses
         /\ \/ row'.status = row.status
            \/ /\ req[r].op = "pay" /\ req[r].base.status = "draft" /\ row'.status = "paid"
               /\ req[r].base.gen # "insufficient_data"
            \/ req[r].op = "status" /\ req[r].base.status = "paid" /\ row'.status = "in_review"
            \/ row'.status = "sent"
<1>1. /\ Advances(req[r].op, req[r].base, req[r].obj) /\ lock = r
      /\ row \in Rows
      /\ row' = Flushed(row, req[r].base, req[r].obj)
  BY CommitEffect DEF Follows, Commit, ClaimInv, ClaimTypeOK
<1>2. row'.status = IF req[r].obj.status # req[r].base.status THEN req[r].obj.status
                                                             ELSE row.status
  BY <1>1 DEF Flushed, Columns
<1> QED
  BY <1>1, <1>2 DEF Advances, Rows

\* Only a payment or a review that loaded another status takes the status back.
THEOREM StatusForward == ClaimSpec => StatusNeverGoesBack
<1> DEFINE Forward == \/ Rank(row'.status) >= Rank(row.status)
                      \/ \E r \in Requests : /\ lock = r /\ req[r].op \in {"pay", "status"}
                                              /\ req[r].base.status # row.status
<1>1. ASSUME ClaimInv, [ClaimNext]_claimVars PROVE Forward
  <2>1. row.status \in Statuses
    BY <1>1 DEF ClaimInv, ClaimTypeOK, Rows
  <2>2. CASE row' = row
    BY <2>1, <2>2 DEF Rank, Statuses
  <2>3. ASSUME NEW r \in Requests, Commit(r) PROVE Forward
    BY <1>1, <2>1, <2>3, CommitStatus DEF Rank, Statuses
  <2> QED
    BY <1>1, <2>2, <2>3, OnlyCommit
<1>2. ClaimInv /\ [ClaimNext]_claimVars => [Forward]_row
  BY <1>1
<1> QED
  BY <1>2, ClaimInvariance, PTL DEF ClaimSpec, StatusNeverGoesBack

\* A claim is paid with complete data or in manual review, unless the data or its state
\* changed under the payment or was itself stored by overlapping commits.
THEOREM PaidWithDataAlways == ClaimSpec => PaidWithData
<1> DEFINE Sound == row.status = "draft" /\ row'.status = "paid" /\ "state" \notin lost
                      => \/ row.data.full \/ row.gen = "manual_review_required"
                         \/ \E r \in Requests : lock = r /\ Differs("state", req[r].base, row)
<1>1. ASSUME ClaimInv, [ClaimNext]_claimVars, row.status = "draft", row'.status = "paid",
             "state" \notin lost
      PROVE  \/ row.data.full \/ row.gen = "manual_review_required"
             \/ \E r \in Requests : lock = r /\ Differs("state", req[r].base, row)
  <2>1. PICK r \in Requests : Commit(r)
    BY <1>1, OnlyCommit
  <2>2. req[r].base.gen # "insufficient_data" /\ lock = r
    BY <1>1, <2>1, CommitStatus
  <2>3. Differs("state", req[r].base, row) \/ row.gen = req[r].base.gen
    BY DEF Differs, ColumnsOf
  <2>4. StateFits(row)
    BY <1>1 DEF ClaimInv, StateMatchesData
  <2> QED
    BY <2>2, <2>3, <2>4 DEF StateFits, DerivedState
<1>2. ClaimInv /\ [ClaimNext]_claimVars => [Sound]_row
  BY <1>1
<1> QED
  BY <1>2, ClaimInvariance, PTL DEF ClaimSpec, PaidWithData

(* ------------------------------- the mails ------------------------------- *)
Wanted == IF row.status = "sent" THEN 1 ELSE 0

\* The requests that mailed and have not committed are finitely many.
LEMMA MailingFinite == IsFiniteSet(Mailing) /\ Cardinality(Mailing) \in Nat
<1>1. Mailing \subseteq Requests
  BY DEF Mailing
<1> QED
  BY <1>1, RequestsAssumption, FS_Subset, FS_CardinalityType

\* A mail adds its request to them.
LEMMA MailedOnce ==
  ASSUME ClaimInv, NEW r \in Requests, MailClient(r), ~End(r), MailsAccounted
  PROVE  MailsAccounted'
<1>1. /\ req[r].op = "send" /\ req[r].at = "loaded" /\ mails' = mails + 1
      /\ req' = [req EXCEPT ![r].at = "mailed"]
      /\ UNCHANGED <<row, lost, broken>>
  BY DEF MailClient, At
<1>2. Mailing' = Mailing \cup {r} /\ r \notin Mailing
  BY <1>1 DEF Mailing, ClaimInv, ClaimTypeOK, ReqStates
<1>3. Cardinality(Mailing \cup {r}) = Cardinality(Mailing) + 1
  BY <1>2, MailingFinite, FS_AddElement
<1>4. Cardinality(Mailing') = Cardinality(Mailing) + 1
  BY <1>2, <1>3
<1> QED
  BY <1>1, <1>4, MailingFinite DEF MailsAccounted, ClaimInv, ClaimTypeOK

\* A commit takes it from them and marks the claim sent.
LEMMA CommittedOnce ==
  ASSUME ClaimInv, NEW r \in Requests, Commit(r), MailsAccounted
  PROVE  MailsAccounted'
<1> SUFFICES ASSUME "status" \notin lost', ~broken' PROVE mails' = Wanted' + Cardinality(Mailing')
  BY DEF MailsAccounted, Wanted
<1>1. /\ req' = [req EXCEPT ![r] = Idle] /\ mails' = mails /\ broken' = broken
      /\ req[r].at = "flushed" /\ mails \in Nat /\ "status" \notin lost
  BY CommitEffect DEF Commit, ClaimInv, ClaimTypeOK
<1>2. mails = Wanted + Cardinality(Mailing)
  BY <1>1 DEF MailsAccounted, Wanted
<1>3. CASE req[r].op = "send"
  <2>1. Mailing' = Mailing \ {r} /\ r \in Mailing
    BY <1>1, <1>3 DEF Mailing, ClaimInv, ClaimTypeOK, Idle
  <2>2. Cardinality(Mailing \ {r}) = Cardinality(Mailing) - 1
    BY <2>1, MailingFinite, FS_RemoveElement
  <2>3. Wanted' = 1 /\ Wanted = 0
    BY <1>3, CleanStatus DEF Wanted
  <2>4. Cardinality(Mailing') = Cardinality(Mailing) - 1
    BY <2>1, <2>2
  <2> QED
    BY <1>1, <1>2, <2>3, <2>4, MailingFinite
<1>4. CASE req[r].op # "send"
  <2>1. Mailing' = Mailing
    BY <1>1, <1>4 DEF Mailing, ClaimInv, ClaimTypeOK, Idle
  <2>2. Wanted' = Wanted
    BY <1>4, CleanStatus DEF Wanted
  <2> QED
    BY <1>1, <1>2, <2>1, <2>2
<1> QED
  BY <1>3, <1>4

\* The steps that leave the mails, the row and the set of mailing requests alone.
LEMMA QuietSteps ==
  ASSUME ClaimInv, NEW r \in Requests,
         \/ \E op \in Operations : LoadClaim(r, op)
         \/ Flushes(r)
         \/ End(r) /\ req[r].at = "loaded"
         \/ Abandon(r) /\ ~(req[r].op = "send" /\ req[r].at # "loaded")
  PROVE  UNCHANGED <<row, mails, lost, broken>> /\ Mailing' = Mailing
<1> USE DEF Mailing, ClaimInv, ClaimTypeOK, ReqStates
<1>1. ASSUME NEW op \in Operations, LoadClaim(r, op)
      PROVE  UNCHANGED <<row, mails, lost, broken>> /\ Mailing' = Mailing
  BY <1>1 DEF LoadClaim
<1>2. ASSUME End(r), req[r].at = "loaded"
      PROVE  UNCHANGED <<row, mails, lost, broken>> /\ Mailing' = Mailing
  BY <1>2 DEF End, Idle
<1>3. ASSUME NEW o \in Rows, Flush(r, o), req[r].at \in {"loaded", "mailed"},
             req[r].op = "send" <=> req[r].at = "mailed"
      PROVE  UNCHANGED <<row, mails, lost, broken>> /\ Mailing' = Mailing
  BY <1>3 DEF Flush
<1>4. ASSUME Abandon(r), ~(req[r].op = "send" /\ req[r].at # "loaded")
      PROVE  UNCHANGED <<row, mails, lost, broken>> /\ Mailing' = Mailing
  BY <1>4 DEF Abandon, Idle
<1> QED
  BY <1>1, <1>2, <1>3, <1>4, FlushesFollow

\* Every mail to the client belongs to the sent claim or to a send in progress, unless
\* two overlapping sends, or a send that died after mailing, doubled it.
THEOREM MailsAccountedAlways == ClaimSpec => []MailsAccounted
<1>1. ClaimInit => MailsAccounted
  <2> SUFFICES ASSUME ClaimInit PROVE MailsAccounted
    OBVIOUS
  <2>1. Mailing = {}
    BY DEF ClaimInit, Mailing, Idle
  <2> QED
    BY <2>1, FS_EmptySet DEF ClaimInit, MailsAccounted
<1>2. ClaimInv /\ MailsAccounted /\ [ClaimNext]_claimVars => MailsAccounted'
  <2> SUFFICES ASSUME ClaimInv, MailsAccounted, [ClaimNext]_claimVars PROVE MailsAccounted'
    OBVIOUS
  <2>1. CASE UNCHANGED claimVars
    BY <2>1 DEF claimVars, MailsAccounted, Mailing
  <2>2. ASSUME NEW r \in Requests,
               (\E op \in Operations : LoadClaim(r, op)) \/ Flushes(r)
        PROVE  MailsAccounted'
    BY <2>2, QuietSteps DEF MailsAccounted
  <2>3. ASSUME NEW r \in Requests, MailClient(r) PROVE MailsAccounted'
    <3>1. CASE End(r)
      BY <2>3, <3>1, QuietSteps DEF MailsAccounted, MailClient, At
    <3> QED
      BY <2>3, <3>1, MailedOnce
  <2>4. ASSUME NEW r \in Requests, Commit(r) PROVE MailsAccounted'
    BY <2>4, CommittedOnce
  <2>5. ASSUME NEW r \in Requests, Abandon(r) PROVE MailsAccounted'
    <3>1. CASE req[r].op = "send" /\ req[r].at # "loaded"
      BY <2>5, <3>1 DEF Abandon, MailsAccounted
    <3> QED
      BY <2>5, <3>1, QuietSteps DEF MailsAccounted
  <2> QED
    BY <2>1, <2>2, <2>3, <2>4, <2>5, StepKinds
<1> QED
  BY <1>1, <1>2, ClaimInvariance, PTL DEF ClaimSpec
=============================================================================

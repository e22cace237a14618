---------------------------- MODULE ClaimPreview ----------------------------
(***************************************************************************)
(* The preview text of a claim (claims/generation.py): the body a model    *)
(* wrote, when it passes the checks, or a text put together from the data. *)
(* A text is what it states; the wording is left out.                      *)
(***************************************************************************)
EXTENDS ClaimData

CONSTANT ReferenceDay   \* the day the claim was created

VARIABLE preview        \* the last generated preview, or None

previewVars == <<claimData, caseType, patches, edited, preview>>

(* --------------------------- the text from the data ---------------------- *)
KnownDay(d) == IF d = None \/ d.day = 0 THEN None ELSE d.day

OverdueDays(due, reference) ==
  IF due = None \/ reference <= due THEN None ELSE reference - due

\* A contract is named when it was signed, has a number, or a date of the calendar.
ContractReference(data) ==
  LET number == data.contract_number
      day == KnownDay(data.contract_date)
  IN  IF data.contract_signed # "true" /\ number = None /\ day = None
      THEN None ELSE [number |-> number, day |-> day]

DocumentLabels(data) == data.documents_mentioned \cap {"contract", "invoice"}

PartiesNamed(data) == data.creditor_name # None /\ data.debtor_name # None

\* The first paragraph, for a case type with terms of its own.
TypedOpening(data) ==
  LET reference == ContractReference(data)
      labels == DocumentLabels(data)
  IN  [named |-> PartiesNamed(data), contract |-> reference,
       basis |-> IF reference # None
                 THEN IF data.contract_signed = "false" THEN "mentioned" ELSE "concluded"
                 ELSE IF labels # {} THEN "documents" ELSE "agreement",
       documents |-> labels]

NeutralOpening(data) ==
  [named |-> PartiesNamed(data), contract |-> None,
   basis |-> IF DocumentLabels(data) # {} THEN "documents" ELSE "agreement",
   documents |-> DocumentLabels(data)]

Opening(data, case) == IF case \in CaseTypes THEN TypedOpening(data) ELSE NeutralOpening(data)

\* What the text says of partial payments.
PartialPayments(data) ==
  LET present == data.partial_payments_present
      rows == data.partial_payments # <<>>
  IN  CASE present = "false" /\ ~rows -> "none were made"
        [] present = None -> "not stated"
        [] present = "true" /\ rows -> "taken into account"
        [] present = "true" /\ ~rows -> "insufficient"
        [] OTHER -> "silent"

\* The debt, the due date and the overdue days, the same for every case type.
DebtStatements(data) ==
  LET due == KnownDay(data.payment_due_date)
  IN  [amount |-> data.debt_amount, due |-> due, overdue |-> OverdueDays(due, ReferenceDay),
       payments |-> PartialPayments(data)]

\* The second paragraph speaks of a contract unless it was said not to be signed.
UnderContract(data, case) == case \in CaseTypes /\ data.contract_signed # "false"

Performance(data, case) ==
  [underContract |-> UnderContract(data, case), debt |-> DebtStatements(data)]

SafeDraft(data, case) ==
  [source |-> "fallback", opening |-> Opening(data, case),
   performance |-> Performance(data, case)]

(* --------------------------- the text of the model ----------------------- *)
\* What a paragraph of the answer is, as far as the checks tell.
Paragraphs == {"prose", "heading", "list", "court", "label", "technical"}

InvalidResponse(answer) ==
  answer = <<>> \/ \A i \in 1..Len(answer) : answer[i] = "technical"

InvalidBody(body) == \E i \in 1..Len(body) : body[i] # "prose"

\* Only the first two paragraphs are kept, and only they are checked.
PreparedBody(answer) ==
  LET body == SubSeq(answer, 1, IF Len(answer) < 2 THEN Len(answer) ELSE 2)
  IN  IF InvalidResponse(answer) \/ InvalidBody(body) THEN None ELSE body

Answers == {<<>>, <<"technical">>, <<"prose">>, <<"prose", "prose", "court">>,
            <<"prose", "court">>, <<"heading", "prose">>}

\* The gateway failed, or it answered: a body that does not pass gives the safe draft.
PreviewText(data, case, answer) ==
  IF answer = None \/ PreparedBody(answer) = None
  THEN SafeDraft(data, case)
  ELSE [source |-> "model", body |-> PreparedBody(answer)]

(* --------------------------------- steps --------------------------------- *)
PreviewInit == DataInit /\ preview = None

\* POST generate-preview: with a missing field the text is cleared and a 409 raised.
Generate ==
  LET decision == RulesDecision(caseType, claimData.data)
  IN  /\ preview = None
      /\ \E answer \in Answers \cup {None} :
           preview' = [decision |-> decision,
                       text |-> IF decision.state = "insufficient_data" THEN None
                                ELSE PreviewText(claimData.data, caseType, answer)]
      /\ UNCHANGED <<claimData, caseType, patches, edited>>

PreviewNext == (preview = None /\ DataNext /\ UNCHANGED preview) \/ Generate

PreviewSpec == PreviewInit /\ [][PreviewNext]_previewVars

(* ------------------------------ properties ------------------------------- *)
HasDraft == preview # None /\ preview.text # None /\ preview.text.source = "fallback"

\* The text says that a contract was concluded, or that it was performed under one, only
\* of a contract the data calls signed: an unanswered question never reaches the text.
ConcludedMeansSigned ==
  HasDraft /\ (preview.text.opening.basis = "concluded" \/ preview.text.performance.underContract)
    => claimData.data.contract_signed = "true"

\* A text never denies, or calls unstated, payments the data lists.
PaymentsNotDenied ==
  HasDraft /\ claimData.data.partial_payments # <<>> =>
    preview.text.performance.debt.payments \in {"taken into account", "silent"}
=============================================================================

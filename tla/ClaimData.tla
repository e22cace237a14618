----------------------------- MODULE ClaimData -----------------------------
(***************************************************************************)
(* The data of a claim on its way through product_api: a model's answer is *)
(* parsed and normalised (claims/extraction.py), the client's corrections  *)
(* are merged into it (claims/normalization.py) and the rules decide what  *)
(* may be generated from it (claims/rules.py).                             *)
(*                                                                         *)
(* A raw value is a member of a small set that tells apart what the        *)
(* normaliser of its field does; a stored value is the raw value it is     *)
(* normalised to, so that normalising twice is meaningful.                 *)
(***************************************************************************)
EXTENDS Integers, FiniteSets, SequencesExt, Filtered, Absent

CONSTANT MaxPatches   \* bound: PATCH requests

\* A null is no answer to a question.
ASSUME NoneAnswersNothing == None \notin {"true", "yes", "false", "no"}

VARIABLES claimData,   \* the stored normalized_data with its missing_fields
          caseType,    \* the stored case type, or None
          patches,     \* PATCH requests so far
          edited       \* the data was merged with a PATCH since it was extracted

dataVars == <<claimData, caseType, patches, edited>>

CaseTypes == {"supply", "services", "contract_work"}
HighClaimAmount == 5000000

(* -------------------------- raw and stored values ----------------------- *)
RawTexts == {None, "", "given"}               \* "" stands for blanks only
RawInns == {None, 0, 9, 10, 12}               \* the number of digits in it
RawBools == {None, "true", "false", "yes", "no", "maybe"}
RawDates == {None} \cup [form : {"iso", "dotted", "words"}, day : {0, 10, 20}]
RawAmounts == {None} \cup [form : {"number", "text", "boolean", "junk"},
                           sum : {0, 100, HighClaimAmount}]
\* Rows of partial payments whose amount and date were already normalised.
RawPayments == {<<>>, <<[amount |-> None, date |-> None]>>,
                <<[amount |-> 30, date |-> None]>>,
                <<[amount |-> 30, date |-> None], [amount |-> 200, date |-> 10]>>}
RawDocuments == {{}, {""}, {"contract"}, {"copy of the contract", "invoice"}, {"photo"}}

TextFields == {"creditor_name", "debtor_name", "contract_number", "penalty_rate_text"}
InnFields == {"creditor_inn", "debtor_inn"}
BoolFields == {"contract_signed", "partial_payments_present", "penalty_exists"}
DateFields == {"contract_date", "payment_due_date"}
Fields == TextFields \cup InnFields \cup BoolFields \cup DateFields
            \cup {"debt_amount", "partial_payments", "documents_mentioned"}

RequiredFields == {"creditor_name", "creditor_inn", "debtor_name", "debtor_inn",
                   "contract_signed", "debt_amount", "payment_due_date"}

NormalizeText(raw) == IF raw = "" THEN None ELSE raw

NormalizeInn(raw) == IF raw \in {10, 12} THEN raw ELSE None

NormalizeBool(raw) ==
  CASE raw \in {"true", "yes"} -> "true" [] raw \in {"false", "no"} -> "false" [] OTHER -> None

\* Both notations become ISO; the calendar (day 0 is not in it) is not consulted.
NormalizeDate(raw) ==
  IF raw = None \/ raw.form = "words" THEN None ELSE [raw EXCEPT !.form = "iso"]

NormalizeAmount(raw) ==
  IF raw = None \/ raw.form \in {"boolean", "junk"} THEN None ELSE [raw EXCEPT !.form = "number"]

\* A row in which nothing could be read is left out.
NormalizePayments(raw) == Without(raw, {[amount |-> None, date |-> None]})

\* An alias, or a text that contains one, becomes the document's name.
DocumentName(item) == IF item = "copy of the contract" THEN "contract" ELSE item

NormalizeDocuments(raw) == {DocumentName(i) : i \in raw \ {""}}

NormalizeField(f, raw) ==
  CASE f \in TextFields -> NormalizeText(raw)
    [] f \in InnFields -> NormalizeInn(raw)
    [] f \in BoolFields -> NormalizeBool(raw)
    [] f \in DateFields -> NormalizeDate(raw)
    [] f = "debt_amount" -> NormalizeAmount(raw)
    [] f = "partial_payments" -> NormalizePayments(raw)
    [] f = "documents_mentioned" -> NormalizeDocuments(raw)

Normalized(data) == [f \in Fields |-> NormalizeField(f, data[f])]

EmptyData ==
  [f \in Fields |-> CASE f = "partial_payments" -> <<>>
                      [] f = "documents_mentioned" -> {} [] OTHER -> None]

(* ------------------------------ missing fields --------------------------- *)
\* Mutant: whether the contract was signed may stay unanswered.
MissingFieldsLoose(data) == {f \in RequiredFields \ {"contract_signed"} : data[f] = None}

MissingFields(data) ==
  {f \in RequiredFields : data[f] = None}
    \cup {f \in {"partial_payments"} :
            data.partial_payments_present = "true" /\ data.partial_payments = <<>>}
    \cup {f \in {"penalty_rate_text"} :
            data.penalty_exists = "true" /\ data.penalty_rate_text = None}

Stored(data) == [data |-> data, missing |-> MissingFields(data)]

(* -------------------------------- extraction ----------------------------- *)
\* Mutant: nothing is concluded from the details.
InferKeeping(data) == data

\* A detail implies the question it belongs to was answered with yes.
Infer(data) ==
  [data EXCEPT
    !.contract_signed =
       IF @ = None /\ (data.contract_number # None \/ data.contract_date # None)
       THEN "true" ELSE @,
    !.partial_payments_present = IF @ = None /\ data.partial_payments # <<>> THEN "true" ELSE @,
    !.penalty_exists = IF @ = None /\ data.penalty_rate_text # None THEN "true" ELSE @]

\* Mutant: what is missing is computed before the conclusions are drawn.
ExtractedDataEarly(payload) ==
  [data |-> Infer(Normalized(payload)), missing |-> MissingFields(Normalized(payload))]

\* Mutant: the amount is stored as the model wrote it.
ExtractedDataAsWritten(payload) ==
  Stored(Infer([Normalized(payload) EXCEPT !.debt_amount = payload.debt_amount]))

ExtractedData(payload) == Stored(Infer(Normalized(payload)))

\* An answer without a JSON object in it gives the empty data.
ParsedExtraction(isObject, payload) ==
  IF isObject THEN ExtractedData(payload) ELSE Stored(EmptyData)

(* ---------------------------------- merge -------------------------------- *)
\* Mutant: the details of a question answered with no stay.
ClearedKeeping(data) == data

\* Details of a question not answered with yes are dropped.
Cleared(data) ==
  [data EXCEPT
    !.partial_payments = IF data.partial_payments_present = "true" THEN @ ELSE <<>>,
    !.penalty_rate_text = IF data.penalty_exists = "true" THEN @ ELSE None]

\* A patched INN is strict: digits that are no INN are refused.
Acceptable(patch) ==
  \A f \in DOMAIN patch \cap InnFields : patch[f] \in {None, 10, 12}

\* The stored payload is normalised once more and compared with the patched one.
Merge(data, patch) ==
  LET base == Normalized(data)
      merged == Cleared([f \in Fields |->
                  IF f \in DOMAIN patch THEN NormalizeField(f, patch[f]) ELSE base[f]])
  IN  [stored |-> Stored(merged),
       changed |-> {f \in Fields : merged[f] # base[f]
                         \/ (f \in DOMAIN patch /\ NormalizeField(f, patch[f]) # base[f])}]

(* ---------------------------------- rules -------------------------------- *)
RiskFlags(case, data) ==
  {x \in {"case_type_uncertain"} : case = None}
    \cup {x \in {"contract_status_uncertain"} : data.contract_signed # "true"}
    \cup {x \in {"no_supporting_documents"} : data.documents_mentioned = {}}
    \cup {x \in {"high_claim_amount"} :
            data.debt_amount # None /\ data.debt_amount.sum >= HighClaimAmount}

BlockedBlocks(flags) ==
  UNION {CASE x = "case_type_uncertain" -> {"legal_basis"}
           [] x = "contract_status_uncertain" -> {"penalty_section"}
           [] x = "no_supporting_documents" -> {"attachments"}
           [] OTHER -> {} : x \in flags}

\* The rules recompute what is missing from the payload they are given.
RulesDecision(case, data) ==
  LET missing == MissingFields(data)
      flags == RiskFlags(case, data)
  IN  [state |-> IF missing # {} THEN "insufficient_data"
                 ELSE IF flags # {} THEN "manual_review_required" ELSE "ready",
       blocked |-> BlockedBlocks(flags), missing |-> missing]

(* --------------------------------- step 2 -------------------------------- *)
SumPayments(rows) ==
  FoldSeq(LAMBDA p, total : IF p.amount = None THEN total ELSE total + p.amount, 0, rows)

RemainingDebt(data) ==
  IF data.debt_amount = None THEN None
  ELSE LET rest == data.debt_amount.sum - SumPayments(data.partial_payments)
       IN  IF rest < 0 THEN 0 ELSE rest

\* The derived figures and the optional inputs shown to the client today.
Step2(stored, today) ==
  LET due == stored.data.payment_due_date
  IN  [showPayments |-> stored.data.partial_payments_present = "true",
       showPenaltyRate |-> stored.data.penalty_exists = "true",
       missing |-> stored.missing,
       paid |-> SumPayments(stored.data.partial_payments),
       remaining |-> RemainingDebt(stored.data),
       overdue |-> IF due = None \/ due.day = 0 THEN None
                   ELSE IF today > due.day THEN today - due.day ELSE 0]

(* --------------------------------- inputs -------------------------------- *)
CompletePayload ==
  [f \in Fields |->
     CASE f \in {"creditor_name", "debtor_name"} -> "given"
       [] f = "creditor_inn" -> 10
       [] f = "debtor_inn" -> 12
       [] f = "contract_signed" -> "yes"
       [] f = "debt_amount" -> [form |-> "text", sum |-> 100]
       [] f = "payment_due_date" -> [form |-> "dotted", day |-> 10]
       [] f = "documents_mentioned" -> {"invoice"}
       [] OTHER -> EmptyData[f]]

\* P of some field and a raw value for it.
AnyField(P(_, _)) ==
  \/ \E f \in TextFields : \E v \in RawTexts : P(f, v)
  \/ \E f \in InnFields : \E v \in RawInns : P(f, v)
  \/ \E f \in BoolFields : \E v \in RawBools : P(f, v)
  \/ \E f \in DateFields : \E v \in RawDates : P(f, v)
  \/ \E v \in RawAmounts : P("debt_amount", v)
  \/ \E v \in RawPayments : P("partial_payments", v)
  \/ \E v \in RawDocuments : P("documents_mentioned", v)

(* --------------------------------- steps --------------------------------- *)
DataInit ==
  /\ claimData = Stored(EmptyData) /\ caseType = None
  /\ patches = 0 /\ edited = FALSE

\* POST extract: the answer replaces the data and the case type, whatever they were, so
\* that an extraction after a patch leads where one before it does (a bound: patches = 0).
Extract ==
  /\ patches = 0
  /\ \E case \in {None, "supply"} :
       \/ claimData' = ParsedExtraction(FALSE, EmptyData) /\ caseType' = None
       \/ /\ caseType' = case
          /\ \E base \in {EmptyData, CompletePayload} :
               AnyField(LAMBDA f, v :
                 claimData' = ParsedExtraction(TRUE, [base EXCEPT ![f] = v]))
  /\ edited' = FALSE
  /\ UNCHANGED patches

ApplyPatch(patch) ==
  LET m == Merge(claimData.data, patch)
  IN  /\ Acceptable(patch)
      /\ claimData' = IF m.changed # {} THEN m.stored ELSE claimData

\* PATCH: one field, a question together with its details, or the case type, which
\* merges an empty patch.
Patch ==
  /\ patches < MaxPatches
  /\ \/ AnyField(LAMBDA f, v : ApplyPatch([x \in {f} |-> v])) /\ UNCHANGED caseType
     \/ /\ \E b \in RawBools, v \in RawPayments :
             ApplyPatch([partial_payments_present |-> b, partial_payments |-> v])
        /\ UNCHANGED caseType
     \/ caseType' \in CaseTypes \cup {None} /\ ApplyPatch([x \in {} |-> None])
  /\ patches' = patches + 1 /\ edited' = TRUE

DataNext == Extract \/ Patch

DataSpec == DataInit /\ [][DataNext]_dataVars

(* ------------------------------ properties ------------------------------- *)
\* What is stored as missing is what the rules would find missing now, however the
\* extraction and the patches followed each other.
MissingIsExact == claimData.missing = RulesDecision(caseType, claimData.data).missing

\* Stored data is in normal form, so that the readers that do not normalise (the rules,
\* the generation) and those that do (the step 2 contract, the next patch) agree.
StoredIsNormal == Normalized(claimData.data) = claimData.data

\* A detail never stands beside an unanswered question; beside a question answered
\* with no it stands only until the first PATCH, whatever that one is about.
DetailsBelong ==
  LET answers == IF edited THEN {"true"} ELSE {"true", "false"}
  IN  /\ claimData.data.partial_payments # <<>> =>
           claimData.data.partial_payments_present \in answers
      /\ claimData.data.penalty_rate_text # None => claimData.data.penalty_exists \in answers
=============================================================================

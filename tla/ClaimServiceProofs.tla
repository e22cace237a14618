------------------------- MODULE ClaimServiceProofs --------------------------
(* What the claim service keeps beside the lifecycle of a claim, for any      *)
(* number of uploads, callers, parties and edits: the stored files, the data  *)
(* of a claim, what its preview may say of them, the lines of its header, and *)
(* the answers cached from other services.                                    *)
EXTENDS ClaimFiles, ClaimPreview, PartyHeader, PartyLookup, LoopProofs

(* ------------------------------ stored files ----------------------------- *)

(* A stored claim file is never missing and never forgotten, for any number   *)
(* of uploads and deletions, whatever fails or dies on the way.  A path       *)
(* belongs to its one upload until its row is committed, and once the row is  *)
(* gone it never comes back: so an upload may take its file back, and a       *)
(* deletion unlink it after its commit.                                       *)

FilesTyped ==
  /\ disk \in [Files -> {"absent", "partial", "whole"}]
  /\ handler \in [Handlers -> [step : Steps, file : Files \cup {NoFile}]]
  /\ fileRows \subseteq Files /\ fresh \subseteq Files

Uploading(h) == handler[h].step \in {"writing", "saved", "inserted"}

\* What a handler at its step may count on.
Assured(h) ==
  /\ handler[h].step = "idle" <=> handler[h].file = NoFile
  /\ handler[h].file \notin fresh
  /\ Uploading(h) => /\ handler[h].file \notin fileRows
                     /\ \A o \in Handlers \ {h} : handler[o].file # handler[h].file
  /\ handler[h].step \in {"saved", "inserted"} => disk[handler[h].file] = "whole"
  /\ handler[h].step = "deleted" => handler[h].file \notin fileRows

\* The handlers that will still take care of the file.
Carers(f) == {h \in Handlers : handler[h].file = f /\ (Uploading(h) \/ handler[h].step = "deleted")}

\* A file on the disk is a row's, lost to a failure, or somebody's.
Cared == \A f \in Files : disk[f] # "absent" => f \in fileRows \cup leftover \/ Carers(f) # {}

FilesInv ==
  /\ FilesTyped /\ (\A h \in Handlers : Assured(h)) /\ fresh \cap fileRows = {}
  /\ RowHasFile /\ Cared

\* An empty directory and no row.
LEMMA FilesStart == FilesInit => FilesInv
<1> SUFFICES ASSUME FilesInit PROVE FilesInv
  OBVIOUS
<1> USE NoFileAssumption DEF FilesInit
<1>1. FilesTyped
  BY DEF FilesTyped, Steps, Waiting
<1>2. \A h \in Handlers : Assured(h)
  BY DEF Assured, Uploading, Waiting
<1>3. RowHasFile /\ Cared
  BY DEF RowHasFile, Cared
<1> QED
  BY <1>1, <1>2, <1>3 DEF FilesInv

\* The upload, up to its commit.
LEMMA UploadKeeps ==
  ASSUME FilesInv, NEW h \in Handlers, OpenUpload(h) \/ WriteUpload(h) \/ InsertRow(h)
  PROVE  FilesInv'
<1> USE NoFileAssumption
<1>1. CASE OpenUpload(h)
  <2> USE <1>1 DEF OpenUpload, FilesInv
  <2>1. PICK f \in fresh : /\ handler' = [handler EXCEPT ![h] = [step |-> "writing", file |-> f]]
                           /\ fresh' = fresh \ {f} /\ disk' = [disk EXCEPT ![f] = "partial"]
    OBVIOUS
  <2>2. FilesTyped'
    BY <2>1 DEF FilesTyped, Steps
  <2>3. ASSUME NEW o \in Handlers PROVE Assured(o)'
    BY <2>1, <2>3 DEF FilesTyped, Assured, Uploading
  <2>4. (fresh \cap fileRows = {})' /\ RowHasFile'
    BY <2>1 DEF FilesTyped, RowHasFile
  <2>5. Cared'
    <3> SUFFICES ASSUME NEW g \in Files, disk'[g] # "absent"
                 PROVE  g \in fileRows' \cup leftover' \/ Carers(g)' # {}
      BY DEF Cared
    <3>1. CASE g = f
      <4>1. h \in Carers(g)'
        BY <2>1, <3>1 DEF Carers, Uploading, FilesTyped
      <4> QED
        BY <4>1
    <3>2. CASE g # f
      <4>1. Carers(g) \subseteq Carers(g)'
        BY <2>1 DEF Carers, Uploading, FilesTyped
      <4> QED
        BY <2>1, <3>2, <4>1 DEF Cared, FilesTyped
    <3> QED
      BY <3>1, <3>2
  <2> QED
    BY <2>2, <2>3, <2>4, <2>5
<1>2. CASE WriteUpload(h) \/ InsertRow(h)
  <2> USE DEF FilesInv
  <2> DEFINE f == handler[h].file
  <2>1. /\ Uploading(h) /\ UNCHANGED <<fileRows, fresh, unsure>>
        /\ \/ /\ disk' = [disk EXCEPT ![f] = "whole"] /\ leftover' = leftover
              /\ \E s \in {"saved", "inserted"} : handler' = [handler EXCEPT ![h].step = s]
           \/ Ends(h) /\ Unlink(f)
    BY <1>2 DEF WriteUpload, InsertRow, Goes, Uploading, Assured, FilesTyped
  <2>2. f \in Files /\ f \notin fileRows /\ \A o \in Handlers \ {h} : handler[o].file # f
    BY <2>1 DEF FilesTyped, Assured, Uploading
  <2>3. FilesTyped'
    BY <2>1, <2>2 DEF FilesTyped, Ends, Unlink, Waiting, Steps
  <2>4. ASSUME NEW o \in Handlers PROVE Assured(o)'
    BY <2>1, <2>2, <2>4 DEF FilesTyped, Assured, Uploading, Ends, Unlink, Waiting, Steps
  <2>5. RowHasFile'
    BY <2>1, <2>2 DEF RowHasFile, FilesTyped, Unlink
  <2>6. Cared'
    <3> SUFFICES ASSUME NEW g \in Files, disk'[g] # "absent"
                 PROVE  g \in fileRows' \cup leftover' \/ Carers(g)' # {}
      BY DEF Cared
    <3>1. CASE g = f
      <4>1. Ends(h) /\ Unlink(f) => g \in leftover'
        BY <2>2, <3>1 DEF Unlink, FilesTyped
      <4>2. ASSUME NEW s \in {"saved", "inserted"}, handler' = [handler EXCEPT ![h].step = s]
            PROVE  h \in Carers(g)'
        BY <3>1, <4>2 DEF Carers, Uploading, FilesTyped
      <4> QED
        BY <2>1, <4>1, <4>2
    <3>2. CASE g # f
      <4>1. disk[g] # "absent" /\ leftover \subseteq leftover'
        BY <2>1, <2>2, <3>2 DEF Unlink, FilesTyped
      <4>2. Carers(g) \subseteq Carers(g)'
        BY <2>1, <3>2 DEF Carers, Uploading, FilesTyped, Ends
      <4> QED
        BY <2>1, <4>1, <4>2 DEF Cared
    <3> QED
      BY <3>1, <3>2
  <2> QED
    BY <2>1, <2>3, <2>4, <2>5, <2>6
<1> QED
  BY <1>1, <1>2

\* The commit of an upload, whatever becomes of it and of its answer.
LEMMA CommitUploadKeeps ==
  ASSUME FilesInv, NEW h \in Handlers, CommitUpload(h)
  PROVE  FilesInv'
<1> USE NoFileAssumption DEF FilesInv
<1> DEFINE f == handler[h].file
<1>1. /\ handler[h].step = "inserted" /\ Ends(h) /\ fresh' = fresh
      /\ \/ fileRows' = fileRows \cup {f} /\ UNCHANGED <<disk, leftover, unsure>>
         \/ Unlink(f) /\ UNCHANGED <<fileRows, unsure>>
         \/ Unlink(f) /\ fileRows' = fileRows \cup {f} /\ unsure' = unsure \cup {f}
  BY DEF CommitUpload
<1>2. /\ f \in Files /\ f \notin fileRows /\ f \notin fresh /\ disk[f] = "whole"
      /\ \A o \in Handlers \ {h} : handler[o].file # f
  BY <1>1 DEF FilesTyped, Assured, Uploading
<1>3. FilesTyped'
  BY <1>1, <1>2 DEF FilesTyped, Ends, Unlink, Waiting, Steps
<1>4. ASSUME NEW o \in Handlers PROVE Assured(o)'
  BY <1>1, <1>2, <1>4 DEF FilesTyped, Assured, Uploading, Ends, Unlink, Waiting, Steps
<1>5. RowHasFile' /\ (fresh \cap fileRows = {})'
  BY <1>1, <1>2 DEF RowHasFile, FilesTyped, Unlink
<1>6. Cared'
  <2> SUFFICES ASSUME NEW g \in Files, disk'[g] # "absent"
               PROVE  g \in fileRows' \cup leftover' \/ Carers(g)' # {}
    BY DEF Cared
  <2>1. CASE g = f
    BY <1>1, <1>2, <2>1 DEF Unlink, FilesTyped
  <2>2. CASE g # f
    <3>1. disk[g] # "absent" /\ leftover \subseteq leftover' /\ fileRows \subseteq fileRows'
      BY <1>1, <1>2, <2>2 DEF Unlink, FilesTyped
    <3>2. Carers(g) \subseteq Carers(g)'
      BY <1>1, <2>2 DEF Carers, Uploading, FilesTyped, Ends
    <3> QED
      BY <3>1, <3>2 DEF Cared
  <2> QED
    BY <2>1, <2>2
<1> QED
  BY <1>3, <1>4, <1>5, <1>6

\* The deletion: two requests may have found the same file.
LEMMA DeleteKeeps ==
  ASSUME FilesInv, NEW h \in Handlers,
         FindFile(h) \/ RemoveRow(h) \/ CommitDelete(h) \/ UnlinkDeleted(h)
  PROVE  FilesInv'
<1> USE NoFileAssumption DEF FilesInv
<1> DEFINE f == handler[h].file
<1>1. CASE FindFile(h) \/ RemoveRow(h)
  <2>1. /\ UNCHANGED <<disk, fileRows, fresh, unsure, leftover>>
        /\ \/ /\ handler[h].step = "idle"
              /\ \E g \in fileRows : handler' = [handler EXCEPT ![h] = [step |-> "found", file |-> g]]
           \/ handler[h].step = "found" /\ handler' = [handler EXCEPT ![h].step = "removed"]
    BY <1>1 DEF FindFile, RemoveRow, Goes
  <2>2. FilesTyped'
    BY <2>1 DEF FilesTyped, Steps
  <2>3. ASSUME NEW o \in Handlers PROVE Assured(o)'
    BY <2>1, <2>3 DEF FilesTyped, Assured, Uploading
  <2>4. ASSUME NEW g \in Files PROVE Carers(g) \subseteq Carers(g)'
    BY <2>1 DEF Carers, Uploading, FilesTyped
  <2>5. Cared'
    BY <2>1, <2>4 DEF Cared
  <2> QED
    BY <2>1, <2>2, <2>3, <2>5 DEF RowHasFile
<1>2. CASE CommitDelete(h)
  <2>1. /\ handler[h].step = "removed" /\ handler' = [handler EXCEPT ![h].step = "deleted"]
        /\ fileRows' = fileRows \ {f} /\ UNCHANGED <<disk, fresh, unsure, leftover>>
    BY <1>2 DEF CommitDelete, Goes
  <2>2. FilesTyped'
    BY <2>1 DEF FilesTyped, Steps
  <2>3. ASSUME NEW o \in Handlers PROVE Assured(o)'
    BY <2>1, <2>3 DEF FilesTyped, Assured, Uploading
  <2>4. Cared'
    <3>1. ASSUME NEW g \in Files PROVE Carers(g) \subseteq Carers(g)'
      BY <2>1 DEF Carers, Uploading, FilesTyped
    <3>2. h \in Carers(f)'
      BY <2>1 DEF Carers, FilesTyped
    <3> QED
      BY <2>1, <3>1, <3>2 DEF Cared
  <2> QED
    BY <2>1, <2>2, <2>3, <2>4 DEF RowHasFile
<1>3. CASE UnlinkDeleted(h)
  <2>1. /\ handler[h].step = "deleted" /\ handler' = [handler EXCEPT ![h] = Waiting]
        /\ Unlink(f) /\ UNCHANGED <<fileRows, fresh, unsure>>
    BY <1>3 DEF UnlinkDeleted, Ends
  <2>2. f \in Files /\ f \notin fileRows
    BY <2>1 DEF FilesTyped, Assured
  <2>3. FilesTyped'
    BY <2>1, <2>2 DEF FilesTyped, Steps, Unlink, Waiting
  <2>4. ASSUME NEW o \in Handlers PROVE Assured(o)'
    BY <2>1, <2>2, <2>4 DEF FilesTyped, Assured, Uploading, Unlink, Waiting
  <2>5. Cared'
    <3>1. ASSUME NEW g \in Files, g # f
          PROVE  Carers(g) \subseteq Carers(g)' /\ disk'[g] = disk[g] /\ leftover \subseteq leftover'
      BY <2>1, <2>2, <3>1 DEF Carers, Uploading, FilesTyped, Unlink
    <3>2. disk'[f] # "absent" => f \in leftover'
      BY <2>1, <2>2 DEF FilesTyped, Unlink
    <3> QED
      BY <2>1, <3>1, <3>2 DEF Cared
  <2> QED
    BY <2>1, <2>2, <2>3, <2>4, <2>5 DEF RowHasFile, Unlink, FilesTyped
<1> QED
  BY <1>1, <1>2, <1>3

\* The process dies: what it had in hand is left over, unless a row still has it.
LEMMA DieKeeps ==
  ASSUME FilesInv, NEW h \in Handlers, Die(h)
  PROVE  FilesInv'
<1> USE NoFileAssumption DEF FilesInv
<1>1. /\ handler' = [handler EXCEPT ![h] = Waiting] /\ UNCHANGED <<disk, fileRows, fresh, unsure>>
      /\ leftover' = IF handler[h].step \in {"found", "removed"}
                     THEN leftover ELSE leftover \cup {handler[h].file}
  BY DEF Die, Ends
<1>2. FilesTyped'
  BY <1>1 DEF FilesTyped, Steps, Waiting
<1>3. ASSUME NEW o \in Handlers PROVE Assured(o)'
  BY <1>1, <1>3 DEF FilesTyped, Assured, Uploading, Waiting
<1>4. ASSUME NEW g \in Files PROVE Carers(g) \subseteq Carers(g)' \/ g \in leftover'
  BY <1>1 DEF Carers, Uploading, FilesTyped
<1>5. Cared'
  BY <1>1, <1>4 DEF Cared
<1> QED
  BY <1>1, <1>2, <1>3, <1>5 DEF RowHasFile

\* Every step keeps the invariant.
LEMMA FilesStep == FilesInv /\ [FilesNext]_fileVars => FilesInv'
<1> SUFFICES ASSUME FilesInv, [FilesNext]_fileVars PROVE FilesInv'
  OBVIOUS
<1>1. CASE UNCHANGED fileVars
  BY <1>1 DEF fileVars, FilesInv, FilesTyped, Assured, Uploading, RowHasFile, Cared, Carers
<1> QED
  BY <1>1, UploadKeeps, CommitUploadKeeps, DeleteKeeps, DieKeeps DEF FilesNext

\* A committed row has its whole file, but for a commit that took place and raised.
THEOREM RowHasFileAlways == FilesSpec => []RowHasFile
<1>1. FilesInv => RowHasFile
  BY DEF FilesInv
<1> QED
  BY <1>1, FilesStart, FilesStep, PTL DEF FilesSpec

\* A file on the disk has a row or a handler at work on it, or a failure left it over.
THEOREM NoOrphansAlways == FilesSpec => []NoOrphans
<1>1. FilesInv => NoOrphans
  BY DEF FilesInv, Cared, Carers, NoOrphans
<1> QED
  BY <1>1, FilesStart, FilesStep, PTL DEF FilesSpec

(* ------------------------------- claim data ------------------------------ *)
PaymentRows == [amount : {None, 30, 200}, date : {None, 10}]

DocumentItems == {"", "contract", "copy of the contract", "invoice", "photo"}

\* The values the normaliser of a field may be given, the stored ones among them.
ValuesOf(f) ==
  CASE f \in TextFields -> RawTexts
    [] f \in InnFields -> RawInns
    [] f \in BoolFields -> RawBools
    [] f \in DateFields -> RawDates
    [] f = "debt_amount" -> RawAmounts
    [] f = "partial_payments" -> Seq(PaymentRows)
    [] f = "documents_mentioned" -> SUBSET DocumentItems

DataTyped(data) ==
  /\ data = [f \in Fields |-> data[f]]
  /\ \A f \in Fields : data[f] \in ValuesOf(f)

\* The kinds of fields, each apart from the others.
LEMMA FieldKinds ==
  /\ ValuesOf("debt_amount") = RawAmounts
  /\ ValuesOf("partial_payments") = Seq(PaymentRows)
  /\ ValuesOf("documents_mentioned") = SUBSET DocumentItems
  /\ \A f \in TextFields : ValuesOf(f) = RawTexts
  /\ \A f \in InnFields : ValuesOf(f) = RawInns
  /\ \A f \in BoolFields : ValuesOf(f) = RawBools
  /\ \A f \in DateFields : ValuesOf(f) = RawDates
  /\ \A raw : /\ NormalizeField("debt_amount", raw) = NormalizeAmount(raw)
              /\ NormalizeField("partial_payments", raw) = NormalizePayments(raw)
              /\ NormalizeField("documents_mentioned", raw) = NormalizeDocuments(raw)
              /\ \A f \in TextFields : NormalizeField(f, raw) = NormalizeText(raw)
              /\ \A f \in InnFields : NormalizeField(f, raw) = NormalizeInn(raw)
              /\ \A f \in BoolFields : NormalizeField(f, raw) = NormalizeBool(raw)
              /\ \A f \in DateFields : NormalizeField(f, raw) = NormalizeDate(raw)
BY DEF ValuesOf, NormalizeField, TextFields, InnFields, BoolFields, DateFields

\* Normalising a field gives a value of the field, and a second time changes nothing.
LEMMA NormalizeTwice ==
  ASSUME NEW f \in Fields, NEW raw \in ValuesOf(f)
  PROVE  /\ NormalizeField(f, raw) \in ValuesOf(f)
         /\ NormalizeField(f, NormalizeField(f, raw)) = NormalizeField(f, raw)
<1>1. CASE f \in TextFields
  BY <1>1, FieldKinds DEF NormalizeText, RawTexts
<1>2. CASE f \in InnFields
  <2>1. raw \in RawInns
    BY <1>2, FieldKinds
  <2>2. NormalizeInn(raw) \in RawInns /\ NormalizeInn(NormalizeInn(raw)) = NormalizeInn(raw)
    BY <2>1 DEF NormalizeInn, RawInns
  <2> QED
    BY <1>2, <2>2, FieldKinds
<1>3. CASE f \in BoolFields
  <2>1. NormalizeBool(raw) \in {"true", "false", None}
    BY DEF NormalizeBool
  <2>2. \A b \in {"true", "false", None} : b \in RawBools /\ NormalizeBool(b) = b
    BY NoneAnswersNothing DEF NormalizeBool, RawBools
  <2> QED
    BY <1>3, <2>1, <2>2, FieldKinds
<1>4. CASE f \in DateFields
  <2>1. raw \in RawDates
    BY <1>4, FieldKinds
  <2>2. NormalizeDate(raw) \in RawDates /\ NormalizeDate(NormalizeDate(raw)) = NormalizeDate(raw)
    BY <2>1 DEF NormalizeDate, RawDates
  <2> QED
    BY <1>4, <2>2, FieldKinds
<1>5. CASE f = "debt_amount"
  <2>1. raw \in RawAmounts
    BY <1>5, FieldKinds
  <2>2. /\ NormalizeAmount(raw) \in RawAmounts
        /\ NormalizeAmount(NormalizeAmount(raw)) = NormalizeAmount(raw)
    BY <2>1 DEF NormalizeAmount, RawAmounts
  <2> QED
    BY <1>5, <2>2, FieldKinds
<1>6. CASE f = "partial_payments"
  <2>1. raw \in Seq(PaymentRows)
    BY <1>6, FieldKinds
  <2>2. /\ NormalizePayments(raw) \in Seq(PaymentRows \ {[amount |-> None, date |-> None]})
        /\ NormalizePayments(NormalizePayments(raw)) = NormalizePayments(raw)
    BY <2>1, WithoutTwice DEF NormalizePayments
  <2>3. NormalizePayments(raw) \in Seq(PaymentRows)
    BY <2>2, SeqMonotonic
  <2> QED
    BY <1>6, <2>2, <2>3, FieldKinds
<1>7. CASE f = "documents_mentioned"
  <2>1. raw \in SUBSET DocumentItems
    BY <1>7, FieldKinds
  <2>2. /\ NormalizeDocuments(raw) \in SUBSET DocumentItems
        /\ NormalizeDocuments(NormalizeDocuments(raw)) = NormalizeDocuments(raw)
    <3> DEFINE D == {DocumentName(i) : i \in raw \ {""}}
    <3>2. ASSUME NEW d \in D PROVE d \in DocumentItems \ {""} /\ DocumentName(d) = d
      <4>1. PICK i \in raw \ {""} : d = DocumentName(i)
        OBVIOUS
      <4>2. i \in DocumentItems /\ i # ""
        BY <2>1
      <4> HIDE DEF D
      <4>3. /\ DocumentName(i) \in DocumentItems /\ DocumentName(i) # ""
            /\ DocumentName(DocumentName(i)) = DocumentName(i)
        BY <4>2 DEF DocumentName, DocumentItems
      <4> QED
        BY <4>1, <4>3
    <3>3. D \subseteq DocumentItems /\ D \ {""} = D
      <4>1. \A d \in D : d \in DocumentItems /\ d # ""
        BY <3>2
      <4> HIDE DEF D
      <4>2. D \subseteq DocumentItems
        BY <4>1
      <4>3. D \ {""} = D
        BY <4>1
      <4> QED
        BY <4>2, <4>3
    <3>4. NormalizeDocuments(raw) = D
      BY DEF NormalizeDocuments
    <3> HIDE DEF D
    <3>5. {DocumentName(d) : d \in D} = D
      BY <3>2
    <3> QED
      BY <3>3, <3>4, <3>5 DEF NormalizeDocuments
  <2> QED
    BY <1>7, <2>2, FieldKinds
<1> QED
  BY <1>1, <1>2, <1>3, <1>4, <1>5, <1>6, <1>7 DEF Fields

\* The data normalised as a whole.
LEMMA NormalizedTwice ==
  ASSUME NEW data, \A f \in Fields : data[f] \in ValuesOf(f)
  PROVE  /\ DataTyped(Normalized(data))
         /\ Normalized(Normalized(data)) = Normalized(data)
BY NormalizeTwice DEF DataTyped, Normalized

\* What the normaliser makes of the two details and their questions.
LEMMA NormalDetails ==
  ASSUME NEW data, \A f \in Fields : data[f] \in ValuesOf(f)
  PROVE  \A b \in BoolFields : Normalized(data)[b] \in {"true", "false", None}
<1> SUFFICES ASSUME NEW b \in BoolFields PROVE Normalized(data)[b] \in {"true", "false", None}
  OBVIOUS
<1>1. b \in Fields
  BY DEF Fields
<1>2. Normalized(data)[b] = NormalizeBool(data[b])
  BY <1>1, FieldKinds DEF Normalized
<1> QED
  BY <1>2 DEF NormalizeBool

\* Data whose fields are normal in themselves is normal.
LEMMA NormalByField ==
  ASSUME NEW data, data = [f \in Fields |-> data[f]],
         \A f \in Fields : NormalizeField(f, data[f]) = data[f]
  PROVE  Normalized(data) = data
BY DEF Normalized

\* The conclusions drawn from the details keep the data normal.
LEMMA InferKeeps ==
  ASSUME NEW data, DataTyped(data), Normalized(data) = data,
         \A b \in BoolFields : data[b] \in {"true", "false", None}
  PROVE  LET new == Infer(data)
         IN  /\ DataTyped(new) /\ Normalized(new) = new
             /\ new.partial_payments # <<>> => new.partial_payments_present \in {"true", "false"}
             /\ new.penalty_rate_text # None => new.penalty_exists \in {"true", "false"}
<1> DEFINE new == Infer(data)
<1>1. /\ new = [f \in Fields |-> new[f]]
      /\ \A f \in Fields \ BoolFields : new[f] = data[f]
      /\ \A b \in BoolFields : new[b] \in {data[b], "true"}
  BY DEF Infer, DataTyped, Fields, TextFields, InnFields, BoolFields, DateFields
<1>2. \A b \in BoolFields : "true" \in ValuesOf(b) /\ NormalizeField(b, "true") = "true"
  BY FieldKinds DEF RawBools, NormalizeBool
<1>3. \A f \in Fields : data[f] \in ValuesOf(f) /\ NormalizeField(f, data[f]) = data[f]
  BY DEF DataTyped, Normalized
<1>4. /\ new.partial_payments = data.partial_payments
      /\ new.penalty_rate_text = data.penalty_rate_text
      /\ data.partial_payments # <<>> => new.partial_payments_present \in {"true", "false"}
      /\ data.penalty_rate_text # None => new.penalty_exists \in {"true", "false"}
  BY DEF Infer, DataTyped, Fields, TextFields, InnFields, BoolFields, DateFields
<1> HIDE DEF new
<1>5. \A f \in Fields : new[f] \in ValuesOf(f) /\ NormalizeField(f, new[f]) = new[f]
  BY <1>1, <1>2, <1>3
<1>6. DataTyped(new) /\ Normalized(new) = new
  BY <1>1, <1>5, NormalByField DEF DataTyped
<1> QED
  BY <1>4, <1>6 DEF new

\* Nothing given is normal, for every field.
LEMMA NothingNormal ==
  /\ <<>> \in ValuesOf("partial_payments")
  /\ NormalizeField("partial_payments", <<>>) = <<>>
  /\ {} \in ValuesOf("documents_mentioned")
  /\ NormalizeField("documents_mentioned", {}) = {}
  /\ \A f \in Fields \ {"partial_payments", "documents_mentioned"} :
       None \in ValuesOf(f) /\ NormalizeField(f, None) = None
<1>1. NormalizePayments(<<>>) = <<>> /\ <<>> \in Seq(PaymentRows)
  BY WithoutEmpty DEF NormalizePayments
<1>2. NormalizeDocuments({}) = {} /\ {} \in SUBSET DocumentItems
  BY DEF NormalizeDocuments
<1>3. /\ NormalizeText(None) = None /\ NormalizeInn(None) = None /\ NormalizeBool(None) = None
      /\ NormalizeDate(None) = None /\ NormalizeAmount(None) = None
  BY NoneAnswersNothing
     DEF NormalizeText, NormalizeInn, NormalizeBool, NormalizeDate, NormalizeAmount
<1>4. /\ None \in RawTexts /\ None \in RawInns /\ None \in RawBools
      /\ None \in RawDates /\ None \in RawAmounts
  BY DEF RawTexts, RawInns, RawBools, RawDates, RawAmounts
<1>5. ASSUME NEW f \in Fields \ {"partial_payments", "documents_mentioned"}
      PROVE  None \in ValuesOf(f) /\ NormalizeField(f, None) = None
  BY <1>3, <1>4, FieldKinds DEF Fields
<1> QED
  BY <1>1, <1>2, <1>5, FieldKinds

\* The conclusions a PATCH enforces: a detail stays only beside a yes.
LEMMA ClearedKeeps ==
  ASSUME NEW data, DataTyped(data), Normalized(data) = data
  PROVE  LET new == Cleared(data)
         IN  /\ DataTyped(new) /\ Normalized(new) = new
             /\ new.partial_payments # <<>> => new.partial_payments_present = "true"
             /\ new.penalty_rate_text # None => new.penalty_exists = "true"
<1> DEFINE new == Cleared(data)
<1>1. /\ new = [f \in Fields |-> new[f]]
      /\ \A f \in Fields \ {"partial_payments", "penalty_rate_text"} : new[f] = data[f]
      /\ new.partial_payments \in {data.partial_payments, <<>>}
      /\ new.penalty_rate_text \in {data.penalty_rate_text, None}
  BY DEF Cleared, DataTyped, Fields, TextFields, InnFields, BoolFields, DateFields
<1>2. /\ new.partial_payments # <<>> => new.partial_payments_present = "true"
      /\ new.penalty_rate_text # None => new.penalty_exists = "true"
  BY DEF Cleared, DataTyped, Fields, TextFields, InnFields, BoolFields, DateFields
<1>5. \A f \in Fields : data[f] \in ValuesOf(f) /\ NormalizeField(f, data[f]) = data[f]
  BY DEF DataTyped, Normalized
<1> HIDE DEF new
<1>6. \A f \in Fields : new[f] \in ValuesOf(f) /\ NormalizeField(f, new[f]) = new[f]
  BY <1>1, <1>5, NothingNormal
<1>7. DataTyped(new) /\ Normalized(new) = new
  BY <1>1, <1>6, NormalByField DEF DataTyped
<1> QED
  BY <1>2, <1>7 DEF new

\* What extraction stores, whatever the model answered.
LEMMA ExtractedDataSound ==
  ASSUME NEW payload, \A f \in Fields : payload[f] \in ValuesOf(f)
  PROVE  LET new == Infer(Normalized(payload))
         IN  /\ DataTyped(new) /\ Normalized(new) = new
             /\ new.partial_payments # <<>> => new.partial_payments_present \in {"true", "false"}
             /\ new.penalty_rate_text # None => new.penalty_exists \in {"true", "false"}
BY NormalizedTwice, NormalDetails, InferKeeps

\* The empty data is normal.
LEMMA EmptySound == DataTyped(EmptyData) /\ Normalized(EmptyData) = EmptyData
<1>1. /\ \A f \in Fields \ {"partial_payments", "documents_mentioned"} : EmptyData[f] = None
      /\ EmptyData["partial_payments"] = <<>> /\ EmptyData["documents_mentioned"] = {}
      /\ EmptyData = [f \in Fields |-> EmptyData[f]]
  BY DEF EmptyData, Fields
<1>2. \A f \in Fields : EmptyData[f] \in ValuesOf(f) /\ NormalizeField(f, EmptyData[f]) = EmptyData[f]
  <2> SUFFICES ASSUME NEW f \in Fields
               PROVE  EmptyData[f] \in ValuesOf(f) /\ NormalizeField(f, EmptyData[f]) = EmptyData[f]
    OBVIOUS
  <2>1. CASE f = "partial_payments"
    BY <1>1, <2>1, NothingNormal
  <2>2. CASE f = "documents_mentioned"
    BY <1>1, <2>2, NothingNormal
  <2>3. CASE f \notin {"partial_payments", "documents_mentioned"}
    BY <1>1, <2>3, NothingNormal
  <2> QED
    BY <2>1, <2>2, <2>3
<1> QED
  BY <1>1, <1>2, NormalByField DEF DataTyped

\* The enumerated inputs are values of their fields.
LEMMA InputsTyped ==
  /\ \A f \in TextFields : f \in Fields /\ RawTexts \subseteq ValuesOf(f)
  /\ \A f \in InnFields : f \in Fields /\ RawInns \subseteq ValuesOf(f)
  /\ \A f \in BoolFields : f \in Fields /\ RawBools \subseteq ValuesOf(f)
  /\ \A f \in DateFields : f \in Fields /\ RawDates \subseteq ValuesOf(f)
  /\ "debt_amount" \in Fields /\ RawAmounts \subseteq ValuesOf("debt_amount")
  /\ "partial_payments" \in Fields /\ RawPayments \subseteq ValuesOf("partial_payments")
  /\ "documents_mentioned" \in Fields /\ RawDocuments \subseteq ValuesOf("documents_mentioned")
<1>1. RawPayments \subseteq Seq(PaymentRows)
  BY DEF RawPayments, PaymentRows
<1>2. RawDocuments \subseteq SUBSET DocumentItems
  BY DEF RawDocuments, DocumentItems
<1>3. /\ TextFields \subseteq Fields /\ InnFields \subseteq Fields /\ BoolFields \subseteq Fields
      /\ DateFields \subseteq Fields
      /\ {"debt_amount", "partial_payments", "documents_mentioned"} \subseteq Fields
  BY DEF Fields
<1> QED
  BY <1>1, <1>2, <1>3, FieldKinds

\* A complete answer of the model gives each field a value of its own.
LEMMA CompletePayloadTyped == \A f \in Fields : CompletePayload[f] \in ValuesOf(f)
<1>1. DataTyped(EmptyData)
  BY EmptySound
<1>2. \A f \in Fields :
           \/ CompletePayload[f] = EmptyData[f]
           \/ f \in {"creditor_name", "debtor_name"} /\ CompletePayload[f] = "given"
           \/ f \in {"creditor_inn", "debtor_inn"} /\ CompletePayload[f] \in {10, 12}
           \/ f = "contract_signed" /\ CompletePayload[f] = "yes"
           \/ f = "debt_amount" /\ CompletePayload[f] = [form |-> "text", sum |-> 100]
           \/ f = "documents_mentioned" /\ CompletePayload[f] = {"invoice"}
           \/ f = "payment_due_date" /\ CompletePayload[f] = [form |-> "dotted", day |-> 10]
  BY DEF CompletePayload
<1>3. /\ "given" \in RawTexts /\ {10, 12} \subseteq RawInns /\ "yes" \in RawBools
      /\ [form |-> "text", sum |-> 100] \in RawAmounts
      /\ [form |-> "dotted", day |-> 10] \in RawDates /\ {"invoice"} \subseteq DocumentItems
  BY DEF RawTexts, RawInns, RawBools, RawAmounts, RawDates, DocumentItems
<1>4. SUFFICES ASSUME NEW f \in Fields PROVE CompletePayload[f] \in ValuesOf(f)
  OBVIOUS
<1>5. CASE CompletePayload[f] = EmptyData[f]
  BY <1>1, <1>5 DEF DataTyped
<1>6. CASE CompletePayload[f] # EmptyData[f]
  BY <1>2, <1>3, <1>6, FieldKinds DEF TextFields, InnFields, BoolFields, DateFields
<1> QED
  BY <1>5, <1>6

\* The stored data, after any extractions and patches.
DataInv ==
  /\ DataTyped(claimData.data) /\ claimData = Stored(claimData.data)
  /\ StoredIsNormal /\ DetailsBelong

\* What may be stored as an extraction.
LEMMA ExtractKeeps == DataInv /\ Extract => DataInv'
<1> SUFFICES ASSUME DataInv, Extract PROVE DataInv'
  OBVIOUS
<1>1. ASSUME NEW payload, \A f \in Fields : payload[f] \in ValuesOf(f),
             claimData' = ParsedExtraction(TRUE, payload), edited' = FALSE
      PROVE  DataInv'
  <2> DEFINE new == Infer(Normalized(payload))
  <2>1. claimData' = Stored(new)
    BY <1>1 DEF ParsedExtraction, ExtractedData
  <2>2. /\ DataTyped(new) /\ Normalized(new) = new
        /\ new.partial_payments # <<>> => new.partial_payments_present \in {"true", "false"}
        /\ new.penalty_rate_text # None => new.penalty_exists \in {"true", "false"}
    BY <1>1, ExtractedDataSound
  <2> HIDE DEF new
  <2>3. claimData'.data = new
    BY <2>1 DEF Stored
  <2> QED
    BY <1>1, <2>1, <2>2, <2>3 DEF DataInv, StoredIsNormal, DetailsBelong
<1>2. CASE claimData' = ParsedExtraction(FALSE, EmptyData)
  <2>1. claimData' = Stored(EmptyData) /\ claimData'.data = EmptyData
    BY <1>2 DEF ParsedExtraction, Stored
  <2>2. EmptyData.partial_payments = <<>> /\ EmptyData.penalty_rate_text = None
    BY DEF EmptyData, Fields, TextFields, InnFields, BoolFields, DateFields
  <2> QED
    BY <2>1, <2>2, EmptySound DEF DataInv, StoredIsNormal, DetailsBelong
<1>3. CASE \E base \in {EmptyData, CompletePayload} :
             AnyField(LAMBDA f, v : claimData' = ParsedExtraction(TRUE, [base EXCEPT ![f] = v]))
  <2>1. PICK base \in {EmptyData, CompletePayload} :
               AnyField(LAMBDA f, v : claimData' = ParsedExtraction(TRUE, [base EXCEPT ![f] = v]))
    BY <1>3
  <2>2. PICK f \in Fields : \E v \in ValuesOf(f) :
               claimData' = ParsedExtraction(TRUE, [base EXCEPT ![f] = v])
    BY <2>1, InputsTyped DEF AnyField
  <2>5. PICK v \in ValuesOf(f) : claimData' = ParsedExtraction(TRUE, [base EXCEPT ![f] = v])
    BY <2>2
  <2>6. \A g \in Fields : [base EXCEPT ![f] = v][g] \in ValuesOf(g)
    <3>1. \A g \in Fields : base[g] \in ValuesOf(g)
      BY CompletePayloadTyped, EmptySound DEF DataTyped
    <3>2. base = [g \in Fields |-> base[g]]
      BY EmptySound DEF DataTyped, CompletePayload
    <3> QED
      BY <3>1, <3>2
  <2>4. edited' = FALSE
    BY DEF Extract
  <2> QED
    BY <1>1, <2>4, <2>5, <2>6
<1> QED
  BY <1>2, <1>3 DEF Extract

\* A PATCH stores merged data whose details are answered with yes; when nothing
\* changed, the stored data already was.
LEMMA ApplyPatchKeeps ==
  ASSUME DataInv, NEW patch, DOMAIN patch \subseteq Fields,
         \A f \in DOMAIN patch : patch[f] \in ValuesOf(f),
         ApplyPatch(patch), edited' = TRUE
  PROVE  DataInv'
<1> DEFINE base == Normalized(claimData.data)
           mixed == [f \in Fields |->
                      IF f \in DOMAIN patch THEN NormalizeField(f, patch[f]) ELSE base[f]]
           merged == Cleared(mixed)
<1>1. base = claimData.data /\ DataTyped(base)
  BY DEF DataInv, StoredIsNormal
<1>2. \A f \in Fields : base[f] \in ValuesOf(f) /\ NormalizeField(f, base[f]) = base[f]
  <2>1. \A f \in Fields : claimData.data[f] \in ValuesOf(f)
    BY DEF DataInv, DataTyped
  <2> QED
    BY <2>1, NormalizeTwice DEF Normalized
<1>3. \A f \in Fields : mixed[f] \in ValuesOf(f) /\ NormalizeField(f, mixed[f]) = mixed[f]
  <2> HIDE DEF base
  <2> QED
    BY <1>2, NormalizeTwice
<1>4. DataTyped(mixed) /\ Normalized(mixed) = mixed
  <2>1. mixed = [f \in Fields |-> mixed[f]]
    OBVIOUS
  <2> HIDE DEF mixed
  <2> QED
    BY <1>3, <2>1, NormalByField DEF DataTyped
<1>5. /\ DataTyped(merged) /\ Normalized(merged) = merged
      /\ merged.partial_payments # <<>> => merged.partial_payments_present = "true"
      /\ merged.penalty_rate_text # None => merged.penalty_exists = "true"
  <2> HIDE DEF mixed
  <2> QED
    BY <1>4, ClearedKeeps
<1>6. claimData' = Stored(merged) \/ (claimData' = claimData /\ \A f \in Fields : merged[f] = base[f])
  BY DEF ApplyPatch, Merge
<1> HIDE DEF merged, base
<1>7. CASE claimData' = Stored(merged)
  <2>1. claimData'.data = merged
    BY <1>7 DEF Stored
  <2> QED
    BY <1>5, <1>7, <2>1 DEF DataInv, StoredIsNormal, DetailsBelong
<1>8. CASE claimData' = claimData /\ \A f \in Fields : merged[f] = base[f]
  <2>1. merged = base
    BY <1>1, <1>5, <1>8 DEF DataTyped
  <2>2. claimData'.data = merged
    BY <1>1, <1>8, <2>1
  <2>3. claimData' = Stored(claimData'.data)
    BY <1>8 DEF DataInv
  <2> QED
    BY <1>5, <2>2, <2>3 DEF DataInv, StoredIsNormal, DetailsBelong
<1> QED
  BY <1>6, <1>7, <1>8

\* Every PATCH the client may send.
LEMMA PatchKeeps == DataInv /\ Patch => DataInv'
<1> SUFFICES ASSUME DataInv, Patch PROVE DataInv'
  OBVIOUS
<1>1. edited' = TRUE
  BY DEF Patch
<1>2. ASSUME NEW f \in Fields, NEW v \in ValuesOf(f), ApplyPatch([x \in {f} |-> v]) PROVE DataInv'
  BY <1>1, <1>2, ApplyPatchKeeps
<1>3. ASSUME NEW b \in RawBools, NEW v \in RawPayments,
             ApplyPatch([partial_payments_present |-> b, partial_payments |-> v])
      PROVE  DataInv'
  <2> DEFINE patch == [partial_payments_present |-> b, partial_payments |-> v]
  <2>1. /\ DOMAIN patch \subseteq Fields
        /\ \A f \in DOMAIN patch : patch[f] \in ValuesOf(f)
    BY InputsTyped DEF BoolFields
  <2> HIDE DEF patch
  <2> QED
    BY <1>1, <1>3, <2>1, ApplyPatchKeeps DEF patch
<1>4. ASSUME ApplyPatch([x \in {} |-> None]) PROVE DataInv'
  BY <1>1, <1>4, ApplyPatchKeeps
<1>5. AnyField(LAMBDA f, v : ApplyPatch([x \in {f} |-> v])) =>
        \E f \in Fields : \E v \in ValuesOf(f) : ApplyPatch([x \in {f} |-> v])
  BY InputsTyped DEF AnyField
<1> QED
  BY <1>2, <1>3, <1>4, <1>5 DEF Patch

\* Nothing is known of a new claim.
LEMMA DataStart == DataInit => DataInv
<1> SUFFICES ASSUME DataInit PROVE DataInv
  OBVIOUS
<1>1. claimData = Stored(EmptyData) /\ claimData.data = EmptyData
  BY DEF DataInit, Stored
<1>2. EmptyData.partial_payments = <<>> /\ EmptyData.penalty_rate_text = None
  BY DEF EmptyData, Fields, TextFields, InnFields, BoolFields, DateFields
<1> QED
  BY <1>1, <1>2, EmptySound DEF DataInv, StoredIsNormal, DetailsBelong

\* Extractions and patches in any order.
LEMMA DataStep == DataInv /\ [DataNext]_dataVars => DataInv'
<1>1. DataInv /\ UNCHANGED dataVars => DataInv'
  <2> SUFFICES ASSUME DataInv, UNCHANGED dataVars PROVE DataInv'
    OBVIOUS
  <2>1. claimData' = claimData /\ edited' = edited
    BY DEF dataVars
  <2>2. DataTyped(claimData'.data) /\ claimData' = Stored(claimData'.data) /\ StoredIsNormal'
    BY <2>1 DEF DataInv, StoredIsNormal
  <2>3. DetailsBelong'
    BY <2>1 DEF DataInv, DetailsBelong
  <2> QED
    BY <2>2, <2>3 DEF DataInv
<1> QED
  BY <1>1, ExtractKeeps, PatchKeeps DEF DataNext

\* What is stored as missing is what the rules would find missing now.
THEOREM MissingIsExactAlways == DataSpec => []MissingIsExact
<1>1. DataInv => MissingIsExact
  <2> SUFFICES ASSUME DataInv PROVE MissingIsExact
    OBVIOUS
  <2>1. claimData.missing = MissingFields(claimData.data)
    BY DEF DataInv, Stored
  <2> QED
    BY <2>1 DEF MissingIsExact, RulesDecision
<1> QED
  BY <1>1, DataStart, DataStep, PTL DEF DataSpec

\* Stored data is in normal form.
THEOREM StoredIsNormalAlways == DataSpec => []StoredIsNormal
<1>1. DataInv => StoredIsNormal
  BY DEF DataInv
<1> QED
  BY <1>1, DataStart, DataStep, PTL DEF DataSpec

\* A detail never stands beside an unanswered question.
THEOREM DetailsBelongAlways == DataSpec => []DetailsBelong
<1>1. DataInv => DetailsBelong
  BY DEF DataInv
<1> QED
  BY <1>1, DataStart, DataStep, PTL DEF DataSpec

(* --------------------------------- preview ------------------------------- *)
\* The preview is what the rules and the text said of the data as it is stored.
PreviewOfData ==
  preview # None =>
    \E words \in Answers \cup {None} :
      preview = [decision |-> RulesDecision(caseType, claimData.data),
                 text |-> IF RulesDecision(caseType, claimData.data).state = "insufficient_data"
                          THEN None ELSE PreviewText(claimData.data, caseType, words)]

PreviewInv == DataInv /\ PreviewOfData

\* No preview at first.
LEMMA PreviewStart == PreviewInit => PreviewInv
BY DataStart DEF PreviewInit, PreviewInv, PreviewOfData

\* The data stands still once there is a preview.
LEMMA PreviewStep == PreviewInv /\ [PreviewNext]_previewVars => PreviewInv'
<1> SUFFICES ASSUME PreviewInv, [PreviewNext]_previewVars PROVE PreviewInv'
  OBVIOUS
<1>1. CASE preview = None /\ DataNext /\ UNCHANGED preview
  <2>1. DataInv'
    BY <1>1, DataStep DEF PreviewInv
  <2> QED
    BY <1>1, <2>1 DEF PreviewInv, PreviewOfData
<1>2. CASE Generate
  <2>1. UNCHANGED dataVars /\ claimData' = claimData /\ caseType' = caseType
    BY <1>2 DEF Generate, dataVars
  <2>2. DataInv'
    BY <2>1, DataStep DEF PreviewInv
  <2>3. PreviewOfData'
    BY <1>2, <2>1 DEF Generate, PreviewOfData
  <2> QED
    BY <2>2, <2>3 DEF PreviewInv
<1>3. CASE UNCHANGED previewVars
  <2>1. UNCHANGED dataVars /\ claimData' = claimData /\ caseType' = caseType /\ preview' = preview
    BY <1>3 DEF previewVars, dataVars
  <2>2. DataInv'
    BY <2>1, DataStep DEF PreviewInv
  <2>3. PreviewOfData'
    BY <2>1 DEF PreviewInv, PreviewOfData
  <2> QED
    BY <2>2, <2>3 DEF PreviewInv
<1> QED
  BY <1>1, <1>2, <1>3 DEF PreviewNext

\* A text put together from the data is put together from complete, normal data.
LEMMA DraftOfComplete ==
  ASSUME PreviewInv, HasDraft
  PROVE  /\ preview.text = SafeDraft(claimData.data, caseType)
         /\ claimData.data.contract_signed \in {"true", "false"}
         /\ claimData.data.contract_signed # None
<1>1. PICK words \in Answers \cup {None} :
        preview = [decision |-> RulesDecision(caseType, claimData.data),
                   text |-> IF RulesDecision(caseType, claimData.data).state = "insufficient_data"
                            THEN None ELSE PreviewText(claimData.data, caseType, words)]
  BY DEF PreviewInv, PreviewOfData, HasDraft
<1>2. /\ RulesDecision(caseType, claimData.data).state # "insufficient_data"
      /\ preview.text = PreviewText(claimData.data, caseType, words)
  BY <1>1 DEF HasDraft
<1>3. preview.text = SafeDraft(claimData.data, caseType)
  <2>1. preview.text.source = "fallback"
    BY DEF HasDraft
  <2> QED
    BY <1>2, <2>1 DEF PreviewText
<1>4. MissingFields(claimData.data) = {}
  BY <1>2 DEF RulesDecision
<1>5. claimData.data.contract_signed # None
  BY <1>4 DEF MissingFields, RequiredFields
<1>6. claimData.data["contract_signed"] \in {"true", "false", None}
  <2>1. \A f \in Fields : claimData.data[f] \in ValuesOf(f)
    BY DEF PreviewInv, DataInv, DataTyped
  <2>2. Normalized(claimData.data) = claimData.data
    BY DEF PreviewInv, DataInv, StoredIsNormal
  <2> QED
    BY <2>1, <2>2, NormalDetails DEF BoolFields
<1> QED
  BY <1>3, <1>5, <1>6

\* The text calls a contract concluded, or performed under, only when it was signed.
THEOREM ConcludedMeansSignedAlways == PreviewSpec => []ConcludedMeansSigned
<1>1. PreviewInv => ConcludedMeansSigned
  <2> SUFFICES ASSUME PreviewInv, HasDraft,
                      \/ preview.text.opening.basis = "concluded"
                      \/ preview.text.performance.underContract
               PROVE  claimData.data.contract_signed = "true"
    BY DEF ConcludedMeansSigned
  <2>1. /\ preview.text.opening = Opening(claimData.data, caseType)
        /\ preview.text.performance.underContract = UnderContract(claimData.data, caseType)
    BY DraftOfComplete DEF SafeDraft, Performance
  <2>2. UnderContract(claimData.data, caseType) => claimData.data.contract_signed # "false"
    BY DEF UnderContract
  <2>3. Opening(claimData.data, caseType).basis = "concluded" =>
          claimData.data.contract_signed # "false"
    BY DEF Opening, TypedOpening, NeutralOpening
  <2> QED
    BY <2>1, <2>2, <2>3, DraftOfComplete
<1> QED
  BY <1>1, PreviewStart, PreviewStep, PTL DEF PreviewSpec

\* The text never denies, or calls unstated, payments the data lists.
THEOREM PaymentsNotDeniedAlways == PreviewSpec => []PaymentsNotDenied
<1>1. PreviewInv => PaymentsNotDenied
  <2> SUFFICES ASSUME PreviewInv, HasDraft, claimData.data.partial_payments # <<>>
               PROVE  preview.text.performance.debt.payments \in {"taken into account", "silent"}
    BY DEF PaymentsNotDenied
  <2>1. preview.text.performance.debt.payments = PartialPayments(claimData.data)
    BY DraftOfComplete DEF SafeDraft, Performance, DebtStatements
  <2>2. claimData.data.partial_payments_present \in {"true", "false"}
    BY DEF PreviewInv, DataInv, DetailsBelong
  <2>3. PartialPayments(claimData.data) \in {"taken into account", "silent"}
    BY <2>2, NoneAnswersNothing DEF PartialPayments
  <2> QED
    BY <2>1, <2>3
<1> QED
  BY <1>1, PreviewStart, PreviewStep, PTL DEF PreviewSpec

(* ------------------------------ party header ----------------------------- *)

WordsIn(c) == [letters : STRING, caps : BOOLEAN, ending : STRING, case : {c}]

\* A name whose words all stand in the case c.
NameIn(n, c) ==
  \E p, w : n = [prefix |-> p, words |-> w] /\ p \in BOOLEAN /\ w \in [DOMAIN w -> WordsIn(c)]

\* Names as their sources give them.
LEMMA GivenNames == \A n \in Names : NameIn(n, "given")
<1> SUFFICES ASSUME NEW n \in Names PROVE NameIn(n, "given")
  OBVIOUS
<1>1. n \in [prefix : BOOLEAN, words : Seq(WordsIn("given"))]
  BY NamesAsGiven DEF WordsIn
<1>2. n.words \in [DOMAIN n.words -> WordsIn("given")]
  BY <1>1
<1> QED
  BY <1>1, <1>2 DEF NameIn

\* What the functions on names keep and change.
LEMMA NameOperations ==
  ASSUME NEW n, NEW c, NEW d, NameIn(n, c)
  PROVE  /\ NameIn(Upright(n), c) /\ Upright(n).prefix = n.prefix
         /\ NameIn(InCase(n, d), d) /\ InCase(n, d).prefix = n.prefix
         /\ NameIn(WithoutPrefix(n), c) /\ WithoutPrefix(n).prefix = FALSE
         /\ CasesOf(n) \in {{}, {c}}
<1>1. PICK p, w : p \in BOOLEAN /\ w \in [DOMAIN w -> WordsIn(c)] /\ n = [prefix |-> p, words |-> w]
  BY DEF NameIn
<1>2. NameIn(Upright(n), c) /\ Upright(n).prefix = n.prefix
  <2> DEFINE V == [i \in DOMAIN w |-> [w[i] EXCEPT !.caps = FALSE]]
  <2>1. V \in [DOMAIN V -> WordsIn(c)]
    BY <1>1 DEF WordsIn
  <2>2. Upright(n) = [prefix |-> p, words |-> V]
    <3>1. Upright(n) = [n EXCEPT !.words = V]
      BY <1>1 DEF Upright
    <3> HIDE DEF V
    <3> QED
      BY <1>1, <3>1
  <2> HIDE DEF V
  <2> QED
    BY <1>1, <2>1, <2>2 DEF NameIn
<1>3. NameIn(InCase(n, d), d) /\ InCase(n, d).prefix = n.prefix
  <2> DEFINE V == [i \in DOMAIN w |-> [w[i] EXCEPT !.case = d]]
  <2>1. V \in [DOMAIN V -> WordsIn(d)]
    BY <1>1 DEF WordsIn
  <2>2. InCase(n, d) = [prefix |-> p, words |-> V]
    <3>1. InCase(n, d) = [n EXCEPT !.words = V]
      BY <1>1 DEF InCase
    <3> HIDE DEF V
    <3> QED
      BY <1>1, <3>1
  <2> HIDE DEF V
  <2> QED
    BY <1>1, <2>1, <2>2 DEF NameIn
<1>4. NameIn(WithoutPrefix(n), c) /\ WithoutPrefix(n).prefix = FALSE
  <2>1. \A q : [n EXCEPT !.prefix = q] = [prefix |-> q, words |-> w]
    BY <1>1
  <2>2. PICK q \in BOOLEAN : q = FALSE
    OBVIOUS
  <2>3. WithoutPrefix(n) = [n EXCEPT !.prefix = q]
    BY <2>2, Zenon DEF WithoutPrefix
  <2>4. WithoutPrefix(n) = [prefix |-> q, words |-> w]
    BY <2>1, <2>3
  <2>5. NameIn(WithoutPrefix(n), c)
    BY <1>1, <2>4 DEF NameIn
  <2>6. WithoutPrefix(n).prefix = q
    BY <2>4
  <2> QED
    BY <2>2, <2>5, <2>6
<1>5. CasesOf(n) \in {{}, {c}}
  <2>1. n.words = w /\ \A i \in DOMAIN w : w[i].case = c
    BY <1>1 DEF WordsIn
  <2>2. {w[i].case : i \in DOMAIN w} \in {{}, {c}}
    BY <2>1
  <2> QED
    BY <2>1, <2>2 DEF CasesOf
<1> QED
  BY <1>2, <1>3, <1>4, <1>5

Cases(s) == {{}, {"given"}, {TargetCase(s)}}

\* The local inflection and the name service put a name in one case as a whole.
LEMMA OneCase ==
  ASSUME NEW n \in Names, NEW s, NEW strip \in BOOLEAN, NEW accepted \in BOOLEAN
  PROVE  /\ CasesOf(n) \in Cases(s) /\ CasesOf(Inflected(n, s)) \in Cases(s)
         /\ CasesOf(DisplayFio(TransformedName(n, s, strip, accepted))) \in Cases(s)
         /\ strip => ~DisplayFio(TransformedName(n, s, strip, accepted)).prefix
<1>1. NameIn(n, "given")
  BY GivenNames
<1>2. CasesOf(n) \in Cases(s)
  BY <1>1, NameOperations DEF Cases
<1>3. CasesOf(Inflected(n, s)) \in Cases(s)
  <2> DEFINE shown == DisplayCasing(n)
  <2>1. NameIn(shown, "given")
    BY <1>1, NameOperations DEF DisplayCasing
  <2>2. Inflected(n, s) \in {shown, InCase(shown, TargetCase(s))}
    BY DEF Inflected
  <2> HIDE DEF shown
  <2>3. CasesOf(shown) \in Cases(s)
    BY <2>1, NameOperations DEF Cases
  <2>4. NameIn(InCase(shown, TargetCase(s)), TargetCase(s))
    BY <2>1, NameOperations
  <2>5. CasesOf(InCase(shown, TargetCase(s))) \in Cases(s)
    BY <2>4, NameOperations DEF Cases
  <2> QED
    BY <2>2, <2>3, <2>5
<1>4. /\ CasesOf(DisplayFio(TransformedName(n, s, strip, accepted))) \in Cases(s)
      /\ strip => ~DisplayFio(TransformedName(n, s, strip, accepted)).prefix
  <2> DEFINE asked == IF strip THEN WithoutPrefix(n) ELSE n
             answered == IF accepted THEN InCase(asked, TargetCase(s)) ELSE asked
             c == IF accepted THEN TargetCase(s) ELSE "given"
  <2>1. NameIn(asked, "given") /\ (strip => ~asked.prefix)
    BY <1>1, NameOperations
  <2> HIDE DEF asked
  <2>2. NameIn(answered, c) /\ (strip => ~answered.prefix)
    <3>1. CASE accepted
      <4>1. NameIn(InCase(asked, TargetCase(s)), TargetCase(s))
        BY <2>1, NameOperations
      <4>2. InCase(asked, TargetCase(s)).prefix = asked.prefix
        BY <2>1, NameOperations
      <4> QED
        BY <2>1, <3>1, <4>1, <4>2
    <3>2. CASE ~accepted
      BY <2>1, <3>2
    <3> QED
      BY <3>1, <3>2
  <2>3. TransformedName(n, s, strip, accepted) = answered
    BY DEF TransformedName, asked
  <2>4. DisplayFio(answered) \in {answered, Upright(answered)}
    BY DEF DisplayFio
  <2> HIDE DEF answered
  <2>5. NameIn(DisplayFio(answered), c) /\ (strip => ~DisplayFio(answered).prefix)
    BY <2>2, <2>4, NameOperations
  <2>6. CasesOf(DisplayFio(answered)) \in {{}, {c}}
    BY <2>5, NameOperations
  <2> QED
    BY <2>3, <2>5, <2>6 DEF Cases
<1> QED
  BY <1>2, <1>3, <1>4

NameOrNone == Names \cup {None}

\* Lines that agree with each other and with their side.
LinesOK(lines, s) ==
  /\ lines.line1.case = TargetCase(s)
  /\ CasesOf(lines.line3) \in Cases(s)
  /\ lines.line1.title = "entrepreneur" /\ lines.line2 # None => ~lines.line2.prefix

\* What may be stored as a party.
PartyOK(p, s) ==
  /\ p.company \in NameOrNone /\ p.person \in NameOrNone
  /\ p.line1.case = TargetCase(s) /\ p.line2 \in NameOrNone
  /\ "rendered" \in DOMAIN p
  /\ p.rendered # None => LinesOK(p.rendered, s)

\* The lines rendered for a party agree.
LEMMA LinesSound ==
  ASSUME NEW p, NEW s, p.company \in NameOrNone, p.person \in NameOrNone
  PROVE  LinesOK(Lines(p, s), s)
<1> DEFINE lines == Lines(p, s)
<1>1. lines.line1 = RenderedLine1(p, s)
  BY DEF Lines
<1>2. lines.line1.case = TargetCase(s)
  BY <1>1 DEF RenderedLine1
<1>3. CasesOf(lines.line3) \in Cases(s)
  <2>1. lines.line3 \in {None, p.person} \/ (p.person # None /\ lines.line3 = Inflected(p.person, s))
    BY DEF Lines
  <2>2. CasesOf(None) \in Cases(s)
    BY DEF CasesOf, Cases
  <2>3. p.person # None => /\ CasesOf(p.person) \in Cases(s)
                           /\ CasesOf(Inflected(p.person, s)) \in Cases(s)
    BY OneCase DEF NameOrNone
  <2> QED
    BY <2>1, <2>2, <2>3
<1>4. ASSUME lines.line1.title = "entrepreneur", lines.line2 # None PROVE ~lines.line2.prefix
  <2>1. p.kind = "individual_entrepreneur"
    BY <1>1, <1>4 DEF RenderedLine1, RenderedPosition
  <2>2. PICK n \in Names : lines.line2 = WithoutPrefix(n)
    BY <1>4, <2>1 DEF Lines, NameOrNone
  <2> QED
    BY <2>2, GivenNames, NameOperations
<1> QED
  BY <1>2, <1>3, <1>4 DEF LinesOK

\* A party formatted from any sources.
LEMMA FormattedSound ==
  ASSUME NEW p, NEW s, p.company \in NameOrNone, p.person \in NameOrNone
  PROVE  PartyOK(Formatted(p, s), s)
<1>1. LinesOK(Lines(p, s), s)
  BY LinesSound
<1> QED
  BY <1>1 DEF PartyOK, Formatted, LegacyLine1

\* A party with rendered lines of its own.
Rendered(p, s) ==
  /\ PartyOK(p, s) /\ LinesOK(p.rendered, s)
  /\ \E a, b, c : p.rendered = [line1 |-> a, line2 |-> b, line3 |-> c]

\* Changing one of the lines.
LEMMA LineReplaced ==
  ASSUME NEW p, NEW s, Rendered(p, s), NEW name
  PROVE  /\ CasesOf(name) \in Cases(s) => Rendered([p EXCEPT !.rendered.line3 = name], s)
         /\ ~name.prefix => Rendered([p EXCEPT !.rendered.line2 = name], s)
<1>1. PICK a, b, c : p.rendered = [line1 |-> a, line2 |-> b, line3 |-> c]
  BY DEF Rendered
<1>2. /\ p.company \in NameOrNone /\ p.person \in NameOrNone
      /\ p.line1.case = TargetCase(s) /\ p.line2 \in NameOrNone
      /\ "rendered" \in DOMAIN p /\ LinesOK(p.rendered, s)
  BY DEF Rendered, PartyOK
<1>3. ASSUME CasesOf(name) \in Cases(s) PROVE Rendered([p EXCEPT !.rendered.line3 = name], s)
  <2> DEFINE q == [p EXCEPT !.rendered.line3 = name]
  <2>1. q.rendered = [line1 |-> a, line2 |-> b, line3 |-> name]
    BY <1>1, <1>2
  <2>2. /\ q.company = p.company /\ q.person = p.person /\ q.line1 = p.line1
        /\ q.line2 = p.line2 /\ DOMAIN q = DOMAIN p
    OBVIOUS
  <2> HIDE DEF q
  <2>3. LinesOK(q.rendered, s)
    BY <1>1, <1>2, <1>3, <2>1 DEF LinesOK
  <2>4. Rendered(q, s)
    BY <1>2, <2>1, <2>2, <2>3 DEF Rendered, PartyOK
  <2> QED
    BY <2>4 DEF q
<1>4. ASSUME ~name.prefix PROVE Rendered([p EXCEPT !.rendered.line2 = name], s)
  <2> DEFINE q == [p EXCEPT !.rendered.line2 = name]
  <2>1. q.rendered = [line1 |-> a, line2 |-> name, line3 |-> c]
    BY <1>1, <1>2
  <2>2. /\ q.company = p.company /\ q.person = p.person /\ q.line1 = p.line1
        /\ q.line2 = p.line2 /\ DOMAIN q = DOMAIN p
    OBVIOUS
  <2> HIDE DEF q
  <2>3. LinesOK(q.rendered, s)
    BY <1>1, <1>2, <1>4, <2>1 DEF LinesOK
  <2>4. Rendered(q, s)
    BY <1>2, <2>1, <2>2, <2>3 DEF Rendered, PartyOK
  <2> QED
    BY <2>4 DEF q
<1> QED
  BY <1>3, <1>4

\* The name service's answers are put in as a whole.
LEMMA ServiceSound ==
  ASSUME NEW p, NEW s, Rendered(p, s), NEW accepted \in BOOLEAN
  PROVE  Rendered(AiLegal(p, s, accepted), s) /\ Rendered(AiEntrepreneur(p, s, accepted), s)
<1>1. p.company \in NameOrNone /\ p.person \in NameOrNone
  BY DEF Rendered, PartyOK
<1>2. Rendered(AiLegal(p, s, accepted), s)
  <2>1. CASE p.kind # "legal_entity" \/ p.person = None
    <3>1. AiLegal(p, s, accepted) = p
      BY <2>1 DEF AiLegal
    <3> QED
      BY <3>1
  <2>2. CASE ~(p.kind # "legal_entity" \/ p.person = None)
    <3>1. p.person \in Names
      BY <1>1, <2>2 DEF NameOrNone
    <3>2. PICK strip \in BOOLEAN : strip = FALSE
      OBVIOUS
    <3> DEFINE x == DisplayFio(TransformedName(p.person, s, strip, accepted))
    <3>3. CasesOf(x) \in Cases(s)
      BY <3>1, OneCase
    <3>4. AiLegal(p, s, accepted) = [p EXCEPT !.rendered.line3 = x]
      BY <2>2, <3>2, Zenon DEF AiLegal
    <3> HIDE DEF x
    <3>5. Rendered([p EXCEPT !.rendered.line3 = x], s)
      BY <3>3, LineReplaced
    <3> QED
      BY <3>4, <3>5
  <2> QED
    BY <2>1, <2>2
<1>3. Rendered(AiEntrepreneur(p, s, accepted), s)
  <2> DEFINE n == IF p.person # None THEN p.person ELSE p.company
  <2>1. CASE p.kind # "individual_entrepreneur" \/ n = None
    <3>1. AiEntrepreneur(p, s, accepted) = p
      BY <2>1 DEF AiEntrepreneur
    <3> QED
      BY <3>1
  <2>2. CASE ~(p.kind # "individual_entrepreneur" \/ n = None)
    <3>1. n \in Names
      BY <1>1, <2>2 DEF NameOrNone
    <3>4. AiEntrepreneur(p, s, accepted)
            = [p EXCEPT !.rendered.line2 =
                 DisplayFio(TransformedName(n, s, TRUE, accepted))]
      BY <2>2, Zenon DEF AiEntrepreneur
    <3> HIDE DEF n
    <3>2. PICK strip \in BOOLEAN : strip = TRUE
      OBVIOUS
    <3> DEFINE x == DisplayFio(TransformedName(n, s, strip, accepted))
    <3>3. ~x.prefix
      BY <3>1, <3>2, OneCase
    <3>5. AiEntrepreneur(p, s, accepted) = [p EXCEPT !.rendered.line2 = x]
      BY <3>2, <3>4, Zenon
    <3> HIDE DEF x
    <3>6. Rendered([p EXCEPT !.rendered.line2 = x], s)
      BY <3>3, LineReplaced
    <3> QED
      BY <3>5, <3>6
  <2> QED
    BY <2>1, <2>2
<1> QED
  BY <1>2, <1>3

\* The first place of a record that holds something.
LEMMA FirstFoundSound ==
  ASSUME NEW V, NEW record, NEW places \in Seq(DOMAIN record),
         \A p \in DOMAIN record : record[p] # None /\ (\E i \in DOMAIN places : places[i] = p)
                                    => record[p] \in V
  PROVE  FirstFound(record, places) \in V \cup {None}
<1> DEFINE P == {places[i] : i \in DOMAIN places}
           gone == {p \in DOMAIN record : record[p] = None}
           found == Without(places, gone)
<1>1. places \in Seq(P)
  <2>1. Len(places) \in Nat /\ DOMAIN places = 1..Len(places)
    OBVIOUS
  <2>2. places \in [1..Len(places) -> P]
    OBVIOUS
  <2> HIDE DEF P
  <2> QED
    BY <2>1, <2>2
<1>2. P \subseteq DOMAIN record
  OBVIOUS
<1> HIDE DEF P
<1>3. found \in Seq(P \ gone)
  BY <1>1, WithoutTwice
<1>4. \A p \in P \ gone : record[p] \in V
  BY <1>2 DEF P
<1>5. FirstFound(record, places) = IF found = <<>> THEN None ELSE record[Head(found)]
  BY DEF FirstFound
<1> HIDE DEF gone, found
<1>6. found # <<>> => Head(found) \in P \ gone
  BY <1>3
<1> QED
  BY <1>4, <1>5, <1>6

\* Names that the registry gives come from Names.
LEMMA RegistryNames ==
  ASSUME NEW inn, NEW type, NEW company \in NameOrNone, NEW place,
         NEW person \in NameOrNone, NEW position
  PROVE  LET r == ParsedRecord(SomeRecord(type, company, place, person, position), inn)
         IN  r.company \in NameOrNone /\ r.person \in NameOrNone
<1> DEFINE record == SomeRecord(type, company, place, person, position)
           r == ParsedRecord(record, inn)
<1>1. /\ CompanyPlaces \in Seq(DOMAIN record)
      /\ PersonPlaces \in Seq(DOMAIN record)
  BY DEF SomeRecord, CompanyPlaces, PersonPlaces
<1>2. \A p \in DOMAIN record : (\E i \in DOMAIN CompanyPlaces : CompanyPlaces[i] = p)
          => record[p] \in {company, None}
  BY DEF SomeRecord, CompanyPlaces
<1>3. \A p \in DOMAIN record : (\E i \in DOMAIN PersonPlaces : PersonPlaces[i] = p)
          => record[p] \in {person, None}
  BY DEF SomeRecord, PersonPlaces
<1>4. r.company = FirstFound(record, CompanyPlaces) /\ r.person = FirstFound(record, PersonPlaces)
  BY DEF ParsedRecord, RegistryCompany, RegistryPerson
<1> HIDE DEF record
<1>5. FirstFound(record, CompanyPlaces) \in Names \cup {None}
  <2>1. \A p \in DOMAIN record :
          record[p] # None /\ (\E i \in DOMAIN CompanyPlaces : CompanyPlaces[i] = p)
            => record[p] \in Names
    BY <1>2 DEF NameOrNone
  <2> QED
    BY <1>1, <2>1, FirstFoundSound
<1>6. FirstFound(record, PersonPlaces) \in Names \cup {None}
  <2>1. \A p \in DOMAIN record :
          record[p] # None /\ (\E i \in DOMAIN PersonPlaces : PersonPlaces[i] = p)
            => record[p] \in Names
    BY <1>3 DEF NameOrNone
  <2> QED
    BY <1>1, <2>1, FirstFoundSound
<1>7. r.company \in NameOrNone /\ r.person \in NameOrNone
  BY <1>4, <1>5, <1>6 DEF NameOrNone
<1> QED
  BY <1>7 DEF record

\* What a rebuild stores is rendered, in lines that agree.
LEMMA RebuiltSound ==
  ASSUME NEW p, NEW s, NEW registry, NEW fio,
         p.company \in NameOrNone, p.person \in NameOrNone,
         registry # None => registry.company \in NameOrNone /\ registry.person \in NameOrNone
  PROVE  PartyOK(Rebuilt(p, s, registry, fio), s)
<1> DEFINE q == IF registry = None THEN p ELSE Merged(p, registry)
           formatted == Formatted(q, s)
           accepted == fio = "accepted"
<1>1. q.company \in NameOrNone /\ q.person \in NameOrNone
  BY DEF Merged
<1> HIDE DEF q
<1>2. PartyOK(formatted, s) /\ LinesOK(formatted.rendered, s)
  BY <1>1, FormattedSound, LinesSound DEF Formatted
<1>3. \E a, b, c : formatted.rendered = [line1 |-> a, line2 |-> b, line3 |-> c]
  <2>1. formatted.rendered = Lines(q, s)
    BY DEF Formatted
  <2>2. \E a, b, c : Lines(q, s) = [line1 |-> a, line2 |-> b, line3 |-> c]
    BY Zenon DEF Lines
  <2> QED
    BY <2>1, <2>2
<1> HIDE DEF formatted
<1>4. Rendered(formatted, s)
  BY <1>2, <1>3 DEF Rendered
<1>5. PICK yes \in BOOLEAN : yes = accepted
  OBVIOUS
<1>6. Rendered(AiLegal(formatted, s, yes), s)
  BY <1>4, ServiceSound
<1>7. Rendered(AiEntrepreneur(AiLegal(formatted, s, yes), s, yes), s)
  BY <1>6, ServiceSound
<1>8. Rebuilt(p, s, registry, fio) \in
        {formatted, AiEntrepreneur(AiLegal(formatted, s, accepted), s, accepted)}
  BY Zenon DEF Rebuilt, formatted, q
<1> HIDE DEF accepted
<1>9. Rendered(Rebuilt(p, s, registry, fio), s)
  BY <1>4, <1>5, <1>7, <1>8
<1> QED
  BY <1>9 DEF Rendered

\* What is answered for a stored party has lines that agree.
LEMMA ServedSound ==
  ASSUME NEW p, NEW fallback, NEW s, PartyOK(p, s), fallback.company \in NameOrNone,
         fallback.person \in NameOrNone
  PROVE  LinesOK(ServedParty(p, fallback, s).rendered, s)
<1> DEFINE built == LinesFromSources(p, fallback, s)
           plain == [line1 |-> p.line1, line2 |-> None, line3 |-> p.line2]
           lines == IF p.rendered # None THEN p.rendered ELSE IF built # None THEN built ELSE plain
<1>1. built # None => LinesOK(built, s)
  <2> DEFINE e == [kind |-> Effective(p.kind, fallback.kind, "unknown"),
                   company |-> Effective(p.company, fallback.company, None),
                   position |-> Effective(p.position, fallback.position, None),
                   person |-> Effective(p.person, fallback.person, None)]
  <2>1. e.company \in NameOrNone /\ e.person \in NameOrNone
    BY DEF Effective, PartyOK
  <2>2. built \in {None, Lines(e, s)}
    BY Zenon DEF LinesFromSources
  <2> HIDE DEF e, built
  <2> QED
    BY <2>1, <2>2, LinesSound
<1>2. LinesOK(plain, s)
  <2>1. CasesOf(p.line2) \in Cases(s)
    <3>1. CASE p.line2 = None
      BY <3>1 DEF CasesOf, Cases
    <3>2. CASE p.line2 # None
      <4>1. p.line2 \in Names
        BY <3>2 DEF PartyOK, NameOrNone
      <4> QED
        BY <4>1, OneCase
    <3> QED
      BY <3>1, <3>2
  <2> QED
    BY <2>1 DEF LinesOK, PartyOK
<1>3. LinesOK(lines, s)
  <2> HIDE DEF built, plain
  <2> QED
    BY <1>1, <1>2 DEF PartyOK
<1>4. ServedParty(p, fallback, s) = [p EXCEPT !.rendered = lines]
  BY Zenon DEF ServedParty
<1> HIDE DEF lines
<1>5. ServedParty(p, fallback, s).rendered = lines
  BY <1>4 DEF PartyOK
<1> QED
  BY <1>3, <1>5

(* The inductive invariant: every stored party, and every party served, is in order. *)
PartyInv ==
  /\ source.company \in NameOrNone
  /\ storedParty # None => PartyOK(storedParty, side)
  /\ served # None => LinesOK(served.rendered, side)

\* Initially nothing is stored or served.
LEMMA PartyStart == PartyInit => PartyInv
<1> SUFFICES ASSUME PartyInit PROVE PartyInv
  OBVIOUS
<1>1. PICK inn \in {None, 10, 12} : \E company \in {None} \cup Names :
         source = [inn |-> inn, company |-> company]
  BY DEF PartyInit
<1>2. source.company \in NameOrNone
  BY <1>1 DEF NameOrNone
<1> QED
  BY <1>2 DEF PartyInit, PartyInv

\* Every step keeps PartyInv.
LEMMA PartyStep == PartyInv /\ [PartyNext]_partyVars => PartyInv'
<1> SUFFICES ASSUME PartyInv, [PartyNext]_partyVars PROVE PartyInv'
  OBVIOUS
<1> USE DEF PartyInv
<1>0. \A inn, company : company \in NameOrNone =>
        /\ PartyOfData(inn, company).company \in NameOrNone
        /\ PartyOfData(inn, company).person \in NameOrNone
  BY DEF PartyOfData, NameOrNone
<1>1. CASE RebuildParty
  <2>1. PICK fio \in {"off", "accepted", "failed"} :
          LET own == PartyOfData(source.inn, source.company)
          IN  \/ storedParty' = Rebuilt(own, side, None, fio)
              \/ /\ source.inn # None
                 /\ \E type \in {None, "ip", "legal"}, place \in {"manager_fio", "individual_name"},
                       person \in {None} \cup Names, position \in Positions :
                      storedParty' = Rebuilt(own, side,
                        ParsedRecord(SomeRecord(type, source.company, place, person, position),
                                     source.inn), fio)
    BY <1>1, Zenon DEF RebuildParty
  <2> DEFINE own == PartyOfData(source.inn, source.company)
  <2>2. own.company \in NameOrNone /\ own.person \in NameOrNone
    BY <1>0
  <2>3. CASE storedParty' = Rebuilt(own, side, None, fio)
    <3> HIDE DEF own
    <3>1. PartyOK(Rebuilt(own, side, None, fio), side)
      BY <2>2, RebuiltSound
    <3> QED
      BY <1>1, <2>3, <3>1 DEF RebuildParty
  <2>4. CASE \E type \in {None, "ip", "legal"}, place \in {"manager_fio", "individual_name"},
                person \in {None} \cup Names, position \in Positions :
               storedParty' = Rebuilt(own, side,
                 ParsedRecord(SomeRecord(type, source.company, place, person, position),
                              source.inn), fio)
    <3>1. PICK type \in {None, "ip", "legal"}, place \in {"manager_fio", "individual_name"},
               person \in {None} \cup Names, position \in Positions :
               storedParty' = Rebuilt(own, side,
                 ParsedRecord(SomeRecord(type, source.company, place, person, position),
                              source.inn), fio)
      BY <2>4
    <3> DEFINE r == ParsedRecord(SomeRecord(type, source.company, place, person, position),
                                 source.inn)
    <3>2. r.company \in NameOrNone /\ r.person \in NameOrNone
      BY RegistryNames DEF NameOrNone
    <3> HIDE DEF own, r
    <3>3. PartyOK(Rebuilt(own, side, r, fio), side)
      BY <2>2, <3>2, RebuiltSound
    <3>4. storedParty' = Rebuilt(own, side, r, fio)
      BY <3>1, Zenon DEF r
    <3> QED
      BY <1>1, <3>3, <3>4 DEF RebuildParty
  <2> QED
    BY <2>1, <2>3, <2>4
<1>2. CASE StoreLegacyParty
  <2>1. PICK p \in {PartyOfData(source.inn, source.company), PartyOfData(None, None)} :
          storedParty' = [Formatted(p, side) EXCEPT !.rendered = None]
    BY <1>2 DEF StoreLegacyParty
  <2>2. p.company \in NameOrNone /\ p.person \in NameOrNone
    <3>1. None \in NameOrNone
      BY DEF NameOrNone
    <3> QED
      BY <1>0, <2>1, <3>1
  <2>3. PartyOK(Formatted(p, side), side)
    BY <2>2, FormattedSound
  <2>4. PartyOK([Formatted(p, side) EXCEPT !.rendered = None], side)
    BY <2>3 DEF PartyOK, Formatted
  <2> QED
    BY <1>2, <2>1, <2>4 DEF StoreLegacyParty
<1>3. CASE ServeParty
  <2>1. PICK data \in {source, [inn |-> None, company |-> None]} :
          served' = ServedParty(storedParty, PartyOfData(data.inn, data.company), side)
    BY <1>3 DEF ServeParty
  <2>2. data.company \in NameOrNone
    BY <2>1 DEF NameOrNone
  <2> DEFINE fallback == PartyOfData(data.inn, data.company)
  <2>3. fallback.company \in NameOrNone /\ fallback.person \in NameOrNone
    BY <1>0, <2>2
  <2> HIDE DEF fallback
  <2>4. PartyOK(storedParty, side)
    BY <1>3 DEF ServeParty
  <2>5. LinesOK(ServedParty(storedParty, fallback, side).rendered, side)
    BY <2>3, <2>4, ServedSound
  <2> QED
    BY <1>3, <2>1, <2>5 DEF ServeParty, fallback
<1>4. CASE UNCHANGED partyVars
  BY <1>4 DEF partyVars
<1> QED
  BY <1>1, <1>2, <1>3, <1>4 DEF PartyNext

\* The lines served agree with each other, for every name a source may give.
THEOREM LinesAgreeAlways == PartySpec => []LinesAgree
<1>1. PartyInv => LinesAgree
  BY DEF PartyInv, LinesOK, LinesAgree, Cases
<1> QED
  BY <1>1, PartyStart, PartyStep, PTL DEF PartySpec

(* ----------------------------- cached answers ---------------------------- *)

CachedValues == {"party", "fio", None}

LookupTypeOK ==
  /\ service \in {"registry", "names"} /\ now \in Nat
  /\ entry # None => entry \in [until : Nat, value : CachedValues, got : Nat]
  /\ call \in [Callers -> [at : {"idle", "asking"}, path : 1..2, attempt : 0..RetryCount]]

\* An entry expires one lifetime of its answer after it was got.
EntryDated == entry # None => entry.until = entry.got + Lifetime(entry.value)

LookupInv == LookupTypeOK /\ EntryDated /\ CachedAnswersFresh

\* No answer and no entry at first.
LEMMA LookupStart == LookupInit => LookupInv
BY LookupConstants DEF LookupInit, LookupInv, LookupTypeOK, EntryDated, CachedAnswersFresh, Quiet

\* Whatever call concludes, it dates its entry itself; an entry is served before it expires.
LEMMA LookupStep == LookupInv /\ [LookupNext]_lookupVars => LookupInv'
<1> SUFFICES ASSUME LookupInv, [LookupNext]_lookupVars PROVE LookupInv'
  OBVIOUS
<1> USE LookupConstants DEF LookupInv, LookupTypeOK, CachedValues, EntryDated
<1>1. ASSUME NEW c \in Callers, NEW value \in {"party", "fio", None}, Conclude(c, value),
             UNCHANGED <<service, now>>
      PROVE  LookupInv'
  BY <1>1 DEF Conclude, Lifetime, Quiet, CachedAnswersFresh
<1>2. ASSUME NEW c \in Callers, Lookup(c) PROVE LookupInv'
  <2>1. CASE Usable(entry)
    BY <1>2, <2>1 DEF Lookup, Usable, CacheHit, Lifetime, CachedAnswersFresh
  <2>2. CASE ~Usable(entry)
    BY <1>2, <2>2 DEF Lookup, Asking, Lifetime, CachedAnswersFresh
  <2> QED
    BY <2>1, <2>2
<1>3. ASSUME NEW c \in Callers, RegistryAnswers(c) PROVE LookupInv'
  <2>1. CASE \E value \in {"party", None} : Conclude(c, value)
    BY <1>1, <1>3, <2>1 DEF RegistryAnswers
  <2>2. CASE UNCHANGED <<entry, answer>>
    BY <1>3, <2>2 DEF RegistryAnswers, Quiet, Conclude, Lifetime, CachedAnswersFresh
  <2> QED
    BY <1>3, <2>1, <2>2 DEF RegistryAnswers
<1>4. ASSUME NEW c \in Callers, NamesAnswer(c) PROVE LookupInv'
  BY <1>1, <1>4 DEF NamesAnswer
<1>5. CASE ClockTicks
  BY <1>5 DEF ClockTicks, Lifetime, CachedAnswersFresh
<1>6. CASE UNCHANGED lookupVars
  BY <1>6 DEF lookupVars, Lifetime, CachedAnswersFresh
<1> QED
  BY <1>2, <1>3, <1>4, <1>5, <1>6 DEF LookupNext

\* An answer from the cache, of the registry or of the service that inflects names, is
\* younger than its lifetime, however calls for the key overlapped; the registry's
\* "nothing" is never served from the cache.
THEOREM CachedAnswersFreshAlways == LookupSpec => []CachedAnswersFresh
<1>1. LookupInv => CachedAnswersFresh
  BY DEF LookupInv
<1> QED
  BY <1>1, LookupStart, LookupStep, PTL DEF LookupSpec
==============================================================================

----------------------------- MODULE PartyHeader -----------------------------
(***************************************************************************)
(* One side of the preview header of a claim: the party named by the       *)
(* claim's data is completed from the company registry (DataNewton), put   *)
(* into display lines with the director's name in the case its side calls  *)
(* for, corrected by the name service when that is enabled, stored, and    *)
(* completed once more when it is read.                                    *)
(*                                                                         *)
(* A name is a sequence of words; a word is what the code asks about it,   *)
(* its letters, its case of print and its ending, with the grammatical     *)
(* case it was put in.                                                     *)
(***************************************************************************)
EXTENDS Integers, Sequences, Filtered, Absent

CONSTANT Names   \* the names that sources may give

ASSUME NamesAsGiven ==
  Names \subseteq [prefix : BOOLEAN,
                   words : Seq([letters : STRING, caps : BOOLEAN, ending : STRING, case : {"given"}])]

VARIABLES side,      \* "from" (the creditor) or "to" (the debtor)
          source,    \* the party as the claim's data names it
          storedParty,  \* the stored party, or None
          served     \* the party last answered to the client, or None

partyVars == <<side, source, storedParty, served>>

Kinds == {"legal_entity", "individual_entrepreneur", "unknown"}

(* ----------------------- names and their inflection ---------------------- *)
TargetCase(s) == IF s = "from" THEN "genitive" ELSE "dative"

Upright(name) == [name EXCEPT !.words = [i \in DOMAIN @ |-> [@[i] EXCEPT !.caps = FALSE]]]
InCase(name, c) == [name EXCEPT !.words = [i \in DOMAIN @ |-> [@[i] EXCEPT !.case = c]]]
WithoutPrefix(name) == [name EXCEPT !.prefix = FALSE]

AllCaps(name) == \A i \in DOMAIN name.words : name.words[i].caps
AllCyrillic(name) == \A i \in DOMAIN name.words : name.words[i].letters = "cyrillic"

\* An IP prefix in front of the words counts as words of the name.
ThreeWords(name) == Len(name.words) = 3 /\ ~name.prefix

GenderOf(name) ==
  CASE name.words[3].ending = "ich" -> "male" [] name.words[3].ending = "na" -> "female"
    [] OTHER -> "unknown"

\* Three Cyrillic words, the third a patronymic that tells the gender.
ConfidentParse(name) == ThreeWords(name) /\ AllCyrillic(name) /\ GenderOf(name) # "unknown"

\* build_inflection_decision
CanInflect(name) == ConfidentParse(name) /\ ~AllCaps(name)

\* normalize_person_name_for_display: only a confident name loses its capitals.
DisplayCasing(name) == IF ConfidentParse(name) /\ AllCaps(name) THEN Upright(name) ELSE name

SurnameEndings(gender) ==
  IF gender = "male" THEN {"ov", "skiy", "oy", "consonant", "listed"}
                     ELSE {"ova", "skaya", "aya", "yaya", "listed"}

FirstNameEndings(gender) ==
  IF gender = "male" THEN {"y", "soft", "consonant"} ELSE {"iya", "ya", "a"}

\* Mutant: what can be inflected is, the rest of the name stays.
InflectedByWord(name, s) ==
  LET shown == DisplayCasing(name)
      ok(i) == CASE i = 1 -> shown.words[1].ending \in SurnameEndings(GenderOf(shown))
                 [] i = 2 -> shown.words[2].ending \in FirstNameEndings(GenderOf(shown))
                 [] OTHER -> TRUE
  IN  IF ~CanInflect(shown) THEN shown
      ELSE [shown EXCEPT !.words =
              [i \in 1..3 |-> IF ok(i) THEN [@[i] EXCEPT !.case = TargetCase(s)] ELSE @[i]]]

\* inflect_person_name_for_display: all three words, or none.
Inflected(name, s) ==
  LET shown == DisplayCasing(name)
      supported == /\ shown.words[1].ending \in SurnameEndings(GenderOf(shown))
                   /\ shown.words[2].ending \in FirstNameEndings(GenderOf(shown))
  IN  IF CanInflect(shown) /\ supported THEN InCase(shown, TargetCase(s)) ELSE shown

(* ---------------------------- display lines ------------------------------ *)
KindOfInn(inn) ==
  CASE inn = 12 -> "individual_entrepreneur" [] inn = 10 -> "legal_entity" [] OTHER -> "unknown"

\* The position as the legacy line reads it (a pattern found anywhere) and as the
\* rendered line does (equal to a known title).
Positions == {None, "general_director", "director", "president", "deputy director"}
LegacyPosition(p) ==
  CASE p \in {"general_director", "director"} -> p
    [] p = "deputy director" -> "director" [] OTHER -> "head"
RenderedPosition(p) == IF p \in {"general_director", "director", "president"} THEN p ELSE "head"

LegacyLine1(p, s) ==
  [case |-> TargetCase(s),
   title |-> IF p.kind = "individual_entrepreneur" THEN "entrepreneur" ELSE LegacyPosition(p.position)]

RenderedLine1(p, s) ==
  [case |-> TargetCase(s),
   title |-> IF p.kind = "individual_entrepreneur" THEN "entrepreneur" ELSE RenderedPosition(p.position)]

Lines(p, s) ==
  [line1 |-> RenderedLine1(p, s),
   line2 |-> IF p.kind # "individual_entrepreneur" THEN p.company
             ELSE LET n == IF p.person # None THEN p.person ELSE p.company
                  IN  IF n = None THEN None ELSE WithoutPrefix(n),
   line3 |-> CASE p.kind = "individual_entrepreneur" \/ p.person = None -> None
               [] p.kind = "legal_entity" /\ p.person # None -> Inflected(p.person, s)
               [] OTHER -> p.person]

\* build_preview_header_party
Formatted(p, s) ==
  [kind |-> p.kind, company |-> p.company, position |-> p.position, person |-> p.person,
   line1 |-> LegacyLine1(p, s), line2 |-> p.person, rendered |-> Lines(p, s)]

(* ----------------------- the registry's answer --------------------------- *)
FirstFound(record, places) ==
  LET found == Without(places, {p \in DOMAIN record : record[p] = None})
  IN  IF found = <<>> THEN None ELSE record[Head(found)]

\* The record of a registry answer, each text at the places it may stand in.
CompanyPlaces == <<"company_short", "company_full", "top_name", "block_name", "any_name">>
PersonPlaces == <<"manager_fio", "manager_name", "individual_name", "top_manager">>
PositionPlaces == <<"manager_position", "manager_title", "top_position">>

RegistryCompany(record) == FirstFound(record, CompanyPlaces)
RegistryPerson(record) == FirstFound(record, PersonPlaces)
RegistryPosition(record) == FirstFound(record, PositionPlaces)

\* An individual's block or type, an organisation's type, else the INN's length.
RegistryKind(record, inn) ==
  IF record.individual \/ record.type = "ip" THEN "individual_entrepreneur"
  ELSE IF record.type = "legal" THEN "legal_entity" ELSE KindOfInn(inn)

ParsedRecord(record, inn) ==
  [kind |-> RegistryKind(record, inn), company |-> RegistryCompany(record),
   position |-> RegistryPosition(record), person |-> RegistryPerson(record)]

\* What the registry knows replaces the claim's own words, the rest stays.
Merged(base, incoming) ==
  [kind |-> incoming.kind,
   company |-> IF incoming.company # None THEN incoming.company ELSE base.company,
   position |-> IF incoming.position # None THEN incoming.position ELSE base.position,
   person |-> IF incoming.person # None THEN incoming.person ELSE base.person]

PartyOfData(inn, company) ==
  [kind |-> KindOfInn(inn), company |-> company, position |-> None, person |-> None]

(* --------------------------- the name service ---------------------------- *)
\* Two or more Cyrillic words in capitals are printed upright.
DisplayFio(name) ==
  IF name # None /\ AllCaps(name) /\ AllCyrillic(name) /\ Len(name.words) > 1
  THEN Upright(name) ELSE name

\* An accepted answer has as many words as the name it was asked for; any failure
\* leaves that name, its prefix taken off for an entrepreneur, as it was given.
TransformedName(name, s, strip, accepted) ==
  LET asked == IF strip THEN WithoutPrefix(name) ELSE name
  IN  IF accepted THEN InCase(asked, TargetCase(s)) ELSE asked

AiLegal(p, s, accepted) ==
  IF p.kind # "legal_entity" \/ p.person = None THEN p
  ELSE [p EXCEPT !.rendered.line3 =
          DisplayFio(TransformedName(p.person, s, FALSE, accepted))]

AiEntrepreneur(p, s, accepted) ==
  LET n == IF p.person # None THEN p.person ELSE p.company
  IN  IF p.kind # "individual_entrepreneur" \/ n = None THEN p
      ELSE [p EXCEPT !.rendered.line2 =
              DisplayFio(TransformedName(n, s, TRUE, accepted))]

\* rebuild_claim_preview_header, for one side; registry is None when it is disabled,
\* failed or knows nothing; fio is "off" when the name service is not enabled.
Rebuilt(p, s, registry, fio) ==
  LET formatted == Formatted(IF registry = None THEN p ELSE Merged(p, registry), s)
      accepted == fio = "accepted"
  IN  IF fio = "off" THEN formatted
      ELSE AiEntrepreneur(AiLegal(formatted, s, accepted), s, accepted)

(* ------------------------------- reading --------------------------------- *)
Effective(x, y, unset) == IF x # unset THEN x ELSE y

\* Lines for a stored party that has none: its own fields first, then the data's.
LinesFromSources(p, fallback, s) ==
  LET e == [kind |-> Effective(p.kind, fallback.kind, "unknown"),
            company |-> Effective(p.company, fallback.company, None),
            position |-> Effective(p.position, fallback.position, None),
            person |-> Effective(p.person, fallback.person, None)]
  IN  IF e.kind = "unknown" /\ e.company = None /\ e.position = None /\ e.person = None
      THEN None ELSE Lines(e, s)

\* _normalize_preview_header_party: a response only, nothing is stored.
ServedParty(p, fallback, s) ==
  LET built == LinesFromSources(p, fallback, s)
  IN  [p EXCEPT !.rendered =
         IF p.rendered # None THEN p.rendered
         ELSE IF built # None THEN built
         ELSE [line1 |-> p.line1, line2 |-> None, line3 |-> p.line2]]

(* --------------------------------- steps --------------------------------- *)
SomeRecord(type, company, place, person, position) ==
  [individual |-> place = "individual_name", type |-> type,
   company_short |-> None, company_full |-> company, top_name |-> None, block_name |-> None,
   any_name |-> None,
   manager_fio |-> IF place = "manager_fio" THEN person ELSE None,
   manager_name |-> None,
   individual_name |-> IF place = "individual_name" THEN person ELSE None,
   top_manager |-> None,
   manager_position |-> None, manager_title |-> position, top_position |-> None]

PartyInit ==
  /\ side \in {"from", "to"}
  /\ \E inn \in {None, 10, 12} : \E company \in {None} \cup Names :
       source = [inn |-> inn, company |-> company]
  /\ storedParty = None /\ served = None

\* The header is rebuilt: by a patch that changes the party, or when there is none.
RebuildParty ==
  /\ storedParty = None
  /\ \E fio \in {"off", "accepted", "failed"} :
       LET own == PartyOfData(source.inn, source.company)
       IN  \/ storedParty' = Rebuilt(own, side, None, fio)
           \/ /\ source.inn # None
              /\ \E type \in {None, "ip", "legal"}, place \in {"manager_fio", "individual_name"},
                    person \in {None} \cup Names, position \in Positions :
                   storedParty' = Rebuilt(own, side,
                     ParsedRecord(SomeRecord(type, source.company, place, person, position),
                                  source.inn), fio)
  /\ UNCHANGED <<side, source, served>>

\* A header stored by an earlier release has no rendered lines.
StoreLegacyParty ==
  /\ storedParty = None
  /\ \E p \in {PartyOfData(source.inn, source.company), PartyOfData(None, None)} :
       storedParty' = [Formatted(p, side) EXCEPT !.rendered = None]
  /\ UNCHANGED <<side, source, served>>

\* GET claim or preview, perhaps after the data lost or changed its party.
ServeParty ==
  /\ storedParty # None /\ served = None
  /\ \E data \in {source, [inn |-> None, company |-> None]} :
       served' = ServedParty(storedParty, PartyOfData(data.inn, data.company), side)
  /\ UNCHANGED <<side, source, storedParty>>

PartyNext == RebuildParty \/ StoreLegacyParty \/ ServeParty

PartySpec == PartyInit /\ [][PartyNext]_partyVars

(* ------------------------------ properties ------------------------------- *)
CasesOf(name) == IF name = None THEN {} ELSE {name.words[i].case : i \in DOMAIN name.words}

\* The served lines agree with each other: the title stands in the case of its side, a
\* name is wholly in that case or wholly as it was given, and an entrepreneur's name does
\* not repeat the prefix the title already states.
LinesAgree ==
  served # None =>
    LET lines == served.rendered
    IN  /\ lines.line1.case = TargetCase(side)
        /\ CasesOf(lines.line3) \in {{}, {"given"}, {TargetCase(side)}}
        /\ lines.line1.title = "entrepreneur" /\ lines.line2 # None => ~lines.line2.prefix

\* README, "Rendered line3 policy": an ALL CAPS name of a legal entity's head that can be
\* inflected is printed upright and inflected.
CapitalsAreInflected ==
  storedParty # None /\ storedParty.kind = "legal_entity" /\ storedParty.person # None
    /\ storedParty.rendered # None
    /\ AllCaps(storedParty.person) /\ CasesOf(Inflected(storedParty.person, side)) = {TargetCase(side)}
    => CasesOf(storedParty.rendered.line3) = {TargetCase(side)}
==============================================================================

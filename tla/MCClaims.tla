------------------------------ MODULE MCClaims ------------------------------
(* The claim service.  Its row, its files, the path of its data to a text,   *)
(* one side of its header and the services asked for it share no state: a    *)
(* behaviour of this module is a behaviour of one of them, the others        *)
(* standing still, so that one run checks them all and their states add up   *)
(* instead of multiplying.                                                   *)
EXTENDS ClaimLifecycle, ClaimFiles, ClaimPreview, PartyHeader, PartyLookup, TLC

CONSTANTS r1, r2

VARIABLE part  \* the component that moves

SomeDatas == {[full |-> TRUE, risk |-> FALSE, party |-> "a"],
              [full |-> TRUE, risk |-> TRUE, party |-> "b"],
              [full |-> FALSE, risk |-> FALSE, party |-> "a"]}

\* Rows reached by the operations one after the other.
ReadyRow == [NewRow EXCEPT !.gen = "ready", !.email = TRUE, !.header = "a", !.text = TRUE,
                           !.data = [full |-> TRUE, risk |-> FALSE, party |-> "a"]]
PaidRow == [ReadyRow EXCEPT !.status = "paid", !.paid_at = TRUE]
ReviewRow == [PaidRow EXCEPT !.status = "in_review", !.reviewed_at = TRUE, !.final = TRUE]
SomeRows == {NewRow, ReadyRow, PaidRow, ReviewRow}

\* Names: one that can be inflected, one whose surname cannot, both in capitals,
\* a mixed alphabet, two words, and one with an entrepreneur's prefix.
Word(letters, caps, ending) ==
  [letters |-> letters, caps |-> caps, ending |-> ending, case |-> "given"]
Plain(ending) == Word("cyrillic", FALSE, ending)
Capital(ending) == Word("cyrillic", TRUE, ending)
Name(words) == [prefix |-> FALSE, words |-> words]
SomeNames == {Name(<<Plain("ov"), Plain("consonant"), Plain("ich")>>),
              Name(<<Plain("ko"), Plain("consonant"), Plain("ich")>>),
              Name(<<Capital("ov"), Capital("y"), Capital("ich")>>),
              Name(<<Capital("ko"), Capital("a"), Capital("na")>>),
              Name(<<Word("latin", FALSE, "ov"), Plain("a"), Plain("na")>>),
              Name(<<Capital("ova"), Capital("a")>>),
              [prefix |-> TRUE, words |-> <<Plain("ova"), Plain("iya"), Plain("na")>>]}

SymmetricClaims == Permutations({r1, r2}) \cup Permutations(Files)

MCInit ==
  /\ part \in {"row", "files", "text", "party", "lookup"}
  /\ IF part = "row" THEN ClaimInit
     ELSE ClaimInit /\ row = NewRow
  /\ FilesInit /\ PreviewInit
  /\ IF part = "party" THEN PartyInit
     ELSE PartyInit /\ side = "from" /\ source = [inn |-> None, company |-> None]
  /\ IF part = "lookup" THEN LookupInit ELSE LookupInit /\ service = "names"

MCNext ==
  /\ part' = part
  /\ \/ part = "row" /\ ClaimNext
        /\ UNCHANGED <<fileVars, previewVars, partyVars, lookupVars>>
     \/ part = "files" /\ FilesNext
        /\ UNCHANGED <<claimVars, previewVars, partyVars, lookupVars>>
     \/ part = "text" /\ PreviewNext
        /\ UNCHANGED <<claimVars, fileVars, partyVars, lookupVars>>
     \/ part = "party" /\ PartyNext
        /\ UNCHANGED <<claimVars, fileVars, previewVars, lookupVars>>
     \/ part = "lookup" /\ LookupNext
        /\ UNCHANGED <<claimVars, fileVars, previewVars, partyVars>>
=============================================================================

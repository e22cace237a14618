--------------------------- MODULE MCCompanyCredits --------------------------
(* Small instances of CompanyCredits.                                       *)
EXTENDS CompanyCredits, TLC

CONSTANTS owner, member, other

(* One owner and members; everybody starts with one credit.                 *)
OneOwner == [u \in Users |-> IF u = owner THEN "owner" ELSE "member"]
OneEach == [u \in Users |-> 1]

MemberOnly == [u \in Users |-> IF u = member THEN 1 ELSE 0]

PlusMinusOne == {-1, 1}

SymmetricRequests == Permutations(Requests)

==============================================================================

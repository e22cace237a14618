-------------------------------- MODULE Absent --------------------------------
(* The one value that several modules share: SQL's NULL, JSON's null,        *)
(* Python's None.                                                            *)
CONSTANT None
=============================================================================

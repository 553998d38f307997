------------------------- MODULE MCNotionConnection -------------------------
(* Model checking of NotionConnection: requests and authorizations are      *)
(* interchangeable.                                                         *)
EXTENDS NotionConnection, TLC

Interchangeable == Permutations(Request) \cup Permutations(Grant)
=============================================================================

-------------------------- MODULE MCDbConnection --------------------------
(* Instances of DbConnection for TLC. *)
EXTENDS DbConnection

\* A page of two messages followed by its session; a row of another table; the
\* deletion of a group (two of its four transactions); a read flag.
PageLiveGroupFlags ==
    [page |-> <<2, 1>>, live |-> <<1>>, group |-> <<1, 1>>, flags |-> <<1>>]

\* A page against one read flag, which cannot be halved itself.
PageAndFlags == [page |-> <<2, 1>>, flags |-> <<1>>]
=============================================================================

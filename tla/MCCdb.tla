------------------------------- MODULE MCCdb -------------------------------
(***************************************************************************)
(* Instances of Cdb for TLC.                                               *)
(***************************************************************************)
EXTENDS Cdb

\* Two records for one key, of no length; one whose key has the same hash in a
\* cdb; one with a key that is compared in parts, and too long for an hdb.
Few == {Record(<<>>, <<>>), Record(<<>>, <<4>>), Record(<<32>>, <<4>>), Record(<<1, 2, 3>>, <<4, 4>>)}

Bound(a, f) == [adds |-> a, fails |-> f]
Many_or_failing == {Bound(3, 0), Bound(2, 1)}
=============================================================================

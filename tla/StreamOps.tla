------------------------------ MODULE StreamOps ------------------------------
(***************************************************************************)
(* The two ways every pattern of the repository walks a log of entries.     *)
(* An entry id is its position in the log (Redis stream ids and SQLite      *)
(* AUTOINCREMENT ids both grow strictly), a batch is the set of ids a read  *)
(* returned and the loop body has not finished yet, and "for ... in batch"  *)
(* takes the smallest id first.                                             *)
(***************************************************************************)
EXTENDS Integers, FiniteSets

(* ORDER BY id LIMIT n; the COUNT n of XREADGROUP and XAUTOCLAIM.           *)
FirstN(ids, n) == {i \in ids : Cardinality({j \in ids : j < i}) < n}

(* The last entry of a batch: where XREADGROUP leaves the group's cursor.    *)
Newest(ids) == CHOOSE i \in ids : \A j \in ids : j =< i

(* The entry the loop over a batch is working on.                           *)
Oldest(ids) == CHOOSE i \in ids : \A j \in ids : i =< j
=============================================================================

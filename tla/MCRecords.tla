------------------------------- MODULE MCRecords -------------------------------
(***************************************************************************)
(* Instances of Catalog and Notes, which share no state.  A behaviour is   *)
(* one of either of them, chosen at its start, while the other stays as it *)
(* is.  Values are shared, so that few permutations are enough: c1 to c3   *)
(* are collections there and records here.                                 *)
(***************************************************************************)
EXTENDS Catalog, Notes, TLC

CONSTANTS c1, c2, c3, r1, u, p, t1, x, y, n1, n2, n3

VARIABLE part

recordVars == <<part, vars, noteVars>>

\* Two topics, one below the other.
Nested == {<<x>>, <<x, y>>}
NoAdmin == {}

Symmetry == Permutations({c1, c2, c3}) \cup Permutations({n1, n2, n3})

RecordsInit == part \in {"catalog", "notes"} /\ Init /\ NotesInit

RecordsNext == /\ UNCHANGED part
               /\ \/ part = "catalog" /\ CleanNext /\ UNCHANGED noteVars
                  \/ part = "notes" /\ NotesCleanNext /\ UNCHANGED vars

RecordsSpec == RecordsInit /\ [][RecordsNext]_recordVars
=============================================================================

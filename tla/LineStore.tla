----------------------------- MODULE LineStore -----------------------------
(***************************************************************************)
(* What the ingest pipeline promises to the queries that count log rows    *)
(* (docs/api.md, "Content dedup"): the rows of one run appear together,    *)
(* when the run ends; a timestamped line has at most one row per scope     *)
(* however often and by however many runs it is read; rows only come from  *)
(* the streams of the run that ends, and never disappear.                  *)
(***************************************************************************)
EXTENDS Naturals

CONSTANTS
  Runs,     \* ingest runs
  Entries,  \* (scope, source_ref, line hash, timestamp) of the timestamped lines
  Offers    \* Offers[r]: the entries found in the streams of run r

VARIABLES
  count,    \* committed rows of each entry
  ended     \* runs that committed

Init == count = [e \in Entries |-> 0] /\ ended = {}

\* Run r commits all of the entries that are new, or a part of them.
End(r) ==
  /\ r \notin ended
  /\ ended' = ended \cup {r}
  /\ \E new \in SUBSET {e \in Offers[r] : count[e] = 0} :
       count' = [e \in Entries |-> IF e \in new THEN 1 ELSE count[e]]

Next == \E r \in Runs : End(r)

Spec == Init /\ [][Next]_<<count, ended>>
=============================================================================

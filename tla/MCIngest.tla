------------------------------ MODULE MCIngest ------------------------------
(***************************************************************************)
(* The instance of IngestPipeline that TLC checks.  Load1, of the worker,  *)
(* and Load2, a command line ingest of the files, read the same captures   *)
(* in opposite orders, so their inserts may wait for each other; Again     *)
(* resumes Load1; Other asks to resume it from another scope and finds no  *)
(* stream; Push is a push request whose one line fails to parse.           *)
(***************************************************************************)
EXTENDS IngestPipeline

T(k) == [class |-> "timed", key |-> k]
L(c) == [class |-> c, key |-> 0]

MCRuns == {"Load1", "Load2", "Again", "Other", "Push"}
MCStreams == {"a", "b", "p"}
MCStreamsOf ==
  [r \in MCRuns |-> CASE r = "Load2" -> <<"b", "a">> [] r = "Other" -> <<>>
                       [] r = "Push" -> <<"p">> [] OTHER -> <<"a", "b">>]
MCContent ==
  [s \in MCStreams |-> CASE s = "a" -> <<T(1), T(1)>> [] s = "b" -> <<T(1), L("untimed")>>
                           [] s = "p" -> <<L("bad")>>]
MCScopeOf == [r \in MCRuns |-> IF r = "Other" THEN "s2" ELSE "s1"]
MCPrior == [r \in MCRuns |-> IF r \in {"Again", "Other"} THEN "Load1" ELSE "none"]
=============================================================================

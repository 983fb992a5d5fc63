--------------------------- MODULE AdapterPaging ----------------------------
(***************************************************************************)
(* The read loops of the pull adapters (src/adapters/loki, datadog and     *)
(* cloudwatch): pages of a remote query over one window, the cursor left   *)
(* on the LogStreamRef, an API that fails after its retries, and a resume  *)
(* that starts from the saved cursor.                                      *)
(*                                                                         *)
(* The remote service is external: a fixed sequence of lines in time       *)
(* order, served in pages.  Lines are their positions.                     *)
(***************************************************************************)
EXTENDS Naturals, Sequences, FiniteSets

CONSTANTS
  Feeds,        \* the lines of the window: sequences of timestamps, in order
  EndNs,        \* the end of the window; it starts at 0
  PageLimit,    \* limit, page_size
  MaxRows,      \* datadog max_rows
  MaxResumes,   \* bound on resumed reads
  MaxHops,      \* bound on empty cloudwatch pages in a row
  NoCursor

ASSUME PagingConstants ==
  /\ EndNs \in Nat /\ PageLimit \in Nat \ {0} /\ MaxRows \in Nat \ {0}
  /\ MaxResumes \in Nat /\ MaxHops \in Nat
  /\ \A ts \in Feeds : /\ ts \in Seq(0 .. EndNs - 1)
                       /\ \A i, j \in DOMAIN ts : i < j => ts[i] <= ts[j]
  /\ NoCursor \notin [at : Nat, hop : Nat]

VARIABLES
  feed,     \* the adapter, the timestamps of the remote lines, and whether the
            \* service answers its last token with the same token again
  reading,  \* the read: pc, where the next page starts (at, hop), lines yielded, resumes
  cursor,   \* ref.cursor
  got       \* per line: how often it was yielded

pagingVars == <<feed, reading, cursor, got>>

Positions == 1 .. Len(feed.ts)
Yield(lines) == got' = [l \in Positions |-> got[l] + IF l \in lines THEN 1 ELSE 0]
Smaller(a, b) == IF a < b THEN a ELSE b

\* Where a page starts: a time for Loki, else the position of a line and the
\* number of empty pages the service has answered there.
Token(at, hop) == [at |-> at, hop |-> hop]
WindowStart == Token(IF feed.adapter = "loki" THEN 0 ELSE 1, 0)
-----------------------------------------------------------------------------
(* Loki: the cursor is the start of the next query.                        *)

\* External: query_range, direction "forward": the oldest lines of [from, end).
LokiPage(from) ==
  LET due == {l \in Positions : feed.ts[l] >= from /\ feed.ts[l] < EndNs}
  IN {l \in due : Cardinality({k \in due : k < l}) < PageLimit}

\* max_ts + 1, and max_ts is start_ns when the page is empty
next_start(from, page) ==
  1 + CHOOSE t \in {from} \cup {feed.ts[l] : l \in page} : \A l \in page : feed.ts[l] <= t

ReadLokiPage ==
  LET page == LokiPage(reading.at)
      next == next_start(reading.at, page)
  IN /\ feed.adapter = "loki" /\ reading.pc = "read" /\ reading.at < EndNs
     /\ Yield(page)
     /\ IF Cardinality(page) < PageLimit \/ next <= reading.at
        THEN cursor' = NoCursor /\ reading' = [reading EXCEPT !.pc = "ended"]
        ELSE cursor' = Token(next, 0) /\ reading' = [reading EXCEPT !.at = next]
     /\ UNCHANGED feed

\* The loop condition: the window is used up, whatever the cursor says.
LokiWindowEnds ==
  /\ feed.adapter = "loki" /\ reading.pc = "read" /\ reading.at >= EndNs
  /\ reading' = [reading EXCEPT !.pc = "ended"]
  /\ UNCHANGED <<feed, cursor, got>>
-----------------------------------------------------------------------------
(* Datadog: an opaque cursor, and at most max_rows lines per read.         *)

\* External: the next lines and the cursor after them, or none; the page that
\* reaches the end may still name one.
DatadogPage(from, size) == {l \in Positions : l >= from /\ l < from + size}

\* Mutant: the cursor is dropped when max_rows ends the read.
ForgetAtMaxRows(after, full, stays) == NoCursor

\* keep_cursor
datadog_cursor(after, full, stays) == IF full /\ after # NoCursor /\ ~stays THEN after ELSE NoCursor

ReadDatadogPage ==
  LET size == Smaller(PageLimit, MaxRows - reading.yielded)
      page == DatadogPage(reading.at, size)
      yielded == reading.yielded + Cardinality(page)
      full == yielded >= MaxRows
  IN /\ feed.adapter = "datadog" /\ reading.pc = "read"
     /\ Yield(page)
     /\ \E after \in (IF reading.at + size > Len(feed.ts) THEN {NoCursor, Token(Len(feed.ts) + 1, 0)}
                      ELSE {Token(reading.at + size, 0)}) :
          IF page = {}
          THEN cursor' = NoCursor /\ reading' = [reading EXCEPT !.pc = "ended"]
          ELSE IF after = NoCursor \/ after = Token(reading.at, 0) \/ full
          THEN /\ cursor' = datadog_cursor(after, full, after = Token(reading.at, 0))
               /\ reading' = [reading EXCEPT !.pc = "ended", !.yielded = yielded]
          ELSE cursor' = after /\ reading' = [reading EXCEPT !.at = after.at, !.yielded = yielded]
     /\ UNCHANGED feed
-----------------------------------------------------------------------------
(* CloudWatch: tokens; pages may be empty, and the last token repeats.     *)

\* Mutant: only a missing token ends the loop.
MissingTokenEnds(token) == token = NoCursor

\* No token, or the one that was just used.
last_token(token) == token \in {NoCursor, Token(reading.at, reading.hop)}

cloudwatch_cursor(token) == IF last_token(token) THEN NoCursor ELSE token

\* A page of any length, also an empty one before the end; past the last line
\* there is no token, or the last one again.
ReadCloudwatchPage ==
  /\ feed.adapter = "cloudwatch" /\ reading.pc = "read"
  /\ \E size \in 0 .. PageLimit :
       LET page == DatadogPage(reading.at, size)
           pos == reading.at + Cardinality(page)
           hop == IF page = {} THEN reading.hop + 1 ELSE 0
           token == IF pos <= Len(feed.ts) THEN Token(pos, hop)
                    ELSE IF ~feed.repeats THEN NoCursor
                    ELSE IF page = {} THEN Token(reading.at, reading.hop) ELSE Token(pos, 0)
       IN /\ page = {} /\ pos <= Len(feed.ts) => hop <= MaxHops
          /\ Yield(page)
          /\ cursor' = cloudwatch_cursor(token)
          /\ reading' = IF last_token(token) THEN [reading EXCEPT !.pc = "ended"]
                        ELSE [reading EXCEPT !.at = token.at, !.hop = token.hop]
  /\ UNCHANGED feed
-----------------------------------------------------------------------------
\* The request still fails after three attempts: AdapterUnavailableError, and
\* ref.cursor stays where the last complete page left it.
FetchFails ==
  /\ reading.pc = "read" /\ reading.resumes < MaxResumes
  /\ reading' = [reading EXCEPT !.pc = "failed"]
  /\ UNCHANGED <<feed, cursor, got>>

\* A resumed run reads from the saved cursor, or from the start of the window
\* when the first page had failed; a completed stream is not read again.
Resume ==
  /\ reading.resumes < MaxResumes
  /\ reading.pc = "failed" \/ (reading.pc = "ended" /\ cursor # NoCursor)
  /\ LET from == IF cursor = NoCursor THEN WindowStart ELSE cursor
     IN reading' = [pc |-> "read", yielded |-> 0, resumes |-> reading.resumes + 1,
                    at |-> from.at, hop |-> from.hop]
  /\ UNCHANGED <<feed, cursor, got>>

\* The first read of a stream, from the start of the window.
StartRead ==
  /\ reading.pc = "idle"
  /\ reading' = [reading EXCEPT !.pc = "read"]
  /\ UNCHANGED <<feed, cursor, got>>

PagingInit ==
  /\ feed \in [adapter : {"loki", "datadog", "cloudwatch"}, ts : Feeds, repeats : BOOLEAN]
  /\ reading = [pc |-> "idle", yielded |-> 0, resumes |-> 0,
                at |-> WindowStart.at, hop |-> WindowStart.hop]
  /\ cursor = NoCursor
  /\ got = [l \in Positions |-> 0]

ReadPage == ReadLokiPage \/ LokiWindowEnds \/ ReadDatadogPage \/ ReadCloudwatchPage

PagingNext == ReadPage \/ StartRead \/ FetchFails \/ Resume

PagingSpec == PagingInit /\ [][PagingNext]_pagingVars
-----------------------------------------------------------------------------
(* Properties.                                                             *)

\* A stream counted as completed (the read ended and the cursor is None) has
\* given every line of the window exactly once, over all the failures and
\* resumes on the way.  The exception is Loki's: lines of the very nanosecond
\* at which a full page ends may be left out.
CompletedIsComplete ==
  reading.pc = "ended" /\ cursor = NoCursor =>
    \A l \in Positions :
      \/ got[l] = 1
      \/ /\ got[l] = 0 /\ feed.adapter = "loki"
         /\ \E k \in Positions : k < l /\ got[k] = 1 /\ feed.ts[k] = feed.ts[l]

\* No read yields a line again that an earlier one gave, and none is skipped
\* by a cursor: what lies before the cursor of a token adapter has been given.
CursorIsHonest ==
  /\ \A l \in Positions : got[l] <= 1
  /\ feed.adapter # "loki" /\ cursor # NoCursor =>
       \A l \in Positions : l < cursor.at => got[l] = 1

\* A read that ends by itself leaves a cursor only when there is more to read,
\* but for Loki when a full page ends at the last nanosecond of the window: that
\* stream is never counted as completed, and its cursor never moves again.
OpenCursorMeansMore ==
  reading.pc = "ended" /\ cursor # NoCursor =>
    \/ \E l \in Positions : got[l] = 0
    \/ feed.adapter = "loki" /\ cursor.at >= EndNs
    \/ feed.adapter = "datadog" /\ cursor.at = Len(feed.ts) + 1

\* Paging advances: every read ends or fails, also when the service repeats the
\* last token for ever.
PagingEnds == reading.pc = "read" ~> reading.pc # "read"

\* Pages, failures and resumes add up to the window: the cursor left behind never
\* covers a line that was not given, a stream that counts as completed gave each
\* line once, and one that does not has more to give, but for Loki's two seams.
PagesMakeTheWindow == CursorIsHonest /\ CompletedIsComplete /\ OpenCursorMeansMore
=============================================================================

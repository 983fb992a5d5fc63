----------------------------- MODULE LineParsing -----------------------------
(***************************************************************************)
(* From an exported line to a stored one: CRI fragments joined back into   *)
(* messages (adapters/k8s), plain text split into timestamp, level,        *)
(* service and message (core/parsing), a JSON timestamp field read in      *)
(* either unit, an identifier replaced by a placeholder                    *)
(* (core/normalization).                                                   *)
(*                                                                         *)
(* A fragment is named by its stream, message and place, a text line is a  *)
(* sequence of token kinds, a digit string is its length.                  *)
(***************************************************************************)
EXTENDS Naturals, Integers, Sequences, FiniteSets, SequencesExt, FiniteSetsExt

CONSTANTS
  CriStreams,   \* stdout, stderr
  MaxRecords,   \* bound on the records of an exported file
  Bodies,       \* what containers print, as sequences of token kinds
  StampValues,  \* numeric values of a JSON timestamp field: records [form, n]
  CalendarDigits, \* the digit strings a date parser takes: dateutil, from Python 3.11
                  \* on also fromisoformat, which takes some of 13 digits
  MaxIdLen      \* bound on the length of an identifier

\* What a token of a text line can be.
TokenKinds == {"ts", "lts", "day", "clock", "bts", "LVL", "blvl", "w"}

\* Lines are sequences of tokens and numbers have no sign.
ASSUME ParsingConstants ==
  /\ "plain" \notin CriStreams
  /\ Bodies \subseteq Seq(TokenKinds)
  /\ \A v \in StampValues : v.n \in Nat
  /\ MaxIdLen \in Nat

VARIABLES
  cri,    \* the reassembly of one file: records read, pending parts, lines out
  parsed  \* the last text line, timestamp field or identifier handled

parsingVars == <<cri, parsed>>

Idle == [what |-> "idle"]

ParsingInit ==
  /\ cri = [log |-> <<>>, parts |-> <<>>, out |-> <<>>, eof |-> FALSE,
            next |-> [s \in CriStreams |-> [msg |-> 1, part |-> 1]]]
  /\ parsed = Idle
-----------------------------------------------------------------------------
(* _reassemble_cri_fragments.                                              *)

Emit(c, frags) == [c EXCEPT !.out = Append(@, frags)]

take_joined(c) == IF c.parts = <<>> THEN c ELSE [Emit(c, c.parts) EXCEPT !.parts = <<>>]

OtherStream(c, f) == c.parts # <<>> /\ Head(c.parts).stream # f.stream

\* Mutant: parts are joined whatever their stream.
PartialJoinsAny(c, f) == [c EXCEPT !.parts = Append(@, f)]

\* Tag P: a fragment of another stream closes what was pending.
OnPartial(c, f) ==
  LET d == IF OtherStream(c, f) THEN take_joined(c) ELSE c
  IN [d EXCEPT !.parts = Append(@, f)]

\* Tag F: the last or only fragment of its message.
OnFull(c, f) ==
  IF OtherStream(c, f) THEN Emit(take_joined(c), <<f>>)
  ELSE take_joined([c EXCEPT !.parts = Append(@, f)])

\* The kubelet writes a stream's messages one after the other, fragment by
\* fragment, and the two streams in any interleaving.
NextFragment(s, tag) ==
  [stream |-> s, msg |-> cri.next[s].msg, part |-> cri.next[s].part, last |-> tag = "F"]

NextPlaces(s, tag) ==
  LET at == cri.next[s]
  IN [cri.next EXCEPT ![s] = [msg |-> IF tag = "F" THEN at.msg + 1 ELSE at.msg,
                              part |-> IF tag = "F" THEN 1 ELSE at.part + 1]]

Written(s, tag) == [cri EXCEPT !.log = Append(@, NextFragment(s, tag)), !.next = NextPlaces(s, tag)]

ReadRecord(s, tag) ==
  /\ ~cri.eof /\ Len(cri.log) < MaxRecords /\ parsed = Idle
  /\ LET c == Written(s, tag)
     IN cri' = IF tag = "P" THEN OnPartial(c, Last(c.log)) ELSE OnFull(c, Last(c.log))
  /\ UNCHANGED parsed

\* A line that is not a CRI record.
ReadPlain ==
  /\ ~cri.eof /\ Len(cri.log) < MaxRecords /\ parsed = Idle
  /\ LET f == [stream |-> "plain", msg |-> Len(cri.log) + 1, part |-> 1, last |-> TRUE]
     IN cri' = Emit(take_joined([cri EXCEPT !.log = Append(@, f)]), <<f>>)
  /\ UNCHANGED parsed

\* The export may end inside a message.
ReadEnd ==
  /\ ~cri.eof /\ cri.log # <<>>
  /\ cri' = [take_joined(cri) EXCEPT !.eof = TRUE]
  /\ UNCHANGED parsed
-----------------------------------------------------------------------------
(* parse_text_line.  Tokens: "ts" and "lts" a timestamp of under and of at *)
(* least 30 characters, "day" "clock" one of two tokens, "bts" one in      *)
(* brackets, "LVL" and "blvl" a level, "w" any other word.  A field of the *)
(* result is the place of its token, 0 for none; the message runs from     *)
(* its place to the end of the line.                                       *)

FirstPlace(S) == IF S = {} THEN 0 ELSE Min(S)

\* extract_timestamp on the first n tokens.
extract_timestamp(b, n) ==
  LET iso == {i \in 1..n : b[i] \in {"ts", "lts", "bts"}}
      two == {i \in 1..n-1 : b[i] = "day" /\ b[i+1] = "clock"}
  IN IF iso # {} THEN Min(iso) ELSE FirstPlace(two)

\* The place of the level in <ts> <LEVEL> followed by at least n tokens:
\* <ts> is greedy, two tokens before one.
LevelAfterStamp(b, n) ==
  IF Len(b) >= 3 + n /\ b[3] = "LVL" THEN 3
  ELSE IF Len(b) >= 2 + n /\ b[2] = "LVL" THEN 2 ELSE 0

Fields(stamp, level, service, message) ==
  [stamp |-> stamp, level |-> level, service |-> service, message |-> message]

\* Where the message starts once a timestamp was seen anywhere: the first two
\* tokens go, one if it fills the first 30 characters, none if nothing is left.
message_start(b, stamp) ==
  IF stamp = 0 THEN 1
  ELSE LET n == IF b[1] = "lts" THEN 1 ELSE 2
       IN IF Len(b) > n THEN n + 1 ELSE 1

\* LEVEL_SERVICE_PATTERN, tried on a CRI body only.
level_service(infer, unwrapped, b) ==
  infer /\ unwrapped /\ b[1] = "LVL" /\ Len(b) >= 3

parse_body(b, infer, unwrapped) ==
  LET m == IF infer THEN LevelAfterStamp(b, 2) ELSE 0
      tl == IF infer THEN 0 ELSE LevelAfterStamp(b, 1)
      stamp == extract_timestamp(b, Len(b))
  IN IF m # 0 THEN Fields(extract_timestamp(b, m - 1), m, m + 1, m + 2)
     ELSE IF level_service(infer, unwrapped, b) THEN Fields(0, 1, 2, 3)
     ELSE IF tl # 0 THEN Fields(extract_timestamp(b, tl - 1), tl, 0, tl + 1)
     ELSE IF Len(b) >= 3 /\ b[1] = "bts" /\ b[2] \in {"LVL", "blvl"} THEN Fields(1, 2, 0, 3)
     ELSE Fields(stamp, FirstPlace({i \in DOMAIN b : b[i] \in {"LVL", "blvl"}}), 0,
                 message_start(b, stamp))

\* The wrappers, outermost first: a CRI header passes infer_service on, a
\* kubectl prefix turns it off.  A blank CRI body loses its trailing space to
\* strip() and is parsed as text with its header.
parse_text_line(wraps, body) ==
  LET blank == body = <<>>
      b == IF blank THEN <<"lts", "w", "w">> ELSE body
      w == IF blank THEN <<>> ELSE wraps
      inner == parse_body(b, ~Contains(w, "prefix"), w # <<>> /\ Last(w) = "cri")
  IN [what |-> "text", wraps |-> wraps, body |-> b, fields |-> inner,
      stamped |-> IF inner.stamp # 0 THEN "own" ELSE IF Contains(w, "cri") THEN "cri" ELSE "none",
      service |-> IF Contains(w, "prefix") THEN "container"
                  ELSE IF inner.service # 0 THEN "word" ELSE "default"]

Wrappings == {<<>>, <<"cri">>, <<"prefix">>, <<"cri", "prefix">>, <<"prefix", "cri">>}

ParseText(wraps, body) ==
  /\ parsed = Idle /\ cri.log = <<>>
  /\ body = <<>> => wraps = <<"cri">>
  /\ parsed' = parse_text_line(wraps, body)
  /\ UNCHANGED cri
-----------------------------------------------------------------------------
(* parse_timestamp_field, with numbers in millions.                        *)

MsCut == 1000000         \* above it a number is read as milliseconds
MaxSeconds == 253402     \* the last second of year 9999
NoStamp == -1

from_number(n) ==
  LET s == IF n > MsCut THEN n \div 1000 ELSE n
  IN IF s <= MaxSeconds THEN s ELSE NoStamp

parse_timestamp_field(v) ==
  IF v.form = "digits" /\ v.n \in CalendarDigits THEN v.n ELSE from_number(v.n)

ParseStamp(v) ==
  /\ parsed = Idle /\ cri.log = <<>>
  /\ parsed' = [what |-> "stamp", value |-> v, at |-> parse_timestamp_field(v)]
  /\ UNCHANGED cri
-----------------------------------------------------------------------------
(* normalize_message, on one identifier: the rules that can take it, in    *)
(* their order.                                                            *)

normalize_id(id) ==
  IF id.letters /\ id.len >= 8 THEN "<hex>"
  ELSE IF id.len >= 32 THEN "<token>"
  ELSE IF ~id.letters /\ id.keyword THEN "<id>"
  ELSE IF ~id.letters /\ id.len >= 5 THEN "<num>"
  ELSE "kept"

Identifiers == [letters : BOOLEAN, keyword : BOOLEAN, len : 1..MaxIdLen]

NormalizeId(id) ==
  /\ parsed = Idle /\ cri.log = <<>>
  /\ parsed' = [what |-> "id", id |-> id, form |-> normalize_id(id)]
  /\ UNCHANGED cri

ParsingNext ==
  \/ \E s \in CriStreams, tag \in {"P", "F"} : ReadRecord(s, tag)
  \/ ReadPlain \/ ReadEnd
  \/ \E wraps \in Wrappings, b \in Bodies : ParseText(wraps, b)
  \/ \E v \in StampValues : ParseStamp(v)
  \/ \E id \in Identifiers : NormalizeId(id)

ParsingSpec == ParsingInit /\ [][ParsingNext]_parsingVars
-----------------------------------------------------------------------------
\* Place i of the file is the one right behind the n-th line given out.
RightBehind(n, i) == IF n = 0 THEN i = 1 ELSE i > 1 /\ Last(cri.out[n]) = cri.log[i - 1]

\* Reassembly loses, repeats and reorders nothing: no two fragments read are the
\* same, each line given out is the stretch of the file right behind the line
\* before it, the pending parts are all that follows, and at the end of the file
\* none is left pending.
FragmentsConserved ==
  /\ \A i, j \in DOMAIN cri.log : cri.log[i] = cri.log[j] => i = j
  /\ \A n \in DOMAIN cri.out : \E i, j \in DOMAIN cri.log :
       i <= j /\ RightBehind(n - 1, i) /\ cri.out[n] = SubSeq(cri.log, i, j)
  /\ \E i \in 1 .. Len(cri.log) + 1 :
       RightBehind(Len(cri.out), i) /\ cri.parts = SubSeq(cri.log, i, Len(cri.log))
  /\ cri.eof => cri.parts = <<>>

Contiguous(i, j) ==
  /\ cri.log[i].part = 1 /\ cri.log[j].last
  /\ \A k \in i..j : cri.log[k].stream = cri.log[i].stream /\ cri.log[k].msg = cri.log[i].msg

\* No line given out joins fragments of two messages, so a fingerprint never
\* covers two of them; and a message no record of the other stream cuts into
\* comes out as one line.
LinesAreMessages ==
  /\ \A n \in DOMAIN cri.out : \A k \in DOMAIN cri.out[n] :
       cri.out[n][k].stream = cri.out[n][1].stream /\ cri.out[n][k].msg = cri.out[n][1].msg
  /\ \A i, j \in DOMAIN cri.log : i <= j /\ Contiguous(i, j) =>
       \E n \in DOMAIN cri.out : cri.out[n] = SubSeq(cri.log, i, j)

Kept(p) == {p.fields.stamp, p.fields.level, p.fields.service} \cup (p.fields.message .. Len(p.body))
Words(p) == {i \in DOMAIN p.body : p.body[i] = "w"}

\* What parsing may cost a message: a word is in no field only if it stood
\* among the first two tokens of a line that has a timestamp or a level right
\* behind it.  A line that opens with its only level and has no timestamp, and
\* any line whose service the kubectl prefix already gives, lose no word to the
\* guess of a service.
WordsSurvive ==
  parsed.what = "text" =>
    LET lost == Words(parsed) \ Kept(parsed)
        levels == {i \in DOMAIN parsed.body : parsed.body[i] \in {"LVL", "blvl"}}
    IN /\ lost \subseteq 1..2
       /\ lost # {} => parsed.fields.stamp # 0 \/ parsed.fields.level \in 2..3
       /\ levels = {1} /\ parsed.stamped # "own" /\ ~Contains(parsed.wraps, "cri")
            => Words(parsed) \subseteq parsed.fields.message .. Len(parsed.body)
       /\ Contains(parsed.wraps, "prefix") => parsed.fields.service = 0

\* A timestamp number names the same instant in seconds and in milliseconds,
\* for every instant from MsCut milliseconds to year 9999, whether it comes as
\* a number or as digits no date parser takes; a number past year 9999 is no stamp.
StampsAgree ==
  parsed.what = "stamp" /\ ~(parsed.value.form = "digits" /\ parsed.value.n \in CalendarDigits) =>
    LET n == parsed.value.n
    IN IF n \in MsCut + 1 .. 1000 * MaxSeconds + 999 THEN parsed.at = n \div 1000
       ELSE parsed.at = IF n <= MaxSeconds THEN n ELSE NoStamp

\* Equivalent lines do not fragment: below 32 digits the placeholder of a
\* decimal identifier behind a keyword does not depend on its length, nor that
\* of any decimal of five digits or more, and identifiers of one length and
\* place have at most two forms.
IdFormsAreFew ==
  parsed.what = "id" =>
    LET id == parsed.id
        alike == {normalize_id([id EXCEPT !.len = n]) : n \in (IF id.keyword THEN 1 ELSE 5) .. 31}
    IN /\ ~id.letters /\ id.len \in (IF id.keyword THEN 1 ELSE 5) .. 31 => alike = {parsed.form}
       /\ Cardinality({normalize_id([id EXCEPT !.letters = l]) : l \in BOOLEAN} \cup {parsed.form}) <= 2

\* A message comes through: its fragments are joined to it and to nothing else,
\* its words land in a field, its time is the same in every notation, and its
\* identifiers do not split it into several templates.
MessagesComeThrough ==
  FragmentsConserved /\ LinesAreMessages /\ WordsSurvive /\ StampsAgree /\ IdFormsAreFew
=============================================================================

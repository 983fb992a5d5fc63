----------------------------- MODULE WindowProofs -----------------------------
(***************************************************************************)
(* The lines of a window, on their way in and on their way out.            *)
(*                                                                         *)
(* From an exported line to a stored one, for any streams, lines, numbers  *)
(* and identifiers.  That the parts pending are one message does not       *)
(* follow from what is pending: it needs the place a stream has reached    *)
(* (Reached) and where the pending parts begin (Pending), and with these a *)
(* message nothing cuts into is the pending parts and the fragment that    *)
(* completes them.                                                         *)
(*                                                                         *)
(* From clusters to the comparison of two windows and to a timeline, for   *)
(* any windows and packets.  The counts are sums over finite functions:    *)
(* the library defines one by recursion on the sets of its arguments, and  *)
(* what that computes follows here from a least set that would have no     *)
(* sum (SumsExist), so that a sum can be split and renamed (SumSplit,      *)
(* SumRenamed).                                                            *)
(***************************************************************************)
EXTENDS LineParsing, WindowViews, FiniteSetTheorems, SequenceTheorems, WellFoundedInduction, TLAPS

\* A nonempty set of natural numbers has a least element.
LEMMA LeastOf ==
  ASSUME NEW T, T \subseteq Nat, T # {}
  PROVE  \E x \in T : \A y \in T : x <= y
<1>1. PICK x \in T : \A y \in T : ~(<<y, x>> \in OpToRel(<, Nat))
  BY WFMin, NatLessThanWellFounded
<1>2. \A y \in T : ~(y < x)
  BY <1>1 DEF OpToRel
<1> QED
  BY <1>2
-----------------------------------------------------------------------------
(* Parsing.                                                                *)

Places == [msg : Nat \ {0}, part : Nat \ {0}]
Fragments == [stream : CriStreams \cup {"plain"}, msg : Nat, part : Nat \ {0}, last : BOOLEAN]

\* The properties of lines, for a file and the lines given out of it.
Behind(log, out, n, i) == IF n = 0 THEN i = 1 ELSE i > 1 /\ Last(out[n]) = log[i - 1]
Stretches(log, out) ==
  \A n \in DOMAIN out : \E i, j \in DOMAIN log :
    i <= j /\ Behind(log, out, n - 1, i) /\ out[n] = SubSeq(log, i, j)
OneMessage(line) == \A k \in DOMAIN line : line[k].stream = line[1].stream /\ line[k].msg = line[1].msg
Uncut(log, i, j) ==
  /\ log[i].part = 1 /\ log[j].last
  /\ \A k \in i..j : log[k].stream = log[i].stream /\ log[k].msg = log[i].msg
Delivered(log, out) ==
  \A i, j \in DOMAIN log : i <= j /\ Uncut(log, i, j) => \E n \in DOMAIN out : out[n] = SubSeq(log, i, j)

\* How far the streams have come: a fragment read is of an earlier message, or an
\* earlier fragment of a message that goes on.
Reached(log, next) ==
  \A i \in DOMAIN log :
    LET f == log[i]
    IN /\ f.stream = "plain" => f.msg = i /\ f.last
       /\ f.stream # "plain" => \/ f.msg < next[f.stream].msg
                                \/ f.msg = next[f.stream].msg /\ f.part < next[f.stream].part /\ ~f.last
Distinct(log) == \A i, j \in DOMAIN log : log[i] = log[j] => i = j

\* The lines out end before place p of the file.
Laid(log, out, p) ==
  /\ log \in Seq(Fragments) /\ out \in Seq(Seq(Fragments)) /\ p \in 1 .. Len(log) + 1
  /\ Stretches(log, out) /\ Behind(log, out, Len(out), p)
  /\ \A n \in DOMAIN out : OneMessage(out[n])

\* From place p on, the file is the fragments read so far of the message its stream
\* is at.
Pending(log, next, p) ==
  /\ \A k \in p .. Len(log) :
       /\ log[k].stream = log[p].stream /\ log[p].stream \in CriStreams
       /\ log[k].msg = next[log[p].stream].msg /\ ~log[k].last
       /\ log[k].part = next[log[p].stream].part - (Len(log) + 1 - k)
  /\ p > 1 => log[p - 1].last \/ (p <= Len(log) /\ log[p - 1].stream # log[p].stream)

Reassembly(c) == c = [log |-> c.log, parts |-> c.parts, out |-> c.out, eof |-> c.eof, next |-> c.next]

CriInv ==
  /\ Reassembly(cri)
  /\ cri.next \in [CriStreams -> Places]
  /\ Reached(cri.log, cri.next) /\ Distinct(cri.log) /\ Delivered(cri.log, cri.out)
  /\ \E p \in 1 .. Len(cri.log) + 1 :
       /\ Laid(cri.log, cri.out, p) /\ cri.parts = SubSeq(cri.log, p, Len(cri.log))
       /\ cri.eof => cri.parts = <<>>
       /\ ~cri.eof => Pending(cri.log, cri.next, p)

ParsedInv == WordsSurvive /\ StampsAgree /\ IdFormsAreFew
-----------------------------------------------------------------------------
(***************************************************************************)
(* Sequences.                                                              *)
(***************************************************************************)
\* A stretch of a sequence.
LEMMA Stretch ==
  ASSUME NEW S, NEW s \in Seq(S), NEW i \in 1 .. Len(s) + 1, NEW j \in 0 .. Len(s)
  PROVE  /\ SubSeq(s, i, j) \in Seq(S)
         /\ Len(SubSeq(s, i, j)) = IF i <= j THEN j - i + 1 ELSE 0
         /\ i <= j + 1 => DOMAIN SubSeq(s, i, j) = 1 .. j - i + 1
         /\ \A k \in 1 .. j - i + 1 : SubSeq(s, i, j)[k] = s[i + k - 1]
<1>1. \A k \in i .. j : s[k] \in S
  OBVIOUS
<1>2. i \in Int /\ j \in Int
  OBVIOUS
<1>3. /\ SubSeq(s, i, j) \in Seq(S)
      /\ Len(SubSeq(s, i, j)) = IF i <= j THEN j - i + 1 ELSE 0
      /\ \A k \in 1 .. j - i + 1 : SubSeq(s, i, j)[k] = s[i + k - 1]
  BY <1>1, <1>2, SubSeqProperties
<1>4. DOMAIN SubSeq(s, i, j) = 1 .. Len(SubSeq(s, i, j))
  BY <1>3
<1>5. i <= j + 1 => 1 .. (IF i <= j THEN j - i + 1 ELSE 0) = 1 .. j - i + 1
  OBVIOUS
<1> QED
  BY <1>3, <1>4, <1>5

\* A stretch that ends before the last fragment is one of the file without it, and
\* one that ends with it is longer by it.
LEMMA StretchGrows ==
  ASSUME NEW S, NEW s \in Seq(S), NEW f \in S, NEW i \in 1 .. Len(s) + 1
  PROVE  /\ \A j \in 0 .. Len(s) : SubSeq(Append(s, f), i, j) = SubSeq(s, i, j)
         /\ SubSeq(Append(s, f), i, Len(s) + 1) = Append(SubSeq(s, i, Len(s)), f)
<1> DEFINE t == Append(s, f)
<1>1. t \in Seq(S) /\ Len(t) = Len(s) + 1 /\ t[Len(s) + 1] = f /\ \A k \in 1 .. Len(s) : t[k] = s[k]
  OBVIOUS
<1> HIDE DEF t
<1>2. ASSUME NEW j \in 0 .. Len(s) PROVE SubSeq(t, i, j) = SubSeq(s, i, j)
  <2>1. /\ SubSeq(t, i, j) \in Seq(S) /\ SubSeq(s, i, j) \in Seq(S)
        /\ Len(SubSeq(t, i, j)) = Len(SubSeq(s, i, j))
        /\ Len(SubSeq(s, i, j)) = IF i <= j THEN j - i + 1 ELSE 0
        /\ \A k \in 1 .. j - i + 1 : SubSeq(t, i, j)[k] = t[i + k - 1] /\ SubSeq(s, i, j)[k] = s[i + k - 1]
    BY <1>1, Stretch
  <2>2. \A k \in 1 .. Len(SubSeq(s, i, j)) : SubSeq(t, i, j)[k] = SubSeq(s, i, j)[k]
    <3> SUFFICES ASSUME NEW k \in 1 .. Len(SubSeq(s, i, j)) PROVE SubSeq(t, i, j)[k] = SubSeq(s, i, j)[k]
      OBVIOUS
    <3>1. i <= j
      BY <2>1
    <3>2. k \in 1 .. j - i + 1
      BY <2>1, <3>1
    <3>3. i + k - 1 \in 1 .. Len(s)
      BY <3>1, <3>2
    <3>4. t[i + k - 1] = s[i + k - 1]
      BY <1>1, <3>3
    <3> QED
      BY <2>1, <3>2, <3>4
  <2> QED
    BY <2>1, <2>2, SeqEqual
<1>3. SubSeq(t, i, Len(s) + 1) = Append(SubSeq(s, i, Len(s)), f)
  <2>1. /\ SubSeq(t, i, Len(s) + 1) \in Seq(S) /\ SubSeq(s, i, Len(s)) \in Seq(S)
        /\ Len(SubSeq(t, i, Len(s) + 1)) = Len(s) + 1 - i + 1
        /\ Len(SubSeq(s, i, Len(s))) = Len(s) - i + 1
        /\ \A k \in 1 .. Len(s) + 1 - i + 1 : SubSeq(t, i, Len(s) + 1)[k] = t[i + k - 1]
        /\ \A k \in 1 .. Len(s) - i + 1 : SubSeq(s, i, Len(s))[k] = s[i + k - 1]
    BY <1>1, Stretch
  <2> DEFINE a == SubSeq(t, i, Len(s) + 1)
             b == SubSeq(s, i, Len(s))
  <2> HIDE DEF a, b
  <2>2. /\ Append(b, f) \in Seq(S) /\ Len(Append(b, f)) = Len(a)
        /\ \A k \in 1 .. Len(a) : Append(b, f)[k] = a[k]
    BY <1>1, <2>1 DEF a, b
  <2> QED
    BY <2>1, <2>2, SeqEqual DEF a, b
<1> QED
  BY <1>2, <1>3 DEF t
-----------------------------------------------------------------------------
(***************************************************************************)
(* Reading a fragment, and giving out what is pending.                     *)
(***************************************************************************)
\* A file read further has the same lines given out.
LEMMA LaidLonger ==
  ASSUME NEW log, NEW out, NEW p, Laid(log, out, p), NEW f \in Fragments
  PROVE  Laid(Append(log, f), out, p)
<1> DEFINE t == Append(log, f)
<1>1. /\ log \in Seq(Fragments) /\ out \in Seq(Seq(Fragments)) /\ p \in 1 .. Len(log) + 1
      /\ Stretches(log, out) /\ Behind(log, out, Len(out), p) /\ \A n \in DOMAIN out : OneMessage(out[n])
  BY DEF Laid
<1>2. t \in Seq(Fragments) /\ Len(t) = Len(log) + 1 /\ \A k \in 1 .. Len(log) : t[k] = log[k]
  BY <1>1
<1>3. \A i \in 1 .. Len(log), j \in 1 .. Len(log) : SubSeq(t, i, j) = SubSeq(log, i, j)
  BY <1>1, StretchGrows
<1> HIDE DEF t
<1>4. ASSUME NEW n, NEW i \in 1 .. Len(log) + 1, Behind(log, out, n, i) PROVE Behind(t, out, n, i)
  <2>1. i > 1 => i - 1 \in 1 .. Len(log)
    BY <1>1
  <2>2. i > 1 => t[i - 1] = log[i - 1]
    BY <1>2, <2>1
  <2> QED
    BY <1>4, <2>2 DEF Behind
<1>5. Stretches(t, out)
  <2>1. DOMAIN log = 1 .. Len(log) /\ DOMAIN t = 1 .. Len(log) + 1
    BY <1>1, <1>2
  <2> SUFFICES ASSUME NEW n \in DOMAIN out
               PROVE  \E i, j \in DOMAIN t : i <= j /\ Behind(t, out, n - 1, i) /\ out[n] = SubSeq(t, i, j)
    BY DEF Stretches
  <2>2. PICK i \in 1 .. Len(log), j \in 1 .. Len(log) :
          i <= j /\ Behind(log, out, n - 1, i) /\ out[n] = SubSeq(log, i, j)
    BY <1>1, <2>1 DEF Stretches
  <2>3. i \in DOMAIN t /\ j \in DOMAIN t
    BY <1>1, <2>1
  <2>4. Behind(t, out, n - 1, i)
    BY <1>1, <1>4, <2>2
  <2> QED
    BY <1>3, <2>2, <2>3, <2>4
<1>6. Behind(t, out, Len(out), p)
  BY <1>1, <1>4
<1>7. p \in 1 .. Len(t) + 1
  BY <1>1, <1>2
<1> QED
  BY <1>1, <1>2, <1>5, <1>6, <1>7 DEF Laid, t

\* What is left of the file, given out as one line.
LEMMA LaidFurther ==
  ASSUME NEW log, NEW out, NEW p, Laid(log, out, p), p <= Len(log), NEW line,
         line = SubSeq(log, p, Len(log)), OneMessage(line)
  PROVE  Laid(log, Append(out, line), Len(log) + 1)
<1> DEFINE o == Append(out, line)
<1>1. /\ log \in Seq(Fragments) /\ out \in Seq(Seq(Fragments)) /\ p \in 1 .. Len(log)
      /\ Stretches(log, out) /\ Behind(log, out, Len(out), p) /\ \A n \in DOMAIN out : OneMessage(out[n])
  BY DEF Laid
<1>2. /\ line \in Seq(Fragments) /\ Len(line) = Len(log) - p + 1
      /\ line[Len(log) - p + 1] = log[Len(log)]
  BY <1>1, Stretch
<1>3. /\ o \in Seq(Seq(Fragments)) /\ Len(o) = Len(out) + 1 /\ o[Len(out) + 1] = line
      /\ \A n \in 1 .. Len(out) : o[n] = out[n]
  BY <1>1, <1>2
<1>3a. DOMAIN o = 1 .. Len(out) + 1 /\ DOMAIN out = 1 .. Len(out) /\ Len(out) \in Nat
  BY <1>1, <1>3
<1> HIDE DEF o
<1>4. ASSUME NEW n \in 0 .. Len(out), NEW i, Behind(log, out, n, i) PROVE Behind(log, o, n, i)
  BY <1>1, <1>3, <1>4 DEF Behind
<1>5. Stretches(log, o)
  <2> SUFFICES ASSUME NEW n \in 1 .. Len(out) + 1
               PROVE  \E i, j \in DOMAIN log : i <= j /\ Behind(log, o, n - 1, i) /\ o[n] = SubSeq(log, i, j)
    BY <1>3a DEF Stretches
  <2>1. CASE n = Len(out) + 1
    <3>1. p \in DOMAIN log /\ Len(log) \in DOMAIN log /\ p <= Len(log)
      BY <1>1
    <3>2. n - 1 = Len(out) /\ Len(out) \in 0 .. Len(out)
      BY <2>1, <1>1
    <3>3. Behind(log, o, n - 1, p)
      BY <1>1, <1>4, <3>2
    <3> QED
      BY <1>3, <2>1, <3>1, <3>3
  <2>2. CASE n \in 1 .. Len(out)
    <3>1. n \in DOMAIN out
      BY <1>1, <2>2
    <3>2. PICK i \in DOMAIN log, j \in DOMAIN log :
            i <= j /\ Behind(log, out, n - 1, i) /\ out[n] = SubSeq(log, i, j)
      BY <1>1, <3>1 DEF Stretches
    <3>3. n - 1 \in 0 .. Len(out)
      BY <1>1, <2>2
    <3> QED
      BY <1>3, <1>4, <2>2, <3>2, <3>3
  <2> QED
    BY <2>1, <2>2, <1>1
<1>6. Behind(log, o, Len(o), Len(log) + 1)
  <2>1. Last(line) = log[Len(log)]
    BY <1>2 DEF Last
  <2> QED
    BY SMTT(30), <1>1, <1>3, <2>1 DEF Behind
<1>7. \A n \in DOMAIN o : OneMessage(o[n])
  <2>1. \A n \in 1 .. Len(out) : OneMessage(o[n])
    BY <1>1, <1>3, <1>3a
  <2>2. OneMessage(o[Len(out) + 1])
    BY <1>3
  <2> QED
    BY <1>3a, <2>1, <2>2
<1>8. Len(log) + 1 \in 1 .. Len(log) + 1
  BY <1>1
<1> QED
  BY <1>1, <1>3, <1>5, <1>6, <1>7, <1>8 DEF Laid, o

\* Messages given out stay given out, and so do those of a file read further.
LEMMA DeliveredFurther ==
  ASSUME NEW log, NEW out \in Seq(Seq(Fragments)), Delivered(log, out), NEW line \in Seq(Fragments)
  PROVE  Delivered(log, Append(out, line))
<1>1. \A n \in DOMAIN out : n \in DOMAIN Append(out, line) /\ Append(out, line)[n] = out[n]
  OBVIOUS
<1> HIDE DEF Delivered
<1> QED
  BY <1>1 DEF Delivered

LEMMA DeliveredLonger ==
  ASSUME NEW log \in Seq(Fragments), NEW out, Delivered(log, out), NEW f \in Fragments,
         \A i \in 1 .. Len(log) + 1 : Uncut(Append(log, f), i, Len(log) + 1) =>
           \E n \in DOMAIN out : out[n] = SubSeq(Append(log, f), i, Len(log) + 1)
  PROVE  Delivered(Append(log, f), out)
<1> DEFINE t == Append(log, f)
<1>1. /\ t \in Seq(Fragments) /\ DOMAIN t = 1 .. Len(log) + 1 /\ DOMAIN log = 1 .. Len(log) /\ Len(log) \in Nat
      /\ \A k \in 1 .. Len(log) : t[k] = log[k]
      /\ \A i \in 1 .. Len(log), j \in 1 .. Len(log) : SubSeq(t, i, j) = SubSeq(log, i, j)
  BY StretchGrows
<1> HIDE DEF t
<1> SUFFICES ASSUME NEW i \in 1 .. Len(log) + 1, NEW j \in 1 .. Len(log) + 1, i <= j, Uncut(t, i, j)
             PROVE  \E n \in DOMAIN out : out[n] = SubSeq(t, i, j)
  BY <1>1 DEF Delivered, t
<1>2. CASE j = Len(log) + 1
  BY <1>2 DEF t
<1>3. CASE j # Len(log) + 1
  <2>1. i \in 1 .. Len(log) /\ j \in 1 .. Len(log)
    BY <1>1, <1>3
  <2>2. Uncut(log, i, j)
    <3>1. \A k \in i .. j : k \in 1 .. Len(log)
      BY <2>1, <1>1
    <3>2. \A k \in i .. j : t[k] = log[k]
      BY <3>1, <1>1
    <3>3. t[i] = log[i] /\ t[j] = log[j]
      BY <1>1, <2>1
    <3> QED
      BY <3>2, <3>3 DEF Uncut
  <2>3. i \in DOMAIN log /\ j \in DOMAIN log
    BY <1>1, <2>1
  <2>4. \E n \in DOMAIN out : out[n] = SubSeq(log, i, j)
    BY <2>2, <2>3 DEF Delivered
  <2>5. SubSeq(t, i, j) = SubSeq(log, i, j)
    BY <1>1, <2>1
  <2> QED
    BY <2>4, <2>5
<1> QED
  BY <1>2, <1>3

\* What is pending is a part of one message.
LEMMA OneMessagePending ==
  ASSUME NEW log \in Seq(Fragments), NEW next, NEW p \in 1 .. Len(log) + 1, Pending(log, next, p)
  PROVE  OneMessage(SubSeq(log, p, Len(log)))
<1> DEFINE line == SubSeq(log, p, Len(log))
<1>1. DOMAIN line = 1 .. Len(log) - p + 1 /\ \A k \in 1 .. Len(log) - p + 1 : line[k] = log[p + k - 1]
  BY Stretch
<1> HIDE DEF line
<1>2. ASSUME NEW k \in DOMAIN line PROVE line[k].stream = line[1].stream /\ line[k].msg = line[1].msg
  <2>1. p + k - 1 \in p .. Len(log) /\ p + 1 - 1 = p /\ 1 \in 1 .. Len(log) - p + 1 /\ p \in p .. Len(log)
    BY <1>1
  <2>2. line[k] = log[p + k - 1] /\ line[1] = log[p]
    BY <1>1, <2>1
  <2> QED
    BY <2>1, <2>2 DEF Pending
<1> QED
  BY <1>2 DEF OneMessage, line

\* From place q on, the file is what stream s has been read of its message.
Open(log, next, s, q) ==
  /\ \A k \in q .. Len(log) : /\ log[k].stream = s /\ log[k].msg = next[s].msg /\ ~log[k].last
                              /\ log[k].part = next[s].part - (Len(log) + 1 - k)
  /\ q > 1 => log[q - 1].last \/ log[q - 1].stream # s

\* The lines given out, and the parts pending, when a fragment of stream s is read:
\* those of another stream are given out first.
Foreign(s) == cri.parts # <<>> /\ Head(cri.parts).stream # s
OutBefore(s) == IF Foreign(s) THEN Append(cri.out, cri.parts) ELSE cri.out
PartsBefore(s) == IF Foreign(s) THEN <<>> ELSE cri.parts

LEMMA Opened ==
  ASSUME CriInv, ~cri.eof, NEW s \in CriStreams
  PROVE  /\ Delivered(cri.log, OutBefore(s)) /\ OutBefore(s) \in Seq(Seq(Fragments))
         /\ PartsBefore(s) = <<>> \/ PartsBefore(s) = cri.parts
         /\ \E q \in 1 .. Len(cri.log) + 1 :
              /\ Laid(cri.log, OutBefore(s), q) /\ PartsBefore(s) = SubSeq(cri.log, q, Len(cri.log))
              /\ Open(cri.log, cri.next, s, q)
<1> DEFINE log == cri.log
           next == cri.next
<1>1. PICK p \in 1 .. Len(log) + 1 :
        /\ Laid(log, cri.out, p) /\ cri.parts = SubSeq(log, p, Len(log)) /\ Pending(log, next, p)
  BY DEF CriInv
<1>2. log \in Seq(Fragments) /\ cri.out \in Seq(Seq(Fragments)) /\ Delivered(log, cri.out)
  BY <1>1 DEF Laid, CriInv
<1>3. cri.parts \in Seq(Fragments) /\ Len(cri.parts) = Len(log) - p + 1 /\ (p <= Len(log) => cri.parts[1] = log[p])
  BY <1>1, <1>2, Stretch
<1>4. cri.parts = <<>> <=> p = Len(log) + 1
  BY <1>2, <1>3
<1> HIDE DEF log, next
<1>5. CASE Foreign(s)
  <2>1. p <= Len(log) /\ log[p].stream # s
    BY <1>2, <1>3, <1>4, <1>5 DEF Foreign
  <2>2. OutBefore(s) = Append(cri.out, cri.parts) /\ PartsBefore(s) = <<>>
    BY <1>5 DEF OutBefore, PartsBefore
  <2>3. Laid(log, Append(cri.out, cri.parts), Len(log) + 1)
    BY <1>1, <1>2, <2>1, LaidFurther, OneMessagePending
  <2>4. SubSeq(log, Len(log) + 1, Len(log)) = <<>>
    BY <1>2
  <2>5. Open(log, next, s, Len(log) + 1)
    <3>1. Len(log) \in p .. Len(log) /\ Len(log) + 1 - 1 = Len(log) /\ Len(log) + 1 .. Len(log) = {}
      BY <1>2, <2>1
    <3>2. log[Len(log)].stream # s
      BY <1>1, <2>1, <3>1 DEF Pending
    <3> QED
      BY <3>1, <3>2 DEF Open
  <2>6. Len(log) + 1 \in 1 .. Len(log) + 1
    BY <1>2
  <2>7. Delivered(log, Append(cri.out, cri.parts)) /\ Append(cri.out, cri.parts) \in Seq(Seq(Fragments))
    BY <1>2, <1>3, DeliveredFurther
  <2> QED
    BY <2>2, <2>3, <2>4, <2>5, <2>6, <2>7 DEF log, next
<1>6. CASE ~Foreign(s)
  <2>1. OutBefore(s) = cri.out /\ PartsBefore(s) = cri.parts
    BY <1>6 DEF OutBefore, PartsBefore
  <2>2. p <= Len(log) => log[p].stream = s
    BY <1>2, <1>3, <1>4, <1>6 DEF Foreign
  <2>3. Open(log, next, s, p)
    <3>1. \A k \in p .. Len(log) : p <= Len(log)
      BY <1>2
    <3> QED
      BY <1>1, <2>2, <3>1 DEF Pending, Open
  <2> QED
    BY <1>1, <1>2, <2>1, <2>3 DEF log, next
<1> QED
  BY <1>5, <1>6

\* Giving out a line, and the pending parts, keeps the rest.
LEMMA EmitFacts ==
  ASSUME NEW c, Reassembly(c), NEW line
  PROVE  LET d == Emit(c, line)
         IN /\ Reassembly(d) /\ d.log = c.log /\ d.parts = c.parts /\ d.eof = c.eof /\ d.next = c.next
            /\ d.out = Append(c.out, line)
  BY DEF Emit, Reassembly

LEMMA LogFacts ==
  ASSUME NEW c, Reassembly(c), NEW l
  PROVE  LET d == [c EXCEPT !.log = l]
         IN /\ Reassembly(d) /\ d.log = l /\ d.out = c.out /\ d.eof = c.eof /\ d.next = c.next
            /\ d.parts = c.parts
  BY DEF Reassembly

LEMMA PartsFacts ==
  ASSUME NEW c, Reassembly(c), NEW ps
  PROVE  LET d == [c EXCEPT !.parts = ps]
         IN /\ Reassembly(d) /\ d.log = c.log /\ d.out = c.out /\ d.eof = c.eof /\ d.next = c.next
            /\ d.parts = ps
  BY DEF Reassembly

LEMMA JoinFacts ==
  ASSUME NEW c, Reassembly(c)
  PROVE  LET d == take_joined(c)
         IN /\ Reassembly(d) /\ d.log = c.log /\ d.eof = c.eof /\ d.next = c.next /\ d.parts = <<>>
            /\ d.out = IF c.parts = <<>> THEN c.out ELSE Append(c.out, c.parts)
<1>1. CASE c.parts = <<>>
  BY <1>1 DEF take_joined
<1>2. CASE c.parts # <<>>
  <2> DEFINE e == Emit(c, c.parts)
  <2>1. take_joined(c) = [e EXCEPT !.parts = <<>>]
    BY <1>2 DEF take_joined
  <2>2. /\ Reassembly(e) /\ e.log = c.log /\ e.eof = c.eof /\ e.next = c.next /\ e.out = Append(c.out, c.parts)
    BY EmitFacts
  <2> DEFINE d == [e EXCEPT !.parts = <<>>]
  <2> HIDE DEF e
  <2>3. /\ Reassembly(d) /\ d.log = e.log /\ d.out = e.out /\ d.eof = e.eof /\ d.next = e.next /\ d.parts = <<>>
    BY <2>2, PartsFacts, ZenonT(40)
  <2> HIDE DEF d
  <2> QED
    BY <1>2, <2>1, <2>2, <2>3 DEF d
<1> QED
  BY <1>1, <1>2

\* Whether the fragment goes on or ends its message, it joins the parts of its stream.
LEMMA ReadEffect ==
  ASSUME CriInv, NEW s \in CriStreams, NEW tag \in {"P", "F"}, ReadRecord(s, tag)
  PROVE  LET f == NextFragment(s, tag)
             joined == Append(PartsBefore(s), f)
         IN /\ ~cri.eof /\ UNCHANGED parsed /\ Reassembly(cri')
            /\ cri'.log = Append(cri.log, f) /\ cri'.eof = cri.eof /\ cri'.next = NextPlaces(s, tag)
            /\ cri'.parts = IF tag = "P" THEN joined ELSE <<>>
            /\ cri'.out = IF tag = "P" THEN OutBefore(s) ELSE Append(OutBefore(s), joined)
<1> DEFINE f == NextFragment(s, tag)
           c == Written(s, tag)
           joined == Append(PartsBefore(s), f)
<1>1. Reassembly(cri) /\ cri.log \in Seq(Fragments) /\ cri.parts \in Seq(Fragments) /\ ~cri.eof
  BY Stretch DEF CriInv, Laid, ReadRecord
<1>2. /\ Reassembly(c) /\ c.log = Append(cri.log, f) /\ c.next = NextPlaces(s, tag)
      /\ c.parts = cri.parts /\ c.out = cri.out /\ c.eof = cri.eof
  <2> DEFINE l == Append(cri.log, f)
             n == NextPlaces(s, tag)
  <2>1. c = [cri EXCEPT !.log = l, !.next = n]
    BY DEF Written
  <2> HIDE DEF l, n, c
  <2>2. Reassembly(cri)
    BY <1>1
  <2>3. c.log = l /\ c.next = n /\ c.parts = cri.parts /\ c.out = cri.out /\ c.eof = cri.eof
    BY <2>1, <2>2 DEF Reassembly
  <2>4. Reassembly(c)
    BY <2>1, <2>2 DEF Reassembly
  <2> QED
    BY <1>1, <2>3, <2>4 DEF l, n
<1>3. Last(c.log) = f
  BY <1>1, <1>2 DEF Last
<1>4. UNCHANGED parsed /\ cri' = IF tag = "P" THEN OnPartial(c, f) ELSE OnFull(c, f)
  BY <1>3 DEF ReadRecord
<1>5. f.stream = s
  BY DEF NextFragment
<1>6. OtherStream(c, f) <=> Foreign(s)
  BY <1>2, <1>5 DEF OtherStream, Foreign
<1>7. joined # <<>> /\ Append(cri.parts, f) # <<>>
  <2>1. PartsBefore(s) \in Seq(Fragments)
    BY <1>1 DEF PartsBefore
  <2> HIDE DEF f
  <2>2. ASSUME NEW x \in Seq(Fragments) PROVE Append(x, f) # <<>>
    OBVIOUS
  <2> QED
    BY <1>1, <2>1, <2>2
<1> HIDE DEF f, c
<1>8. CASE Foreign(s)
  <2> DEFINE d == take_joined(c)
  <2>1. /\ Reassembly(d) /\ d.log = c.log /\ d.eof = c.eof /\ d.next = c.next /\ d.parts = <<>>
        /\ d.out = OutBefore(s) /\ PartsBefore(s) = <<>>
    BY <1>2, <1>8, JoinFacts DEF Foreign, OutBefore, PartsBefore
  <2>2. tag = "P" => cri' = [d EXCEPT !.parts = Append(d.parts, f)]
    BY <1>4, <1>6, <1>8 DEF OnPartial
  <2>3. tag # "P" => cri' = Emit(d, <<f>>)
    BY <1>4, <1>6, <1>8 DEF OnFull
  <2> HIDE DEF d
  <2>4. CASE tag = "P"
    <3> DEFINE ps == Append(d.parts, f)
               g == [d EXCEPT !.parts = ps]
    <3> HIDE DEF ps
    <3>1. /\ Reassembly(g) /\ g.log = d.log /\ g.eof = d.eof /\ g.next = d.next /\ g.out = d.out
          /\ g.parts = ps
      BY <2>1, PartsFacts
    <3> HIDE DEF g
    <3> QED
      BY <1>1, <1>2, <1>4, <2>1, <2>2, <2>4, <3>1 DEF f, g, ps
  <2>5. CASE tag # "P"
    <3>1. joined = <<f>>
      BY <2>1
    <3> QED
      BY <1>1, <1>2, <1>4, <2>1, <2>3, <2>5, <3>1, EmitFacts DEF f
  <2> QED
    BY <2>4, <2>5
<1>9. CASE ~Foreign(s)
  <2> DEFINE ps == Append(c.parts, f)
             d == [c EXCEPT !.parts = ps]
  <2>1. /\ Reassembly(d) /\ d.log = c.log /\ d.eof = c.eof /\ d.next = c.next /\ d.parts = joined
        /\ d.out = OutBefore(s)
    <3> HIDE DEF ps
    <3>1. /\ Reassembly(d) /\ d.log = c.log /\ d.eof = c.eof /\ d.next = c.next /\ d.out = c.out
          /\ d.parts = ps
      BY <1>2, PartsFacts
    <3> HIDE DEF d
    <3> QED
      BY <1>2, <1>9, <3>1 DEF OutBefore, PartsBefore, ps
  <2>2. tag = "P" => cri' = d
    BY <1>4, <1>6, <1>9 DEF OnPartial
  <2>3. tag # "P" => cri' = take_joined(d)
    BY <1>4, <1>6, <1>9 DEF OnFull
  <2> HIDE DEF d, joined
  <2>4. CASE tag = "P"
    BY <1>1, <1>2, <1>4, <2>1, <2>2, <2>4 DEF f, joined
  <2>5. CASE tag # "P"
    <3>1. d.parts # <<>>
      BY <1>7, <2>1 DEF joined
    <3>2. /\ Reassembly(cri') /\ cri'.log = d.log /\ cri'.eof = d.eof /\ cri'.next = d.next /\ cri'.parts = <<>>
          /\ cri'.out = Append(d.out, d.parts)
      BY <2>1, <2>3, <2>5, <3>1, JoinFacts
    <3> QED
      BY <1>1, <1>2, <1>4, <2>1, <2>5, <3>2 DEF f, joined
  <2> QED
    BY <2>4, <2>5
<1> QED
  BY <1>8, <1>9
-----------------------------------------------------------------------------
(***************************************************************************)
(* What a fragment read changes.                                           *)
(***************************************************************************)
LEMMA NextFacts ==
  ASSUME cri.next \in [CriStreams -> Places], NEW s \in CriStreams, NEW tag \in {"P", "F"}
  PROVE  LET f == NextFragment(s, tag)
             at == cri.next[s]
         IN /\ f \in Fragments /\ f.stream = s /\ f.msg = at.msg /\ f.part = at.part /\ (f.last <=> tag = "F")
            /\ NextPlaces(s, tag) \in [CriStreams -> Places]
            /\ \A r \in CriStreams \ {s} : NextPlaces(s, tag)[r] = cri.next[r]
            /\ at.msg \in Nat \ {0} /\ at.part \in Nat \ {0}
            /\ tag = "F" => NextPlaces(s, tag)[s].msg = at.msg + 1
            /\ tag = "P" => NextPlaces(s, tag)[s].msg = at.msg /\ NextPlaces(s, tag)[s].part = at.part + 1
<1> DEFINE at == cri.next[s]
           f == NextFragment(s, tag)
           new == [msg |-> IF tag = "F" THEN at.msg + 1 ELSE at.msg, part |-> IF tag = "F" THEN 1 ELSE at.part + 1]
<1>1. at \in Places /\ at.msg \in Nat \ {0} /\ at.part \in Nat \ {0}
  BY DEF Places
<1>2. f \in Fragments /\ f.stream = s /\ f.msg = at.msg /\ f.part = at.part /\ (f.last <=> tag = "F")
  <2>1. (tag = "F") \in BOOLEAN
    OBVIOUS
  <2> DEFINE ends == tag = "F"
  <2>2. f = [stream |-> s, msg |-> at.msg, part |-> at.part, last |-> ends]
    BY DEF NextFragment
  <2> HIDE DEF at, f, ends
  <2>3. f \in Fragments
    BY <1>1, <2>1, <2>2 DEF Fragments, ends
  <2>4. f.stream = s /\ f.msg = at.msg /\ f.part = at.part /\ f.last = ends
    BY <2>2
  <2> QED
    BY <2>3, <2>4 DEF ends
<1>3. /\ new \in Places
      /\ tag = "F" => new.msg = at.msg + 1
      /\ tag = "P" => new.msg = at.msg /\ new.part = at.part + 1
  <2> HIDE DEF at
  <2> QED
    BY <1>1 DEF Places
<1>4. NextPlaces(s, tag) = [cri.next EXCEPT ![s] = new]
  BY DEF NextPlaces
<1> HIDE DEF at, f, new
<1>5. /\ NextPlaces(s, tag) \in [CriStreams -> Places] /\ NextPlaces(s, tag)[s] = new
      /\ \A r \in CriStreams \ {s} : NextPlaces(s, tag)[r] = cri.next[r]
  BY <1>3, <1>4
<1> QED
  BY <1>1, <1>2, <1>3, <1>5 DEF at, f

\* Every fragment of a stream's file is before the place the stream has reached, so
\* the next one is new.
LEMMA ReadFurther ==
  ASSUME NEW log \in Seq(Fragments), cri.next \in [CriStreams -> Places], Reached(log, cri.next), Distinct(log),
         NEW s \in CriStreams, NEW tag \in {"P", "F"}
  PROVE  /\ Reached(Append(log, NextFragment(s, tag)), NextPlaces(s, tag))
         /\ Distinct(Append(log, NextFragment(s, tag)))
<1> DEFINE f == NextFragment(s, tag)
           t == Append(log, f)
           next == cri.next
           after == NextPlaces(s, tag)
           at == next[s]
<1>1. /\ f \in Fragments /\ f.stream = s /\ f.msg = at.msg /\ f.part = at.part /\ (f.last <=> tag = "F")
      /\ \A r \in CriStreams \ {s} : after[r] = next[r]
      /\ at.msg \in Nat \ {0} /\ at.part \in Nat \ {0}
      /\ tag = "F" => after[s].msg = at.msg + 1
      /\ tag = "P" => after[s].msg = at.msg /\ after[s].part = at.part + 1
  BY NextFacts
<1>2. \A r \in CriStreams : next[r].msg \in Nat /\ next[r].part \in Nat
  BY DEF Places
<1> HIDE DEF f, after, at, next
<1>3. /\ t[Len(log) + 1] = f /\ DOMAIN t = 1 .. Len(log) + 1 /\ Len(log) \in Nat
      /\ \A k \in 1 .. Len(log) : t[k] = log[k] /\ log[k] \in Fragments
  BY <1>1
<1> HIDE DEF t
<1>4. s # "plain"
  BY ParsingConstants
<1>5. ASSUME NEW k \in 1 .. Len(log)
      PROVE  LET g == log[k]
             IN /\ g.stream \in CriStreams \cup {"plain"} /\ g.msg \in Nat /\ g.part \in Nat
                /\ g.stream = "plain" => g.msg = k /\ g.last
                /\ g.stream # "plain" => \/ g.msg < next[g.stream].msg
                                         \/ g.msg = next[g.stream].msg /\ g.part < next[g.stream].part /\ ~g.last
  <2>1. log[k] \in Fragments /\ k \in DOMAIN log
    BY <1>3
  <2> QED
    BY <2>1 DEF Reached, Fragments, next
<1>6. ASSUME NEW k \in 1 .. Len(log) + 1
      PROVE  /\ t[k].stream = "plain" => t[k].msg = k /\ t[k].last
             /\ t[k].stream # "plain" => \/ t[k].msg < after[t[k].stream].msg
                                         \/ t[k].msg = after[t[k].stream].msg /\ t[k].part < after[t[k].stream].part /\ ~t[k].last
  <2>1. CASE k = Len(log) + 1
    BY <1>1, <1>3, <1>4, <2>1
  <2>2. CASE k \in 1 .. Len(log)
    <3>1. CASE log[k].stream # s
      <4>1. log[k].stream # "plain" => after[log[k].stream] = next[log[k].stream]
        BY <1>1, <1>5, <2>2, <3>1
      <4> QED
        BY <1>3, <1>5, <2>2, <4>1
    <3>2. CASE log[k].stream = s
      <4>1. log[k].msg < at.msg \/ (log[k].msg = at.msg /\ log[k].part < at.part /\ ~log[k].last)
        BY <1>4, <1>5, <2>2, <3>2 DEF at
      <4>2. log[k].msg \in Nat /\ log[k].part \in Nat
        BY <1>5, <2>2
      <4>3. CASE tag = "F"
        BY <1>1, <1>3, <1>4, <2>2, <3>2, <4>1, <4>2, <4>3
      <4>4. CASE tag = "P"
        BY <1>1, <1>3, <1>4, <2>2, <3>2, <4>1, <4>2, <4>4
      <4> QED
        BY <4>3, <4>4
    <3> QED
      BY <3>1, <3>2
  <2> QED
    BY <1>3, <2>1, <2>2
<1>7. Reached(t, after)
  BY <1>3, <1>6 DEF Reached
<1>8. ASSUME NEW k \in 1 .. Len(log) PROVE log[k] # f
  <2>1. log[k].stream = s => log[k].msg < at.msg \/ log[k].part < at.part
    BY <1>4, <1>5 DEF at
  <2>2. log[k].msg \in Nat /\ log[k].part \in Nat
    BY <1>5
  <2> QED
    BY <1>1, <2>1, <2>2
<1>9. Distinct(t)
  <2> SUFFICES ASSUME NEW i \in 1 .. Len(log) + 1, NEW j \in 1 .. Len(log) + 1, t[i] = t[j] PROVE i = j
    BY <1>3 DEF Distinct
  <2>1. CASE i \in 1 .. Len(log) /\ j \in 1 .. Len(log)
    BY <1>3, <2>1 DEF Distinct
  <2>2. CASE i = Len(log) + 1 \/ j = Len(log) + 1
    BY <1>3, <1>8, <2>2
  <2> QED
    BY <1>3, <2>1, <2>2
<1> QED
  BY <1>7, <1>9 DEF t, after, f

\* A message that the fragment completes, and nothing cuts into, begins where the
\* parts of its stream do.
LEMMA Closing ==
  ASSUME NEW log \in Seq(Fragments), NEW next \in [CriStreams -> Places], Reached(log, next),
         NEW s \in CriStreams, NEW q \in 1 .. Len(log) + 1, Open(log, next, s, q),
         NEW f \in Fragments, f.stream = s, f.msg = next[s].msg, f.part = next[s].part,
         NEW i \in 1 .. Len(log) + 1, Uncut(Append(log, f), i, Len(log) + 1)
  PROVE  i = q
<1> DEFINE t == Append(log, f)
           L == Len(log)
           at == next[s]
<1>1. /\ t[L + 1] = f /\ L \in Nat /\ \A k \in 1 .. L : t[k] = log[k] /\ log[k] \in Fragments
      /\ DOMAIN log = 1 .. L
  OBVIOUS
<1>2. at.part \in Nat \ {0} /\ at.msg \in Nat
  BY DEF Places
<1>3. s # "plain"
  BY ParsingConstants
<1>4. t[i].part = 1 /\ \A k \in i .. L + 1 : t[k].stream = t[i].stream /\ t[k].msg = t[i].msg
  BY DEF Uncut
<1>5. ASSUME NEW k \in q .. L
      PROVE  /\ log[k].stream = s /\ log[k].msg = at.msg /\ ~log[k].last
             /\ log[k].part = at.part - (L + 1 - k) /\ log[k].part \in Nat \ {0}
  <2>1. log[k] \in Fragments
    BY <1>1
  <2> QED
    BY <2>1 DEF Open, Fragments
<1>6. q > 1 => log[q - 1].last \/ log[q - 1].stream # s
  BY DEF Open
<1>7. ASSUME NEW k \in i .. L PROVE log[k].stream = s /\ log[k].msg = at.msg /\ ~log[k].last
  <2>1. k \in 1 .. L /\ k \in i .. L + 1 /\ L + 1 \in i .. L + 1
    BY <1>1
  <2>2. log[k].stream = f.stream /\ log[k].msg = f.msg
    BY <1>1, <1>4, <2>1
  <2>3. log[k].msg < at.msg \/ ~log[k].last
    BY <1>1, <1>3, <2>1, <2>2 DEF Reached
  <2> QED
    BY <1>2, <2>2, <2>3
<1> HIDE DEF t, L, at
<1>8. CASE i = L + 1
  <2>1. f.part = 1
    BY <1>1, <1>4, <1>8
  <2>2. ASSUME q <= L PROVE FALSE
    <3>1. L \in q .. L
      BY <1>1, <2>2
    <3>2. log[L].part = at.part - (L + 1 - L) /\ log[L].part \in Nat \ {0}
      BY <1>5, <3>1
    <3>3. at.part = 1
      BY <2>1 DEF at
    <3>4. at.part - (L + 1 - L) = 0
      BY <1>1, <3>3
    <3> QED
      BY <3>2, <3>4
  <2> QED
    BY <1>1, <1>8, <2>2 DEF L
<1>9. CASE i <= L
  <2>1. q <= L
    <3>1. ASSUME q = L + 1 PROVE FALSE
      <4>1. L \in i .. L /\ q > 1 /\ q - 1 = L
        BY <1>1, <1>9, <3>1
      <4> QED
        BY <1>6, <1>7, <4>1
    <3> QED
      BY <1>1, <3>1 DEF L
  <2>2. ASSUME i < q PROVE FALSE
    <3>1. q - 1 \in i .. L /\ q > 1
      BY <1>1, <2>1, <2>2 DEF L
    <3> QED
      BY <1>6, <1>7, <3>1
  <2>3. ASSUME q < i PROVE FALSE
    <3>1. i \in q .. L /\ q \in q .. L /\ i \in 1 .. L
      BY <1>1, <1>9, <2>1, <2>3 DEF L
    <3>2. log[i].part = 1
      BY <1>1, <1>4, <3>1
    <3>3. /\ log[i].part = at.part - (L + 1 - i) /\ log[q].part = at.part - (L + 1 - q)
          /\ log[q].part \in Nat \ {0}
      BY <1>5, <3>1
    <3>4. i \in Int /\ q \in Int /\ L \in Int /\ at.part \in Int
      BY <1>1, <1>2 DEF L
    <3>5. at.part - (L + 1 - q) < at.part - (L + 1 - i)
      BY <2>3, <3>4
    <3>6. log[q].part < 1
      BY <3>2, <3>3, <3>5
    <3> QED
      BY <3>3, <3>6
  <2> QED
    BY <1>1, <2>2, <2>3 DEF L
<1> QED
  BY <1>1, <1>8, <1>9 DEF L

\* A fragment of a stream, in the middle of its message or at the end of it.
LEMMA ReadStep ==
  ASSUME CriInv, NEW s \in CriStreams, NEW tag \in {"P", "F"}, ReadRecord(s, tag)
  PROVE  CriInv'
<1> DEFINE f == NextFragment(s, tag)
           log == cri.log
           t == Append(log, f)
           next == cri.next
           after == NextPlaces(s, tag)
           joined == Append(PartsBefore(s), f)
           given == OutBefore(s)
<1>1. /\ ~cri.eof /\ UNCHANGED parsed /\ Reassembly(cri')
      /\ cri'.log = t /\ cri'.eof = cri.eof /\ cri'.next = after
      /\ cri'.parts = IF tag = "P" THEN joined ELSE <<>>
      /\ cri'.out = IF tag = "P" THEN given ELSE Append(given, joined)
  BY ReadEffect
<1>2. /\ next \in [CriStreams -> Places] /\ Reached(log, next) /\ Distinct(log) /\ log \in Seq(Fragments)
  BY DEF CriInv, Laid
<1>3. /\ f \in Fragments /\ f.stream = s /\ f.msg = next[s].msg /\ f.part = next[s].part /\ (f.last <=> tag = "F")
      /\ after \in [CriStreams -> Places]
      /\ tag = "P" => after[s].msg = next[s].msg /\ after[s].part = next[s].part + 1
      /\ next[s].part \in Nat
  BY <1>2, NextFacts
<1>4. Reached(t, after) /\ Distinct(t)
  BY <1>2, ReadFurther
<1>5. Delivered(log, given) /\ given \in Seq(Seq(Fragments))
  BY <1>1, Opened
<1>6. PICK q \in 1 .. Len(log) + 1 :
        Laid(log, given, q) /\ PartsBefore(s) = SubSeq(log, q, Len(log)) /\ Open(log, next, s, q)
  BY <1>1, Opened
<1> HIDE DEF f, log, next, after, given
<1>7. /\ t \in Seq(Fragments) /\ Len(t) = Len(log) + 1 /\ t[Len(log) + 1] = f /\ Len(log) \in Nat
      /\ \A k \in 1 .. Len(log) : t[k] = log[k]
  BY <1>2, <1>3
<1>8. joined = SubSeq(t, q, Len(t))
  BY <1>2, <1>3, <1>6, <1>7, StretchGrows
<1>9. Laid(t, given, q)
  BY <1>3, <1>6, LaidLonger
<1>10. joined \in Seq(Fragments)
  BY <1>2, <1>3, <1>6, Stretch
<1>11. ASSUME NEW i \in 1 .. Len(log) + 1, Uncut(t, i, Len(log) + 1) PROVE i = q /\ f.last
  <2>1. i = q
    BY <1>2, <1>3, <1>6, <1>11, Closing
  <2> QED
    BY <1>7, <1>11, <2>1 DEF Uncut
<1> HIDE DEF t, joined
<1>12. ASSUME NEW k \in q .. Len(t)
       PROVE  t[k].stream = s /\ t[k].msg = next[s].msg
  <2>1. CASE k = Len(log) + 1
    BY <1>3, <1>7, <2>1
  <2>2. CASE k # Len(log) + 1
    <3>1. k \in q .. Len(log) /\ k \in 1 .. Len(log)
      BY <1>7, <2>2
    <3> QED
      BY <1>6, <1>7, <3>1 DEF Open
  <2> QED
    BY <2>1, <2>2
<1>13. CASE tag = "P"
  <2>1. Delivered(t, given)
    BY <1>2, <1>3, <1>5, <1>11, <1>13, DeliveredLonger DEF t
  <2>2. Pending(t, after, q)
    <3>1. ASSUME NEW k \in q .. Len(t)
          PROVE  /\ t[k].stream = t[q].stream /\ t[q].stream = s /\ t[k].msg = after[s].msg /\ ~t[k].last
                 /\ t[k].part = after[s].part - (Len(t) + 1 - k)
      <4>1. t[k].stream = t[q].stream /\ t[q].stream = s /\ t[k].msg = after[s].msg
        BY <1>3, <1>7, <1>12, <1>13
      <4>2. CASE k = Len(t)
        BY <1>3, <1>7, <1>13, <4>1, <4>2
      <4>3. CASE k # Len(t)
        <5>1. k \in q .. Len(log) /\ k \in Int /\ t[k] = log[k]
          BY <1>7, <4>3
        <5>2. ~log[k].last /\ log[k].part = next[s].part - (Len(log) + 1 - k)
          BY <1>6, <5>1 DEF Open
        <5>3. next[s].part - (Len(log) + 1 - k) = next[s].part + 1 - (Len(log) + 1 + 1 - k)
          <6>1. next[s].part \in Int /\ Len(log) \in Int
            BY <1>3, <1>7
          <6>2. \A a, b, c \in Int : a - (b + 1 - c) = a + 1 - (b + 1 + 1 - c)
            OBVIOUS
          <6> QED
            BY <5>1, <6>1, <6>2
        <5>4. after[s].part - (Len(t) + 1 - k) = next[s].part + 1 - (Len(log) + 1 + 1 - k)
          BY <1>3, <1>7, <1>13
        <5> QED
          BY <4>1, <5>1, <5>2, <5>3, <5>4
      <4> QED
        BY <4>2, <4>3
    <3>2. q > 1 => t[q - 1].last \/ (q <= Len(t) /\ t[q - 1].stream # t[q].stream)
      <4>1. q > 1 => q - 1 \in 1 .. Len(log)
        BY <1>7
      <4>2. q > 1 => t[q - 1] = log[q - 1]
        BY <1>7, <4>1
      <4>3. t[q].stream = s /\ q <= Len(t)
        BY <1>7, <1>12
      <4> QED
        BY <1>6, <4>2, <4>3 DEF Open
    <3> QED
      BY <3>1, <3>2 DEF Pending
  <2>3. q \in 1 .. Len(t) + 1
    BY <1>7
  <2>4. cri'.log = t /\ cri'.out = given /\ cri'.parts = joined /\ cri'.next = after /\ ~cri'.eof /\ Reassembly(cri')
    BY <1>1, <1>13
  <2> QED
    BY <1>3, <1>4, <1>8, <1>9, <2>1, <2>2, <2>3, <2>4 DEF CriInv, Reassembly
<1>14. CASE tag = "F"
  <2>1. OneMessage(joined)
    <3>1. DOMAIN joined = 1 .. Len(t) - q + 1 /\ \A k \in 1 .. Len(t) - q + 1 : joined[k] = t[q + k - 1]
      BY <1>7, <1>8, Stretch
    <3>2. ASSUME NEW k \in DOMAIN joined PROVE joined[k].stream = s /\ joined[k].msg = next[s].msg
      <4>1. q + k - 1 \in q .. Len(t) /\ joined[k] = t[q + k - 1]
        BY <1>7, <3>1
      <4> QED
        BY <1>12, <4>1
    <3>3. 1 \in DOMAIN joined
      BY <1>7, <3>1
    <3> QED
      BY <3>2, <3>3 DEF OneMessage
  <2>2. q <= Len(t)
    BY <1>7
  <2>3. Laid(t, Append(given, joined), Len(t) + 1)
    BY <1>8, <1>9, <2>1, <2>2, LaidFurther
  <2>4. Delivered(log, Append(given, joined))
    BY <1>5, <1>10, DeliveredFurther
  <2>5. \E n \in DOMAIN Append(given, joined) : Append(given, joined)[n] = joined
    <3>1. Len(given) + 1 \in DOMAIN Append(given, joined) /\ Append(given, joined)[Len(given) + 1] = joined
      BY <1>5, <1>10
    <3> QED
      BY <3>1
  <2>6. Delivered(t, Append(given, joined))
    <3>1. ASSUME NEW i \in 1 .. Len(log) + 1, Uncut(t, i, Len(log) + 1)
          PROVE  \E n \in DOMAIN Append(given, joined) : Append(given, joined)[n] = SubSeq(t, i, Len(log) + 1)
      <4>1. i = q
        BY <1>11, <3>1
      <4> QED
        BY <1>7, <1>8, <2>5, <4>1
    <3> DEFINE o == Append(given, joined)
    <3> HIDE DEF o
    <3> QED
      BY <1>2, <1>3, <2>4, <3>1, DeliveredLonger DEF t, o
  <2>7. Pending(t, after, Len(t) + 1)
    <3>1. Len(t) + 1 - 1 = Len(log) + 1 /\ Len(t) + 1 .. Len(t) = {}
      BY <1>7
    <3>2. t[Len(t) + 1 - 1].last
      BY <1>3, <1>7, <1>14, <3>1
    <3> QED
      BY <3>1, <3>2 DEF Pending
  <2>8. SubSeq(t, Len(t) + 1, Len(t)) = <<>> /\ Len(t) + 1 \in 1 .. Len(t) + 1
    BY <1>7
  <2>9. /\ cri'.log = t /\ cri'.out = Append(given, joined) /\ cri'.parts = <<>> /\ cri'.next = after /\ ~cri'.eof
        /\ Reassembly(cri')
    BY <1>1, <1>14
  <2> QED
    BY <1>3, <1>4, <2>3, <2>6, <2>7, <2>8, <2>9 DEF CriInv, Reassembly
<1> QED
  BY <1>13, <1>14

\* With what is pending given out, all of the file is.
Given == IF cri.parts = <<>> THEN cri.out ELSE Append(cri.out, cri.parts)

LEMMA Flushed ==
  ASSUME CriInv, ~cri.eof
  PROVE  /\ Laid(cri.log, Given, Len(cri.log) + 1) /\ Delivered(cri.log, Given)
         /\ Given \in Seq(Seq(Fragments))
<1> DEFINE log == cri.log
<1>1. PICK p \in 1 .. Len(log) + 1 :
        /\ Laid(log, cri.out, p) /\ cri.parts = SubSeq(log, p, Len(log)) /\ Pending(log, cri.next, p)
  BY DEF CriInv
<1>2. log \in Seq(Fragments) /\ cri.out \in Seq(Seq(Fragments)) /\ Delivered(log, cri.out)
  BY <1>1 DEF Laid, CriInv
<1>3. cri.parts \in Seq(Fragments) /\ Len(cri.parts) = Len(log) - p + 1
  BY <1>1, <1>2, Stretch
<1> HIDE DEF log
<1>4. CASE cri.parts = <<>>
  <2>1. p = Len(log) + 1
    BY <1>2, <1>3, <1>4
  <2> QED
    BY <1>1, <1>2, <1>4, <2>1 DEF Given, log
<1>5. CASE cri.parts # <<>>
  <2>1. p <= Len(log)
    BY <1>2, <1>3, <1>5
  <2>2. Laid(log, Append(cri.out, cri.parts), Len(log) + 1)
    BY <1>1, <1>2, <2>1, LaidFurther, OneMessagePending
  <2>3. Delivered(log, Append(cri.out, cri.parts)) /\ Append(cri.out, cri.parts) \in Seq(Seq(Fragments))
    BY <1>2, <1>3, DeliveredFurther
  <2> QED
    BY <1>5, <2>2, <2>3 DEF Given, log
<1> QED
  BY <1>4, <1>5

\* A plain line gives out what is pending and then itself.
LEMMA PlainStep == ASSUME CriInv, ReadPlain PROVE CriInv'
<1> DEFINE log == cri.log
           next == cri.next
           f == [stream |-> "plain", msg |-> Len(log) + 1, part |-> 1, last |-> TRUE]
           t == Append(log, f)
           c == [cri EXCEPT !.log = t]
           d == take_joined(c)
           out == Append(Given, <<f>>)
<1>1. /\ ~cri.eof /\ cri' = Emit(d, <<f>>) /\ Reassembly(cri)
  BY DEF ReadPlain, CriInv
<1>2. /\ next \in [CriStreams -> Places] /\ Reached(log, next) /\ Distinct(log) /\ log \in Seq(Fragments)
  BY DEF CriInv, Laid
<1>3. f \in Fragments /\ f.stream = "plain" /\ f.msg = Len(log) + 1 /\ f.last
  BY <1>2 DEF Fragments
<1>4. Laid(log, Given, Len(log) + 1) /\ Delivered(log, Given) /\ Given \in Seq(Seq(Fragments))
  BY <1>1, Flushed
<1> HIDE DEF f, next, log
<1>5. /\ t \in Seq(Fragments) /\ Len(t) = Len(log) + 1 /\ t[Len(log) + 1] = f /\ Len(log) \in Nat
      /\ DOMAIN log = 1 .. Len(log) /\ DOMAIN t = 1 .. Len(log) + 1
      /\ \A k \in 1 .. Len(log) : t[k] = log[k] /\ log[k] \in Fragments
  BY <1>2, <1>3
<1>6. SubSeq(t, Len(log) + 1, Len(log) + 1) = <<f>>
  <2>1. Len(log) + 1 \in 1 .. Len(log) + 1
    BY <1>5
  <2>2. SubSeq(t, Len(log) + 1, Len(log) + 1) = Append(SubSeq(log, Len(log) + 1, Len(log)), f)
    BY <1>2, <1>3, <2>1, StretchGrows
  <2>3. SubSeq(log, Len(log) + 1, Len(log)) = <<>>
    BY <1>5
  <2>4. Append(<<>>, f) = <<f>>
    OBVIOUS
  <2> QED
    BY <2>2, <2>3, <2>4
<1> HIDE DEF t
<1>7. /\ Reassembly(c) /\ c.log = t /\ c.parts = cri.parts /\ c.out = cri.out /\ c.eof = cri.eof /\ c.next = cri.next
  BY <1>1, LogFacts
<1> HIDE DEF c
<1>8. /\ Reassembly(d) /\ d.log = t /\ d.eof = cri.eof /\ d.next = next /\ d.out = Given /\ d.parts = <<>>
  BY <1>7, JoinFacts DEF Given, next
<1> HIDE DEF d
<1>9. /\ Reassembly(cri') /\ cri'.log = t /\ ~cri'.eof /\ cri'.next = next /\ cri'.parts = <<>> /\ cri'.out = out
  <2> DEFINE line == <<f>>
             e == Emit(d, line)
  <2> HIDE DEF line
  <2>1. /\ Reassembly(e) /\ e.log = d.log /\ e.parts = d.parts /\ e.eof = d.eof /\ e.next = d.next
        /\ e.out = Append(d.out, line)
    BY <1>8, EmitFacts
  <2> HIDE DEF e
  <2>2. cri' = e
    BY <1>1 DEF e, line
  <2> QED
    BY <1>1, <1>8, <2>1, <2>2 DEF line
<1>10. Reached(t, next)
  <2> SUFFICES ASSUME NEW k \in 1 .. Len(log) + 1
               PROVE  /\ t[k].stream = "plain" => t[k].msg = k /\ t[k].last
                      /\ t[k].stream # "plain" =>
                           \/ t[k].msg < next[t[k].stream].msg
                           \/ t[k].msg = next[t[k].stream].msg /\ t[k].part < next[t[k].stream].part /\ ~t[k].last
    BY <1>5 DEF Reached
  <2>1. CASE k = Len(log) + 1
    BY <1>3, <1>5, <2>1
  <2>2. CASE k # Len(log) + 1
    <3>1. k \in DOMAIN log /\ t[k] = log[k]
      BY <1>5, <2>2
    <3> QED
      BY <1>2, <3>1 DEF Reached
  <2> QED
    BY <2>1, <2>2
<1>11. Distinct(t)
  <2>1. ASSUME NEW k \in 1 .. Len(log) PROVE log[k] # f
    <3>1. log[k].stream = "plain" => log[k].msg = k
      BY <1>2, <1>5 DEF Reached
    <3>2. k # Len(log) + 1
      BY <1>5
    <3> QED
      BY <1>3, <3>1, <3>2
  <2> SUFFICES ASSUME NEW i \in 1 .. Len(log) + 1, NEW j \in 1 .. Len(log) + 1, t[i] = t[j] PROVE i = j
    BY <1>5 DEF Distinct
  <2>2. CASE i \in 1 .. Len(log) /\ j \in 1 .. Len(log)
    BY <1>2, <1>5, <2>2 DEF Distinct
  <2>3. CASE i = Len(log) + 1 \/ j = Len(log) + 1
    BY <1>5, <2>1, <2>3
  <2> QED
    BY <1>5, <2>2, <2>3
<1>12. Laid(t, out, Len(t) + 1)
  <2>1. Laid(t, Given, Len(log) + 1)
    BY <1>3, <1>4, LaidLonger DEF t
  <2>2. Len(log) + 1 <= Len(t) /\ <<f>> = SubSeq(t, Len(log) + 1, Len(t))
    BY <1>5, <1>6
  <2>3. OneMessage(<<f>>)
    BY DEF OneMessage
  <2> QED
    BY <2>1, <2>2, <2>3, LaidFurther
<1>13. Delivered(t, out)
  <2>1. Delivered(log, out) /\ out \in Seq(Seq(Fragments))
    <3> DEFINE line == <<f>>
    <3>1. line \in Seq(Fragments)
      BY <1>3
    <3> HIDE DEF line
    <3>2. Delivered(log, Append(Given, line)) /\ Append(Given, line) \in Seq(Seq(Fragments))
      BY <1>4, <3>1, DeliveredFurther
    <3> QED
      BY <3>2 DEF line
  <2>2. Len(Given) + 1 \in DOMAIN out /\ out[Len(Given) + 1] = <<f>>
    BY <1>4
  <2>3. ASSUME NEW i \in 1 .. Len(log) + 1, Uncut(t, i, Len(log) + 1)
        PROVE  \E n \in DOMAIN out : out[n] = SubSeq(t, i, Len(log) + 1)
    <3>1. t[Len(log) + 1].stream = t[i].stream /\ t[Len(log) + 1].msg = t[i].msg
      BY <2>3, <1>5 DEF Uncut
    <3>2. i \in DOMAIN t /\ t[i].stream = "plain" /\ t[i].msg = Len(log) + 1
      BY <1>3, <1>5, <3>1
    <3>3. i = Len(log) + 1
      BY <1>10, <3>2 DEF Reached
    <3> QED
      BY <1>6, <2>2, <3>3
  <2> HIDE DEF out
  <2> QED
    BY <1>2, <1>3, <2>1, <2>3, DeliveredLonger DEF t
<1>14. Pending(t, next, Len(t) + 1) /\ SubSeq(t, Len(t) + 1, Len(t)) = <<>> /\ Len(t) + 1 \in 1 .. Len(t) + 1
  <2>1. Len(t) + 1 - 1 = Len(log) + 1 /\ Len(t) + 1 .. Len(t) = {}
    BY <1>5
  <2>2. t[Len(t) + 1 - 1].last
    BY <1>3, <1>5, <2>1
  <2> QED
    BY <1>5, <2>1, <2>2 DEF Pending
<1> HIDE DEF out
<1> QED
  BY <1>2, <1>9, <1>10, <1>11, <1>12, <1>13, <1>14 DEF CriInv, Reassembly

\* At the end of the file what is pending is given out as it is.
LEMMA EndStep == ASSUME CriInv, ReadEnd PROVE CriInv'
<1> DEFINE log == cri.log
           d == take_joined(cri)
<1>1. ~cri.eof /\ cri' = [d EXCEPT !.eof = TRUE] /\ Reassembly(cri)
  BY DEF ReadEnd, CriInv
<1>2. /\ cri.next \in [CriStreams -> Places] /\ Reached(log, cri.next) /\ Distinct(log) /\ log \in Seq(Fragments)
  BY DEF CriInv, Laid
<1>3. Laid(log, Given, Len(log) + 1) /\ Delivered(log, Given)
  BY <1>1, Flushed
<1>4. /\ Reassembly(d) /\ d.log = log /\ d.eof = cri.eof /\ d.next = cri.next /\ d.out = Given /\ d.parts = <<>>
  BY <1>1, JoinFacts DEF Given
<1> HIDE DEF d, log
<1>5. /\ Reassembly(cri') /\ cri'.log = log /\ cri'.eof /\ cri'.next = cri.next /\ cri'.out = Given /\ cri'.parts = <<>>
  BY <1>1, <1>4 DEF Reassembly
<1>6. SubSeq(log, Len(log) + 1, Len(log)) = <<>> /\ Len(log) + 1 \in 1 .. Len(log) + 1
  BY <1>2
<1> QED
  BY <1>2, <1>3, <1>5, <1>6 DEF CriInv, Reassembly

LEMMA CriMeans == CriInv => FragmentsConserved /\ LinesAreMessages
<1> SUFFICES ASSUME CriInv PROVE FragmentsConserved /\ LinesAreMessages
  OBVIOUS
<1>1. PICK p \in 1 .. Len(cri.log) + 1 :
        /\ Laid(cri.log, cri.out, p) /\ cri.parts = SubSeq(cri.log, p, Len(cri.log))
        /\ cri.eof => cri.parts = <<>>
  BY DEF CriInv
<1>2. \A n, i : Behind(cri.log, cri.out, n, i) <=> RightBehind(n, i)
  BY DEF Behind, RightBehind
<1>3. FragmentsConserved
  BY <1>1, <1>2 DEF FragmentsConserved, CriInv, Laid, Stretches, Distinct
<1>4. \A i, j : Uncut(cri.log, i, j) <=> Contiguous(i, j)
  BY DEF Uncut, Contiguous
<1>5. LinesAreMessages
  BY <1>1, <1>4 DEF LinesAreMessages, CriInv, Laid, OneMessage, Delivered
<1> QED
  BY <1>3, <1>5
-----------------------------------------------------------------------------
(***************************************************************************)
(* Text lines, timestamps and identifiers.                                 *)
(***************************************************************************)

\* The first place of a nonempty set of places is in it.
LEMMA FirstFacts ==
  ASSUME NEW S, S \subseteq Nat, S # {}
  PROVE  Min(S) \in S
<1>1. \E x \in S : \A y \in S : x <= y
  BY LeastOf
<1> QED
  BY <1>1 DEF Min

LEMMA StampPlace ==
  ASSUME NEW b \in Seq(TokenKinds), NEW n \in 0 .. Len(b)
  PROVE  /\ extract_timestamp(b, n) \in 0 .. Len(b)
         /\ n >= 1 /\ b[1] \in {"ts", "lts", "bts"} => extract_timestamp(b, n) # 0
<1> DEFINE iso == {i \in 1 .. n : b[i] \in {"ts", "lts", "bts"}}
           two == {i \in 1 .. n - 1 : b[i] = "day" /\ b[i + 1] = "clock"}
<1>1. extract_timestamp(b, n) = IF iso # {} THEN Min(iso) ELSE FirstPlace(two)
  BY DEF extract_timestamp
<1>2. iso \subseteq 1 .. Len(b) /\ two \subseteq 1 .. Len(b) /\ iso \subseteq Nat /\ two \subseteq Nat
  OBVIOUS
<1>3. iso # {} => Min(iso) \in iso
  BY <1>2, FirstFacts
<1>4. two # {} => Min(two) \in two
  BY <1>2, FirstFacts
<1>5. n >= 1 /\ b[1] \in {"ts", "lts", "bts"} => 1 \in iso
  OBVIOUS
<1> HIDE DEF iso, two
<1>6. 0 \in 0 .. Len(b) /\ \A x \in 1 .. Len(b) : x \in 0 .. Len(b) /\ x # 0
  OBVIOUS
<1>7. FirstPlace(two) = 0 \/ FirstPlace(two) \in 1 .. Len(b)
  <2>1. CASE two = {}
    BY <2>1 DEF FirstPlace
  <2>2. CASE two # {}
    <3>1. FirstPlace(two) = Min(two)
      BY <2>2 DEF FirstPlace
    <3> QED
      BY <1>2, <1>4, <2>2, <3>1, Zenon
  <2> QED
    BY <2>1, <2>2
<1>8. iso # {} => Min(iso) \in 1 .. Len(b)
  BY <1>2, <1>3, Zenon
<1> QED
  BY <1>1, <1>5, <1>6, <1>7, <1>8

\* Where a body is taken apart.
BodyParted(b, r, infer, unwrapped) ==
  LET levels == {i \in DOMAIN b : b[i] \in {"LVL", "blvl"}}
      lost == {i \in DOMAIN b : b[i] = "w"} \ ({r.stamp, r.level, r.service} \cup (r.message .. Len(b)))
  IN /\ lost \subseteq 1 .. 2
     /\ lost # {} => r.stamp # 0 \/ r.level \in 2 .. 3
     /\ levels = {1} /\ r.stamp = 0 /\ ~unwrapped => r.message = 1
     /\ ~infer => r.service = 0

LEMMA BodyFacts ==
  ASSUME NEW b \in Seq(TokenKinds), b # <<>>, NEW infer \in BOOLEAN, NEW unwrapped \in BOOLEAN
  PROVE  BodyParted(b, parse_body(b, infer, unwrapped), infer, unwrapped)
<1> DEFINE m == IF infer THEN LevelAfterStamp(b, 2) ELSE 0
           tl == IF infer THEN 0 ELSE LevelAfterStamp(b, 1)
           stamp == extract_timestamp(b, Len(b))
           levels == {i \in DOMAIN b : b[i] \in {"LVL", "blvl"}}
           r == parse_body(b, infer, unwrapped)
<1>1. Len(b) \in Nat \ {0} /\ DOMAIN b = 1 .. Len(b)
  OBVIOUS
<1>2. /\ m \in {0, 2, 3} /\ (m # 0 => infer /\ Len(b) >= m + 2 /\ b[m] = "LVL")
      /\ tl \in {0, 2, 3} /\ (tl # 0 => ~infer /\ Len(b) >= tl + 1 /\ b[tl] = "LVL")
  BY DEF LevelAfterStamp
<1>3. stamp \in 0 .. Len(b)
  BY <1>1, StampPlace
<1>4. message_start(b, stamp) \in 1 .. 3 /\ (stamp = 0 => message_start(b, stamp) = 1)
  BY <1>1 DEF message_start
<1> HIDE DEF m, tl, stamp
<1>5. CASE m # 0
  <2>1. r = Fields(extract_timestamp(b, m - 1), m, m + 1, m + 2)
    BY <1>5 DEF parse_body, m
  <2>2. r.level = m /\ r.service = m + 1 /\ r.message = m + 2
    BY <2>1 DEF Fields
  <2>3. m \in levels /\ m # 1
    BY <1>1, <1>2, <1>5
  <2> HIDE DEF r
  <2>4. \A i \in DOMAIN b : i \in {r.stamp, r.level, r.service} \cup (r.message .. Len(b)) \/ i \in 1 .. 2
    BY <1>1, <1>2, <1>5, <2>2
  <2>5. r.level \in 2 .. 3 /\ levels # {1} /\ infer
    BY <1>2, <1>5, <2>2, <2>3
  <2> QED
    BY <2>4, <2>5 DEF BodyParted, r
<1>6. CASE m = 0 /\ level_service(infer, unwrapped, b)
  <2>1. r = Fields(0, 1, 2, 3)
    BY <1>6 DEF parse_body, m
  <2>2. r.stamp = 0 /\ r.level = 1 /\ r.service = 2 /\ r.message = 3
    BY <2>1 DEF Fields
  <2>3. infer /\ unwrapped
    BY <1>6 DEF level_service
  <2> HIDE DEF r
  <2> QED
    BY <1>1, <2>2, <2>3 DEF BodyParted, r
<1>7. CASE m = 0 /\ ~level_service(infer, unwrapped, b) /\ tl # 0
  <2>1. r = Fields(extract_timestamp(b, tl - 1), tl, 0, tl + 1)
    BY <1>7 DEF parse_body, m, tl
  <2>2. r.level = tl /\ r.service = 0 /\ r.message = tl + 1
    BY <2>1 DEF Fields
  <2>3. levels # {1}
    BY <1>1, <1>2, <1>7
  <2> HIDE DEF r
  <2> QED
    BY <1>1, <1>2, <1>7, <2>2, <2>3 DEF BodyParted, r
<1>8. CASE /\ m = 0 /\ ~level_service(infer, unwrapped, b) /\ tl = 0
           /\ Len(b) >= 3 /\ b[1] = "bts" /\ b[2] \in {"LVL", "blvl"}
  <2>1. r = Fields(1, 2, 0, 3)
    BY <1>8 DEF parse_body, m, tl
  <2>2. r.stamp = 1 /\ r.level = 2 /\ r.service = 0 /\ r.message = 3
    BY <2>1 DEF Fields
  <2> HIDE DEF r
  <2> QED
    BY <1>1, <2>2 DEF BodyParted, r
<1>9. CASE /\ m = 0 /\ ~level_service(infer, unwrapped, b) /\ tl = 0
           /\ ~(Len(b) >= 3 /\ b[1] = "bts" /\ b[2] \in {"LVL", "blvl"})
  <2>1. r = Fields(stamp, FirstPlace(levels), 0, message_start(b, stamp))
    BY <1>9 DEF parse_body, m, tl, stamp
  <2>2. r.stamp = stamp /\ r.service = 0 /\ r.message = message_start(b, stamp)
    BY <2>1 DEF Fields
  <2> HIDE DEF r
  <2> QED
    BY <1>1, <1>3, <1>4, <2>2 DEF BodyParted, r
<1> QED
  BY <1>5, <1>6, <1>7, <1>8, <1>9

LEMMA WordsKept ==
  ASSUME NEW wraps \in Wrappings, NEW body \in Bodies, ParseText(wraps, body)
  PROVE  WordsSurvive'
<1> DEFINE blank == body = <<>>
           b == IF blank THEN <<"lts", "w", "w">> ELSE body
           w == IF blank THEN <<>> ELSE wraps
           infer == ~Contains(w, "prefix")
           unwrapped == w # <<>> /\ Last(w) = "cri"
           r == parse_body(b, infer, unwrapped)
           levels == {i \in DOMAIN b : b[i] \in {"LVL", "blvl"}}
           words == {i \in DOMAIN b : b[i] = "w"}
           stamped == IF r.stamp # 0 THEN "own" ELSE IF Contains(w, "cri") THEN "cri" ELSE "none"
<1>1. /\ parsed'.what = "text" /\ parsed'.wraps = wraps /\ parsed'.body = b /\ parsed'.fields = r
      /\ parsed'.stamped = stamped
  BY DEF ParseText, parse_text_line
<1>2. b \in Seq(TokenKinds) /\ b # <<>>
  <2>1. <<"lts", "w", "w">> \in Seq(TokenKinds) /\ <<"lts", "w", "w">> # <<>>
    <3>1. ASSUME NEW S, NEW x \in S, NEW y \in S PROVE <<x, y, y>> \in Seq(S) /\ <<x, y, y>> # <<>>
      OBVIOUS
    <3>2. "lts" \in TokenKinds /\ "w" \in TokenKinds
      BY DEF TokenKinds
    <3> QED
      BY <3>1, <3>2
  <2> QED
    BY <2>1, ParsingConstants
<1>3. /\ ~Contains(wraps, "cri") => ~unwrapped /\ ~blank
      /\ Contains(wraps, "prefix") => ~infer
  <2>1. blank => wraps = <<"cri">>
    BY DEF ParseText
  <2>2. Contains(<<"cri">>, "cri") /\ ~Contains(<<"cri">>, "prefix") /\ ~Contains(<<>>, "cri")
    BY DEF Contains
  <2>3. wraps # <<>> /\ Last(wraps) = "cri" => Contains(wraps, "cri")
    BY DEF Wrappings, Contains, Last
  <2> QED
    BY <2>1, <2>2, <2>3
<1>4. infer \in BOOLEAN /\ unwrapped \in BOOLEAN
  OBVIOUS
<1> HIDE DEF b, infer, unwrapped, w, blank
<1>5. BodyParted(b, r, infer, unwrapped)
  BY <1>2, <1>4, BodyFacts
<1>6. /\ words \ ({r.stamp, r.level, r.service} \cup (r.message .. Len(b))) \subseteq 1 .. 2
      /\ words \ ({r.stamp, r.level, r.service} \cup (r.message .. Len(b))) # {} => r.stamp # 0 \/ r.level \in 2 .. 3
      /\ levels = {1} /\ r.stamp = 0 /\ ~unwrapped => r.message = 1
      /\ ~infer => r.service = 0
  BY <1>5 DEF BodyParted
<1>7. stamped # "own" => r.stamp = 0
  OBVIOUS
<1>8. words \subseteq 1 .. Len(b)
  BY <1>2
<1> HIDE DEF r, stamped
<1>9. Words(parsed)' = words /\ Kept(parsed)' = {r.stamp, r.level, r.service} \cup (r.message .. Len(b))
  BY <1>1 DEF Words, Kept
<1> HIDE DEF words
<1>10. {i \in DOMAIN parsed'.body : parsed'.body[i] \in {"LVL", "blvl"}} = levels
  BY <1>1
<1> HIDE DEF levels
<1> QED
  BY <1>1, <1>3, <1>6, <1>7, <1>8, <1>9, <1>10 DEF WordsSurvive

\* Dividing by a thousand takes exactly the numbers below a thousand times the
\* greatest result, and its remainders, to results that are not too great.
LEMMA Thousandth ==
  ASSUME NEW n \in Nat, NEW top \in Nat
  PROVE  n \div 1000 <= top <=> n <= 1000 * top + 999
  OBVIOUS

LEMMA StampsKept ==
  ASSUME NEW v \in StampValues, ParseStamp(v)
  PROVE  StampsAgree'
<1>1. parsed'.what = "stamp" /\ parsed'.value = v /\ parsed'.at = parse_timestamp_field(v)
  BY DEF ParseStamp
<1>2. v.n \in Nat
  BY ParsingConstants
<1>3. CASE ~(v.form = "digits" /\ v.n \in CalendarDigits)
  <2> DEFINE n == v.n
             s == IF n > MsCut THEN n \div 1000 ELSE n
  <2>1. parse_timestamp_field(v) = IF s <= MaxSeconds THEN s ELSE NoStamp
    BY <1>3 DEF parse_timestamp_field, from_number
  <2> HIDE DEF n
  <2>2. n \in Nat
    BY <1>2 DEF n
  <2>3. (IF s <= MaxSeconds THEN s ELSE NoStamp)
          = IF n \in MsCut + 1 .. 1000 * MaxSeconds + 999 THEN n \div 1000
            ELSE IF n <= MaxSeconds THEN n ELSE NoStamp
    <3>1. MsCut \in Nat /\ MaxSeconds \in Nat /\ MaxSeconds < MsCut
      BY SMT DEF MsCut, MaxSeconds
    <3>2. n \div 1000 <= MaxSeconds <=> n <= 1000 * MaxSeconds + 999
      BY <2>2, <3>1, Thousandth
    <3>3. n \in MsCut + 1 .. 1000 * MaxSeconds + 999 <=> n > MsCut /\ n <= 1000 * MaxSeconds + 999
      BY <2>2, <3>1
    <3>4. n > MsCut => ~(n <= MaxSeconds)
      BY <2>2, <3>1
    <3> QED
      BY <3>2, <3>3, <3>4
  <2> HIDE DEF s
  <2>4. parsed'.at = IF n \in MsCut + 1 .. 1000 * MaxSeconds + 999 THEN n \div 1000
                     ELSE IF n <= MaxSeconds THEN n ELSE NoStamp
    BY <1>1, <2>1, <2>3
  <2> QED
    BY <1>1, <2>4 DEF StampsAgree, n
<1>4. CASE v.form = "digits" /\ v.n \in CalendarDigits
  BY <1>1, <1>4 DEF StampsAgree
<1> QED
  BY <1>3, <1>4

LEMMA FormsKept ==
  ASSUME NEW id \in Identifiers, NormalizeId(id)
  PROVE  IdFormsAreFew'
<1> DEFINE least == IF id.keyword THEN 1 ELSE 5
           form == normalize_id(id)
           alike == {normalize_id([id EXCEPT !.len = n]) : n \in least .. 31}
           by(l) == normalize_id([id EXCEPT !.letters = l])
<1>1. parsed'.what = "id" /\ parsed'.id = id /\ parsed'.form = form
  BY DEF NormalizeId
<1>2. id = [letters |-> id.letters, keyword |-> id.keyword, len |-> id.len] /\ id.len \in Nat /\ id.letters \in BOOLEAN
  BY ParsingConstants DEF Identifiers
<1>3. ASSUME ~id.letters, id.len \in least .. 31
      PROVE  alike = {form}
  <2> DEFINE common == IF id.keyword THEN "<id>" ELSE "<num>"
  <2>1. ASSUME NEW n \in least .. 31
        PROVE  normalize_id([id EXCEPT !.len = n]) = common
    <3> DEFINE other == [id EXCEPT !.len = n]
    <3>1. other.letters = id.letters /\ other.keyword = id.keyword /\ other.len = n
      BY <1>2
    <3>2. n \in Nat /\ ~(n >= 32) /\ (~id.keyword => n >= 5)
      OBVIOUS
    <3> HIDE DEF other, least
    <3>3. ASSUME id.keyword PROVE normalize_id(other) = "<id>"
      <4>1. ~other.letters /\ other.keyword
        BY <1>3, <3>1, <3>3, Zenon
      <4>2. ~(other.len >= 32)
        BY <3>1, <3>2, Zenon
      <4> QED
        BY <4>1, <4>2, Zenon DEF normalize_id
    <3>4. ASSUME ~id.keyword PROVE normalize_id(other) = "<num>"
      BY <1>3, <3>1, <3>2, <3>4 DEF normalize_id
    <3>5. normalize_id(other) = common
      BY <3>3, <3>4
    <3> HIDE DEF common
    <3> QED
      BY <3>5 DEF other
  <2>2. [id EXCEPT !.len = id.len] = id
    BY <1>2
  <2>3. form = common
    BY <1>3, <2>1, <2>2
  <2> HIDE DEF form, common, least
  <2>4. alike = {normalize_id([id EXCEPT !.len = n]) : n \in least .. 31}
    OBVIOUS
  <2> HIDE DEF alike
  <2>5. \A x : x \in alike <=> x = common
    BY <1>3, <2>1, <2>4
  <2> QED
    BY <2>3, <2>5
<1>4. Cardinality({by(l) : l \in BOOLEAN} \cup {form}) <= 2
  <2>1. form = by(TRUE) \/ form = by(FALSE)
    <3>1. [id EXCEPT !.letters = id.letters] = id
      BY <1>2
    <3>2. id.letters = TRUE \/ id.letters = FALSE
      BY <1>2
    <3> QED
      BY <3>1, <3>2
  <2> DEFINE T == {by(TRUE)} \cup {by(FALSE)}
  <2>2. {by(l) : l \in BOOLEAN} \cup {form} = T
    BY <2>1
  <2>3. /\ IsFiniteSet({by(TRUE)}) /\ Cardinality({by(TRUE)}) = 1
        /\ IsFiniteSet({by(FALSE)}) /\ Cardinality({by(FALSE)}) = 1
    BY FS_Singleton
  <2>4. /\ IsFiniteSet({by(TRUE)} \cap {by(FALSE)})
        /\ Cardinality(T) = Cardinality({by(TRUE)}) + Cardinality({by(FALSE)}) - Cardinality({by(TRUE)} \cap {by(FALSE)})
    BY <2>3, FS_Union, FS_Intersection
  <2>5. Cardinality({by(TRUE)} \cap {by(FALSE)}) \in Nat
    BY <2>4, FS_CardinalityType
  <2> HIDE DEF by, T, form
  <2>6. Cardinality(T) <= 2
    BY <2>3, <2>4, <2>5
  <2> QED
    BY <2>2, <2>6
<1> QED
  BY <1>1, <1>3, <1>4 DEF IdFormsAreFew
-----------------------------------------------------------------------------
LEMMA ParsingStart == ParsingInit => CriInv /\ ParsedInv
<1> SUFFICES ASSUME ParsingInit PROVE CriInv /\ ParsedInv
  OBVIOUS
<1>1. cri.log = <<>> /\ cri.parts = <<>> /\ cri.out = <<>> /\ ~cri.eof /\ Reassembly(cri)
  BY DEF ParsingInit, Reassembly
<1>2. cri.next \in [CriStreams -> Places]
  BY DEF ParsingInit, Places
<1>3. Laid(cri.log, cri.out, 1) /\ Pending(cri.log, cri.next, 1) /\ SubSeq(cri.log, 1, Len(cri.log)) = <<>>
  BY <1>1 DEF Laid, Stretches, Behind, Pending
<1>4. Reached(cri.log, cri.next) /\ Distinct(cri.log) /\ Delivered(cri.log, cri.out) /\ 1 \in 1 .. Len(cri.log) + 1
  BY <1>1 DEF Reached, Distinct, Delivered
<1>5. CriInv
  BY <1>1, <1>2, <1>3, <1>4 DEF CriInv
<1>6. ParsedInv
  BY DEF ParsingInit, Idle, ParsedInv, WordsSurvive, StampsAgree, IdFormsAreFew
<1> QED
  BY <1>5, <1>6

\* One text line, number or identifier is handled at a time.
LEMMA HandledStep ==
  ASSUME \/ \E wraps \in Wrappings, b \in Bodies : ParseText(wraps, b)
         \/ \E v \in StampValues : ParseStamp(v)
         \/ \E id \in Identifiers : NormalizeId(id)
  PROVE  ParsedInv' /\ UNCHANGED cri
<1>1. CASE \E wraps \in Wrappings, b \in Bodies : ParseText(wraps, b)
  <2>1. parsed'.what = "text" /\ WordsSurvive' /\ UNCHANGED cri
    BY <1>1, WordsKept DEF ParseText, parse_text_line
  <2> QED
    BY <2>1 DEF ParsedInv, StampsAgree, IdFormsAreFew
<1>2. CASE \E v \in StampValues : ParseStamp(v)
  <2>1. parsed'.what = "stamp" /\ StampsAgree' /\ UNCHANGED cri
    BY <1>2, StampsKept DEF ParseStamp
  <2> QED
    BY <2>1 DEF ParsedInv, WordsSurvive, IdFormsAreFew
<1>3. CASE \E id \in Identifiers : NormalizeId(id)
  <2>1. parsed'.what = "id" /\ IdFormsAreFew' /\ UNCHANGED cri
    BY <1>3, FormsKept DEF NormalizeId
  <2> QED
    BY <2>1 DEF ParsedInv, WordsSurvive, StampsAgree
<1> QED
  BY <1>1, <1>2, <1>3

LEMMA ParsingStep == CriInv /\ ParsedInv /\ [ParsingNext]_parsingVars => CriInv' /\ ParsedInv'
<1> SUFFICES ASSUME CriInv, ParsedInv, [ParsingNext]_parsingVars PROVE CriInv' /\ ParsedInv'
  OBVIOUS
<1>1. ASSUME UNCHANGED parsed PROVE ParsedInv'
  <2>1. WordsSurvive'
    BY <1>1 DEF ParsedInv, WordsSurvive
  <2>2. StampsAgree'
    BY <1>1 DEF ParsedInv, StampsAgree
  <2>3. IdFormsAreFew'
    BY <1>1, Zenon DEF ParsedInv, IdFormsAreFew
  <2> QED
    BY <2>1, <2>2, <2>3 DEF ParsedInv
<1>2. ASSUME UNCHANGED cri PROVE CriInv'
  BY <1>2 DEF CriInv, Reassembly
<1>3. CASE (\E s \in CriStreams, tag \in {"P", "F"} : ReadRecord(s, tag)) \/ ReadPlain \/ ReadEnd
  <2>1. CriInv'
    BY <1>3, ReadStep, PlainStep, EndStep
  <2>2. UNCHANGED parsed
    BY <1>3 DEF ReadRecord, ReadPlain, ReadEnd
  <2> QED
    BY <1>1, <2>1, <2>2
<1>4. CASE UNCHANGED parsingVars
  BY <1>1, <1>2, <1>4 DEF parsingVars
<1>5. CASE \/ \E wraps \in Wrappings, b \in Bodies : ParseText(wraps, b)
           \/ \E v \in StampValues : ParseStamp(v)
           \/ \E id \in Identifiers : NormalizeId(id)
  BY <1>2, <1>5, HandledStep
<1> QED
  BY <1>3, <1>4, <1>5 DEF ParsingNext

\* A message comes through to a stored line, for any interleaving of the streams of
\* a file and any text line, number and identifier (_reassemble_cri_fragments,
\* parse_text_line, parse_timestamp_field, normalize_message).
THEOREM ParsingRight == ParsingSpec => []MessagesComeThrough
<1>1. CriInv /\ ParsedInv => MessagesComeThrough
  BY CriMeans DEF ParsedInv, MessagesComeThrough
<1> QED
  BY <1>1, ParsingStart, ParsingStep, PTL DEF ParsingSpec
-----------------------------------------------------------------------------
(* Sums.                                                                   *)

\* Among subsets of a finite set there is one of which no proper part is another.
LEMMA LeastSubset ==
  ASSUME NEW S, IsFiniteSet(S), NEW F, F \subseteq SUBSET S, F # {}
  PROVE  \E T \in F : \A x \in T : T \ {x} \notin F
<1> DEFINE N == {Cardinality(T) : T \in F}
<1>1. \A T \in F : IsFiniteSet(T) /\ Cardinality(T) \in Nat
  BY FS_Subset, FS_CardinalityType
<1>2. N \subseteq Nat /\ N # {}
  BY <1>1
<1>3. PICK n \in N : \A k \in N : n <= k
  <2> HIDE DEF N
  <2> QED
    BY <1>2, LeastOf
<1>4. PICK T \in F : Cardinality(T) = n
  OBVIOUS
<1>5. ASSUME NEW x \in T, T \ {x} \in F PROVE FALSE
  <2>1. Cardinality(T \ {x}) = Cardinality(T) - 1
    BY <1>1, FS_RemoveElement
  <2>2. Cardinality(T \ {x}) \in N
    BY <1>5
  <2>3. n <= Cardinality(T) - 1 /\ Cardinality(T) \in Nat
    BY <1>1, <1>3, <2>1, <2>2
  <2> QED
    BY <1>4, <2>3
<1> QED
  BY <1>5

\* The recursion by which the community modules sum a function over the subsets
\* of S: of each, a chosen member and the rest.
Sums(f, S, g) ==
  g = [s \in SUBSET S |-> IF s = {} THEN 0
                          ELSE LET x == CHOOSE x \in s : TRUE IN f[x] + g[s \ {x}]]

OneOf(s) == CHOOSE x \in s : TRUE

SumSteps(f, S, g) ==
  /\ g[{}] = 0
  /\ \A s \in SUBSET S : s # {} => OneOf(s) \in s /\ g[s] = f[OneOf(s)] + g[s \ {OneOf(s)}]

LEMMA SumsAt == ASSUME NEW f, NEW S, NEW g, Sums(f, S, g) PROVE SumSteps(f, S, g)
<1>1. g = [s \in SUBSET S |-> IF s = {} THEN 0 ELSE f[OneOf(s)] + g[s \ {OneOf(s)}]]
  BY DEF Sums, OneOf
<1>2. \A s : s # {} => OneOf(s) \in s
  BY DEF OneOf
<1> QED
  BY <1>1, <1>2 DEF SumSteps

LEMMA SumsAgree ==
  ASSUME NEW f, NEW S, NEW g, Sums(f, S, g), NEW h, NEW T, NEW k, Sums(h, T, k),
         NEW A, IsFiniteSet(A), A \subseteq S, A \subseteq T, \A x \in A : f[x] = h[x]
  PROVE  g[A] = k[A]
<1> DEFINE F == {s \in SUBSET A : g[s] # k[s]}
<1>1. SUFFICES ASSUME F # {} PROVE FALSE
  OBVIOUS
<1>2. PICK s \in F : \A x \in s : s \ {x} \notin F
  <2>1. F \subseteq SUBSET A
    OBVIOUS
  <2> HIDE DEF F
  <2> QED
    BY <1>1, <2>1, LeastSubset
<1>3. /\ g[{}] = 0 /\ k[{}] = 0
      /\ s # {} => OneOf(s) \in s /\ g[s] = f[OneOf(s)] + g[s \ {OneOf(s)}] /\ k[s] = h[OneOf(s)] + k[s \ {OneOf(s)}]
  <2>1. SumSteps(f, S, g) /\ SumSteps(h, T, k) /\ s \subseteq S /\ s \subseteq T
    BY <1>2, SumsAt
  <2> QED
    BY <2>1 DEF SumSteps
<1>4. s # {}
  BY <1>2, <1>3
<1>5. g[s \ {OneOf(s)}] = k[s \ {OneOf(s)}] /\ f[OneOf(s)] = h[OneOf(s)]
  BY <1>2, <1>3, <1>4
<1> QED
  BY <1>2, <1>3, <1>4, <1>5

LEMMA SumsExist ==
  ASSUME NEW f, NEW S, IsFiniteSet(S)
  PROVE  \E g : Sums(f, S, g)
<1> DEFINE F == {T \in SUBSET S : ~\E g : Sums(f, T, g)}
<1>1. SUFFICES ASSUME F # {} PROVE FALSE
  OBVIOUS
<1>2. PICK T \in F : \A x \in T : T \ {x} \notin F
  <2>1. F \subseteq SUBSET S
    OBVIOUS
  <2> HIDE DEF F
  <2> QED
    BY <1>1, <2>1, LeastSubset
<1> DEFINE G(x) == CHOOSE g : Sums(f, T \ {x}, g)
           g == [s \in SUBSET T |-> IF s = {} THEN 0 ELSE f[OneOf(s)] + G(OneOf(s))[s \ {OneOf(s)}]]
<1>3. \A x \in T : Sums(f, T \ {x}, G(x))
  <2> SUFFICES ASSUME NEW x \in T PROVE Sums(f, T \ {x}, G(x))
    OBVIOUS
  <2>1. \E k : Sums(f, T \ {x}, k)
    BY <1>2
  <2> QED
    BY <2>1
<1> HIDE DEF G
<1>4. \A s : s # {} => OneOf(s) \in s
  BY DEF OneOf
<1>5. \A s \in SUBSET T : IsFiniteSet(s)
  BY FS_Subset
<1>6. ASSUME NEW s \in SUBSET T, s # {} PROVE g[s \ {OneOf(s)}] = G(OneOf(s))[s \ {OneOf(s)}]
  <2> DEFINE x == OneOf(s)
             r == s \ {x}
             y == OneOf(r)
  <2>1. x \in T /\ r \in SUBSET T /\ r \in SUBSET (T \ {x}) /\ Sums(f, T \ {x}, G(x))
    BY <1>3, <1>4, <1>6
  <2>2. CASE r = {}
    <3>1. g[r] = 0
      BY <2>1, <2>2
    <3>2. G(x)[{}] = 0
      BY <2>1, SumsAt DEF SumSteps
    <3> QED
      BY <2>2, <3>1, <3>2
  <2>3. CASE r # {}
    <3> HIDE DEF r, x
    <3>1. y \in r /\ y \in T /\ Sums(f, T \ {y}, G(y))
      BY <1>3, <1>4, <2>1, <2>3
    <3>2. g[r] = f[y] + G(y)[r \ {y}]
      BY <2>1, <2>3
    <3>3. G(x)[r] = f[y] + G(x)[r \ {y}]
      <4>1. \A z \in SUBSET (T \ {x}) : z # {} => G(x)[z] = f[OneOf(z)] + G(x)[z \ {OneOf(z)}]
        <5>1. SumSteps(f, T \ {x}, G(x))
          BY <2>1, SumsAt
        <5> QED
          BY <5>1 DEF SumSteps
      <4> QED
        BY <2>1, <2>3, <4>1
    <3> HIDE DEF y, g
    <3>4. r \ {y} \subseteq T \ {x} /\ r \ {y} \subseteq T \ {y} /\ IsFiniteSet(r \ {y})
      BY <1>5, <2>1
    <3>5. G(y)[r \ {y}] = G(x)[r \ {y}]
      BY <2>1, <3>1, <3>4, SumsAgree
    <3> QED
      BY <3>2, <3>3, <3>5 DEF r, x
  <2> QED
    BY <2>2, <2>3
<1>7. g = [s \in SUBSET T |-> IF s = {} THEN 0 ELSE f[OneOf(s)] + g[s \ {OneOf(s)}]]
  <2> DEFINE g2 == [s \in SUBSET T |-> IF s = {} THEN 0 ELSE f[OneOf(s)] + g[s \ {OneOf(s)}]]
  <2>1. \A s \in SUBSET T : g[s] = g2[s]
    BY <1>6
  <2> QED
    BY <2>1
<1>8. Sums(f, T, g)
  <2> HIDE DEF g
  <2> QED
    BY <1>7 DEF Sums, OneOf
<1> QED
  BY <1>2, <1>8

\* What the community modules' sum of a function is, step by step.
LEMMA SumIs ==
  ASSUME NEW f, IsFiniteSet(DOMAIN f)
  PROVE  \E g : Sums(f, DOMAIN f, g) /\ SumFunction(f) = g[DOMAIN f]
<1>1. SumFunction(f) = (CHOOSE g : Sums(f, DOMAIN f, g))[DOMAIN f]
  BY Zenon DEF SumFunction, SumFunctionOnSet, FoldFunctionOnSet, MapThenFoldSet, Sums
<1>2. \E g : Sums(f, DOMAIN f, g)
  BY SumsExist
<1> QED
  BY <1>1, <1>2

Part(f, A) == [x \in A |-> f[x]]

LEMMA SumsType ==
  ASSUME NEW S, IsFiniteSet(S), NEW f, NEW g, Sums(f, S, g)
  PROVE  /\ (\A x \in S : f[x] \in Int) => \A s \in SUBSET S : g[s] \in Int
         /\ (\A x \in S : f[x] \in Nat) => \A s \in SUBSET S : g[s] \in Nat
<1>0. \A r \in SUBSET S : r # {} => OneOf(r) \in r /\ g[r] = f[OneOf(r)] + g[r \ {OneOf(r)}]
  <2>1. SumSteps(f, S, g)
    BY SumsAt
  <2> QED
    BY <2>1 DEF SumSteps
<1>1. ASSUME NEW V \in {Int, Nat}, \A x \in S : f[x] \in V, NEW s0 \in SUBSET S, g[s0] \notin V PROVE FALSE
  <2> DEFINE F == {s \in SUBSET S : g[s] \notin V}
  <2>1. PICK s \in F : \A x \in s : s \ {x} \notin F
    <3>1. F \subseteq SUBSET S /\ F # {}
      BY <1>1
    <3> HIDE DEF F
    <3> QED
      BY <3>1, LeastSubset
  <2>2. s \in SUBSET S /\ g[s] \notin V /\ 0 \in V
    OBVIOUS
  <2>3. \A x \in s : g[s \ {x}] \in V
    BY <2>1
  <2> HIDE DEF F
  <2>4. s # {}
    BY <2>2, SumsAt DEF SumSteps
  <2>5. OneOf(s) \in s /\ g[s] = f[OneOf(s)] + g[s \ {OneOf(s)}]
    BY <1>0, <2>2, <2>4
  <2>6. f[OneOf(s)] \in V /\ g[s \ {OneOf(s)}] \in V
    BY <1>1, <2>2, <2>3, <2>5
  <2>7. V = Int \/ V = Nat
    BY <1>1
  <2> QED
    BY <2>2, <2>5, <2>6, <2>7
<1> QED
  BY <1>1

\* Any member may be taken out first.
LEMMA SumsTake ==
  ASSUME NEW S, IsFiniteSet(S), NEW f, \A x \in S : f[x] \in Int, NEW g, Sums(f, S, g)
  PROVE  \A s \in SUBSET S : \A x \in s : g[s] = f[x] + g[s \ {x}]
<1> DEFINE Fits(s) == \A x \in s : g[s] = f[x] + g[s \ {x}]
           F == {s \in SUBSET S : ~Fits(s)}
<1>0. \A s \in SUBSET S : g[s] \in Int
  BY SumsType
<1>9. \A r \in SUBSET S : r # {} => OneOf(r) \in r /\ g[r] = f[OneOf(r)] + g[r \ {OneOf(r)}]
  <2>1. SumSteps(f, S, g)
    BY SumsAt
  <2> QED
    BY <2>1 DEF SumSteps
<1>1. SUFFICES ASSUME F # {} PROVE FALSE
  OBVIOUS
<1>2. PICK s \in F : \A x \in s : s \ {x} \notin F
  <2>1. F \subseteq SUBSET S
    OBVIOUS
  <2> HIDE DEF F
  <2> QED
    BY <1>1, <2>1, LeastSubset
<1>3. s \in SUBSET S /\ ~Fits(s)
  OBVIOUS
<1>4. \A x \in s : Fits(s \ {x})
  BY <1>2
<1> HIDE DEF F
<1>5. s # {}
  BY <1>3
<1> DEFINE c == OneOf(s)
<1>6. c \in s /\ g[s] = f[c] + g[s \ {c}]
  BY <1>3, <1>5, <1>9
<1> HIDE DEF c
<1>8. ASSUME NEW x \in s, x # c PROVE g[s] = f[x] + g[s \ {x}]
  <2>1. x \in s \ {c} /\ c \in s \ {x} /\ (s \ {c}) \ {x} = (s \ {x}) \ {c}
    BY <1>6, <1>8
  <2>2. /\ g[s \ {c}] = f[x] + g[(s \ {c}) \ {x}] /\ g[s \ {x}] = f[c] + g[(s \ {x}) \ {c}]
    BY <1>4, <1>6, <2>1
  <2> DEFINE r == g[(s \ {x}) \ {c}]
  <2>3. r \in Int /\ f[c] \in Int /\ f[x] \in Int
    BY <1>0, <1>3, <1>6
  <2>4. g[s \ {c}] = f[x] + r /\ g[s \ {x}] = f[c] + r
    BY <2>1, <2>2
  <2> HIDE DEF r
  <2> QED
    BY <1>6, <2>3, <2>4
<1> QED
  BY <1>3, <1>6, <1>8
-----------------------------------------------------------------------------
\* What a sum is, whatever the order it is taken in.
LEMMA SumEmpty == ASSUME NEW f, DOMAIN f = {} PROVE SumFunction(f) = 0
<1>1. IsFiniteSet(DOMAIN f)
  BY FS_EmptySet
<1> QED
  BY <1>1, SumIs, SumsAt DEF SumSteps

LEMMA SumType ==
  ASSUME NEW S, IsFiniteSet(S), NEW f
  PROVE  /\ f \in [S -> Int] => SumFunction(f) \in Int
         /\ f \in [S -> Nat] => SumFunction(f) \in Nat
<1>1. ASSUME DOMAIN f = S PROVE \E g : Sums(f, S, g) /\ SumFunction(f) = g[S]
  BY <1>1, SumIs
<1> QED
  BY <1>1, SumsType

LEMMA SumTake ==
  ASSUME NEW S, IsFiniteSet(S), NEW f \in [S -> Int], NEW x \in S
  PROVE  SumFunction(f) = f[x] + SumFunction(Part(f, S \ {x}))
<1> DEFINE h == Part(f, S \ {x})
<1>1. DOMAIN f = S /\ DOMAIN h = S \ {x} /\ \A y \in S \ {x} : f[y] = h[y]
  BY DEF Part
<1>2. IsFiniteSet(S \ {x})
  BY FS_Subset
<1>3. PICK g : Sums(f, S, g) /\ SumFunction(f) = g[S]
  BY <1>1, SumIs
<1> HIDE DEF h
<1>4. PICK k : Sums(h, S \ {x}, k) /\ SumFunction(h) = k[S \ {x}]
  BY <1>1, <1>2, SumIs
<1>5. g[S] = f[x] + g[S \ {x}]
  BY <1>3, SumsTake
<1>6. g[S \ {x}] = k[S \ {x}]
  BY <1>1, <1>2, <1>3, <1>4, SumsAgree
<1> QED
  BY <1>3, <1>4, <1>5, <1>6 DEF h

\* A sum may be taken in two parts.
LEMMA SumSplit ==
  ASSUME NEW S, IsFiniteSet(S), NEW f \in [S -> Int], NEW A, A \subseteq S
  PROVE  SumFunction(f) = SumFunction(Part(f, A)) + SumFunction(Part(f, S \ A))
<1> DEFINE Splits(T) == SumFunction(Part(f, A \cup T)) = SumFunction(Part(f, A)) + SumFunction(Part(f, T))
           F == {T \in SUBSET (S \ A) : ~Splits(T)}
<1>1. ASSUME F # {} PROVE FALSE
  <2>1. PICK T \in F : \A x \in T : T \ {x} \notin F
    <3>1. F \subseteq SUBSET S /\ F # {}
      BY <1>1
    <3> HIDE DEF F
    <3> QED
      BY <3>1, LeastSubset
  <2>2. T \in SUBSET (S \ A) /\ ~Splits(T)
    OBVIOUS
  <2>3. \A x \in T : Splits(T \ {x})
    BY <2>1
  <2> HIDE DEF F
  <2>4. \A U \in SUBSET S : /\ Part(f, U) \in [U -> Int] /\ IsFiniteSet(U) /\ SumFunction(Part(f, U)) \in Int
                            /\ \A x \in U : Part(f, U)[x] = f[x] /\ f[x] \in Int
                            /\ \A x \in U : Part(Part(f, U), U \ {x}) = Part(f, U \ {x})
    <3> SUFFICES ASSUME NEW U \in SUBSET S
                 PROVE  /\ Part(f, U) \in [U -> Int] /\ IsFiniteSet(U) /\ SumFunction(Part(f, U)) \in Int
                        /\ \A x \in U : Part(f, U)[x] = f[x] /\ f[x] \in Int
                        /\ \A x \in U : Part(Part(f, U), U \ {x}) = Part(f, U \ {x})
      OBVIOUS
    <3>1. Part(f, U) \in [U -> Int] /\ IsFiniteSet(U)
      BY FS_Subset DEF Part
    <3>2. SumFunction(Part(f, U)) \in Int
      BY <3>1, SumType
    <3> QED
      BY <3>1, <3>2 DEF Part
  <2>5. CASE T = {}
    <3>1. SumFunction(Part(f, T)) = 0
      BY <2>5, SumEmpty DEF Part
    <3>2. A \cup T = A /\ SumFunction(Part(f, A)) \in Int
      BY <2>4, <2>5
    <3> DEFINE u == SumFunction(Part(f, A))
    <3>3. SumFunction(Part(f, A \cup T)) = u /\ u \in Int
      BY <3>2
    <3> HIDE DEF u
    <3>4. SumFunction(Part(f, A \cup T)) = u + 0
      BY <3>3
    <3> QED
      BY <2>2, <3>1, <3>4 DEF u
  <2>6. CASE T # {}
    <3> PICK x \in T : TRUE
      BY <2>6
    <3> DEFINE B == A \cup T
    <3>1. B \in SUBSET S /\ T \in SUBSET S /\ T \ {x} \in SUBSET S /\ x \in B /\ B \ {x} = A \cup (T \ {x})
      BY <2>2
    <3> HIDE DEF B
    <3>2. SumFunction(Part(f, B)) = f[x] + SumFunction(Part(f, B \ {x}))
      <4>1. SumFunction(Part(f, B)) = Part(f, B)[x] + SumFunction(Part(Part(f, B), B \ {x}))
        BY <2>4, <3>1, SumTake
      <4> QED
        BY <2>4, <3>1, <4>1
    <3>3. SumFunction(Part(f, T)) = f[x] + SumFunction(Part(f, T \ {x}))
      <4>1. SumFunction(Part(f, T)) = Part(f, T)[x] + SumFunction(Part(Part(f, T), T \ {x}))
        BY <2>4, <3>1, SumTake
      <4> QED
        BY <2>4, <3>1, <4>1
    <3>4. SumFunction(Part(f, B \ {x})) = SumFunction(Part(f, A)) + SumFunction(Part(f, T \ {x}))
      BY <2>3, <3>1
    <3> DEFINE u == SumFunction(Part(f, A))
               v == SumFunction(Part(f, T \ {x}))
    <3>5. u \in Int /\ v \in Int /\ f[x] \in Int
      BY <2>4, <3>1
    <3> HIDE DEF u, v
    <3>6. SumFunction(Part(f, B)) = u + (f[x] + v)
      BY <3>2, <3>4, <3>5 DEF u, v
    <3> QED
      BY <2>2, <3>3, <3>6 DEF u, v, B
  <2> QED
    BY <2>5, <2>6
<1>2. S \ A \in SUBSET (S \ A) /\ A \cup (S \ A) = S /\ Part(f, S) = f
  BY DEF Part
<1>3. Splits(S \ A)
  BY <1>1, <1>2
<1> QED
  BY <1>2, <1>3

ByClass(f, S, c, P) == [p \in P |-> SumFunction(Part(f, {x \in S : c[x] = p}))]

\* A sum may be taken class by class.
LEMMA SumByClass ==
  ASSUME NEW S, IsFiniteSet(S), NEW f \in [S -> Int], NEW P, IsFiniteSet(P), NEW c \in [S -> P]
  PROVE  SumFunction(f) = SumFunction(ByClass(f, S, c, P))
<1> DEFINE class(p) == {x \in S : c[x] = p}
           of(Q) == {x \in S : c[x] \in Q}
           g == [p \in P |-> SumFunction(Part(f, class(p)))]
           F == {Q \in SUBSET P : SumFunction(Part(f, of(Q))) # SumFunction(Part(g, Q))}
<1>1. \A Q : of(Q) \subseteq S /\ IsFiniteSet(of(Q)) /\ Part(f, of(Q)) \in [of(Q) -> Int]
  BY FS_Subset DEF Part
<1>2. g \in [P -> Int]
  <2>1. \A p : IsFiniteSet(class(p)) /\ Part(f, class(p)) \in [class(p) -> Int]
    BY FS_Subset DEF Part
  <2> HIDE DEF class
  <2> QED
    BY <2>1, SumType
<1>3. ASSUME F # {} PROVE FALSE
  <2>1. PICK Q \in F : \A q \in Q : Q \ {q} \notin F
    <3>1. F \subseteq SUBSET P
      OBVIOUS
    <3> HIDE DEF F
    <3> QED
      BY <1>3, <3>1, LeastSubset
  <2>2. Q # {}
    <3>1. DOMAIN Part(f, of({})) = {} /\ DOMAIN Part(g, {}) = {}
      BY DEF Part
    <3> QED
      BY <2>1, <3>1, SumEmpty
  <2>3. PICK q \in Q : TRUE
    BY <2>2
  <2>4. Q \subseteq P /\ IsFiniteSet(Q) /\ Part(g, Q) \in [Q -> Int] /\ Part(g, Q)[q] = SumFunction(Part(f, class(q)))
    BY <1>2, <2>1, FS_Subset DEF Part
  <2>5. SumFunction(Part(g, Q)) = SumFunction(Part(f, class(q))) + SumFunction(Part(g, Q \ {q}))
    <3>1. Part(Part(g, Q), Q \ {q}) = Part(g, Q \ {q})
      BY DEF Part
    <3> HIDE DEF g, class
    <3> QED
      BY <2>4, <3>1, SumTake
  <2>6. SumFunction(Part(f, of(Q))) = SumFunction(Part(f, class(q))) + SumFunction(Part(f, of(Q \ {q})))
    <3>1. class(q) \subseteq of(Q) /\ of(Q) \ class(q) = of(Q \ {q})
      OBVIOUS
    <3>2. /\ Part(Part(f, of(Q)), class(q)) = Part(f, class(q))
          /\ Part(Part(f, of(Q)), of(Q \ {q})) = Part(f, of(Q \ {q}))
      BY <3>1 DEF Part
    <3> DEFINE h == Part(f, of(Q))
               T == of(Q)
               A == class(q)
    <3>3. IsFiniteSet(T) /\ h \in [T -> Int] /\ A \subseteq T
      BY <1>1, <3>1
    <3> HIDE DEF of, class, h, T, A
    <3>4. SumFunction(h) = SumFunction(Part(h, A)) + SumFunction(Part(h, T \ A))
      BY <3>3, SumSplit
    <3> QED
      BY <3>1, <3>2, <3>4 DEF h, T, A
  <2>7. SumFunction(Part(f, of(Q \ {q}))) = SumFunction(Part(g, Q \ {q}))
    BY <2>1, <2>4
  <2> QED
    BY <2>1, <2>5, <2>6, <2>7
<1>4. P \notin F /\ of(P) = S /\ Part(f, S) = f /\ Part(g, P) = g
  BY <1>3 DEF Part
<1>5. g = ByClass(f, S, c, P)
  BY DEF ByClass
<1> QED
  BY <1>4, <1>5

\* A sum does not depend on the names of what is summed.
LEMMA SumRenamed ==
  ASSUME NEW S, IsFiniteSet(S), NEW f \in [S -> Int], NEW P, NEW b \in Bijection(P, S)
  PROVE  SumFunction([p \in P |-> f[b[p]]]) = SumFunction(f)
<1> DEFINE Q(T) == {p \in P : b[p] \in T}
           Back(T) == [p \in Q(T) |-> f[b[p]]]
           F == {T \in SUBSET S : SumFunction(Back(T)) # SumFunction(Part(f, T))}
<1>0. /\ \A p \in P : b[p] \in S
      /\ \A p, q \in P : b[p] = b[q] => p = q
      /\ \A x \in S : \E p \in P : b[p] = x
  BY DEF Bijection, Injection, Surjection, IsInjective
<1>1. ASSUME F # {} PROVE FALSE
  <2>1. PICK T \in F : \A x \in T : T \ {x} \notin F
    <3>1. F \subseteq SUBSET S /\ F # {}
      BY <1>1
    <3> HIDE DEF F
    <3> QED
      BY <3>1, LeastSubset
  <2>2. T \in SUBSET S /\ SumFunction(Back(T)) # SumFunction(Part(f, T))
    OBVIOUS
  <2>3. \A x \in T : SumFunction(Back(T \ {x})) = SumFunction(Part(f, T \ {x}))
    BY <2>1
  <2> HIDE DEF F
  <2>4. CASE T = {}
    <3>1. SumFunction(Part(f, T)) = 0
      BY <2>4, SumEmpty DEF Part
    <3>2. SumFunction(Back(T)) = 0
      <4>1. DOMAIN Back(T) = {}
        BY <2>4
      <4> HIDE DEF Back
      <4> QED
        BY <4>1, SumEmpty
    <3> QED
      BY <2>2, <3>1, <3>2
  <2>5. CASE T # {}
    <3> PICK x \in T : TRUE
      BY <2>5
    <3>1. PICK p \in P : b[p] = x
      BY <1>0, <2>2
    <3>2. p \in Q(T) /\ Q(T) \ {p} = Q(T \ {x})
      BY <1>0, <3>1
    <3>3. IsFiniteSet(T) /\ IsFiniteSet(Q(T)) /\ Part(f, T) \in [T -> Int] /\ Back(T) \in [Q(T) -> Int]
      <4>1. IsFiniteSet(T)
        BY <2>2, FS_Subset
      <4> DEFINE c == [q \in Q(T) |-> b[q]]
      <4>2. c \in Injection(Q(T), T)
        BY <1>0 DEF Injection, IsInjective
      <4> HIDE DEF c
      <4>3. IsFiniteSet(Q(T))
        BY <4>1, <4>2, FS_Injection
      <4> QED
        BY <1>0, <2>2, <4>1, <4>3 DEF Part
    <3>4. /\ Part(f, T)[x] = f[x] /\ Part(Part(f, T), T \ {x}) = Part(f, T \ {x})
          /\ Back(T)[p] = f[x] /\ Part(Back(T), Q(T) \ {p}) = Back(T \ {x})
      <4>1. Part(f, T)[x] = f[x] /\ Part(Part(f, T), T \ {x}) = Part(f, T \ {x}) /\ Back(T)[p] = f[x]
        BY <3>1, <3>2 DEF Part
      <4>2. Part(Back(T), Q(T) \ {p}) = [q \in Q(T \ {x}) |-> Back(T)[q]]
        BY <3>2 DEF Part
      <4>3. \A q \in Q(T \ {x}) : Back(T)[q] = f[b[q]]
        BY <3>2
      <4> QED
        BY <4>1, <4>2, <4>3
    <3> HIDE DEF Back, Q
    <3>5. SumFunction(Part(f, T)) = Part(f, T)[x] + SumFunction(Part(Part(f, T), T \ {x}))
      BY <3>3, SumTake
    <3>6. SumFunction(Back(T)) = Back(T)[p] + SumFunction(Part(Back(T), Q(T) \ {p}))
      BY <3>2, <3>3, SumTake
    <3> QED
      BY <2>2, <2>3, <3>4, <3>5, <3>6
  <2> QED
    BY <2>4, <2>5
<1>2. S \in SUBSET S /\ Q(S) = P /\ Part(f, S) = f
  BY <1>0 DEF Part
<1>3. SumFunction(Back(S)) = SumFunction(Part(f, S))
  BY <1>1, <1>2
<1>4. Back(S) = [p \in P |-> f[b[p]]]
  BY <1>2
<1> QED
  BY <1>2, <1>3, <1>4
-----------------------------------------------------------------------------
(* The comparison of two windows.                                          *)

LEMMA SumPositive ==
  ASSUME NEW S, IsFiniteSet(S), S # {}, NEW f \in [S -> Nat \ {0}]
  PROVE  SumFunction(f) \in Nat \ {0}
<1> PICK x \in S : TRUE
  OBVIOUS
<1>1. f \in [S -> Int]
  OBVIOUS
<1>2. SumFunction(f) = f[x] + SumFunction(Part(f, S \ {x}))
  BY <1>1, SumTake
<1>3. IsFiniteSet(S \ {x}) /\ Part(f, S \ {x}) \in [S \ {x} -> Nat]
  BY FS_Subset DEF Part
<1>4. SumFunction(Part(f, S \ {x})) \in Nat
  BY <1>3, SumType
<1> QED
  BY <1>2, <1>4

\* Every entry of a window has lines, those of the clusters that share it.
LEMMA CollapseFacts ==
  ASSUME NEW c \in Contents
  PROVE  /\ DOMAIN collapse_clusters(c) = {Entry(f) : f \in listed(c)}
         /\ \A e \in DOMAIN collapse_clusters(c) : collapse_clusters(c)[e] \in Nat \ {0}
<1>1. c \in [ViewFps -> Nat] /\ IsFiniteSet(ViewFps)
  BY ViewConstants
<1>2. listed(c) \subseteq {fp \in ViewFps : c[fp] > 0}
  BY DEF listed
<1>3. DOMAIN collapse_clusters(c) = {Entry(f) : f \in listed(c)}
  BY DEF collapse_clusters
<1>4. ASSUME NEW e \in {Entry(f) : f \in listed(c)} PROVE Lines(c, listed(c), e) \in Nat \ {0}
  <2> DEFINE S == {g \in listed(c) : Entry(g) = e}
             f == [g \in S |-> c[g]]
  <2>1. S # {} /\ S \subseteq ViewFps
    BY <1>2
  <2>2. f \in [S -> Nat \ {0}]
    BY <1>1, <1>2
  <2>3. Lines(c, listed(c), e) = SumFunction(f)
    BY DEF Lines
  <2> HIDE DEF S, f
  <2>4. IsFiniteSet(S)
    BY <1>1, <2>1, FS_Subset
  <2> QED
    BY <2>1, <2>2, <2>3, <2>4, SumPositive
<1> QED
  BY <1>3, <1>4 DEF collapse_clusters

LEMMA DirectionMirrors ==
  ASSUME NEW a \in Nat \ {0}, NEW b \in Nat \ {0}
  PROVE  /\ direction(a, b) \in {"increased", "decreased", "stable"}
         /\ direction(b, a) = Mirror[direction(a, b)]
<1>1. Max({a, 1}) = a /\ Max({b, 1}) = b
  BY DEF Max
<1> QED
  BY <1>1 DEF direction, Mirror

LEMMA Mirrored ==
  ASSUME NEW a \in Contents, NEW b \in Contents
  PROVE  compare_windows(b, a) = [e \in DOMAIN compare_windows(a, b) |-> Mirror[compare_windows(a, b)[e]]]
<1> DEFINE ca == collapse_clusters(a)
           cb == collapse_clusters(b)
           D == DOMAIN ca \cup DOMAIN cb
           diff(x, y, e) == IF e \notin DOMAIN x THEN "disappeared"
                            ELSE IF e \notin DOMAIN y THEN "new" ELSE direction(x[e], y[e])
<1>1. /\ compare_windows(a, b) = [e \in DOMAIN ca \cup DOMAIN cb |-> diff(ca, cb, e)]
      /\ compare_windows(b, a) = [e \in DOMAIN cb \cup DOMAIN ca |-> diff(cb, ca, e)]
  BY DEF compare_windows
<1>2. /\ \A e \in DOMAIN ca : ca[e] \in Nat \ {0}
      /\ \A e \in DOMAIN cb : cb[e] \in Nat \ {0}
  BY CollapseFacts
<1> HIDE DEF ca, cb
<1>3. ASSUME NEW e \in D PROVE diff(cb, ca, e) = Mirror[diff(ca, cb, e)]
  <2>1. CASE e \in DOMAIN ca /\ e \in DOMAIN cb
    <3>1. direction(cb[e], ca[e]) = Mirror[direction(ca[e], cb[e])]
      BY <1>2, <2>1, DirectionMirrors
    <3> QED
      BY <2>1, <3>1
  <2>2. CASE e \notin DOMAIN ca \/ e \notin DOMAIN cb
    BY <2>2 DEF Mirror
  <2> QED
    BY <2>1, <2>2
<1>4. DOMAIN cb \cup DOMAIN ca = D
  OBVIOUS
<1> HIDE DEF diff, D
<1>5. compare_windows(a, b) = [e \in D |-> diff(ca, cb, e)] /\ compare_windows(b, a) = [e \in D |-> diff(cb, ca, e)]
  BY <1>1, <1>4 DEF D
<1> QED
  BY <1>3, <1>5

\* A list that was not cut has every cluster of the window.
LEMMA NothingCut ==
  ASSUME NEW c \in Contents, Uncapped(c)
  PROVE  listed(c) = {fp \in ViewFps : c[fp] > 0}
<1> DEFINE there == {fp \in ViewFps : c[fp] > 0}
           bigger(f, g) == c[f] > c[g] \/ (c[f] = c[g] /\ f < g)
<1>1. /\ IsFiniteSet(there) /\ Cardinality(there) \in Nat /\ Cardinality(there) <= ClusterCap
      /\ ClusterCap \in Nat
  <2>1. there \subseteq ViewFps /\ IsFiniteSet(ViewFps) /\ ClusterCap \in Nat
    BY ViewConstants
  <2>2. Cardinality(there) <= ClusterCap
    BY DEF Uncapped
  <2> HIDE DEF there
  <2> QED
    BY <2>1, <2>2, FS_Subset, FS_CardinalityType
<1>2. ASSUME NEW fp \in there PROVE Cardinality({g \in there : bigger(g, fp)}) < ClusterCap
  <2> DEFINE B == {g \in there : bigger(g, fp)}
  <2>1. fp \in Nat /\ c[fp] \in Nat
    BY ViewConstants
  <2>2. B \subseteq there /\ B # there
    BY <2>1
  <2> HIDE DEF B, there
  <2>3. Cardinality(B) \in Nat /\ Cardinality(B) <= Cardinality(there) /\ Cardinality(B) # Cardinality(there)
    BY <1>1, <2>2, FS_Subset, FS_CardinalityType
  <2>4. Cardinality(B) < ClusterCap
    BY <1>1, <2>3
  <2> QED
    BY <2>4 DEF B
<1>3. {fp \in there : Cardinality({g \in there : bigger(g, fp)}) < ClusterCap} = there
  BY <1>2
<1> QED
  BY <1>3 DEF listed

LEMMA Accounted ==
  ASSUME NEW a \in Contents, NEW b \in Contents,
         viewAsk.op = "compare", viewAsk.a = a, viewAsk.b = b, page.diff = compare_windows(a, b)
  PROVE  CompareAccountsForAll
<1> DEFINE ca == collapse_clusters(a)
           cb == collapse_clusters(b)
           diff == compare_windows(a, b)
<1>1. DOMAIN ca = {Entry(f) : f \in listed(a)} /\ DOMAIN cb = {Entry(f) : f \in listed(b)}
  BY CollapseFacts
<1>2. /\ DOMAIN diff = DOMAIN ca \cup DOMAIN cb
      /\ \A e \in DOMAIN diff : diff[e] = IF e \notin DOMAIN ca THEN "disappeared"
                                         ELSE IF e \notin DOMAIN cb THEN "new" ELSE direction(ca[e], cb[e])
  BY DEF compare_windows
<1>3. \A e \in DOMAIN ca \cap DOMAIN cb : direction(ca[e], cb[e]) \notin {"new", "disappeared"}
  BY DEF direction
<1> HIDE DEF ca, cb, diff
<1>4. \A e \in DOMAIN diff : /\ diff[e] = "disappeared" <=> e \notin DOMAIN ca
                             /\ diff[e] = "new" <=> e \notin DOMAIN cb
  BY <1>2, <1>3
<1>5. \A fp \in listed(a) \cup listed(b) : Entry(fp) \in DOMAIN diff
  BY <1>1, <1>2
<1>6. ASSUME Uncapped(a), Uncapped(b), NEW e \in DOMAIN diff
      PROVE  /\ diff[e] = "new" <=> {fp \in ViewFps : b[fp] > 0 /\ Entry(fp) = e} = {}
             /\ diff[e] = "disappeared" <=> {fp \in ViewFps : a[fp] > 0 /\ Entry(fp) = e} = {}
  <2>1. /\ listed(a) = {fp \in ViewFps : a[fp] > 0}
        /\ listed(b) = {fp \in ViewFps : b[fp] > 0}
    BY <1>6, NothingCut
  <2> QED
    BY <1>1, <1>4, <1>6, <2>1
<1> QED
  BY <1>5, <1>6 DEF CompareAccountsForAll, diff
-----------------------------------------------------------------------------
(* The timeline.                                                           *)

\* A finite set in a strict order: each member is at the number of those before.
StrictOrder(D, R) ==
  /\ \A i \in D : <<i, i>> \notin R
  /\ \A i, j, k \in D : <<i, j>> \in R /\ <<j, k>> \in R => <<i, k>> \in R
  /\ \A i, j \in D : i # j => <<i, j>> \in R \/ <<j, i>> \in R

LEMMA Numbering ==
  ASSUME NEW D, IsFiniteSet(D), NEW R, StrictOrder(D, R),
         NEW place, place = [i \in D |-> Cardinality({j \in D : <<j, i>> \in R})]
  PROVE  /\ place \in Bijection(D, 0 .. Cardinality(D) - 1) /\ Cardinality(D) \in Nat
         /\ \A i, j \in D : <<i, j>> \in R => place[i] < place[j]
<1> DEFINE earlier(i) == {j \in D : <<j, i>> \in R}
<1>0. Cardinality(D) \in Nat
  BY FS_CardinalityType
<1>1. ASSUME NEW i \in D
      PROVE  /\ place[i] = Cardinality(earlier(i)) /\ IsFiniteSet(earlier(i)) /\ place[i] \in Nat
             /\ place[i] \in 0 .. Cardinality(D) - 1
  <2>1. place[i] = Cardinality(earlier(i)) /\ earlier(i) \subseteq D /\ earlier(i) # D
    BY DEF StrictOrder
  <2> HIDE DEF earlier
  <2>2. /\ IsFiniteSet(earlier(i)) /\ Cardinality(earlier(i)) <= Cardinality(D)
        /\ Cardinality(earlier(i)) # Cardinality(D) /\ Cardinality(earlier(i)) \in Nat
    BY <2>1, FS_Subset, FS_CardinalityType
  <2> QED
    BY <1>0, <2>1, <2>2
<1>2. ASSUME NEW i \in D, NEW j \in D, <<i, j>> \in R PROVE place[i] < place[j]
  <2>1. earlier(i) \subseteq earlier(j) /\ i \in earlier(j) /\ i \notin earlier(i)
    BY <1>2 DEF StrictOrder
  <2> HIDE DEF earlier
  <2>2. Cardinality(earlier(i)) <= Cardinality(earlier(j)) /\ Cardinality(earlier(i)) # Cardinality(earlier(j))
    BY <1>1, <2>1, FS_Subset
  <2> QED
    BY <1>1, <2>2
<1>3. \A i, j \in D : place[i] = place[j] => i = j
  <2> SUFFICES ASSUME NEW i \in D, NEW j \in D, place[i] = place[j], i # j PROVE FALSE
    OBVIOUS
  <2>1. <<i, j>> \in R \/ <<j, i>> \in R
    BY DEF StrictOrder
  <2>2. place[i] \in Nat /\ place[j] \in Nat
    BY <1>1
  <2> QED
    BY <1>2, <2>1, <2>2
<1>4. place \in Injection(D, 0 .. Cardinality(D) - 1)
  BY <1>1, <1>3 DEF Injection, IsInjective
<1>5. IsFiniteSet(0 .. Cardinality(D) - 1) /\ Cardinality(0 .. Cardinality(D) - 1) = Cardinality(D)
  BY <1>0, FS_Interval
<1>6. place \in Surjection(D, 0 .. Cardinality(D) - 1)
  BY <1>4, <1>5, FS_Injection
<1> QED
  BY <1>0, <1>2, <1>4, <1>6 DEF Bijection

ShownEvent ==
  [at : Nat, category : {"error", "effect", "symptom"}, class : {"retry", "queue", "fail", "slow", "other"},
   count : Nat]

Dated(p) == p.primary.first # Untimed

LEMMA Clamped ==
  ASSUME NEW p \in Packets, NEW at \in Nat
  PROVE  clamped(at, p.primary) \in Nat /\ (Dated(p) => clamped(at, p.primary) >= p.primary.first)
<1>1. p.primary.first \in Nat \/ p.primary.first = Untimed
  BY ViewConstants DEF ClusterRows, Times
<1>2. ASSUME NEW a \in Nat, NEW b \in Nat PROVE Max({a, b}) \in Nat /\ Max({a, b}) >= b
  BY DEF Max
<1> QED
  BY <1>1, <1>2 DEF clamped, Dated

\* What the secondary clusters become before they are sorted.
LEMMA PostEvents ==
  ASSUME NEW p \in Packets
  PROVE  /\ IsFiniteSet(timed(p)) /\ timed(p) \subseteq 1 .. Len(p.secondary) /\ Len(p.secondary) \in Nat
         /\ \A i \in timed(p) : p.secondary[i] \in ClusterRows /\ p.secondary[i].first \in Nat
         /\ IsFiniteSet(DOMAIN post_events(p)) /\ DOMAIN post_events(p) \subseteq Nat
         /\ \A i \in DOMAIN post_events(p) : post_events(p)[i] \in ShownEvent
         /\ Dated(p) => \A i \in DOMAIN post_events(p) : post_events(p)[i].at >= p.primary.first
<1> DEFINE S == p.secondary
           n == Len(S)
           T == timed(p)
           Q == retry_clusters(p)
           D == (T \ Q) \cup (IF Q = {} THEN {} ELSE {n + 1})
           shown(c) == Event(clamped(c.first, p.primary), classify_secondary(c, p.primary), c.class, c.count)
<1>1. S \in Seq(ClusterRows) /\ n \in Nat /\ DOMAIN S = 1 .. n /\ \A i \in 1 .. n : S[i] \in ClusterRows
  BY ViewConstants, LenProperties, ElementOfSeq
<1>2. T \subseteq 1 .. n /\ Q \subseteq T /\ \A i \in T : S[i] \in ClusterRows /\ S[i].first \in Nat
  BY <1>1 DEF timed, retry_clusters, ClusterRows, Times
<1>3. IsFiniteSet(T) /\ IsFiniteSet(Q) /\ IsFiniteSet(D) /\ D \subseteq Nat
  <2>1. IsFiniteSet(1 .. n + 1) /\ T \subseteq 1 .. n + 1 /\ Q \subseteq 1 .. n + 1 /\ D \subseteq 1 .. n + 1
    <3>1. n + 1 \in 1 .. n + 1 /\ 1 .. n \subseteq 1 .. n + 1 /\ n + 1 \in Int
      BY <1>1
    <3>2. IsFiniteSet(1 .. n + 1)
      BY <3>1, FS_Interval
    <3>3. T \subseteq 1 .. n + 1 /\ Q \subseteq 1 .. n + 1
      BY <1>2, <3>1
    <3> QED
      BY <3>1, <3>2, <3>3
  <2>2. D \subseteq Nat
    BY <1>1, <2>1
  <2> HIDE DEF D, T, Q, n
  <2> QED
    BY <2>1, <2>2, FS_Subset
<1>4. /\ DOMAIN post_events(p) = D
      /\ \A i \in D : post_events(p)[i] = IF i = n + 1 THEN retry_event(p) ELSE shown(S[i])
  BY DEF post_events
<1>5. ASSUME NEW c \in ClusterRows, c.first \in Nat
      PROVE  shown(c) \in ShownEvent /\ (Dated(p) => shown(c).at >= p.primary.first)
  <2>1. clamped(c.first, p.primary) \in Nat /\ (Dated(p) => clamped(c.first, p.primary) >= p.primary.first)
    BY <1>5, Clamped
  <2>2. classify_secondary(c, p.primary) \in {"error", "effect", "symptom"}
    BY DEF classify_secondary
  <2> QED
    BY <2>1, <2>2 DEF Event, ShownEvent, ClusterRows
<1>6. ASSUME Q # {}
      PROVE  retry_event(p) \in ShownEvent /\ (Dated(p) => retry_event(p).at >= p.primary.first)
  <2> DEFINE F == {S[i].first : i \in Q}
             counts == [i \in Q |-> S[i].count]
             at == clamped(Min(F), p.primary)
  <2>1. F \subseteq Nat /\ F # {}
    BY <1>2, <1>6
  <2>2. Min(F) \in Nat
    <3> HIDE DEF F
    <3>1. \E x \in F : \A y \in F : x <= y
      BY <2>1, LeastOf
    <3>2. Min(F) = CHOOSE x \in F : \A y \in F : x <= y
      BY DEF Min
    <3> QED
      BY <2>1, <3>1, <3>2
  <2>3. at \in Nat /\ (Dated(p) => at >= p.primary.first)
    BY <2>2, Clamped
  <2>4. SumFunction(counts) \in Nat
    <3>1. counts \in [Q -> Nat]
      BY <1>2 DEF ClusterRows
    <3> HIDE DEF counts, Q
    <3> QED
      BY <1>3, <3>1, SumType
  <2>5. retry_event(p) = Event(at, "effect", "retry", SumFunction(counts))
    BY DEF retry_event
  <2> HIDE DEF at, counts
  <2> QED
    BY <2>3, <2>4, <2>5 DEF Event, ShownEvent
<1>7. ASSUME NEW i \in D
      PROVE  post_events(p)[i] \in ShownEvent /\ (Dated(p) => post_events(p)[i].at >= p.primary.first)
  <2>1. CASE i = n + 1
    <3>1. Q # {}
      BY <1>1, <1>2, <2>1
    <3> QED
      BY <1>4, <1>6, <2>1, <3>1
  <2>2. CASE i # n + 1
    <3>1. i \in T
      BY <2>2
    <3>2. S[i] \in ClusterRows /\ S[i].first \in Nat
      BY <1>2, <3>1
    <3> HIDE DEF shown
    <3> QED
      BY <1>4, <1>5, <2>2, <3>2
  <2> QED
    BY <2>1, <2>2
<1> QED
  BY <1>1, <1>2, <1>3, <1>4, <1>7

\* A key sorts before another by its first place that differs.
LEMMA SoonerIs ==
  ASSUME NEW a, NEW b
  PROVE  Sooner(a, b) <=>
           \/ a[1] < b[1]
           \/ a[1] = b[1] /\ a[2] < b[2]
           \/ a[1] = b[1] /\ a[2] = b[2] /\ a[3] < b[3]
           \/ a[1] = b[1] /\ a[2] = b[2] /\ a[3] = b[3] /\ a[4] < b[4]
<1> DEFINE At(n) == a[n] < b[n] /\ \A m \in 1 .. n - 1 : a[m] = b[m]
<1>1. /\ 1 .. 1 - 1 = {} /\ 1 .. 2 - 1 = {1} /\ 1 .. 3 - 1 = {1, 2} /\ 1 .. 4 - 1 = {1, 2, 3}
      /\ 1 .. 4 = {1, 2, 3, 4}
  OBVIOUS
<1>2. /\ At(1) <=> a[1] < b[1]
      /\ At(2) <=> a[1] = b[1] /\ a[2] < b[2]
      /\ At(3) <=> a[1] = b[1] /\ a[2] = b[2] /\ a[3] < b[3]
      /\ At(4) <=> a[1] = b[1] /\ a[2] = b[2] /\ a[3] = b[3] /\ a[4] < b[4]
  BY <1>1
<1>3. Sooner(a, b) <=> \E n \in 1 .. 4 : At(n)
  BY DEF Sooner
<1> HIDE DEF At
<1>4. Sooner(a, b) <=> At(1) \/ At(2) \/ At(3) \/ At(4)
  BY <1>1, <1>3
<1> QED
  BY <1>2, <1>4

\* Events in the order of their keys: a place each, and severity never falls.
LEMMA InOrderIs ==
  ASSUME NEW E, IsFiniteSet(DOMAIN E), DOMAIN E \subseteq Nat, \A i \in DOMAIN E : E[i] \in ShownEvent
  PROVE  LET n == Cardinality(DOMAIN E)
             o == InOrder(E)
         IN /\ n \in Nat /\ o \in Bijection(1 .. n, DOMAIN E)
            /\ \A k, m \in 1 .. n : k < m => Rank(E[o[k]].category) <= Rank(E[o[m]].category)
<1> DEFINE D == DOMAIN E
           n == Cardinality(D)
           o == InOrder(E)
           R == {ij \in D \X D : Sooner(sort_key(E, ij[1]), sort_key(E, ij[2]))}
           place == [i \in D |-> Cardinality({j \in D : <<j, i>> \in R})]
           r(i) == Rank(E[i].category)
           d(i) == DescRank(E[i].class)
           t(i) == E[i].at
<1>1. \A i \in D : r(i) \in Int /\ d(i) \in Int /\ t(i) \in Int /\ i \in Int
  BY DEF ShownEvent, Rank, DescRank
<1>2. \A i \in D : sort_key(E, i) = <<r(i), d(i), t(i), i>>
  BY DEF sort_key
<1> HIDE DEF D, r, d, t
<1>4. \A i, j \in D : <<i, j>> \in R <=> Sooner(sort_key(E, i), sort_key(E, j))
  OBVIOUS
<1>3. \A i, j \in D : <<i, j>> \in R <=>
         \/ r(i) < r(j)
         \/ r(i) = r(j) /\ d(i) < d(j)
         \/ r(i) = r(j) /\ d(i) = d(j) /\ t(i) < t(j)
         \/ r(i) = r(j) /\ d(i) = d(j) /\ t(i) = t(j) /\ i < j
  <2> SUFFICES ASSUME NEW i \in D, NEW j \in D
               PROVE  <<i, j>> \in R <=>
                        \/ r(i) < r(j)
                        \/ r(i) = r(j) /\ d(i) < d(j)
                        \/ r(i) = r(j) /\ d(i) = d(j) /\ t(i) < t(j)
                        \/ r(i) = r(j) /\ d(i) = d(j) /\ t(i) = t(j) /\ i < j
    OBVIOUS
  <2> DEFINE a == sort_key(E, i)
             b == sort_key(E, j)
  <2>1. /\ a[1] = r(i) /\ a[2] = d(i) /\ a[3] = t(i) /\ a[4] = i
        /\ b[1] = r(j) /\ b[2] = d(j) /\ b[3] = t(j) /\ b[4] = j
    BY <1>2
  <2>2. <<i, j>> \in R <=> Sooner(a, b)
    BY <1>4
  <2> HIDE DEF R, a, b
  <2> QED
    BY <2>1, <2>2, SoonerIs
<1> HIDE DEF R
<1>5. StrictOrder(D, R)
  BY <1>1, <1>3 DEF StrictOrder
<1>6. IsFiniteSet(D)
  BY DEF D
<1>7. /\ place \in Bijection(D, 0 .. n - 1) /\ n \in Nat
      /\ \A i, j \in D : <<i, j>> \in R => place[i] < place[j]
  BY <1>5, <1>6, Numbering
<1>8. \A i \in D : place[i] = Cardinality({j \in D : Sooner(sort_key(E, j), sort_key(E, i))})
  <2> SUFFICES ASSUME NEW i \in D
               PROVE  place[i] = Cardinality({j \in D : Sooner(sort_key(E, j), sort_key(E, i))})
    OBVIOUS
  <2>1. {j \in D : <<j, i>> \in R} = {j \in D : Sooner(sort_key(E, j), sort_key(E, i))}
    BY <1>4
  <2> QED
    BY <2>1
<1>9. o = [k \in 1 .. n |-> CHOOSE i \in D : Cardinality({j \in D : Sooner(sort_key(E, j), sort_key(E, i))}) = k - 1]
  BY DEF InOrder, D
<1> HIDE DEF place, n, o
<1>10. /\ \A i \in D : place[i] \in 0 .. n - 1
       /\ \A i, j \in D : place[i] = place[j] => i = j
       /\ \A k \in 0 .. n - 1 : \E i \in D : place[i] = k
  BY <1>7 DEF Bijection, Injection, Surjection, IsInjective
<1>11. ASSUME NEW k \in 1 .. n PROVE o[k] \in D /\ place[o[k]] = k - 1
  <2>1. k - 1 \in 0 .. n - 1
    BY <1>7
  <2>2. PICK i \in D : place[i] = k - 1
    BY <1>10, <2>1
  <2>3. Cardinality({j \in D : Sooner(sort_key(E, j), sort_key(E, i))}) = k - 1
    BY <1>8, <2>2, Zenon
  <2>4. \E x \in D : Cardinality({j \in D : Sooner(sort_key(E, j), sort_key(E, x))}) = k - 1
    BY <2>3, Zenon
  <2>5. o[k] = CHOOSE x \in D : Cardinality({j \in D : Sooner(sort_key(E, j), sort_key(E, x))}) = k - 1
    BY <1>9
  <2>6. o[k] \in D /\ Cardinality({j \in D : Sooner(sort_key(E, j), sort_key(E, o[k]))}) = k - 1
    BY <2>4, <2>5, Zenon
  <2> QED
    BY <1>8, <2>6, Zenon
<1>12. \A i \in D : place[i] + 1 \in 1 .. n /\ o[place[i] + 1] = i
  <2> SUFFICES ASSUME NEW i \in D PROVE place[i] + 1 \in 1 .. n /\ o[place[i] + 1] = i
    OBVIOUS
  <2>1. place[i] + 1 \in 1 .. n /\ place[i] + 1 - 1 = place[i]
    BY <1>7, <1>10
  <2> QED
    BY <1>10, <1>11, <2>1
<1>13. o \in Bijection(1 .. n, D)
  <2>1. DOMAIN o = 1 .. n
    BY <1>9
  <2>2. o \in [1 .. n -> D]
    BY <1>9, <1>11, <2>1
  <2>3. \A k, m \in 1 .. n : o[k] = o[m] => k = m
    <3> SUFFICES ASSUME NEW k \in 1 .. n, NEW m \in 1 .. n, o[k] = o[m] PROVE k = m
      OBVIOUS
    <3>1. k - 1 = m - 1
      BY <1>11
    <3> QED
      BY <1>7, <3>1
  <2> QED
    BY <1>12, <2>2, <2>3 DEF Bijection, Injection, Surjection, IsInjective
<1>14. ASSUME NEW k \in 1 .. n, NEW m \in 1 .. n, k < m PROVE r(o[k]) <= r(o[m])
  <2>1. /\ o[k] \in D /\ o[m] \in D /\ place[o[k]] = k - 1 /\ place[o[m]] = m - 1
    BY <1>11
  <2>2. <<o[m], o[k]>> \notin R
    <3>1. ~(m - 1 < k - 1)
      BY <1>7, <1>14
    <3> QED
      BY <1>7, <2>1, <3>1
  <2>3. r(o[k]) \in Int /\ r(o[m]) \in Int
    BY <1>1, <2>1
  <2> QED
    BY <1>3, <2>1, <2>2, <2>3
<1> QED
  BY <1>7, <1>13, <1>14 DEF D, n, o, r

LEMMA SumOne ==
  ASSUME NEW x, NEW f \in [{x} -> Int] PROVE SumFunction(f) = f[x]
<1>1. IsFiniteSet({x})
  BY FS_Singleton
<1>2. SumFunction(f) = f[x] + SumFunction(Part(f, {x} \ {x}))
  BY <1>1, SumTake
<1>3. DOMAIN Part(f, {x} \ {x}) = {}
  BY DEF Part
<1>4. SumFunction(Part(f, {x} \ {x})) = 0
  BY <1>3, SumEmpty
<1>5. f[x] \in Int
  OBVIOUS
<1> QED
  BY <1>2, <1>4, <1>5

\* The collapsing of retries neither loses lines nor counts them twice.
LEMMA CountsConserved ==
  ASSUME NEW p \in Packets
  PROVE  SumFunction([i \in DOMAIN post_events(p) |-> post_events(p)[i].count])
           = SumFunction([i \in timed(p) |-> p.secondary[i].count])
<1> DEFINE T == timed(p)
           Q == retry_clusters(p)
           E == post_events(p)
           D == DOMAIN E
           last == Len(p.secondary) + 1
           f == [i \in D |-> E[i].count]
           g == [i \in T |-> p.secondary[i].count]
<1>1. /\ IsFiniteSet(T) /\ T \subseteq 1 .. Len(p.secondary) /\ Len(p.secondary) \in Nat
      /\ \A i \in T : p.secondary[i].count \in Nat
      /\ IsFiniteSet(D) /\ \A i \in D : E[i].count \in Nat
  BY PostEvents DEF ClusterRows, ShownEvent
<1>2. Q \subseteq T /\ last \notin T
  BY <1>1 DEF retry_clusters
<1>3. /\ D = (T \ Q) \cup (IF Q = {} THEN {} ELSE {last})
      /\ \A i \in T \ Q : E[i].count = p.secondary[i].count
      /\ Q # {} => E[last] = retry_event(p)
  BY <1>1, <1>2 DEF post_events, Event
<1>4. f \in [D -> Int] /\ g \in [T -> Int]
  BY <1>1
<1>5. retry_event(p).count = SumFunction(Part(g, Q))
  <2>1. Part(g, Q) = [i \in Q |-> p.secondary[i].count]
    BY <1>2 DEF Part
  <2> QED
    BY <2>1 DEF retry_event, Event
<1>6. Part(f, T \ Q) = Part(g, T \ Q)
  <2>1. T \ Q \subseteq D
    BY <1>3
  <2>2. \A i \in T \ Q : f[i] = g[i]
    BY <1>3, <2>1
  <2> QED
    BY <2>2 DEF Part
<1>7. Q # {} => last \in D /\ f[last] = SumFunction(Part(g, Q))
  BY <1>3, <1>5
<1> HIDE DEF f, g, D, E, T, Q
<1>8. SumFunction(f) = SumFunction(Part(f, T \ Q)) + SumFunction(Part(f, D \ (T \ Q)))
  <2>1. T \ Q \subseteq D
    BY <1>3
  <2> QED
    BY <1>1, <1>4, <2>1, SumSplit
<1>9. SumFunction(g) = SumFunction(Part(g, T \ Q)) + SumFunction(Part(g, Q))
  <2>1. T \ (T \ Q) = Q
    BY <1>2
  <2> DEFINE A == T \ Q
  <2>2. A \subseteq T
    OBVIOUS
  <2> HIDE DEF A
  <2>3. SumFunction(g) = SumFunction(Part(g, A)) + SumFunction(Part(g, T \ A))
    BY <1>1, <1>4, <2>2, SumSplit
  <2> QED
    BY <2>1, <2>3 DEF A
<1>10. SumFunction(Part(f, D \ (T \ Q))) = SumFunction(Part(g, Q))
  <2>1. CASE Q = {}
    <3>1. DOMAIN Part(f, D \ (T \ Q)) = {} /\ DOMAIN Part(g, Q) = {}
      BY <1>3, <2>1 DEF Part
    <3> QED
      BY <3>1, SumEmpty
  <2>2. CASE Q # {}
    <3>1. D \ (T \ Q) = {last}
      BY <1>2, <1>3, <2>2
    <3>2. Part(f, {last}) \in [{last} -> Int] /\ Part(f, {last})[last] = f[last]
      BY <1>4, <1>7, <2>2 DEF Part
    <3>3. SumFunction(Part(f, {last})) = f[last]
      BY <3>2, SumOne
    <3> QED
      BY <1>7, <2>2, <3>1, <3>3
  <2> QED
    BY <2>1, <2>2
<1>11. SumFunction(f) = SumFunction(g)
  BY <1>6, <1>8, <1>9, <1>10
<1> QED
  BY <1>11 DEF f, g, D, E, T

LEMMA SeqOfLength ==
  ASSUME NEW S, NEW n \in Nat, NEW f \in [1 .. n -> S]
  PROVE  f \in Seq(S) /\ Len(f) = n /\ DOMAIN f = 1 .. n
<1>1. f \in Seq(S)
  BY SeqDef
<1>2. DOMAIN f = 1 .. n /\ DOMAIN f = 1 .. Len(f) /\ Len(f) \in Nat
  BY <1>1, LenProperties
<1>3. Len(f) = n
  BY <1>2
<1> QED
  BY <1>1, <1>2, <1>3

\* What follows the triggers: the primary error, if it has a time, and the sorted
\* events.
LEMMA TimelineIs ==
  ASSUME NEW p \in Packets
  PROVE  LET ev == build_timeline(p)
             t == Len(p.triggers)
             h == IF Dated(p) THEN 1 ELSE 0
             E == post_events(p)
             n == Cardinality(DOMAIN E)
             o == InOrder(E)
         IN /\ DOMAIN ev = 1 .. t + h + n /\ t \in Nat
            /\ Dated(p) => ev[t + 1] = Event(p.primary.first, "error", p.primary.class, p.primary.count)
            /\ \A k \in 1 .. n : ev[t + h + k] = E[o[k]]
<1> DEFINE t == Len(p.triggers)
           h == IF Dated(p) THEN 1 ELSE 0
           E == post_events(p)
           n == Cardinality(DOMAIN E)
           o == InOrder(E)
           first == Event(p.primary.first, "error", p.primary.class, p.primary.count)
           s2 == IF p.primary.first = Untimed THEN <<>> ELSE <<first>>
           s3 == [k \in DOMAIN o |-> E[o[k]]]
<1>1. t \in Nat /\ DOMAIN p.triggers = 1 .. t
  BY ViewConstants, LenProperties
<1>2. PICK s1 : s1 = [i \in 1 .. t |-> s1[i]] /\ build_timeline(p) = s1 \o s2 \o s3
  <2> DEFINE order == SetToSortSeq(DOMAIN p.triggers,
                 LAMBDA i, j : p.triggers[i] < p.triggers[j] \/ (p.triggers[i] = p.triggers[j] /\ i < j))
             s1 == [k \in DOMAIN p.triggers |-> Event(p.triggers[order[k]], "trigger", "other", 0)]
  <2>1. build_timeline(p) = s1 \o s2 \o s3
    BY DEF build_timeline, effects
  <2> HIDE DEF order
  <2>2. s1 = [i \in 1 .. t |-> s1[i]]
    BY <1>1
  <2> HIDE DEF s1
  <2> QED
    BY <2>1, <2>2
<1>3. n \in Nat /\ o \in Bijection(1 .. n, DOMAIN E)
  BY PostEvents, InOrderIs
<1>4. DOMAIN o = 1 .. n
  <2> HIDE DEF n, o, E
  <2> QED
    BY <1>3 DEF Bijection, Injection
<1> DEFINE U == {s1[i] : i \in 1 .. t} \cup {first} \cup {E[o[k]] : k \in 1 .. n}
<1>5. s1 \in [1 .. t -> U] /\ s3 \in [1 .. n -> U] /\ \A k \in 1 .. n : s3[k] = E[o[k]]
  BY <1>2, <1>4
<1>6. s2 \in Seq(U) /\ Len(s2) = h /\ h \in Nat /\ (Dated(p) => s2[1] = first)
  <2>1. first \in U
    OBVIOUS
  <2> HIDE DEF U, first
  <2> QED
    BY <2>1 DEF Dated
<1>7. (h = 1 <=> Dated(p)) /\ (h = 0 \/ h = 1)
  OBVIOUS
<1> HIDE DEF t, h, E, n, o, first, s2, s3, U
<1>8. s1 \in Seq(U) /\ Len(s1) = t /\ s3 \in Seq(U) /\ Len(s3) = n
  BY <1>1, <1>3, <1>5, SeqOfLength
<1>9. /\ s1 \o s2 \in Seq(U) /\ Len(s1 \o s2) = t + h
      /\ \A i \in 1 .. t + h : (s1 \o s2)[i] = IF i <= t THEN s1[i] ELSE s2[i - t]
  <2>1. /\ s1 \o s2 \in Seq(U) /\ Len(s1 \o s2) = Len(s1) + Len(s2)
        /\ \A i \in 1 .. Len(s1) + Len(s2) : (s1 \o s2)[i] = IF i <= Len(s1) THEN s1[i] ELSE s2[i - Len(s1)]
    BY <1>6, <1>8, ConcatProperties
  <2> QED
    BY <1>6, <1>8, <2>1
<1> DEFINE s12 == s1 \o s2
           ev == s12 \o s3
<1>10. /\ ev \in Seq(U) /\ Len(ev) = t + h + n
       /\ \A i \in 1 .. t + h + n : ev[i] = IF i <= t + h THEN s12[i] ELSE s3[i - (t + h)]
  <2> HIDE DEF s12
  <2>1. s12 \in Seq(U) /\ Len(s12) = t + h
    BY <1>9 DEF s12
  <2>2. /\ ev \in Seq(U) /\ Len(ev) = Len(s12) + Len(s3)
        /\ \A i \in 1 .. Len(s12) + Len(s3) : ev[i] = IF i <= Len(s12) THEN s12[i] ELSE s3[i - Len(s12)]
    BY <1>8, <2>1, ConcatProperties
  <2> HIDE DEF ev
  <2> QED
    BY <1>8, <2>1, <2>2
<1> HIDE DEF ev
<1>11. DOMAIN ev = 1 .. t + h + n
  BY <1>10, LenProperties
<1>12. Dated(p) => ev[t + 1] = first
  <2> SUFFICES ASSUME Dated(p) PROVE ev[t + 1] = first
    OBVIOUS
  <2>1. h = 1 /\ t + 1 \in 1 .. t + h /\ t + 1 \in 1 .. t + h + n /\ t + 1 <= t + h /\ ~(t + 1 <= t) /\ t + 1 - t = 1
    BY <1>1, <1>3, <1>7
  <2>2. ev[t + 1] = s12[t + 1]
    BY <1>10, <2>1
  <2>3. s12[t + 1] = s2[1]
    <3> DEFINE i == t + 1
    <3>1. i = t + 1
      OBVIOUS
    <3> HIDE DEF i
    <3>2. i \in 1 .. t + h /\ ~(i <= t) /\ i - t = 1
      BY <1>1, <2>1, <3>1
    <3> QED
      BY <1>9, <3>1, <3>2
  <2> QED
    BY <1>6, <2>2, <2>3
<1>13. ASSUME NEW k \in 1 .. n PROVE ev[t + h + k] = E[o[k]]
  <2>1. t + h + k \in 1 .. t + h + n /\ ~(t + h + k <= t + h) /\ t + h + k - (t + h) = k
    BY <1>1, <1>3, <1>6
  <2>2. ev[t + h + k] = s3[k]
    <3> DEFINE i == t + h + k
    <3>1. i = t + h + k
      OBVIOUS
    <3> HIDE DEF i
    <3>2. i \in 1 .. t + h + n /\ ~(i <= t + h) /\ i - (t + h) = k
      BY <1>1, <1>3, <1>6, <3>1
    <3> QED
      BY <1>10, <3>1, <3>2
  <2> QED
    BY <1>5, <2>2
<1>14. build_timeline(p) = ev
  BY <1>2 DEF ev
<1> QED
  BY <1>1, <1>11, <1>12, <1>13, <1>14 DEF t, h, E, n, o, first

LEMMA StoryTold ==
  ASSUME NEW p \in Packets, viewAsk.op = "timeline", viewAsk.packet = p,
         page.events = build_timeline(p)
  PROVE  TimelineTellsAll
<1> DEFINE ev == build_timeline(p)
           t == Len(p.triggers)
           h == IF Dated(p) THEN 1 ELSE 0
           E == post_events(p)
           D == DOMAIN E
           n == Cardinality(D)
           o == InOrder(E)
           after == {i \in DOMAIN ev : i > t}
           f == [i \in D |-> E[i].count]
           g == [i \in after |-> ev[i].count]
           late == {i \in after : i > t + h}
           e1 == ev[t + 1]
<1>1. /\ DOMAIN ev = 1 .. t + h + n /\ t \in Nat /\ h \in Nat
      /\ Dated(p) => e1 = Event(p.primary.first, "error", p.primary.class, p.primary.count)
      /\ \A k \in 1 .. n : ev[t + h + k] = E[o[k]]
  BY TimelineIs
<1>2. /\ IsFiniteSet(D) /\ \A i \in D : E[i] \in ShownEvent
      /\ Dated(p) => \A i \in D : E[i].at >= p.primary.first
  BY PostEvents
<1>3. /\ n \in Nat /\ o \in Bijection(1 .. n, D)
      /\ \A k, m \in 1 .. n : k < m => Rank(E[o[k]].category) <= Rank(E[o[m]].category)
  BY PostEvents, InOrderIs
<1>4. \A k \in 1 .. n : o[k] \in D
  BY <1>3 DEF Bijection, Injection
<1>5. p.primary.count \in Nat /\ (Dated(p) => p.primary.first \in Nat)
  BY ViewConstants DEF ClusterRows, Times, Dated
<1>6. (Dated(p) <=> h = 1) /\ (h = 0 \/ h = 1)
  OBVIOUS
<1>7. /\ Dated(p) => e1.at = p.primary.first /\ e1.count = p.primary.count /\ Rank(e1.category) = 0
      /\ \A i \in D : E[i].count \in Nat /\ Rank(E[i].category) \in 0 .. 2
  <2>1. \A c \in {"error", "effect", "symptom"} : Rank(c) \in 0 .. 2
    BY DEF Rank
  <2>2. Rank("error") = 0
    BY DEF Rank
  <2> HIDE DEF e1, E, D, f, g, o, ev, n, after, late, t, h
  <2>3. Dated(p) => e1.at = p.primary.first /\ e1.count = p.primary.count /\ e1.category = "error"
    BY <1>1 DEF Event
  <2>4. \A i \in D : E[i].count \in Nat /\ E[i].category \in {"error", "effect", "symptom"}
    BY <1>2 DEF ShownEvent
  <2> QED
    BY <2>1, <2>2, <2>3, <2>4
<1> HIDE DEF ev, t, h, D, n, o, f, g, e1, E
<1>8. after = t + 1 .. t + h + n /\ late = t + h + 1 .. t + h + n
  BY <1>1, <1>3
<1>9. ASSUME NEW i \in after
      PROVE  \/ Dated(p) /\ i = t + 1 /\ ev[i] = e1 /\ i \notin late
             \/ i \in late /\ i - t - h \in 1 .. n /\ ev[i] = E[o[i - t - h]]
  <2>1. CASE i \in late
    <3> DEFINE k == i - t - h
    <3>1. k \in 1 .. n /\ t + h + k = i
      BY <1>1, <1>3, <1>8, <2>1
    <3> HIDE DEF k
    <3>2. ev[t + h + k] = E[o[k]]
      BY <1>1, <3>1
    <3> QED
      BY <2>1, <3>1, <3>2 DEF k
  <2>2. CASE i \notin late
    <3>1. i \in t + 1 .. t + h + n /\ ~(i \in t + h + 1 .. t + h + n)
      BY <1>8, <2>2
    <3>2. i <= t + h /\ i >= t + 1
      BY <1>1, <1>3, <3>1
    <3>3. h = 1 /\ i = t + 1
      BY <1>1, <1>6, <3>1, <3>2
    <3>4. ev[i] = e1
      BY <3>3 DEF e1
    <3> QED
      BY <1>6, <2>2, <3>3, <3>4
  <2> QED
    BY <2>1, <2>2
<1> HIDE DEF after, late
<1>10. Dated(p) => \A i \in after : ev[i].at >= p.primary.first
  BY <1>2, <1>4, <1>5, <1>7, <1>9
<1>11. ASSUME NEW i \in after, NEW j \in after, i < j
       PROVE  Rank(ev[i].category) <= Rank(ev[j].category)
  <2>1. j \in late
    BY <1>1, <1>3, <1>6, <1>8, <1>9, <1>11
  <2> DEFINE m == j - t - h
  <2>2. m \in 1 .. n /\ ev[j] = E[o[m]] /\ Rank(E[o[m]].category) \in 0 .. 2
    BY <1>4, <1>7, <1>9, <2>1
  <2>3. CASE i \in late
    <3> DEFINE k == i - t - h
    <3>1. k \in 1 .. n /\ ev[i] = E[o[k]]
      BY <1>9, <2>3
    <3>2. k < m
      BY <1>1, <1>3, <1>8, <1>11, <2>1, <2>3
    <3> HIDE DEF k, m
    <3> QED
      BY <1>3, <2>2, <3>1, <3>2
  <2>4. CASE i \notin late
    <3>1. Rank(ev[i].category) = 0
      BY <1>7, <1>9, <2>4
    <3> HIDE DEF m
    <3> QED
      BY <2>2, <3>1
  <2> QED
    BY <2>3, <2>4
\* The counts: of the primary error, and of the events in whatever order.
<1>12. IsFiniteSet(after) /\ g \in [after -> Int] /\ late \subseteq after
  <2>1. IsFiniteSet(after)
    BY <1>1, <1>3, <1>8, FS_Interval
  <2>2. late \subseteq after
    BY DEF late
  <2>3. \A i \in after : ev[i].count \in Nat
    BY <1>4, <1>5, <1>7, <1>9
  <2> QED
    BY <2>1, <2>2, <2>3 DEF g
<1>13. SumFunction(g) = SumFunction(Part(g, late)) + SumFunction(Part(g, after \ late))
  BY <1>12, SumSplit
<1>14. SumFunction(Part(g, after \ late)) = IF Dated(p) THEN p.primary.count ELSE 0
  <2>1. CASE Dated(p)
    <3>1. t + 1 \in after /\ t + 1 \notin late
      BY <1>1, <1>3, <1>6, <1>8, <2>1
    <3>2. after \ late = {t + 1}
      BY <1>9, <3>1
    <3>3. g[t + 1] = p.primary.count
      BY <1>7, <2>1, <3>1 DEF g, e1
    <3> DEFINE x == t + 1
    <3>4. Part(g, {x}) \in [{x} -> Int] /\ Part(g, {x})[x] = p.primary.count
      BY <1>12, <3>1, <3>3 DEF Part
    <3> HIDE DEF x
    <3>5. SumFunction(Part(g, {x})) = p.primary.count
      BY <3>4, SumOne
    <3> QED
      BY <2>1, <3>2, <3>5 DEF x
  <2>2. CASE ~Dated(p)
    <3>1. after \ late = {}
      BY <1>9, <2>2
    <3>2. DOMAIN Part(g, after \ late) = {}
      BY <3>1 DEF Part
    <3> QED
      BY <2>2, <3>2, SumEmpty
  <2> QED
    BY <2>1, <2>2
<1>15. SumFunction(Part(g, late)) = SumFunction(f)
  <2> DEFINE b == [i \in late |-> o[i - t - h]]
  <2>1. /\ \A k \in 1 .. n : o[k] \in D
        /\ \A k, m \in 1 .. n : o[k] = o[m] => k = m
        /\ \A d \in D : \E k \in 1 .. n : o[k] = d
    BY <1>3 DEF Bijection, Injection, Surjection, IsInjective
  <2>2. /\ \A i \in late : i \in Int /\ i - t - h \in 1 .. n
        /\ \A k \in 1 .. n : t + h + k \in late /\ t + h + k - t - h = k
    BY <1>1, <1>3, <1>8
  <2>3. b \in [late -> D]
    BY <2>1, <2>2
  <2>4. ASSUME NEW i \in late, NEW j \in late, b[i] = b[j] PROVE i = j
    <3>1. i - t - h = j - t - h
      BY <2>1, <2>2, <2>4
    <3> QED
      BY <1>1, <2>2, <3>1
  <2>5. ASSUME NEW d \in D PROVE \E i \in late : b[i] = d
    <3>1. PICK k \in 1 .. n : o[k] = d
      BY <2>1
    <3> DEFINE i == t + h + k
    <3>a. i = t + h + k /\ i \in late
      BY <2>2
    <3> HIDE DEF i
    <3>2. i \in late /\ i - t - h = k
      BY <1>1, <3>a
    <3>3. b[i] = o[k]
      BY <3>2
    <3> QED
      BY <3>1, <3>2, <3>3
  <2>6. b \in Bijection(late, D)
    BY <2>3, <2>4, <2>5 DEF Bijection, Injection, Surjection, IsInjective
  <2>7. f \in [D -> Int]
    BY <1>7 DEF f
  <2>8. Part(g, late) = [i \in late |-> f[b[i]]]
    <3>1. ASSUME NEW i \in late PROVE g[i] = f[b[i]]
      <4>1. i \in after /\ ev[i] = E[o[i - t - h]] /\ b[i] = o[i - t - h] /\ b[i] \in D
        BY <1>9, <1>12, <2>3
      <4> HIDE DEF b
      <4> QED
        BY <4>1 DEF f, g
    <3> HIDE DEF b
    <3> QED
      BY <3>1 DEF Part
  <2> HIDE DEF b
  <2> QED
    BY <1>2, <2>6, <2>7, <2>8, SumRenamed
<1>16. SumFunction(f) = SumFunction([i \in timed(p) |-> p.secondary[i].count])
  BY CountsConserved DEF f, D, E
<1>17. SumFunction(f) \in Int
  <2>1. f \in [D -> Int]
    BY <1>7 DEF f
  <2> QED
    BY <1>2, <2>1, SumType
<1>18. SumFunction(g) = SumFunction([i \in timed(p) |-> p.secondary[i].count])
                        + (IF p.primary.first = Untimed THEN 0 ELSE p.primary.count)
  BY <1>13, <1>14, <1>15, <1>16 DEF Dated
<1>19. after = {i \in DOMAIN page.events : i > Len(viewAsk.packet.triggers)} /\ g = [i \in after |-> page.events[i].count]
  BY DEF after, g, ev, t
<1> QED
  BY <1>10, <1>11, <1>18, <1>19 DEF TimelineTellsAll, Dated, ev, t
-----------------------------------------------------------------------------
(* The page is the answer to the request.                                  *)

Requests ==
  [op : {"compare"}, a : Contents, b : Contents, ta : TriggerSets, tb : TriggerSets]
  \cup [op : {"timeline"}, packet : Packets]

ViewInv ==
  /\ viewAsk \in Requests
  /\ page # <<>> => IF viewAsk.op = "compare" THEN page.diff = compare_windows(viewAsk.a, viewAsk.b)
                    ELSE page.events = build_timeline(viewAsk.packet)

LEMMA ViewStart == ViewInit => ViewInv
  BY DEF ViewInit, ViewInv, Requests

LEMMA ViewStep == ViewInv /\ [ViewNext]_viewVars => ViewInv'
<1> SUFFICES ASSUME ViewInv, [ViewNext]_viewVars PROVE ViewInv'
  OBVIOUS
<1>1. CASE Compare
  <2>1. page'.diff = compare_windows(viewAsk.a, viewAsk.b)
    BY <1>1 DEF Compare
  <2>2. viewAsk.op = "compare" /\ viewAsk' = viewAsk
    BY <1>1 DEF Compare
  <2> QED
    BY <2>1, <2>2 DEF ViewInv, compare_windows
<1>2. CASE Timeline
  <2>1. page'.events = build_timeline(viewAsk.packet)
    BY <1>2 DEF Timeline
  <2>2. viewAsk.op = "timeline" /\ viewAsk' = viewAsk
    BY <1>2 DEF Timeline
  <2> QED
    BY <2>1, <2>2 DEF ViewInv
<1>3. CASE UNCHANGED viewVars
  BY <1>3 DEF ViewInv, viewVars
<1> QED
  BY <1>1, <1>2, <1>3 DEF ViewNext

LEMMA ViewMeans == ViewInv => ViewsTellAll
<1> SUFFICES ASSUME ViewInv PROVE ViewsTellAll
  OBVIOUS
<1>1. CASE page = <<>>
  BY <1>1 DEF ViewsTellAll, CompareMirrors, CompareAccountsForAll, TimelineTellsAll
<1>2. CASE page # <<>> /\ viewAsk.op = "compare"
  <2>1. viewAsk.a \in Contents /\ viewAsk.b \in Contents
    BY <1>2 DEF ViewInv, Requests
  <2>2. page.diff = compare_windows(viewAsk.a, viewAsk.b)
    BY <1>2 DEF ViewInv
  <2>3. CompareMirrors
    BY <2>1, <2>2, Mirrored DEF CompareMirrors
  <2>4. CompareAccountsForAll
    BY <1>2, <2>1, <2>2, Accounted
  <2>5. TimelineTellsAll
    BY <1>2 DEF TimelineTellsAll
  <2> QED
    BY <2>3, <2>4, <2>5 DEF ViewsTellAll
<1>3. CASE page # <<>> /\ viewAsk.op # "compare"
  <2>1. viewAsk.op = "timeline" /\ viewAsk.packet \in Packets
    BY <1>3 DEF ViewInv, Requests
  <2>2. page.events = build_timeline(viewAsk.packet)
    BY <1>3 DEF ViewInv
  <2>3. TimelineTellsAll
    BY <2>1, <2>2, StoryTold
  <2> QED
    BY <1>3, <2>3 DEF ViewsTellAll, CompareMirrors, CompareAccountsForAll
<1> QED
  BY <1>1, <1>2, <1>3

\* Whatever the windows and the packet: comparing B with A says the opposite of
\* comparing A with B and accounts for every fingerprint (core/compare/differ.py),
\* and the timeline of a packet shows every timed cluster's lines once, after the
\* primary error and by severity (core/timeline/builder.py).
THEOREM ViewsRight == ViewSpec => []ViewsTellAll
<1>1. ViewSpec => []ViewInv
  BY ViewStart, ViewStep, PTL DEF ViewSpec
<1> QED
  BY <1>1, ViewMeans, PTL
=============================================================================

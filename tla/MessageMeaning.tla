--------------------------- MODULE MessageMeaning ---------------------------
(***************************************************************************)
(* What the octets of a DNS message mean, by the format of the protocol    *)
(* and without regard to how the program reads them: names are sequences   *)
(* of labels, and a pointer may stand for the rest of a name anywhere.     *)
(***************************************************************************)
EXTENDS Integers, Sequences

Octet(d, p) == IF p < Len(d) THEN d[p + 1] ELSE 0
Short(d, p) == Octet(d, p) * 256 + Octet(d, p + 1)
Long(d, p) == Short(d, p) * 65536 + Short(d, p + 2)

(* The labels of the name at p, and where it ends.  A pointer leads back.  *)
(* What has more steps than the message has octets goes round for ever.    *)
Name(labels, end) == [labels |-> labels, end |-> end]
Prefixed(label, rest) == Name(<<label>> \o rest.labels, rest.end)
Target(d, p) == Short(d, p) - 49152

NameStep(d, from, p) ==
    CASE Octet(d, p) = 0 -> Name(<<>>, p + 1)
      [] Octet(d, p) >= 192 ->
            Name(IF Target(d, p) < p THEN from[Target(d, p)].labels ELSE <<>>, p + 2)
      [] OTHER ->
            Prefixed([k \in 1 .. Octet(d, p) |-> Octet(d, p + k)], from[p + Octet(d, p) + 1])

NameAt(d, p) ==
    LET from[steps \in 0 .. Len(d) + 2] ==
            IF steps = 0 THEN [q \in Nat |-> Name(<<>>, q)]
                         ELSE [q \in Nat |-> NameStep(d, from[steps - 1], q)]
    IN  from[Len(d) + 2][p]

QuestionOf(d, name) ==
    [says |-> <<name.labels, Short(d, name.end), Short(d, name.end + 2)>>,
     end |-> name.end + 4]

(* The rdata of these types has names, behind two octets in an MX, and     *)
(* octets after them (RFC 1035, 3.3).                                      *)
OneName == {2, 3, 4, 5, 7, 8, 9, 12, 15}    \* NS MD MF CNAME MB MG MR PTR MX
TwoNames == {6, 14}                         \* SOA MINFO
InFront(type) == IF type = 15 THEN 2 ELSE 0

Between(d, from, to) == [k \in 1 .. to - from |-> Octet(d, from + k - 1)]

RdataAt(d, type, p, n) ==
    LET start == p + InFront(type)
        first == NameAt(d, start)
        second == NameAt(d, first.end)
        named == CASE type \in OneName -> Name(<<first.labels>>, first.end)
                   [] type \in TwoNames -> Name(<<first.labels, second.labels>>, second.end)
                   [] OTHER -> Name(<<>>, start)
    IN  [front |-> Between(d, p, start), names |-> named.labels,
         rest |-> Between(d, named.end, p + n)]

(* What a record says, wherever it stands: name, type, class, ttl, rdata.  *)
RecordOf(d, name, n) ==
    [says |-> <<name.labels, Short(d, name.end), Short(d, name.end + 2),
                Long(d, name.end + 4),
                RdataAt(d, Short(d, name.end), name.end + 10, n)>>,
     end |-> name.end + 10 + n]
RecordAfter(d, name) == RecordOf(d, name, Short(d, name.end + 8))

(* The records are read one after the other.                               *)
With(read, r) == [records |-> Append(read.records, r.says), end |-> r.end]
Announced(d) == Short(d, 6) + Short(d, 8) + Short(d, 10)

Body(d, end) ==
    LET upTo[k \in 0 .. Announced(d)] ==
            IF k = 0 THEN [records |-> <<>>, end |-> end]
                     ELSE With(upTo[k - 1], RecordAfter(d, NameAt(d, upTo[k - 1].end)))
    IN  upTo[Announced(d)]

(* A message with one question.  It is whole if it ends where its last     *)
(* record does.                                                            *)
Message(d, question, body) ==
    [id |-> Short(d, 0), flags |-> Short(d, 2),
     counts |-> [k \in 1 .. 4 |-> Short(d, 2 * k + 2)],
     question |-> question, records |-> body.records, whole |-> body.end = Len(d)]

Asking(d, question) == Message(d, question.says, Body(d, question.end))

Meaning(d) == Asking(d, QuestionOf(d, NameAt(d, 12)))
=============================================================================

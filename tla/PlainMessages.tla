---------------------------- MODULE PlainMessages ----------------------------
(***************************************************************************)
(* What the theorems about Messages suppose of the datagrams: how names    *)
(* are written in them.  TLC evaluates it for the datagrams of its runs    *)
(* (MCMessages).                                                           *)
(***************************************************************************)
EXTENDS Messages

(* A name written without a pointer: each of its n labels begins where the *)
(* one in front of it ends, has no octet that is a zero or a dot, and the  *)
(* zero that ends it is at start[n].                                       *)
LabelAt(d, s) ==
    At(d, s) \in 1 .. Pointer - 1 /\ \A j \in 1 .. At(d, s) : At(d, s + j) # 0 /\ At(d, s + j) # Dot

LabelsFrom(d, p, n, start) ==
    /\ n \in Nat /\ start \in [0 .. n -> Nat] /\ start[0] = p /\ At(d, start[n]) = 0
    /\ \A i \in 0 .. n - 1 :
          LabelAt(d, start[i]) /\ start[i + 1] = start[i] + At(d, start[i]) + 1

NextLabel(d, s) == s + At(d, s) + 1
Starts(d, p, n) ==
    LET start[i \in 0 .. n] == IF i = 0 THEN p ELSE NextLabel(d, start[i - 1])
    IN  start

PlainName(d, p) == \E n \in 0 .. Len(d) : LabelsFrom(d, p, n, Starts(d, p, n))

(* The names in the rdata x of a record are plain too, and within it.      *)
NameWithin(x, p) == PlainName(x, p) /\ parse_qname(x, p).end <= Len(x)

PlainRdata(type, x) ==
    LET p == Format!InFront(type)
    IN  /\ type \in Format!OneName \union Format!TwoNames => NameWithin(x, p)
        /\ type \in Format!TwoNames => NameWithin(x, parse_qname(x, p).end)

(* Where the name of the record at p is written, and where the record ends.*)
NamePlace(d, p) == IF At(d, p) = Pointer THEN At(d, p + 1) ELSE p
RecordEnd(d, p) == parse_resource_record(d, p).end

QuestionEnd(d) == parse_question(d, HeaderLength).end

(* The names of a response are plain, and its records begin at at[1],      *)
(* at[2], ...                                                              *)
PlainResponse(d, at) ==
    /\ PlainName(d, HeaderLength)
    /\ at[1] = QuestionEnd(d)
    /\ \A k \in 1 .. RecordCount(d) :
          PlainName(d, NamePlace(d, at[k])) /\ at[k + 1] = RecordEnd(d, at[k])

(* A pointer in front of a record leads back, and its rdata has none.      *)
PointsBack(d, p) == At(d, p) = Pointer => At(d, p + 1) < p

PlainRecord(d, p) ==
    LET r == parse_resource_record(d, p)
    IN  PointsBack(d, p) /\ PlainRdata(r.type, r.rdata)

PlacesIn(d) ==
    LET at[k \in 1 .. RecordCount(d) + 1] ==
            IF k = 1 THEN QuestionEnd(d) ELSE RecordEnd(d, at[k - 1])
    IN  at

(* The queries write the name asked for without a pointer.                 *)
PlainQueries ==
    \A d \in Datagram :
        parse_header(d).qr = 0 /\ parse_header(d).qdcount = 1 => PlainName(d, HeaderLength)

(* The responses write their names so, or as a pointer back to such a name *)
(* in the place of a whole name of a record; there is no pointer in rdata. *)
PlainResponses ==
    \A d \in Datagram :
        parse_header(d).qr = 1 =>
            /\ PlainResponse(d, PlacesIn(d))
            /\ \A k \in 1 .. RecordCount(d) : PlainRecord(d, PlacesIn(d)[k])
=============================================================================

-------------------------------- MODULE Codec --------------------------------
(***************************************************************************)
(* protocol.c: messages are read from and written to the octets of a       *)
(* datagram.  A datagram is a sequence of octets, a place in it an offset  *)
(* from 0.  The buffer a datagram is received into is filled with zeros    *)
(* and larger than what is read here, so that an octet behind the end is   *)
(* zero.  Names are read into strings: each label, then a dot; a string    *)
(* ends at its first zero.  What is written is taken to fit its buffer.    *)
(***************************************************************************)
EXTENDS Integers, Sequences, SequencesExt

Octet == 0 .. 255
Word == 0 .. 65535      \* u16
Dot == 46
Pointer == 192          \* 0xc0
HeaderLength == 12

At(d, p) == IF p < Len(d) THEN d[p + 1] ELSE 0
Octets(d, p, n) == [k \in 1 .. n |-> At(d, p + k - 1)]

(* The most significant octet comes first.                                 *)
ntohs(d, p) == 256 * At(d, p) + At(d, p + 1)
ntohl(d, p) == 65536 * ntohs(d, p) + ntohs(d, p + 2)
htons(v) == <<(v \div 256) % 256, v % 256>>
htonl(v) == htons(v \div 65536) \o htons(v)

(* What is in front of the first o in a sequence, or all of it.            *)
First(s, o) == SelectInSeq(s, LAMBDA x : x = o)
UpTo(s, o) == SubSeq(s, 1, First(Append(s, o), o) - 1)

(* A string as the functions that read it up to its zero see it.           *)
String(s) == UpTo(s, 0)

-----------------------------------------------------------------------------
(* parse_qname: the octet in front of a label is its length, whatever it   *)
(* is.                                                                     *)
ParsedName(text, end) == [text |-> text, end |-> end]
Labelled(label, rest) == ParsedName(label \o <<Dot>> \o rest.text, rest.end)

parse_qname(d, p) ==
    LET from[q \in Nat] ==
            IF At(d, q) = 0
              THEN ParsedName(<<>>, q + 1)
              ELSE Labelled(Octets(d, q + 1, At(d, q)), from[q + At(d, q) + 1])
    IN  ParsedName(String(from[p].text), from[p].end)

(* The text behind the first k octets, up to the next dot.  It is shorter  *)
(* than 256 octets: a label that was read is, and a longer one of the      *)
(* hosts file is never asked for and never written.  (Of a longer one the  *)
(* code would copy Len(label) % 256 octets.)                               *)
Label(text, k) == UpTo(SubSeq(text, k + 1, Len(text)), Dot)
Measured(label) == <<Len(label) % 256>> \o label

(* A fault: the zero behind the last label is missing.                     *)
dump_name_open(text) ==
    LET from[k \in Nat] ==
            IF k >= Len(text)
              THEN <<>>
              ELSE Measured(Label(text, k)) \o from[k + Len(Label(text, k)) + 1]
    IN  from[0]

(* dump_name: the text between two dots becomes a label.                   *)
dump_name(text) ==
    LET from[k \in Nat] ==
            IF k >= Len(text)
              THEN <<0>>
              ELSE Measured(Label(text, k)) \o from[k + Len(Label(text, k)) + 1]
    IN  from[0]

parse_header(d) ==
    [id |-> ntohs(d, 0), qr |-> At(d, 2) \div 128, rcode |-> At(d, 3) % 16,
     qdcount |-> ntohs(d, 4), ancount |-> ntohs(d, 6),
     nscount |-> ntohs(d, 8), arcount |-> ntohs(d, 10)]

(* dump_header with the header of datagram d and another id.               *)
dump_header(d, id) == htons(id) \o Octets(d, 2, HeaderLength - 2)

(* A header made by get_default_header or get_error_header: qr is set, aa  *)
(* for an error only.                                                      *)
own_header(id, aa, rcode, qdcount, ancount, nscount, arcount) ==
    htons(id) \o <<128 + 4 * aa, rcode>> \o htons(qdcount) \o htons(ancount)
        \o htons(nscount) \o htons(arcount)

NAME_ERROR == 3

(* get_error_header: the name error announces a question and a record.     *)
get_error_header(id, rcode) ==
    LET one == IF rcode = NAME_ERROR THEN 1 ELSE 0
    IN  own_header(id, 1, rcode, one, 0, one, 0)

parse_question(d, p) ==
    LET name == parse_qname(d, p)
    IN  [qname |-> name.text, qtype |-> ntohs(d, name.end),
         qclass |-> ntohs(d, name.end + 2), end |-> name.end + 4]

dump_question(q) == dump_name(q.qname) \o htons(q.qtype) \o htons(q.qclass)

(* A fault: the pointer is taken for a label.                              *)
RecordNameInPlace(d, p) == parse_qname(d, p)

(* parse_resource_record: a pointer is followed where the name begins with *)
(* one, to the offset in its second octet.                                 *)
RecordName(d, p) ==
    IF At(d, p) = Pointer
      THEN ParsedName(parse_qname(d, At(d, p + 1)).text, p + 2)
      ELSE parse_qname(d, p)

parse_resource_record(d, p) ==
    LET name == RecordName(d, p)
        e == name.end
    IN  [name |-> name.text, type |-> ntohs(d, e), class |-> ntohs(d, e + 2),
         ttl |-> ntohl(d, e + 4), rdata |-> Octets(d, e + 10, ntohs(d, e + 8)),
         end |-> e + 10 + ntohs(d, e + 8)]

dump_resource_record(r) ==
    dump_name(r.name) \o htons(r.type) \o htons(r.class) \o htonl(r.ttl)
        \o htons(Len(r.rdata)) \o r.rdata

(* dump_error_authority: the SOA record of the root.                       *)
dump_error_authority(soa) ==
    dump_resource_record([name |-> <<>>, type |-> 6, class |-> 1, ttl |-> 10800,
                          rdata |-> soa])
=============================================================================

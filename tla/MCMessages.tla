----------------------------- MODULE MCMessages -----------------------------
(* An instance of Messages: names of one and two letters, 2 octets for the *)
(* 16 of the longest name in the trie and 5 for the 48 that fit an entry's *)
(* key.  The hash is the sum of the octets: "ab." and "ba." collide.       *)
EXTENDS PlainMessages

a == 97
b == 98
SumOfOctets(name) == FoldLeft(LAMBDA v, o : v + o, 0, name)

Header(id, qr, rcode, counts) ==
    htons(id) \o <<128 * qr + 1, rcode>>
        \o FlattenSeq([k \in 1 .. 4 |-> htons(counts[k])])

(* The octets of a name, given by its labels.                              *)
Labels(labels) ==
    FlattenSeq([k \in DOMAIN labels |-> <<Len(labels[k])>> \o labels[k]]) \o <<0>>

To(offset) == <<Pointer, offset>>
Question(name, type) == name \o htons(type) \o htons(1)
Rr(name, type, ttl, rdata) ==
    name \o htons(type) \o htons(1) \o htonl(ttl)
        \o htons(Len(rdata)) \o rdata

NameA == Labels(<< <<a>> >>)
NameB == Labels(<< <<b>> >>)
NameAA == Labels(<< <<a, a>> >>)
NameAB == Labels(<< <<a, b>> >>)
NameBA == Labels(<< <<b, a>> >>)
NameBB == Labels(<< <<b, b>> >>)
NameA_B == Labels(<< <<a>>, <<b>> >>)
NameA_AB == Labels(<< <<a>>, <<a, b>> >>)
NameSpace == Labels(<< <<32>> >>)
NameRoot == Labels(<< >>)

NS == 2
SOA == 6
MX == 15
Soa == NameA \o NameRoot \o [k \in 1 .. 20 |-> k]
AskedName == To(HeaderLength)
Address == <<1, 2, 3, 4>>
Query1(name, type) == Header(7, 0, 0, <<1, 0, 0, 0>>) \o Question(name, type)
AddressOf(name) ==
    Header(5, 1, 0, <<1, 1, 0, 0>>) \o Question(name, A) \o Rr(AskedName, A, 200, Address)

(* An alias in front of an address; a server of the name with its address, *)
(* whose name is a pointer to the record in front; a name error, with      *)
(* where its mail goes.                                                    *)
AliasOfA ==
    Header(5, 1, 0, <<1, 2, 0, 0>>) \o Question(NameA, A)
        \o Rr(AskedName, CNAME, 60, NameB) \o Rr(NameB, A, 60, Address)
ServerOfBA ==
    Header(5, 1, 0, <<1, 1, 1, 1>>) \o Question(NameBA, AAAA)
        \o Rr(AskedName, AAAA, 60, Address) \o Rr(NameA_B, NS, 60, NameBB)
        \o Rr(To(36), AAAA, 0, <<4, 3, 2, 1>>)
NameErrorForB ==
    Header(5, 1, 3, <<1, 0, 1, 1>>) \o Question(NameB, A) \o Rr(NameRoot, SOA, 9, Soa)
        \o Rr(AskedName, MX, 9, <<0, 5>> \o NameAB)

(* A query that brings a record.                                           *)
QueryWithRecord ==
    Header(7, 0, 0, <<1, 0, 0, 1>>) \o Question(NameAA, 16) \o Rr(NameRoot, 41, 0, <<>>)

Datagrams ==
    {AddressOf(name) : name \in {NameB, NameAB, NameBA, NameA_B, NameA_AB, NameSpace}}
    \union {AliasOfA, ServerOfBA, NameErrorForB}
    \union {Query1(name, A) : name \in {NameA, NameB, NameAB, NameBA, NameBB, NameAA,
                                        NameA_B, NameA_AB, NameSpace, NameRoot}}
    \union {Query1(NameA, CNAME), Query1(NameBA, AAAA), Query1(NameBB, AAAA),
            Query1(NameAB, MX), QueryWithRecord,
            Header(7, 0, 0, <<2, 0, 0, 0>>) \o Question(NameA, A)}

(* Apart from the malformed query they are whole messages, and their names *)
(* are written as the theorems suppose.                                    *)
ASSUME DatagramsPlain ==
    /\ \A d \in Datagrams : parse_header(d).qdcount = 1 => Format!Meaning(d).whole
    /\ Datagram = Datagrams => PlainQueries /\ PlainResponses

HostsFile ==
    <<[domain |-> <<b, b>>, address |-> <<0, 0, 0, 0>>],
      [domain |-> <<a, a, Dot>>, address |-> <<9, 9, 9, 9>>]>>
=============================================================================
